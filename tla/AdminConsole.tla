----------------------------- MODULE AdminConsole -----------------------------
(***************************************************************************)
(* The admin console (admin/main.cc): the main thread takes the requests   *)
(* of the admin's browser and leaves a command for a server in             *)
(* msgs_to_send; the worker of that server's connection, woken up through  *)
(* a condition variable, writes it.                                        *)
(*                                                                         *)
(* The slot of a worker is written without a lock and is not emptied when  *)
(* the command has been written, only when the browser disconnects.        *)
(* SIGINT is handled on the main thread, which does nothing meanwhile.     *)
(*                                                                         *)
(* Abstractions.  The pages (GET requests) show status and change nothing. *)
(* All connections to the servers are open.  Two threads that use the map  *)
(* msgs_to_send at the same time do not damage it.                         *)
(***************************************************************************)
EXTENDS Integers, Sequences, SequencesExt

CONSTANTS
  num_workers,  \* one worker per server, front ends last
  Frontends,    \* those of 1 .. num_workers that are front ends
  Leaves,       \* TRUE: the browser may disconnect before its commands are written
  SignalAt,     \* where in the main thread SIGINT may arrive
  MaxPosts      \* bound: commands of the admin

Workers == 1 .. num_workers
MainPlaces == {"accept", "loop", "read", "post", "wake", "unlock", "notify", "close", "join", "exited"}

ASSUME AdminConsoleAssumption ==
  /\ num_workers \in Nat \ {0} /\ MaxPosts \in Nat
  /\ Frontends \subseteq Workers
  /\ Leaves \in BOOLEAN
  /\ SignalAt \subseteq MainPlaces

VARIABLES
  status,          \* status[w]: what the page says of the server
  msgs_to_send,    \* msgs_to_send[w]: the command in the slot, or ""
  worker_wakeup,
  worker_mutex,    \* worker_mutex[w]: who holds it: "main", "worker" or "nobody"
  wpc,             \* wpc[w]: where the worker is in waitingForWork
  mpc,             \* where the main thread is
  request,         \* the request in the buffer of process_request
  shouldTerminate,
  hpc,             \* the worker the SIGINT handler is at; 0: not called; num_workers + 1: done
  posted,          \* posted[w]: the commands the admin has given
  sent             \* sent[w]: the commands written on the connection

mainVars == <<mpc, request>>
slotVars == <<status, msgs_to_send, posted>>
lockVars == <<worker_wakeup, worker_mutex, wpc>>
vars == <<slotVars, lockVars, mainVars, shouldTerminate, hpc, sent>>

NoRequest == [worker |-> 0, msg |-> ""]
Requests ==
  {[worker |-> w, msg |-> m] : w \in Frontends, m \in {"DISABLE"}} \union
  {[worker |-> w, msg |-> m] : w \in Workers \ Frontends, m \in {"disable", "restart"}}

\* worker_wakeup is not initialized.
Init ==
  /\ status = [w \in Workers |-> "Alive"]
  /\ msgs_to_send = [w \in Workers |-> ""]
  /\ worker_wakeup \in [Workers -> BOOLEAN]
  /\ worker_mutex = [w \in Workers |-> "nobody"]
  /\ wpc = [w \in Workers |-> "top"]
  /\ mpc = "accept" /\ request = NoRequest
  /\ shouldTerminate = FALSE
  /\ hpc = 0
  /\ posted = [w \in Workers |-> <<>>]
  /\ sent = [w \in Workers |-> <<>>]

Running == mpc # "exited"
MainRuns == Running /\ hpc \in {0, num_workers + 1}

-----------------------------------------------------------------------------
(* waitingForWork.                                                         *)

Goto(w, a, b) == Running /\ wpc[w] = a /\ wpc' = [wpc EXCEPT ![w] = b]

Top(w) ==
  /\ Goto(w, "top", IF shouldTerminate THEN "done" ELSE "lock")
  /\ UNCHANGED <<slotVars, worker_wakeup, worker_mutex, mainVars, shouldTerminate, hpc, sent>>

Lock(w) ==
  /\ worker_mutex[w] = "nobody"
  /\ Goto(w, "lock", "check")
  /\ worker_mutex' = [worker_mutex EXCEPT ![w] = "worker"]
  /\ UNCHANGED <<slotVars, worker_wakeup, mainVars, shouldTerminate, hpc, sent>>

\* The predicate of the wait; a worker that sleeps has released its mutex.
Check(w) ==
  /\ Goto(w, "check", IF worker_wakeup[w] THEN "awake" ELSE "asleep")
  /\ worker_mutex' = [worker_mutex EXCEPT ![w] = IF worker_wakeup[w] THEN "worker" ELSE "nobody"]
  /\ UNCHANGED <<slotVars, worker_wakeup, mainVars, shouldTerminate, hpc, sent>>

\* "check exists msg to send".
Awake(w) ==
  /\ Goto(w, "awake", IF msgs_to_send[w] # "" THEN "write" ELSE "reset")
  /\ UNCHANGED <<slotVars, worker_wakeup, worker_mutex, mainVars, shouldTerminate, hpc, sent>>

\* The slot is read again.
Write(w) ==
  /\ Goto(w, "write", "reset")
  /\ sent' = [sent EXCEPT ![w] = IF msgs_to_send[w] = "" THEN @ ELSE Append(@, msgs_to_send[w])]
  /\ UNCHANGED <<slotVars, worker_wakeup, worker_mutex, mainVars, shouldTerminate, hpc>>

\* Mutant: the mutex is given back before the worker turns itself off.
ResetUnlocked(w) ==
  \/ /\ Goto(w, "reset", "off")
     /\ worker_mutex' = [worker_mutex EXCEPT ![w] = "nobody"]
     /\ UNCHANGED <<slotVars, worker_wakeup, mainVars, shouldTerminate, hpc, sent>>
  \/ /\ Goto(w, "off", "top")
     /\ worker_wakeup' = [worker_wakeup EXCEPT ![w] = FALSE]
     /\ UNCHANGED <<slotVars, worker_mutex, mainVars, shouldTerminate, hpc, sent>>

\* "turn self off", and the end of the scope of the lock.
Reset(w) ==
  /\ Goto(w, "reset", "top")
  /\ worker_wakeup' = [worker_wakeup EXCEPT ![w] = FALSE]
  /\ worker_mutex' = [worker_mutex EXCEPT ![w] = "nobody"]
  /\ UNCHANGED <<slotVars, mainVars, shouldTerminate, hpc, sent>>

Worker(w) == Top(w) \/ Check(w) \/ Awake(w) \/ Write(w) \/ Reset(w)

-----------------------------------------------------------------------------
(* main and process_request.                                               *)

MainGoto(a, b) == MainRuns /\ mpc = a /\ mpc' = b

Accept ==
  /\ MainGoto("accept", "loop")
  /\ request' = NoRequest
  /\ UNCHANGED <<slotVars, lockVars, shouldTerminate, hpc, sent>>

\* After SIGINT accept fails and the process exits.
AcceptInterrupted ==
  /\ hpc # 0 /\ MainGoto("accept", "exited")
  /\ UNCHANGED <<slotVars, lockVars, request, shouldTerminate, hpc, sent>>

Loop ==
  /\ MainGoto("loop", IF shouldTerminate THEN "close" ELSE "read")
  /\ UNCHANGED <<slotVars, lockVars, request, shouldTerminate, hpc, sent>>

Read(r) ==
  /\ FoldLeft(LAMBDA n, s : n + Len(s), 0, [w \in Workers |-> posted[w]]) < MaxPosts
  /\ MainGoto("read", "post")
  /\ request' = r
  /\ UNCHANGED <<slotVars, lockVars, shouldTerminate, hpc, sent>>

\* After SIGINT read returns -1 and the buffer still holds the request
\* before; without one its bytes are an anomaly, which ends the loop.
ReadInterrupted ==
  /\ hpc # 0 /\ MainGoto("read", IF request = NoRequest THEN "close" ELSE "post")
  /\ UNCHANGED <<slotVars, lockVars, request, shouldTerminate, hpc, sent>>

\* The browser disconnects; unless it Leaves, once its commands are written.
Disconnect ==
  /\ Leaves \/ \A w \in Workers : wpc[w] \in {"asleep", "done"}
  /\ MainGoto("read", "close")
  /\ UNCHANGED <<slotVars, lockVars, request, shouldTerminate, hpc, sent>>

\* disable_frontend, disable_backend, restart_backend, up to the lock.
Post ==
  /\ MainGoto("post", "wake")
  /\ LET w == request.worker IN
       /\ msgs_to_send' = [msgs_to_send EXCEPT ![w] = request.msg]
       /\ status' = [status EXCEPT ![w] = IF request.msg = "restart" THEN "Alive" ELSE "Dead"]
       /\ posted' = [posted EXCEPT ![w] = Append(@, request.msg)]
  /\ UNCHANGED <<lockVars, request, shouldTerminate, hpc, sent>>

Wake ==
  /\ MainGoto("wake", "unlock") /\ worker_mutex[request.worker] = "nobody"
  /\ worker_mutex' = [worker_mutex EXCEPT ![request.worker] = "main"]
  /\ worker_wakeup' = [worker_wakeup EXCEPT ![request.worker] = TRUE]
  /\ UNCHANGED <<slotVars, wpc, request, shouldTerminate, hpc, sent>>

Unlock ==
  /\ MainGoto("unlock", "notify")
  /\ worker_mutex' = [worker_mutex EXCEPT ![request.worker] = "nobody"]
  /\ UNCHANGED <<slotVars, worker_wakeup, wpc, request, shouldTerminate, hpc, sent>>

\* notify_one: a worker that sleeps asks for its mutex.
NotifyOne(w) == wpc' = [wpc EXCEPT ![w] = IF @ = "asleep" THEN "lock" ELSE @]

Notify ==
  /\ MainGoto("notify", "loop")
  /\ NotifyOne(request.worker)
  /\ UNCHANGED <<slotVars, worker_wakeup, worker_mutex, request, shouldTerminate, hpc, sent>>

\* Back in main: every slot is emptied.
Close ==
  /\ MainGoto("close", IF shouldTerminate THEN "join" ELSE "accept")
  /\ msgs_to_send' = [w \in Workers |-> ""]
  /\ UNCHANGED <<status, posted, lockVars, request, shouldTerminate, hpc, sent>>

\* "final clean up".
Join ==
  /\ \A w \in Workers : wpc[w] = "done"
  /\ MainGoto("join", "exited")
  /\ UNCHANGED <<slotVars, lockVars, request, shouldTerminate, hpc, sent>>

-----------------------------------------------------------------------------
(* sig_handler and shutdown_server.                                        *)

Signal ==
  /\ Running /\ hpc = 0 /\ mpc \in SignalAt
  /\ hpc' = 1
  /\ shouldTerminate' = TRUE
  /\ UNCHANGED <<slotVars, lockVars, mainVars, sent>>

\* Mutant: the workers are not woken up.
WakeWorkerNot ==
  /\ Running /\ hpc \in Workers /\ worker_mutex[hpc] = "nobody"
  /\ hpc' = hpc + 1
  /\ UNCHANGED <<slotVars, lockVars, mainVars, shouldTerminate, sent>>

\* The handler waits for the mutex, even for one the main thread itself has.
WakeWorker ==
  /\ Running /\ hpc \in Workers /\ worker_mutex[hpc] = "nobody"
  /\ worker_wakeup' = [worker_wakeup EXCEPT ![hpc] = TRUE]
  /\ NotifyOne(hpc)
  /\ hpc' = hpc + 1
  /\ UNCHANGED <<slotVars, worker_mutex, mainVars, shouldTerminate, sent>>

Main ==
  AcceptInterrupted \/ Loop \/ ReadInterrupted \/ Post \/ Unlock \/ Notify \/ Close \/ Join

Next ==
  \/ \E w \in Workers : Worker(w) \/ Lock(w)
  \/ Main \/ Wake \/ Accept \/ Disconnect \/ \E r \in Requests : Read(r)
  \/ Signal \/ WakeWorker

\* A thread that can go on does so; the browser and the signal owe nothing.
Fairness ==
  /\ \A w \in Workers : WF_vars(Worker(w)) /\ SF_vars(Lock(w))
  /\ WF_vars(Main) /\ SF_vars(Wake)
  /\ SF_vars(WakeWorker)

Spec == Init /\ [][Next]_vars /\ Fairness

-----------------------------------------------------------------------------
(* Properties.                                                             *)

Messages == {"disable", "restart", "DISABLE"}

\* Type invariant: a worker's mutex is held by who is between its lock and its
\* unlock, never by two (main.cc:30-59, 186-190).
TypeOK ==
  /\ status \in [Workers -> {"Alive", "Dead"}]
  /\ msgs_to_send \in [Workers -> Messages \union {""}]
  /\ worker_wakeup \in [Workers -> BOOLEAN]
  /\ mpc \in MainPlaces /\ hpc \in 0 .. num_workers + 1
  /\ request \in Requests \union {NoRequest}
  /\ \A w \in Workers : posted[w] \in Seq(Messages) /\ sent[w] \in Seq(Messages)
  /\ \A w \in Workers :
       worker_mutex[w] = (IF wpc[w] \in {"check", "awake", "write", "reset"} THEN "worker"
                          ELSE IF mpc = "unlock" /\ request.worker = w THEN "main" ELSE "nobody")

Settled == mpc \in {"accept", "read"} /\ \A w \in Workers : wpc[w] = "asleep" /\ ~worker_wakeup[w]

\* When the workers sleep again, the last thing each server was told is the
\* last command given for it, which is what the page shows: a command that
\* overtakes another in its slot replaces it, and none is left behind
\* because a wake-up was lost or taken for an earlier one.
LastCommandSent ==
  Settled => \A w \in Workers : posted[w] # <<>> =>
               /\ sent[w] # <<>> /\ Last(sent[w]) = Last(posted[w])
               /\ status[w] = IF Last(sent[w]) = "restart" THEN "Alive" ELSE "Dead"

\* SIGINT ends the console.
ShutdownEnds == (hpc # 0) ~> (mpc = "exited")

-----------------------------------------------------------------------------
(* Not among the runs: what the source says of the program and the code    *)
(* does not keep; README.md, "Departures", has the setting for each.       *)

\* "check if should go back to sleep", "check exists msg to send" (main.cc:36-38):
\* a worker writes no more commands than it was given.
SentOnce == \A w \in Workers : Len(sent[w]) <= Len(posted[w])
=============================================================================
