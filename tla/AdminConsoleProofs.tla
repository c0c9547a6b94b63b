------------------------- MODULE AdminConsoleProofs -------------------------
(***************************************************************************)
(* The admin console does not lose a command.                              *)
(*                                                                         *)
(* The slot of a worker is emptied only when the browser disconnects, and  *)
(* holds the last command for its server until then.  From the moment the  *)
(* main thread leaves a command there, either the worker is awake and has  *)
(* still to read the slot, or the main thread has still to wake it up or   *)
(* to notify it; when none of these is so any more, the command has been   *)
(* written (NoneForgotten).  The mutex keeps the worker from turning       *)
(* itself off between the wake-up and the notification.  SIGINT does not   *)
(* disturb this: once its handler is through, no worker sleeps again.      *)
(***************************************************************************)
EXTENDS AdminConsole, TLAPS

USE AdminConsoleAssumption

Places == {"top", "lock", "check", "asleep", "awake", "write", "reset", "done"}

\* The worker has its mutex.
Holding == {"check", "awake", "write", "reset"}

Types ==
  /\ TypeOK
  /\ wpc \in [Workers -> Places]
  /\ worker_mutex \in [Workers -> {"main", "worker", "nobody"}]
  /\ posted \in [Workers -> Seq(Messages)]
  /\ sent \in [Workers -> Seq(Messages)]
  /\ mpc \in {"post", "wake", "unlock", "notify"} => request \in Requests
  /\ mpc = "unlock" => wpc[request.worker] \notin Holding

\* The last thing the server was told is the last command given for it.
Delivered(w) == sent[w] # <<>> /\ Last(sent[w]) = Last(posted[w])

\* The command is in the slot, and its worker is going to look there: it is
\* awake, or the main thread is about to wake it up.
Coming(w) ==
  /\ msgs_to_send[w] # ""
  /\ \/ mpc = "wake" /\ request.worker = w
     \/ worker_wakeup[w] /\ wpc[w] \in {"top", "lock", "check", "awake", "write"}
     \/ worker_wakeup[w] /\ wpc[w] = "asleep" /\ mpc \in {"unlock", "notify"} /\ request.worker = w

\* The handler of SIGINT is through with all workers.
Ended == hpc = num_workers + 1

SlotsLast ==
  \A w \in Workers :
    /\ msgs_to_send[w] # "" => posted[w] # <<>> /\ msgs_to_send[w] = Last(posted[w])
    /\ posted[w] # <<>> => status[w] = IF Last(posted[w]) = "restart" THEN "Alive" ELSE "Dead"

Served(w) == Delivered(w) \/ (mpc # "close" /\ Coming(w))

NoneForgotten ==
  ~Ended => \A w \in Workers : posted[w] # <<>> /\ wpc[w] # "done" => Served(w)

\* A worker the handler has woken up does not sleep again.
SignalledAwake ==
  /\ shouldTerminate <=> hpc # 0
  /\ \A w \in Workers : hpc > w =>
       wpc[w] \in {"top", "done"} \/ (worker_wakeup[w] /\ wpc[w] # "asleep")

\* The inductive invariant behind LastCommandSent.
ConsoleInv == Types /\ SlotsLast /\ NoneForgotten /\ SignalledAwake

(* A request names a worker and a command.                                 *)
LEMMA RequestFacts ==
  ASSUME NEW r \in Requests
  PROVE  r.worker \in Workers /\ r.msg \in Messages /\ r.msg # ""
<1> DEFINE A == {[worker |-> w, msg |-> m] : w \in Frontends, m \in {"DISABLE"}}
           B == {[worker |-> w, msg |-> m] : w \in Workers \ Frontends, m \in {"disable", "restart"}}
<1>1. CASE r \in A
  <2>1. PICK w \in Frontends, m \in {"DISABLE"} : r = [worker |-> w, msg |-> m]
    BY <1>1
  <2>q. QED
    BY <2>1 DEF AdminConsoleAssumption, Messages
<1>2. CASE r \in B
  <2>1. PICK w \in Workers \ Frontends, m \in {"disable", "restart"} : r = [worker |-> w, msg |-> m]
    BY <1>2
  <2>q. QED
    BY <2>1 DEF Messages
<1>3. Requests = A \union B
  BY DEF Requests, A, B
<1> HIDE DEF A, B
<1>q. QED
  BY <1>1, <1>2, <1>3

(* What Last says of a sequence that has grown.                            *)
LEMMA LastAppended ==
  ASSUME NEW S, NEW s \in Seq(S), NEW m \in S
  PROVE  Append(s, m) \in Seq(S) /\ Append(s, m) # <<>> /\ Last(Append(s, m)) = m
  BY DEF Last

(* The steps of a worker change nothing of another one.                    *)
LEMMA WorkerFacts ==
  ASSUME Types, NEW w \in Workers, Worker(w) \/ Lock(w)
  PROVE  /\ UNCHANGED <<status, msgs_to_send, posted, mpc, request, shouldTerminate, hpc>>
         /\ \A v \in Workers : v # w =>
              /\ wpc'[v] = wpc[v] /\ worker_mutex'[v] = worker_mutex[v]
              /\ worker_wakeup'[v] = worker_wakeup[v] /\ sent'[v] = sent[v]
<1>1. UNCHANGED <<status, msgs_to_send, posted, mpc, request, shouldTerminate, hpc>>
  BY DEF Worker, Top, Lock, Check, Awake, Write, Reset, slotVars, mainVars
<1>2. \A v \in Workers : v # w => wpc'[v] = wpc[v]
  BY DEF Worker, Top, Lock, Check, Awake, Write, Reset, Goto, Types
<1>3. \A v \in Workers : v # w => worker_mutex'[v] = worker_mutex[v]
  BY DEF Worker, Top, Lock, Check, Awake, Write, Reset, Types
<1>4. \A v \in Workers : v # w => worker_wakeup'[v] = worker_wakeup[v] /\ sent'[v] = sent[v]
  BY DEF Worker, Top, Lock, Check, Awake, Write, Reset, Types, TypeOK
<1>q. QED
  BY <1>1, <1>2, <1>3, <1>4

(* What each step of a worker does to its own state.                       *)
LEMMA WorkerMoves ==
  ASSUME Types, NEW w \in Workers, Worker(w) \/ Lock(w)
  PROVE  \/ /\ wpc[w] = "top" /\ wpc'[w] = IF shouldTerminate THEN "done" ELSE "lock"
            /\ UNCHANGED <<worker_wakeup, worker_mutex, sent>>
         \/ /\ wpc[w] = "lock" /\ wpc'[w] = "check"
            /\ worker_mutex[w] = "nobody" /\ worker_mutex'[w] = "worker"
            /\ UNCHANGED <<worker_wakeup, sent>>
         \/ /\ wpc[w] = "check" /\ wpc'[w] = "awake" /\ worker_wakeup[w]
            /\ worker_mutex'[w] = "worker"
            /\ UNCHANGED <<worker_wakeup, sent>>
         \/ /\ wpc[w] = "check" /\ wpc'[w] = "asleep" /\ ~worker_wakeup[w]
            /\ worker_mutex'[w] = "nobody"
            /\ UNCHANGED <<worker_wakeup, sent>>
         \/ /\ wpc[w] = "awake" /\ wpc'[w] = IF msgs_to_send[w] # "" THEN "write" ELSE "reset"
            /\ UNCHANGED <<worker_wakeup, worker_mutex, sent>>
         \/ /\ wpc[w] = "write" /\ wpc'[w] = "reset"
            /\ sent'[w] = IF msgs_to_send[w] = "" THEN sent[w] ELSE Append(sent[w], msgs_to_send[w])
            /\ UNCHANGED <<worker_wakeup, worker_mutex>>
         \/ /\ wpc[w] = "reset" /\ wpc'[w] = "top"
            /\ worker_mutex'[w] = "nobody" /\ worker_wakeup'[w] = FALSE
            /\ UNCHANGED sent
<1>1. /\ wpc \in [Workers -> Places] /\ worker_mutex \in [Workers -> {"main", "worker", "nobody"}]
      /\ worker_wakeup \in [Workers -> BOOLEAN] /\ sent \in [Workers -> Seq(Messages)]
  BY DEF Types, TypeOK
<1>2. CASE Top(w)
  BY <1>1, <1>2 DEF Top, Goto
<1>3. CASE Lock(w)
  BY <1>1, <1>3 DEF Lock, Goto
<1>4. CASE Check(w)
  <2>1. CASE worker_wakeup[w]
    BY <1>1, <1>4, <2>1 DEF Check, Goto
  <2>2. CASE ~worker_wakeup[w]
    BY <1>1, <1>4, <2>2 DEF Check, Goto
  <2>q. QED
    BY <2>1, <2>2
<1>5. CASE Awake(w)
  BY <1>1, <1>5 DEF Awake, Goto
<1>6. CASE Write(w)
  BY <1>1, <1>6 DEF Write, Goto
<1>7. CASE Reset(w)
  BY <1>1, <1>7 DEF Reset, Goto
<1>q. QED
  BY <1>2, <1>3, <1>4, <1>5, <1>6, <1>7 DEF Worker

(* The types and the mutual exclusion hold at the start,                   *)
LEMMA TypesInit == Init => Types
<1> SUFFICES ASSUME Init PROVE Types
  OBVIOUS
<1>1. /\ status \in [Workers -> {"Alive", "Dead"}]
      /\ msgs_to_send \in [Workers -> Messages \union {""}]
      /\ worker_wakeup \in [Workers -> BOOLEAN]
      /\ wpc \in [Workers -> Places]
      /\ worker_mutex \in [Workers -> {"main", "worker", "nobody"}]
  BY DEF Init, Places
<1>2. posted \in [Workers -> Seq(Messages)] /\ sent \in [Workers -> Seq(Messages)]
  <2>1. <<>> \in Seq(Messages)
    OBVIOUS
  <2>q. QED
    BY <2>1 DEF Init
<1>3. /\ mpc = "accept" /\ mpc \in MainPlaces /\ request = NoRequest /\ hpc = 0
      /\ hpc \in 0 .. num_workers + 1
  <2>1. 0 \in 0 .. num_workers + 1
    BY DEF AdminConsoleAssumption
  <2>q. QED
    BY <2>1 DEF Init, MainPlaces
<1>4. \A w \in Workers : worker_mutex[w] = "nobody" /\ wpc[w] = "top"
  BY DEF Init
<1>q. QED
  BY <1>1, <1>2, <1>3, <1>4 DEF Types, TypeOK, Holding

(* and every step keeps them.                                              *)
LEMMA TypesNext == Types /\ [Next]_vars => Types'
<1> SUFFICES ASSUME Types, [Next]_vars PROVE Types'
  OBVIOUS
<1>1. /\ status \in [Workers -> {"Alive", "Dead"}] /\ msgs_to_send \in [Workers -> Messages \union {""}]
      /\ worker_wakeup \in [Workers -> BOOLEAN] /\ mpc \in MainPlaces /\ hpc \in 0 .. num_workers + 1
      /\ request \in Requests \union {NoRequest}
      /\ wpc \in [Workers -> Places] /\ worker_mutex \in [Workers -> {"main", "worker", "nobody"}]
      /\ posted \in [Workers -> Seq(Messages)] /\ sent \in [Workers -> Seq(Messages)]
      /\ mpc \in {"post", "wake", "unlock", "notify"} => request \in Requests
      /\ mpc = "unlock" => wpc[request.worker] \notin Holding
      /\ \A w \in Workers :
           worker_mutex[w] = (IF wpc[w] \in Holding THEN "worker"
                              ELSE IF mpc = "unlock" /\ request.worker = w THEN "main" ELSE "nobody")
  BY DEF Types, TypeOK, Holding
<1>2. ASSUME NEW w \in Workers, Worker(w) \/ Lock(w) PROVE Types'
  <2>1. /\ UNCHANGED <<status, msgs_to_send, posted, mpc, request, shouldTerminate, hpc>>
        /\ \A v \in Workers : v # w =>
             /\ wpc'[v] = wpc[v] /\ worker_mutex'[v] = worker_mutex[v]
             /\ worker_wakeup'[v] = worker_wakeup[v] /\ sent'[v] = sent[v]
    BY <1>2, WorkerFacts
  <2>2. /\ wpc' \in [Workers -> Places]
        /\ mpc = "unlock" /\ request.worker = w => wpc'[w] \notin Holding
    <3>1. \E a : wpc' = [wpc EXCEPT ![w] = a]
      BY <1>2 DEF Worker, Top, Lock, Check, Awake, Write, Reset, Goto
    <3>2. wpc'[w] \in Places /\ (mpc = "unlock" /\ request.worker = w => wpc'[w] \notin Holding)
      BY <1>1, <1>2, WorkerMoves DEF Places, Holding
    <3>q. QED
      BY <1>1, <3>1, <3>2
  <2>3. /\ worker_mutex' \in [Workers -> {"main", "worker", "nobody"}]
        /\ worker_wakeup' \in [Workers -> BOOLEAN]
        /\ sent' \in [Workers -> Seq(Messages)]
    <3>1. worker_mutex' \in [Workers -> {"main", "worker", "nobody"}]
      BY <1>1, <1>2 DEF Worker, Top, Lock, Check, Awake, Write, Reset
    <3>2. worker_wakeup' \in [Workers -> BOOLEAN]
      BY <1>1, <1>2 DEF Worker, Top, Lock, Check, Awake, Write, Reset
    <3>3. CASE Write(w)
      <4>1. msgs_to_send[w] # "" => Append(sent[w], msgs_to_send[w]) \in Seq(Messages)
        BY <1>1, LastAppended
      <4>q. QED
        BY <1>1, <3>1, <3>2, <3>3, <4>1 DEF Write
    <3>4. CASE UNCHANGED sent
      BY <1>1, <3>1, <3>2, <3>4
    <3>q. QED
      BY <1>2, <3>3, <3>4 DEF Worker, Top, Lock, Check, Awake, Reset
  <2>4. worker_mutex'[w] = (IF wpc'[w] \in Holding THEN "worker"
                            ELSE IF mpc = "unlock" /\ request.worker = w THEN "main" ELSE "nobody")
    BY <1>1, <1>2, WorkerMoves DEF Holding
  <2>6. \A v \in Workers :
          worker_mutex'[v] = (IF wpc'[v] \in Holding THEN "worker"
                              ELSE IF mpc' = "unlock" /\ request'.worker = v THEN "main" ELSE "nobody")
    BY <1>1, <2>1, <2>4
  <2>7. mpc' = "unlock" => wpc'[request'.worker] \notin Holding
    BY <1>1, <2>1, <2>2, RequestFacts
  <2>q. QED
    BY <1>1, <2>1, <2>2, <2>3, <2>6, <2>7 DEF Types, TypeOK, Holding
<1>3. ASSUME MainRuns, UNCHANGED <<wpc, worker_mutex, worker_wakeup, hpc, sent>>,
             mpc' \in MainPlaces, mpc # "unlock", mpc' # "unlock",
             request' \in Requests \union {NoRequest},
             mpc' \in {"post", "wake", "unlock", "notify"} => request' \in Requests,
             status' \in [Workers -> {"Alive", "Dead"}],
             msgs_to_send' \in [Workers -> Messages \union {""}],
             posted' \in [Workers -> Seq(Messages)]
      PROVE  Types'
  BY <1>1, <1>3 DEF Types, TypeOK, Holding
<1>4. CASE AcceptInterrupted \/ Loop \/ ReadInterrupted \/ Join \/ Disconnect \/ Accept
  <2>1. /\ MainRuns /\ UNCHANGED <<slotVars, lockVars, hpc, sent>>
        /\ mpc' \in {"exited", "close", "read", "post", "loop"}
        /\ mpc \in {"accept", "loop", "read", "join"}
        /\ mpc' = "post" => request # NoRequest
        /\ request' \in {request, NoRequest} /\ (mpc' = "post" => request' = request)
    BY <1>4 DEF AcceptInterrupted, Loop, ReadInterrupted, Join, Disconnect, Accept, MainGoto
  <2>2. /\ UNCHANGED <<wpc, worker_mutex, worker_wakeup, hpc, sent, status, msgs_to_send, posted>>
        /\ mpc' \in MainPlaces /\ mpc # "unlock" /\ mpc' # "unlock"
        /\ mpc' \notin {"wake", "unlock", "notify"}
    BY <2>1 DEF slotVars, lockVars, MainPlaces
  <2>3. request' \in Requests \union {NoRequest} /\ (mpc' = "post" => request' \in Requests)
    BY <1>1, <2>1
  <2>4. /\ status' \in [Workers -> {"Alive", "Dead"}]
        /\ msgs_to_send' \in [Workers -> Messages \union {""}]
        /\ posted' \in [Workers -> Seq(Messages)]
    BY <1>1, <2>2
  <2>q. QED
    BY <1>3, <2>1, <2>2, <2>3, <2>4
<1>5. ASSUME NEW r \in Requests, Read(r) PROVE Types'
  <2>1. /\ MainRuns /\ UNCHANGED <<slotVars, lockVars, hpc, sent>>
        /\ mpc' = "post" /\ mpc = "read" /\ request' = r
    BY <1>5 DEF Read, MainGoto
  <2>q. QED
    BY <1>1, <1>3, <2>1 DEF slotVars, lockVars, MainPlaces
<1>6. CASE Post
  <2>1. request \in Requests /\ request.worker \in Workers /\ request.msg \in Messages
    BY <1>1, <1>6, RequestFacts DEF Post, MainGoto
  <2>2. /\ MainRuns /\ UNCHANGED <<lockVars, request, hpc, sent>>
        /\ mpc' = "wake" /\ mpc = "post"
        /\ status' \in [Workers -> {"Alive", "Dead"}]
        /\ msgs_to_send' \in [Workers -> Messages \union {""}]
        /\ posted' \in [Workers -> Seq(Messages)]
    <3>1. Append(posted[request.worker], request.msg) \in Seq(Messages)
      BY <1>1, <2>1, LastAppended
    <3>2. posted' \in [Workers -> Seq(Messages)]
      BY <1>1, <1>6, <3>1 DEF Post
    <3>3. /\ status' \in [Workers -> {"Alive", "Dead"}]
          /\ msgs_to_send' \in [Workers -> Messages \union {""}]
      BY <1>1, <1>6, <2>1 DEF Post
    <3>q. QED
      BY <1>6, <3>2, <3>3 DEF Post, MainGoto
  <2>q. QED
    BY <1>1, <1>3, <2>1, <2>2 DEF lockVars, MainPlaces
<1>7. CASE Wake
  <2>1. request \in Requests /\ request.worker \in Workers
    BY <1>1, <1>7, RequestFacts DEF Wake, MainGoto
  <2>2. /\ UNCHANGED <<slotVars, wpc, request, hpc, sent>>
        /\ mpc' = "unlock" /\ worker_mutex[request.worker] = "nobody"
        /\ worker_mutex' = [worker_mutex EXCEPT ![request.worker] = "main"]
        /\ worker_wakeup' \in [Workers -> BOOLEAN]
        /\ mpc # "unlock"
    BY <1>1, <1>7 DEF Wake, MainGoto
  <2>3. wpc[request.worker] \notin Holding
    BY <1>1, <2>1, <2>2
  <2>4. \A v \in Workers :
          worker_mutex'[v] = (IF wpc'[v] \in Holding THEN "worker"
                              ELSE IF mpc' = "unlock" /\ request'.worker = v THEN "main" ELSE "nobody")
    BY <1>1, <2>1, <2>2, <2>3
  <2>5. worker_mutex' \in [Workers -> {"main", "worker", "nobody"}]
    BY <1>1, <2>2
  <2>q. QED
    BY <1>1, <2>1, <2>2, <2>3, <2>4, <2>5 DEF Types, TypeOK, Holding, slotVars, MainPlaces
<1>8. CASE Unlock
  <2>1. request \in Requests /\ request.worker \in Workers
    BY <1>1, <1>8, RequestFacts DEF Unlock, MainGoto
  <2>2. /\ UNCHANGED <<slotVars, wpc, request, hpc, sent, worker_wakeup>>
        /\ mpc' = "notify" /\ mpc = "unlock"
        /\ worker_mutex' = [worker_mutex EXCEPT ![request.worker] = "nobody"]
    BY <1>8 DEF Unlock, MainGoto
  <2>3. \A v \in Workers :
          worker_mutex'[v] = (IF wpc'[v] \in Holding THEN "worker"
                              ELSE IF mpc' = "unlock" /\ request'.worker = v THEN "main" ELSE "nobody")
    BY <1>1, <2>1, <2>2
  <2>4. worker_mutex' \in [Workers -> {"main", "worker", "nobody"}]
    BY <1>1, <2>2
  <2>q. QED
    BY <1>1, <2>1, <2>2, <2>3, <2>4 DEF Types, TypeOK, Holding, slotVars, MainPlaces
<1>9. ASSUME NEW w \in Workers, NotifyOne(w)
      PROVE  /\ wpc' \in [Workers -> Places]
             /\ \A v \in Workers : wpc'[v] \in Holding <=> wpc[v] \in Holding
  BY <1>1, <1>9 DEF NotifyOne, Places, Holding
<1>10. CASE Notify
  <2>1. request \in Requests /\ request.worker \in Workers
    BY <1>1, <1>10, RequestFacts DEF Notify, MainGoto
  <2>2. /\ UNCHANGED <<slotVars, worker_mutex, request, hpc, sent, worker_wakeup>>
        /\ mpc' = "loop" /\ mpc = "notify" /\ NotifyOne(request.worker)
    BY <1>10 DEF Notify, MainGoto
  <2>3. /\ wpc' \in [Workers -> Places]
        /\ \A v \in Workers : wpc'[v] \in Holding <=> wpc[v] \in Holding
    BY <1>9, <2>1, <2>2
  <2>q. QED
    BY <1>1, <2>1, <2>2, <2>3 DEF Types, TypeOK, Holding, slotVars, MainPlaces
<1>11. CASE Close
  <2>1. /\ MainRuns /\ UNCHANGED <<status, posted, lockVars, request, hpc, sent>>
        /\ mpc' \in {"join", "accept"} /\ mpc = "close"
        /\ msgs_to_send' \in [Workers -> Messages \union {""}]
    BY <1>11 DEF Close, MainGoto
  <2>q. QED
    BY <1>1, <1>3, <2>1 DEF lockVars, MainPlaces
<1>12. CASE Signal
  <2>1. UNCHANGED <<slotVars, lockVars, mainVars, sent>> /\ hpc' \in 0 .. num_workers + 1
    BY <1>12 DEF Signal, AdminConsoleAssumption
  <2>q. QED
    BY <1>1, <2>1 DEF Types, TypeOK, Holding, slotVars, lockVars, mainVars
<1>13. CASE WakeWorker
  <2>1. /\ hpc \in Workers /\ hpc' \in 0 .. num_workers + 1 /\ NotifyOne(hpc)
        /\ worker_wakeup' \in [Workers -> BOOLEAN]
        /\ UNCHANGED <<slotVars, worker_mutex, mainVars, sent>>
    <3>1. hpc \in Workers /\ hpc' = hpc + 1
      BY <1>13 DEF WakeWorker
    <3>2. hpc' \in 0 .. num_workers + 1
      BY <3>1 DEF Workers, AdminConsoleAssumption
    <3>q. QED
      BY <1>1, <1>13, <3>1, <3>2 DEF WakeWorker
  <2>2. /\ wpc' \in [Workers -> Places]
        /\ \A v \in Workers : wpc'[v] \in Holding <=> wpc[v] \in Holding
    BY <1>9, <2>1
  <2>3. mpc' = "unlock" => wpc'[request'.worker] \notin Holding
    BY <1>1, <2>1, <2>2, RequestFacts DEF mainVars
  <2>q. QED
    BY <1>1, <2>1, <2>2, <2>3 DEF Types, TypeOK, Holding, slotVars, mainVars
<1>14. CASE UNCHANGED vars
  BY <1>1, <1>14 DEF vars, slotVars, lockVars, mainVars, Types, TypeOK, Holding
<1>q. QED
  BY <1>2, <1>4, <1>5, <1>6, <1>7, <1>8, <1>10, <1>11, <1>12, <1>13, <1>14 DEF Next, Main

\* The steps of the main thread.
MainStep == Main \/ Wake \/ Accept \/ Disconnect \/ \E r \in Requests : Read(r)

(* The main thread writes nothing, takes back no wake-up and puts no       *)
(* worker to sleep.                                                        *)
LEMMA MainFacts ==
  ASSUME Types, MainStep
  PROVE  /\ MainRuns /\ UNCHANGED <<shouldTerminate, hpc, sent>>
         /\ \A w \in Workers : worker_wakeup[w] => worker_wakeup'[w]
         /\ \A w \in Workers : wpc'[w] = wpc[w] \/ (wpc[w] = "asleep" /\ wpc'[w] = "lock")
<1>1. worker_wakeup \in [Workers -> BOOLEAN] /\ wpc \in [Workers -> Places]
  BY DEF Types, TypeOK
<1>2. CASE \E r \in Requests : Read(r)
  BY <1>1, <1>2 DEF Read, MainGoto, lockVars
<1>3. CASE AcceptInterrupted \/ Loop \/ ReadInterrupted \/ Join \/ Disconnect \/ Accept \/ Post \/ Close
  BY <1>1, <1>3 DEF AcceptInterrupted, Loop, ReadInterrupted, Join, Disconnect, Accept, Post, Close,
                    MainGoto, lockVars
<1>4. CASE Wake \/ Unlock
  <2>1. MainRuns /\ UNCHANGED <<shouldTerminate, hpc, sent, wpc>>
    BY <1>4 DEF Wake, Unlock, MainGoto
  <2>2. \A w \in Workers : worker_wakeup[w] => worker_wakeup'[w]
    BY <1>1, <1>4 DEF Wake, Unlock
  <2>q. QED
    BY <2>1, <2>2
<1>5. CASE Notify
  BY <1>1, <1>5 DEF Notify, NotifyOne, MainGoto
<1>q. QED
  BY <1>2, <1>3, <1>4, <1>5 DEF MainStep, Main

(* The handler of SIGINT leaves every worker it has passed awake.          *)
LEMMA SignalledNext == Types /\ SignalledAwake /\ [Next]_vars => SignalledAwake'
<1> SUFFICES ASSUME Types, SignalledAwake, [Next]_vars PROVE SignalledAwake'
  OBVIOUS
<1>1. /\ hpc \in Nat /\ \A w \in Workers : w \in Nat /\ w > 0
      /\ wpc \in [Workers -> Places] /\ worker_wakeup \in [Workers -> BOOLEAN]
      /\ \A w \in Workers : worker_mutex[w] = "nobody" => wpc[w] \notin Holding
      /\ shouldTerminate <=> hpc # 0
  <2>1. num_workers \in Nat /\ hpc \in 0 .. num_workers + 1
    BY DEF Types, TypeOK, AdminConsoleAssumption
  <2>2. hpc \in Nat /\ \A w \in Workers : w \in Nat /\ w > 0
    BY <2>1 DEF Workers
  <2>3. \A w \in Workers : worker_mutex[w] = "nobody" => wpc[w] \notin Holding
    BY DEF Types, TypeOK, Holding
  <2>q. QED
    BY <2>2, <2>3 DEF Types, TypeOK, SignalledAwake
<1>2. ASSUME NEW w \in Workers, Worker(w) \/ Lock(w) PROVE SignalledAwake'
  <2>1. /\ UNCHANGED <<shouldTerminate, hpc>>
        /\ \A v \in Workers : v # w => wpc'[v] = wpc[v] /\ worker_wakeup'[v] = worker_wakeup[v]
    BY <1>2, WorkerFacts
  <2>2. ASSUME hpc > w
        PROVE  wpc'[w] \in {"top", "done"} \/ (worker_wakeup'[w] /\ wpc'[w] # "asleep")
    <3>1. shouldTerminate
      BY <1>1, <2>2
    <3>2. wpc[w] \in {"top", "done"} \/ (worker_wakeup[w] /\ wpc[w] # "asleep")
      BY <2>2 DEF SignalledAwake
    <3>q. QED
      BY <1>2, <3>1, <3>2, WorkerMoves
  <2>q. QED
    BY <2>1, <2>2 DEF SignalledAwake
<1>3. CASE MainStep
  <2>1. /\ UNCHANGED <<shouldTerminate, hpc>>
        /\ \A w \in Workers : worker_wakeup[w] => worker_wakeup'[w]
        /\ \A w \in Workers : wpc'[w] = wpc[w] \/ (wpc[w] = "asleep" /\ wpc'[w] = "lock")
    BY <1>3, MainFacts
  <2>q. QED
    BY <2>1 DEF SignalledAwake
<1>4. CASE Signal
  BY <1>1, <1>4 DEF Signal, lockVars, SignalledAwake
<1>5. CASE WakeWorker
  <2>1. /\ hpc \in Workers /\ worker_mutex[hpc] = "nobody" /\ hpc' = hpc + 1 /\ UNCHANGED shouldTerminate
        /\ worker_wakeup' = [worker_wakeup EXCEPT ![hpc] = TRUE]
        /\ wpc' = [wpc EXCEPT ![hpc] = IF @ = "asleep" THEN "lock" ELSE @]
    BY <1>5 DEF WakeWorker, NotifyOne
  <2>2. wpc'[hpc] # "asleep" /\ worker_wakeup'[hpc]
    BY <1>1, <2>1
  <2>3. \A w \in Workers : w # hpc => wpc'[w] = wpc[w] /\ worker_wakeup'[w] = worker_wakeup[w]
    BY <1>1, <2>1
  <2>4. \A w \in Workers : hpc' > w => w = hpc \/ hpc > w
    BY <1>1, <2>1
  <2>5. shouldTerminate' <=> hpc' # 0
    BY <1>1, <2>1
  <2>6. \A w \in Workers : hpc' > w =>
          wpc'[w] \in {"top", "done"} \/ (worker_wakeup'[w] /\ wpc'[w] # "asleep")
    BY <2>2, <2>3, <2>4 DEF SignalledAwake
  <2>q. QED
    BY <2>5, <2>6 DEF SignalledAwake
<1>6. CASE UNCHANGED vars
  BY <1>6 DEF vars, lockVars, SignalledAwake
<1>q. QED
  BY <1>2, <1>3, <1>4, <1>5, <1>6 DEF Next, MainStep

(* Only Post and Close touch the slots, and Post all that goes with one.   *)
LEMMA SlotsNext == Types /\ SlotsLast /\ [Next]_vars => SlotsLast'
<1> SUFFICES ASSUME Types, SlotsLast, [Next]_vars PROVE SlotsLast'
  OBVIOUS
<1>1. /\ status \in [Workers -> {"Alive", "Dead"}] /\ msgs_to_send \in [Workers -> Messages \union {""}]
      /\ posted \in [Workers -> Seq(Messages)]
  BY DEF Types, TypeOK
<1>2. CASE Post
  <2>1. PICK w : w = request.worker
    OBVIOUS
  <2>2. PICK m : m = request.msg
    OBVIOUS
  <2>3. request \in Requests
    BY <1>2 DEF Types, Post, MainGoto
  <2>4. w \in Workers /\ m \in Messages /\ m # ""
    BY <2>1, <2>2, <2>3, RequestFacts
  <2>5. /\ msgs_to_send' = [msgs_to_send EXCEPT ![w] = m]
        /\ status' = [status EXCEPT ![w] = IF m = "restart" THEN "Alive" ELSE "Dead"]
        /\ posted' = [posted EXCEPT ![w] = Append(@, m)]
    BY <1>2, <2>1, <2>2 DEF Post
  <2>6. posted'[w] # <<>> /\ Last(posted'[w]) = m
    <3>1. PICK s \in Seq(Messages) : s = posted[w]
      BY <1>1, <2>4
    <3>2. posted'[w] = Append(s, m)
      BY <1>1, <2>4, <2>5, <3>1
    <3>3. PICK n \in Messages : n = m
      BY <2>4
    <3>4. Append(s, n) # <<>> /\ Last(Append(s, n)) = n
      BY LastAppended
    <3>q. QED
      BY <3>2, <3>3, <3>4
  <2>7. msgs_to_send'[w] = m /\ status'[w] = IF m = "restart" THEN "Alive" ELSE "Dead"
    BY <1>1, <2>4, <2>5
  <2>8. \A v \in Workers : v # w => /\ msgs_to_send'[v] = msgs_to_send[v] /\ status'[v] = status[v]
                                    /\ posted'[v] = posted[v]
    BY <1>1, <2>5
  <2>q. QED
    BY <2>6, <2>7, <2>8 DEF SlotsLast
<1>3. CASE Close
  BY <1>3 DEF Close, SlotsLast
<1>4. CASE UNCHANGED <<msgs_to_send, status, posted>>
  BY <1>4 DEF SlotsLast
<1>5. ASSUME NEW r \in Requests, Read(r) PROVE UNCHANGED <<msgs_to_send, status, posted>>
  BY <1>5 DEF Read, slotVars
<1>6. ASSUME NEW w \in Workers, Worker(w) \/ Lock(w) PROVE UNCHANGED <<msgs_to_send, status, posted>>
  BY <1>6, WorkerFacts
<1>7. CASE AcceptInterrupted \/ Loop \/ ReadInterrupted \/ Unlock \/ Notify \/ Join \/ Wake \/ Accept
             \/ Disconnect \/ Signal \/ WakeWorker \/ UNCHANGED vars
  BY <1>4, <1>7 DEF AcceptInterrupted, Loop, ReadInterrupted, Unlock, Notify, Join, Wake, Accept,
                    Disconnect, Signal, WakeWorker, vars, slotVars
<1>q. QED
  BY <1>2, <1>3, <1>4, <1>5, <1>6, <1>7 DEF Next, Main

(* A command is on its way until it has been written; the browser leaves   *)
(* when no worker has one to write.                                        *)
LEMMA NoneForgottenNext ==
  ASSUME ~Leaves
  PROVE  ConsoleInv /\ [Next]_vars => NoneForgotten'
<1> SUFFICES ASSUME ConsoleInv, [Next]_vars, ~Ended',
                    NEW w \in Workers, posted'[w] # <<>>, wpc'[w] # "done"
             PROVE  Served(w)'
  BY DEF NoneForgotten
<1>1. /\ msgs_to_send \in [Workers -> Messages \union {""}]
      /\ worker_wakeup \in [Workers -> BOOLEAN]
      /\ wpc \in [Workers -> Places]
      /\ posted \in [Workers -> Seq(Messages)] /\ sent \in [Workers -> Seq(Messages)]
      /\ mpc \in {"post", "wake", "unlock", "notify"} => request \in Requests
      /\ worker_mutex[w] = "nobody" => wpc[w] \notin Holding
      /\ num_workers \in Nat /\ hpc \in 0 .. num_workers + 1 /\ (shouldTerminate <=> hpc # 0)
      /\ w \in Nat /\ w <= num_workers
  <2>1. Types /\ (shouldTerminate <=> hpc # 0)
    BY DEF ConsoleInv, SignalledAwake
  <2>2. worker_mutex[w] = "nobody" => wpc[w] \notin Holding
    BY <2>1 DEF Types, TypeOK, Holding
  <2>3. num_workers \in Nat /\ w \in Nat /\ w <= num_workers
    BY DEF Workers, AdminConsoleAssumption
  <2>q. QED
    BY <2>1, <2>2, <2>3 DEF Types, TypeOK
<1>0. num_workers \in Nat /\ hpc \in Nat
  <2>1. num_workers \in Nat /\ hpc \in 0 .. num_workers + 1
    BY DEF ConsoleInv, Types, TypeOK, AdminConsoleAssumption
  <2>q. QED
    BY <2>1
\* As long as a step does nothing for w, it is served as before.
<1>2. ASSUME ~Ended, posted'[w] = posted[w], sent'[w] = sent[w],
             wpc'[w] = wpc[w], mpc' # "close" \/ mpc = "close",
             Coming(w) => Coming(w)'
      PROVE  Served(w)'
  <2>1. Served(w)
    BY <1>2 DEF ConsoleInv, NoneForgotten
  <2>q. QED
    BY <1>2, <2>1 DEF Served, Delivered
<1>3. ASSUME NEW v \in Workers, Worker(v) \/ Lock(v) PROVE Served(w)'
  <2>1. UNCHANGED <<status, msgs_to_send, posted, mpc, request, shouldTerminate, hpc>>
    BY <1>3, WorkerFacts DEF ConsoleInv
  <2>2. CASE v # w
    <3>1. /\ wpc'[w] = wpc[w] /\ worker_wakeup'[w] = worker_wakeup[w] /\ sent'[w] = sent[w]
      BY <1>3, <2>2, WorkerFacts DEF ConsoleInv
    <3>q. QED
      BY <1>2, <2>1, <3>1 DEF Coming, Ended
  <2>3. CASE v = w
    <3>1. wpc[w] # "done" /\ ~Ended
      <4>1. wpc[w] # "done"
        BY <1>3, <2>3, WorkerMoves DEF ConsoleInv
      <4>q. QED
        BY <2>1, <4>1 DEF Ended
    <3>2. Served(w) /\ (msgs_to_send[w] # "" => msgs_to_send[w] = Last(posted[w]))
      BY <2>1, <3>1 DEF ConsoleInv, NoneForgotten, SlotsLast
    <3>3. CASE wpc[w] = "write" /\ msgs_to_send[w] # ""
      <4>1. sent'[w] = Append(sent[w], msgs_to_send[w])
        BY <1>3, <2>3, <3>3, WorkerMoves DEF ConsoleInv
      <4>2. sent[w] \in Seq(Messages) /\ msgs_to_send[w] \in Messages
        BY <1>1, <3>3
      <4>3. sent'[w] # <<>> /\ Last(sent'[w]) = msgs_to_send[w]
        BY <4>1, <4>2, LastAppended
      <4>q. QED
        BY <2>1, <3>2, <3>3, <4>3 DEF Served, Delivered
    <3>4. CASE ~(wpc[w] = "write" /\ msgs_to_send[w] # "")
      <4>1. sent'[w] = sent[w]
        BY <1>3, <2>3, <3>4, WorkerMoves DEF ConsoleInv
      <4>2. Coming(w) => Coming(w)'
        <5>1. ASSUME Coming(w), ~(mpc = "wake" /\ request.worker = w)
              PROVE  worker_wakeup'[w] /\ wpc'[w] \in {"top", "lock", "check", "awake", "write"}
          <6>1. /\ worker_wakeup[w] /\ msgs_to_send[w] # ""
                /\ wpc[w] \in {"top", "lock", "check", "awake", "asleep"}
            BY <3>4, <5>1 DEF Coming
          <6>q. QED
            BY <1>3, <2>3, <6>1, WorkerMoves DEF ConsoleInv
        <5>q. QED
          BY <2>1, <5>1 DEF Coming
      <4>q. QED
        BY <2>1, <3>2, <4>1, <4>2 DEF Served, Delivered
    <3>q. QED
      BY <3>3, <3>4
  <2>q. QED
    BY <2>2, <2>3
\* While the handler is not through, the main thread runs only before SIGINT.
<1>4. ASSUME MainStep PROVE hpc = 0 /\ ~shouldTerminate /\ ~Ended
  <2>1. MainRuns /\ hpc' = hpc
    BY <1>4, MainFacts DEF ConsoleInv
  <2>2. hpc # num_workers + 1
    BY <2>1 DEF Ended
  <2>q. QED
    BY <1>1, <2>1, <2>2 DEF MainRuns, Ended
<1>5. CASE \E r \in Requests : Read(r)
  <2>1. PICK r \in Requests : Read(r)
    BY <1>5
  <2>2. UNCHANGED <<slotVars, lockVars, sent>> /\ mpc = "read" /\ mpc' = "post"
    BY <2>1 DEF Read, MainGoto
  <2>3. ~Ended
    BY <1>4, <1>5 DEF MainStep
  <2>q. QED
    BY <1>2, <2>2, <2>3 DEF slotVars, lockVars, Coming
<1>6. CASE AcceptInterrupted \/ Loop \/ ReadInterrupted \/ Join \/ Accept
  <2>1. hpc = 0 /\ ~shouldTerminate /\ ~Ended
    BY <1>4, <1>6 DEF MainStep, Main
  <2>2. /\ UNCHANGED <<slotVars, lockVars, sent>>
        /\ mpc \in {"loop", "join", "accept"} /\ mpc' # "close"
    BY <1>6, <2>1 DEF AcceptInterrupted, Loop, ReadInterrupted, Join, Accept, MainGoto
  <2>q. QED
    BY <1>2, <2>1, <2>2 DEF slotVars, lockVars, Coming
<1>7. CASE Disconnect
  <2>1. ~Ended
    BY <1>4, <1>7 DEF MainStep
  <2>2. /\ UNCHANGED <<slotVars, lockVars, sent>> /\ mpc = "read"
        /\ wpc[w] \in {"asleep", "done"}
    BY <1>7 DEF Disconnect, MainGoto
  <2>3. wpc[w] = "asleep" /\ posted[w] # <<>>
    BY <2>2 DEF lockVars, slotVars
  <2>4. Served(w) /\ ~Coming(w)
    BY <2>1, <2>2, <2>3 DEF ConsoleInv, NoneForgotten, Coming
  <2>q. QED
    BY <2>2, <2>4 DEF Served, Delivered, slotVars
<1>8. CASE Post
  <2>1. PICK u : u = request.worker
    OBVIOUS
  <2>2. request \in Requests /\ u \in Workers /\ request.msg # ""
    BY <1>1, <1>8, <2>1, RequestFacts DEF Post, MainGoto
  <2>3. /\ msgs_to_send' = [msgs_to_send EXCEPT ![u] = request.msg]
        /\ posted' = [posted EXCEPT ![u] = Append(@, request.msg)]
        /\ mpc = "post" /\ mpc' = "wake" /\ UNCHANGED <<lockVars, request, sent>>
    BY <1>8, <2>1 DEF Post, MainGoto
  <2>4. CASE w = u
    BY <1>1, <2>1, <2>2, <2>3, <2>4 DEF Served, Coming
  <2>5. CASE w # u
    <3>1. posted'[w] = posted[w] /\ msgs_to_send'[w] = msgs_to_send[w]
      BY <1>1, <2>3, <2>5
    <3>2. ~Ended
      BY <1>4, <1>8 DEF MainStep, Main
    <3>q. QED
      BY <1>2, <2>3, <3>1, <3>2 DEF Coming, lockVars
  <2>q. QED
    BY <2>4, <2>5
<1>9. CASE Wake
  <2>1. PICK u : u = request.worker
    OBVIOUS
  <2>2. /\ worker_mutex[u] = "nobody"
        /\ worker_wakeup' = [worker_wakeup EXCEPT ![u] = TRUE]
        /\ mpc = "wake" /\ mpc' = "unlock" /\ UNCHANGED <<slotVars, wpc, request, sent>>
    BY <1>9, <2>1 DEF Wake, MainGoto
  <2>3. ~Ended
    BY <1>4, <1>9 DEF MainStep
  <2>4. CASE w = u
    <3>1. worker_wakeup'[w] /\ wpc[w] \in {"top", "lock", "asleep", "done"}
      BY <1>1, <2>2, <2>4 DEF Places, Holding
    <3>2. Coming(w) => Coming(w)'
      BY <2>1, <2>2, <2>4, <3>1 DEF Coming, slotVars
    <3>q. QED
      BY <1>2, <2>2, <2>3, <3>2 DEF slotVars
  <2>5. CASE w # u
    <3>1. worker_wakeup'[w] = worker_wakeup[w]
      BY <1>1, <2>2, <2>5
    <3>q. QED
      BY <1>2, <2>1, <2>2, <2>3, <2>5, <3>1 DEF Coming, slotVars
  <2>q. QED
    BY <2>4, <2>5
<1>10. CASE Unlock
  <2>1. /\ UNCHANGED <<slotVars, worker_wakeup, wpc, request, sent>>
        /\ mpc = "unlock" /\ mpc' = "notify"
    BY <1>10 DEF Unlock, MainGoto
  <2>2. ~Ended
    BY <1>4, <1>10 DEF MainStep, Main
  <2>q. QED
    BY <1>2, <2>1, <2>2 DEF Coming, slotVars
\* A worker that is notified is awake.
<1>11. ASSUME ~Ended, NEW u \in Workers, NotifyOne(u), UNCHANGED <<slotVars, sent>>,
              mpc' # "close" \/ mpc = "close",
              worker_wakeup[w] => worker_wakeup'[w],
              Coming(w) /\ w # u => \/ mpc = "wake" /\ mpc' = "wake" /\ request' = request
                                    \/ wpc[w] \in {"top", "lock", "check", "awake", "write"}
                                    \/ mpc' = mpc /\ request' = request,
              mpc = "wake" => mpc' = "wake" /\ request' = request
       PROVE  Served(w)'
  <2>1. /\ wpc'[w] = wpc[w] \/ (wpc[w] = "asleep" /\ wpc'[w] = "lock")
        /\ w # u => wpc'[w] = wpc[w]
        /\ w = u => wpc'[w] # "asleep"
    BY <1>1, <1>11 DEF NotifyOne
  <2>2. wpc[w] # "done"
    BY <2>1
  <2>3. Served(w)
    BY <1>11, <2>2 DEF ConsoleInv, NoneForgotten, slotVars
  <2>4. Coming(w) => Coming(w)'
    <3>1. CASE w = u
      BY <1>11, <2>1, <3>1 DEF Coming, slotVars
    <3>2. CASE w # u
      BY <1>11, <2>1, <3>2 DEF Coming, slotVars
    <3>q. QED
      BY <3>1, <3>2
  <2>q. QED
    BY <1>11, <2>3, <2>4 DEF Served, Delivered, slotVars
<1>12. CASE Notify
  <2>1. PICK u : u = request.worker
    OBVIOUS
  <2>2. u \in Workers
    BY <1>1, <1>12, <2>1, RequestFacts DEF Notify, MainGoto
  <2>3. /\ NotifyOne(u) /\ UNCHANGED <<slotVars, worker_wakeup, request, sent>>
        /\ mpc = "notify" /\ mpc' = "loop"
    BY <1>12, <2>1 DEF Notify, MainGoto
  <2>4. ~Ended
    BY <1>4, <1>12 DEF MainStep, Main
  <2>5. Coming(w) /\ w # u => wpc[w] \in {"top", "lock", "check", "awake", "write"}
    BY <2>1, <2>3 DEF Coming
  <2>q. QED
    BY <1>11, <2>2, <2>3, <2>4, <2>5
<1>13. CASE WakeWorker
  <2>1. PICK u : u = hpc
    OBVIOUS
  <2>2. /\ u \in Workers /\ NotifyOne(u) /\ UNCHANGED <<slotVars, mainVars, sent>>
        /\ worker_wakeup' = [worker_wakeup EXCEPT ![u] = TRUE]
    BY <1>13, <2>1 DEF WakeWorker
  <2>3. worker_wakeup[w] => worker_wakeup'[w]
    BY <1>1, <2>2
  <2>4. ~Ended
    <3>1. u \in Nat /\ u <= num_workers
      BY <2>2 DEF Workers, AdminConsoleAssumption
    <3>q. QED
      BY <1>0, <2>1, <3>1 DEF Ended
  <2>q. QED
    BY <1>11, <2>2, <2>3, <2>4 DEF mainVars
<1>14. CASE Close
  <2>1. mpc = "close" /\ UNCHANGED <<posted, lockVars, sent>>
    BY <1>14 DEF Close, MainGoto
  <2>2. ~Ended
    BY <1>4, <1>14 DEF MainStep, Main
  <2>3. Delivered(w)
    BY <2>1, <2>2 DEF ConsoleInv, NoneForgotten, Served, lockVars
  <2>q. QED
    BY <2>1, <2>3 DEF Served, Delivered
<1>15. CASE Signal \/ UNCHANGED vars
  <2>1. UNCHANGED <<slotVars, lockVars, mainVars, sent>>
    BY <1>15 DEF Signal, vars
  <2>2. ~Ended
    <3>1. hpc = 0 \/ hpc' = hpc
      BY <1>15 DEF Signal, vars
    <3>q. QED
      BY <1>0, <3>1 DEF Ended
  <2>q. QED
    BY <1>2, <2>1, <2>2 DEF slotVars, lockVars, mainVars, Coming
<1>q. QED
  BY <1>3, <1>5, <1>6, <1>7, <1>8, <1>9, <1>10, <1>12, <1>13, <1>14, <1>15 DEF Next, Main

(* At the start there is no command.                                       *)
LEMMA ConsoleInit == Init => ConsoleInv
<1> SUFFICES ASSUME Init PROVE ConsoleInv
  OBVIOUS
<1>1. Types
  BY TypesInit
<1>2. SlotsLast /\ NoneForgotten
  BY DEF Init, SlotsLast, NoneForgotten
<1>3. SignalledAwake
  BY DEF Init, SignalledAwake
<1>q. QED
  BY <1>1, <1>2, <1>3 DEF ConsoleInv

(* When the workers sleep and none is woken up, nothing is on its way.     *)
LEMMA ConsoleFollows == ConsoleInv => LastCommandSent
<1> SUFFICES ASSUME ConsoleInv, Settled, NEW w \in Workers, posted[w] # <<>>
             PROVE  /\ sent[w] # <<>> /\ Last(sent[w]) = Last(posted[w])
                    /\ status[w] = IF Last(sent[w]) = "restart" THEN "Alive" ELSE "Dead"
  BY DEF LastCommandSent
<1>1. mpc \in {"accept", "read"} /\ wpc[w] = "asleep" /\ ~worker_wakeup[w]
  BY DEF Settled
<1>2. ~Ended
  <2>1. w < num_workers + 1
    BY DEF Workers, AdminConsoleAssumption
  <2>2. ~(hpc > w)
    BY <1>1 DEF ConsoleInv, SignalledAwake
  <2>q. QED
    BY <2>1, <2>2 DEF Ended
<1>3. Served(w) /\ ~Coming(w)
  BY <1>1, <1>2 DEF ConsoleInv, NoneForgotten, Coming
<1>q. QED
  BY <1>3 DEF ConsoleInv, SlotsLast, Served, Delivered

(* No command is lost: unless the browser leaves before its commands are   *)
(* written, whenever the workers sleep again each server has been told the *)
(* last command given for it, wherever SIGINT arrives (waitingForWork and  *)
(* process_request of the console).                                        *)
THEOREM LastCommandAlways ==
  ASSUME ~Leaves
  PROVE  Spec => []LastCommandSent
<1>1. ConsoleInv /\ [Next]_vars => ConsoleInv'
  <2> SUFFICES ASSUME ConsoleInv, [Next]_vars PROVE ConsoleInv'
    OBVIOUS
  <2>1. Types' /\ SlotsLast' /\ SignalledAwake'
    BY TypesNext, SlotsNext, SignalledNext DEF ConsoleInv
  <2>2. NoneForgotten'
    BY NoneForgottenNext
  <2>q. QED
    BY <2>1, <2>2 DEF ConsoleInv
<1>2. Init => ConsoleInv
  BY ConsoleInit
<1>3. ConsoleInv => LastCommandSent
  BY ConsoleFollows
<1>q. QED
  BY <1>1, <1>2, <1>3, PTL DEF Spec
=============================================================================
