------------------------------ MODULE ThreadPool ------------------------------
(***************************************************************************)
(* The thread pool of the master (master/thread_pool.cc) and the accept    *)
(* loop that feeds it (main of master_server.cc).                          *)
(*                                                                         *)
(* The queue is a linked list of malloc'ed items under one mutex and one   *)
(* condition variable.  Termination is a flag that is set and broadcast    *)
(* without the mutex, then SIGUSR1 for every worker; no handler is         *)
(* installed for that signal, so one that reaches a thread still running   *)
(* kills the process.                                                      *)
(*                                                                         *)
(* Abstractions.  A connection is the number of its accept.  The handler   *)
(* is my_handler of module Master: it returns 0 when its connection ends,  *)
(* 1 only after the flag is set.  What runs with the mutex held and looks  *)
(* at the flag once is one step.                                           *)
(***************************************************************************)
EXTENDS Integers, Sequences, FiniteSets

CONSTANTS
  Workers,
  Cells,      \* addresses of malloc
  MaxConns    \* bound: connections

ASSUME ThreadPoolAssumption ==
  /\ MaxConns \in Nat
  /\ {"main", "signal", "nobody"} \intersect Workers = {}
  /\ 0 \notin Cells

NULL == 0

VARIABLES
  head, tail,       \* the ends of the list
  heap,             \* heap[a]: the item malloc has put at address a
  length,
  terminate_flag,
  mutex,            \* the worker that holds the mutex, or "nobody"
  pc,               \* pc[x]: where a worker, the accept loop or the SIGINT handler is
  fd,               \* fd[x]: the connection x has in hand
  killed,           \* SIGUSR1 has killed the process
  accepted,         \* number of connections accepted
  served            \* served[c]: the worker whose handler got connection c

listVars == <<head, tail, heap, length>>
vars == <<listVars, terminate_flag, mutex, pc, fd, killed, accepted, served>>

Threads == Workers \union {"main", "signal"}
q_item_t == [fd : 0 .. MaxConns, next : Cells \union {NULL}]
Free == [fd |-> 0, next |-> NULL]

\* init_thread_pool: the workers run before the first accept.
Init ==
  /\ head = NULL /\ tail = NULL /\ length = 0
  /\ heap = [a \in Cells |-> Free]
  /\ terminate_flag = FALSE
  /\ mutex = "nobody"
  /\ pc = [x \in Threads |-> CASE x \in Workers -> "loop" [] x = "main" -> "accept" [] x = "signal" -> "idle"]
  /\ fd = [x \in Threads |-> -1]
  /\ killed = FALSE
  /\ accepted = 0
  /\ served = [c \in 1 .. MaxConns |-> "nobody"]

\* Thread x, at a, goes on at b.
Goto(x, a, b) == ~killed /\ pc[x] = a /\ pc' = [pc EXCEPT ![x] = b]

-----------------------------------------------------------------------------
(* dequeue and process_request: the workers.                               *)

\* process_request: the test of the flag; dequeue waits for the mutex.
Loop(w) ==
  /\ Goto(w, "loop", IF terminate_flag THEN "exit" ELSE "lock")
  /\ UNCHANGED <<listVars, terminate_flag, mutex, fd, killed, accepted, served>>

Lock(w) ==
  /\ mutex = "nobody"
  /\ Goto(w, "lock", "test")
  /\ mutex' = w
  /\ UNCHANGED <<listVars, terminate_flag, fd, killed, accepted, served>>

\* The condition of the loop in dequeue, when it says to wait.
TestWait(w) ==
  /\ head = NULL /\ ~terminate_flag
  /\ Goto(w, "test", "wait")
  /\ UNCHANGED <<listVars, terminate_flag, mutex, fd, killed, accepted, served>>

\* pthread_cond_wait: the mutex is released and the worker sleeps.
Wait(w) ==
  /\ Goto(w, "wait", "asleep")
  /\ mutex' = "nobody"
  /\ UNCHANGED <<listVars, terminate_flag, fd, killed, accepted, served>>

\* pthread_cond_wait may also return without a broadcast.
SpuriousWake(w) ==
  /\ Goto(w, "asleep", "lock")
  /\ UNCHANGED <<listVars, terminate_flag, mutex, fd, killed, accepted, served>>

\* The rest of dequeue: tail keeps its value.
Pop(w) ==
  /\ head # NULL
  /\ Goto(w, "test", "handle")
  /\ fd' = [fd EXCEPT ![w] = heap[head].fd]
  /\ served' = [served EXCEPT ![heap[head].fd] = w]
  /\ head' = heap[head].next
  /\ heap' = [heap EXCEPT ![head] = Free]
  /\ length' = length - 1
  /\ mutex' = "nobody"
  /\ UNCHANGED <<tail, terminate_flag, killed, accepted>>

\* dequeue returns -1, which ends process_request.
PopNothing(w) ==
  /\ head = NULL /\ terminate_flag
  /\ Goto(w, "test", "exit")
  /\ mutex' = "nobody"
  /\ UNCHANGED <<listVars, terminate_flag, fd, killed, accepted, served>>

\* handle_fn: my_handler returns 0 when the connection has ended and 1 when
\* it sees the flag.
Handle(w) ==
  /\ \/ Goto(w, "handle", "loop")
     \/ terminate_flag /\ Goto(w, "handle", "exit")
  /\ fd' = [fd EXCEPT ![w] = -1]
  /\ UNCHANGED <<listVars, terminate_flag, mutex, killed, accepted, served>>

\* The flag is set whenever the loop ends (see ExitsFlagged), so that no
\* worker calls terminate_thread_pool.
Exit(w) ==
  /\ terminate_flag
  /\ Goto(w, "exit", "finished")
  /\ UNCHANGED <<listVars, terminate_flag, mutex, fd, killed, accepted, served>>

-----------------------------------------------------------------------------
(* main of master_server.cc and thread_pool_enqueue.                       *)

\* The flag is tested, then accept blocks until a connection comes.
Accept ==
  /\ accepted < MaxConns
  /\ accepted' = accepted + 1
  /\ fd' = [fd EXCEPT !["main"] = accepted + 1]
  /\ Goto("main", "accepting", "enqueue")
  /\ UNCHANGED <<listVars, terminate_flag, mutex, killed, served>>

TestLoop ==
  /\ Goto("main", "accept", IF terminate_flag THEN "join" ELSE "accepting")
  /\ UNCHANGED <<listVars, terminate_flag, mutex, fd, killed, accepted, served>>

\* accept fails, with EINTR after the SIGINT handler or for another reason.
AcceptFails ==
  /\ Goto("main", "accepting", "set")
  /\ UNCHANGED <<listVars, terminate_flag, mutex, fd, killed, accepted, served>>

\* pthread_cond_broadcast together with a step of x to b.
WakeAll(x, b) ==
  pc' = [y \in Threads |-> IF y = x THEN b ELSE IF pc[y] = "asleep" THEN "lock" ELSE pc[y]]

\* The item of thread_pool_enqueue at the end of the list, when "empty"
\* says whether there is one already.
Link(empty) ==
  \E a \in {b \in Cells : heap[b] = Free} :
    /\ heap' = [b \in Cells |-> CASE b = a -> [fd |-> fd["main"], next |-> NULL]
                                  [] b # a /\ b = tail /\ ~empty -> [heap[b] EXCEPT !.next = a]
                                  [] OTHER -> heap[b]]
    /\ head' = IF empty THEN a ELSE head
    /\ tail' = a

\* Mutants: nobody is woken up; the tail decides whether the list is empty;
\* the item is not counted.
EnqueueNoBroadcast ==
  /\ ~killed /\ pc["main"] = "enqueue" /\ mutex = "nobody"
  /\ Link(head = NULL)
  /\ length' = length + 1
  /\ pc' = [pc EXCEPT !["main"] = "accept"]
  /\ fd' = [fd EXCEPT !["main"] = -1]
  /\ UNCHANGED <<terminate_flag, mutex, killed, accepted, served>>

EnqueueAtTail ==
  /\ ~killed /\ pc["main"] = "enqueue" /\ mutex = "nobody"
  /\ Link(tail = NULL)
  /\ length' = length + 1
  /\ WakeAll("main", "accept")
  /\ fd' = [fd EXCEPT !["main"] = -1]
  /\ UNCHANGED <<terminate_flag, mutex, killed, accepted, served>>

\* thread_pool_enqueue, with the mutex held throughout.
Enqueue ==
  /\ ~killed /\ pc["main"] = "enqueue" /\ mutex = "nobody"
  /\ Link(head = NULL)
  /\ length' = length + 1
  /\ WakeAll("main", "accept")
  /\ fd' = [fd EXCEPT !["main"] = -1]
  /\ UNCHANGED <<terminate_flag, mutex, killed, accepted, served>>

\* join_all_threads returns, main returns.
Join ==
  /\ \A w \in Workers : pc[w] = "finished"
  /\ Goto("main", "join", "finished")
  /\ UNCHANGED <<listVars, terminate_flag, mutex, fd, killed, accepted, served>>

-----------------------------------------------------------------------------
(* terminate_thread_pool, called by the accept loop and by the handler of  *)
(* SIGINT.                                                                 *)

\* sig_handler.
Interrupt ==
  /\ pc["main"] # "finished"
  /\ Goto("signal", "idle", "set")
  /\ UNCHANGED <<listVars, terminate_flag, mutex, fd, killed, accepted, served>>

SetFlag(x) ==
  /\ Goto(x, "set", "broadcast")
  /\ terminate_flag' = TRUE
  /\ UNCHANGED <<listVars, mutex, fd, killed, accepted, served>>

\* Without the mutex: a worker at "wait" misses it.
Broadcast(x) ==
  /\ ~killed /\ pc[x] = "broadcast"
  /\ WakeAll(x, "kill")
  /\ UNCHANGED <<listVars, terminate_flag, mutex, fd, killed, accepted, served>>

\* Mutant: the signals interrupt nobody and kill nobody.
KillIgnored(x) ==
  /\ Goto(x, "kill", IF x = "main" THEN "join" ELSE "finished")
  /\ UNCHANGED <<listVars, terminate_flag, mutex, fd, killed, accepted, served>>

\* SIGUSR1 has its default action; a worker that has finished gets no signal.
Kill(x) ==
  /\ Goto(x, "kill", IF x = "main" THEN "join" ELSE "finished")
  /\ killed' = \E w \in Workers : pc[w] # "finished"
  /\ UNCHANGED <<listVars, terminate_flag, mutex, fd, accepted, served>>

Terminator(x) == SetFlag(x) \/ Broadcast(x) \/ Kill(x)

-----------------------------------------------------------------------------
Worker(w) ==
  Loop(w) \/ Lock(w) \/ TestWait(w) \/ Wait(w) \/ Pop(w) \/ PopNothing(w) \/ Exit(w)

Main == TestLoop \/ Enqueue \/ Join

Next ==
  \/ \E w \in Workers : Worker(w) \/ Handle(w) \/ SpuriousWake(w)
  \/ Main \/ Accept \/ AcceptFails
  \/ Interrupt
  \/ \E x \in {"main", "signal"} : Terminator(x)

\* Threads that can run do; a thread that waits for the mutex gets it in the
\* end.  Nothing is owed by peers: a connection may never end.
Fairness ==
  /\ \A w \in Workers : WF_vars(Loop(w) \/ TestWait(w) \/ Wait(w) \/ Pop(w) \/ PopNothing(w) \/ Exit(w))
  /\ \A w \in Workers : SF_vars(Lock(w))
  /\ WF_vars(TestLoop) /\ WF_vars(Join) /\ SF_vars(Enqueue)
  /\ \A x \in {"main", "signal"} : WF_vars(Terminator(x))

Spec == Init /\ [][Next]_vars /\ Fairness

-----------------------------------------------------------------------------
(* Properties.                                                             *)

Places == {"idle", "loop", "lock", "test", "wait", "asleep", "handle", "exit", "finished",
           "accept", "accepting", "enqueue", "join", "set", "broadcast", "kill"}

\* Type invariant: every pointer of the list is NULL or the address of a cell.
TypeOK ==
  /\ head \in Cells \union {NULL} /\ tail \in Cells \union {NULL}
  /\ heap \in [Cells -> q_item_t]
  /\ length \in Nat
  /\ terminate_flag \in BOOLEAN /\ killed \in BOOLEAN
  /\ mutex \in Workers \union {"nobody"}
  /\ pc \in [Threads -> Places]
  /\ fd \in [Threads -> -1 .. MaxConns]
  /\ accepted \in 0 .. MaxConns
  /\ served \in [1 .. MaxConns -> Workers \union {"nobody"}]

\* One worker holds the mutex, and it is the one between its test and its wait.
MutexOwner == \A w \in Workers : (pc[w] \in {"test", "wait"}) <=> (mutex = w)

\* No worker sleeps while a connection waits: the test under the mutex, the
\* release by pthread_cond_wait and the broadcast of thread_pool_enqueue
\* leave no gap in which the wake-up for a connection is lost.
NoSleeper == \A w \in Workers : pc[w] \in {"wait", "asleep"} => head = NULL

\* A worker leaves its loop only on a termination, so its own call of
\* terminate_thread_pool (thread_pool.cc:81) never happens.
ExitsFlagged == \A w \in Workers : pc[w] \in {"exit", "finished"} => terminate_flag

\* The cells c are those of the list: each points to the next, the last nowhere.
Linked(c) ==
  /\ head = IF c = <<>> THEN NULL ELSE c[1]
  /\ \A k \in 1 .. Len(c) : heap[c[k]].next = IF k = Len(c) THEN NULL ELSE c[k + 1]

Chains == UNION {[1 .. n -> Cells] : n \in 0 .. MaxConns}

ListCells == CHOOSE c \in Chains : Linked(c)

\* The connections of the list, from head on.
List == [k \in 1 .. Len(ListCells) |-> heap[ListCells[k]].fd]

\* The list implements a queue: connections reach the workers once each and
\* in the order of their accepts, although tail is left dangling whenever
\* the list empties and malloc may give its cell out again.  A connection
\* counts as enqueued from its accept on.
InHand == IF pc["main"] = "enqueue" THEN <<fd["main"]>> ELSE <<>>

Queue == INSTANCE WorkQueue
           WITH queue <- List \o InHand, count <- accepted

\* The pool implements WorkQueue: first accepted, first served, each once.
Fifo == Queue!Spec

\* A termination ends: although a worker between its test and its wait
\* misses the broadcast, and one whose client stays silent never looks at
\* the flag, the workers are gone in the end.  (The accept loop need not be:
\* a SIGINT between its test and accept leaves it blocked in accept.)
TerminationEnds == terminate_flag ~> (killed \/ \A w \in Workers : pc[w] = "finished")

-----------------------------------------------------------------------------
(* Not among the runs: what the source says of the program and the code    *)
(* does not keep; README.md, "Departures", has the setting for each.       *)

\* What thread_pool.cc:62 says of the signals, "interrupt the blocking
\* system calls": the threads live to see the flag.
Interrupts == ~killed
=============================================================================
