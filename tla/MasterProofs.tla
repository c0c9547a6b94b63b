----------------------------- MODULE MasterProofs -----------------------------
(***************************************************************************)
(* Proofs about Master, for any servers, front ends, descriptors and       *)
(* threads, where connections end without an error, and about its          *)
(* ThreadPool, for any set of workers and any memory.                      *)
(*                                                                         *)
(* The pool.  A worker that waits or sleeps has seen the list empty        *)
(* with the mutex in its hand (MutexOwner), and only thread_pool_enqueue   *)
(* fills the list: it runs when nobody has the mutex, so that no worker is *)
(* between its test and its wait, and its broadcast leaves no sleeper.     *)
(*                                                                         *)
(* The list.  Pointers from head lead along one chain of cells (OneChain), *)
(* whose connections are the last ones accepted, without a gap (IsList):   *)
(* so a cell of the list is never free, no two cells of it hold the same   *)
(* connection, and tail is its last cell unless it is empty.  Taking the   *)
(* first cell and linking a new last one keep this, and are the steps of   *)
(* WorkQueue.                                                              *)
(*                                                                         *)
(* The master.  sock2servid keeps entries of descriptors that are closed   *)
(* and used again, but a storage server writes its own over them before    *)
(* its handler waits for it (OwnEntry).  So the handler that sees a        *)
(* registered server end marks that server, and the last handler of a      *)
(* server does not leave it Alive.                                         *)
(***************************************************************************)
EXTENDS ThreadPool, Master, TLAPS, WellFoundedInduction, SequenceTheorems

PcOK == pc \in [Threads -> Places]

\* The inductive invariant.
IInv == PcOK /\ MutexOwner /\ NoSleeper /\ ExitsFlagged

\* The initial states satisfy it: every worker is at the top of its loop.
LEMMA InitIInv == Init => IInv
<1> SUFFICES ASSUME Init PROVE IInv
  OBVIOUS
<1>1. \A w \in Workers : pc[w] = "loop" /\ w # "nobody"
  BY ThreadPoolAssumption DEF Init, Threads
<1>2. PcOK
  BY ThreadPoolAssumption DEF Init, PcOK, Threads, Places
<1> QED
  BY <1>1, <1>2 DEF Init, IInv, MutexOwner, NoSleeper, ExitsFlagged

\* A thread's own step changes its place and no other.
LEMMA GotoFact ==
  ASSUME PcOK, NEW x \in Threads, NEW a, NEW b \in Places, Goto(x, a, b)
  PROVE  /\ PcOK' /\ pc[x] = a /\ pc'[x] = b
         /\ \A y \in Threads : y # x => pc'[y] = pc[y]
BY DEF PcOK, Goto

\* A broadcast moves the sleepers to the mutex.
LEMMA WakeFact ==
  ASSUME PcOK, NEW x \in Threads \ Workers, NEW b \in Places, WakeAll(x, b)
  PROVE  /\ PcOK'
         /\ \A w \in Workers : pc'[w] = IF pc[w] = "asleep" THEN "lock" ELSE pc[w]
BY DEF PcOK, WakeAll, Threads, Places

\* A step of a worker keeps the invariant.
LEMMA WorkerStep ==
  ASSUME IInv, NEW w \in Workers, Worker(w) \/ Handle(w) \/ SpuriousWake(w)
  PROVE  IInv'
<1> USE DEF IInv
<1>0. w \in Threads /\ "nobody" \notin Workers /\ Workers \subseteq Threads
  BY ThreadPoolAssumption DEF Threads
<1>1. CASE Loop(w)
  <2>1. PICK b \in {"exit", "lock"} : Goto(w, "loop", b) /\ (b = "exit" => terminate_flag)
    BY <1>1 DEF Loop
  <2> QED
    BY <1>0, <1>1, <2>1, GotoFact DEF Loop, listVars, MutexOwner, NoSleeper, ExitsFlagged, Places
<1>2. CASE Lock(w)
  <2>1. PcOK' /\ pc[w] = "lock" /\ pc'[w] = "test" /\ \A v \in Workers : v # w => pc'[v] = pc[v]
    BY <1>0, <1>2, GotoFact DEF Lock, Places
  <2>2. MutexOwner'
    BY <1>0, <1>2, <2>1 DEF Lock, MutexOwner
  <2>3. NoSleeper'
    BY <1>2, <2>1 DEF Lock, listVars, NoSleeper
  <2>4. ExitsFlagged'
    BY <1>2, <2>1 DEF Lock, listVars, ExitsFlagged
  <2> QED
    BY <2>1, <2>2, <2>3, <2>4
<1>3. CASE TestWait(w)
  BY <1>0, <1>3, GotoFact DEF TestWait, listVars, MutexOwner, NoSleeper, ExitsFlagged, Places
<1>4. CASE Wait(w)
  <2>1. PcOK' /\ pc[w] = "wait" /\ pc'[w] = "asleep" /\ \A v \in Workers : v # w => pc'[v] = pc[v]
    BY <1>0, <1>4, GotoFact DEF Wait, Places
  <2>2. MutexOwner'
    BY <1>0, <1>4, <2>1 DEF Wait, MutexOwner
  <2>3. NoSleeper'
    BY <1>4, <2>1 DEF Wait, listVars, NoSleeper
  <2>4. ExitsFlagged'
    BY <1>4, <2>1 DEF Wait, listVars, ExitsFlagged
  <2> QED
    BY <2>1, <2>2, <2>3, <2>4
<1>5. CASE Pop(w)
  <2>1. PcOK' /\ pc[w] = "test" /\ pc'[w] = "handle" /\ \A v \in Workers : v # w => pc'[v] = pc[v]
    BY <1>0, <1>5, GotoFact DEF Pop, Places
  <2>2. MutexOwner'
    BY <1>0, <1>5, <2>1 DEF Pop, MutexOwner
  <2>3. NoSleeper'
    BY <1>5, <2>1 DEF Pop, listVars, NoSleeper
  <2>4. ExitsFlagged'
    BY <1>5, <2>1 DEF Pop, listVars, ExitsFlagged
  <2> QED
    BY <2>1, <2>2, <2>3, <2>4
<1>6. CASE PopNothing(w)
  <2>1. PcOK' /\ pc[w] = "test" /\ pc'[w] = "exit" /\ \A v \in Workers : v # w => pc'[v] = pc[v]
    BY <1>0, <1>6, GotoFact DEF PopNothing, Places
  <2>2. MutexOwner'
    BY <1>0, <1>6, <2>1 DEF PopNothing, MutexOwner
  <2>3. NoSleeper'
    BY <1>6, <2>1 DEF PopNothing, listVars, NoSleeper
  <2>4. ExitsFlagged'
    BY <1>6, <2>1 DEF PopNothing, listVars, ExitsFlagged
  <2> QED
    BY <2>1, <2>2, <2>3, <2>4
<1>7. CASE Exit(w)
  BY <1>0, <1>7, GotoFact DEF Exit, listVars, MutexOwner, NoSleeper, ExitsFlagged, Places
<1>8. CASE Handle(w)
  <2>1. PICK b \in {"loop", "exit"} : Goto(w, "handle", b) /\ (b = "exit" => terminate_flag)
    BY <1>8 DEF Handle
  <2> QED
    BY <1>0, <1>8, <2>1, GotoFact DEF Handle, listVars, MutexOwner, NoSleeper, ExitsFlagged, Places
<1>9. CASE SpuriousWake(w)
  BY <1>0, <1>9, GotoFact DEF SpuriousWake, listVars, MutexOwner, NoSleeper, ExitsFlagged, Places
<1> QED
  BY <1>1, <1>2, <1>3, <1>4, <1>5, <1>6, <1>7, <1>8, <1>9 DEF Worker

\* A step that neither moves a worker, nor fills the list, nor takes the
\* mutex, nor takes the flag back keeps the invariant.
LEMMA Frame ==
  ASSUME IInv, PcOK', \A w \in Workers : pc'[w] = pc[w],
         head' = head, mutex' = mutex, terminate_flag => terminate_flag'
  PROVE  IInv'
BY DEF IInv, MutexOwner, NoSleeper, ExitsFlagged

\* A step of the accept loop or of the SIGINT handler keeps the invariant.
LEMMA OtherStep ==
  ASSUME IInv, Main \/ Accept \/ AcceptFails \/ Interrupt \/ \E x \in {"main", "signal"} : Terminator(x)
  PROVE  IInv'
<1> USE DEF IInv
<1>0. Workers \subseteq Threads /\ {"main", "signal"} \subseteq Threads \ Workers
  BY ThreadPoolAssumption DEF Threads
<1>a. ASSUME NEW x \in {"main", "signal"}, NEW a, NEW b \in Places, Goto(x, a, b)
      PROVE  PcOK' /\ \A w \in Workers : pc'[w] = pc[w]
  BY <1>0, <1>a, GotoFact
<1>1. CASE TestLoop
  <2>1. PICK b \in Places : Goto("main", "accept", b)
    BY <1>1 DEF TestLoop, Places
  <2> QED
    BY <1>1, <1>a, <2>1, Frame DEF TestLoop, listVars, Places
<1>2. CASE Enqueue
  <2>1. /\ PcOK' /\ mutex = "nobody" /\ mutex' = mutex /\ terminate_flag' = terminate_flag
        /\ \A w \in Workers : pc'[w] = IF pc[w] = "asleep" THEN "lock" ELSE pc[w]
    BY <1>0, <1>2, WakeFact DEF Enqueue, Places
  <2>2. \A w \in Workers : pc[w] \notin {"test", "wait"}
    BY <2>1, ThreadPoolAssumption DEF MutexOwner
  <2> QED
    BY <2>1, <2>2 DEF MutexOwner, NoSleeper, ExitsFlagged
<1>3. CASE Join
  BY <1>3, <1>a, Frame DEF Join, listVars, Places
<1>4. CASE Accept
  BY <1>4, <1>a, Frame DEF Accept, listVars, Places
<1>5. CASE AcceptFails
  BY <1>5, <1>a, Frame DEF AcceptFails, listVars, Places
<1>6. CASE Interrupt
  BY <1>6, <1>a, Frame DEF Interrupt, listVars, Places
<1>7. ASSUME NEW x \in {"main", "signal"}, Terminator(x) PROVE IInv'
  <2>1. CASE SetFlag(x)
    BY <2>1, <1>a, Frame DEF SetFlag, listVars, Places
  <2>2. CASE Broadcast(x)
    <3>1. /\ PcOK' /\ mutex' = mutex /\ terminate_flag' = terminate_flag /\ head' = head
          /\ \A w \in Workers : pc'[w] = IF pc[w] = "asleep" THEN "lock" ELSE pc[w]
      BY <1>0, <2>2, WakeFact DEF Broadcast, listVars, Places
    <3> QED
      BY <3>1 DEF MutexOwner, NoSleeper, ExitsFlagged
  <2>3. CASE Kill(x)
    <3>1. PICK b \in Places : Goto(x, "kill", b)
      BY <2>3 DEF Kill, Places
    <3> QED
      BY <2>3, <3>1, <1>a, Frame DEF Kill, listVars, Places
  <2> QED
    BY <1>7, <2>1, <2>2, <2>3 DEF Terminator
<1> QED
  BY <1>1, <1>2, <1>3, <1>4, <1>5, <1>6, <1>7 DEF Main

\* Every step keeps the invariant.
LEMMA NextIInv == IInv /\ [Next]_vars => IInv'
<1> SUFFICES ASSUME IInv, [Next]_vars PROVE IInv'
  OBVIOUS
<1>1. CASE Next
  BY <1>1, WorkerStep, OtherStep DEF Next
<1>2. CASE UNCHANGED vars
  BY <1>2 DEF vars, listVars, IInv, PcOK, MutexOwner, NoSleeper, ExitsFlagged
<1> QED
  BY <1>1, <1>2

\* No wake-up for a connection is lost: in every reachable state, a worker
\* that waits or sleeps means that the list is empty (thread_pool.cc:42-56
\* against 23-36).
THEOREM NoSleeperAlways == Spec => []NoSleeper
<1>1. IInv => NoSleeper
  BY DEF IInv
<1> QED
  BY <1>1, InitIInv, NextIInv, PTL DEF Spec

\* A worker ends only after a termination: the call of
\* terminate_thread_pool at thread_pool.cc:81 is never made.
THEOREM ExitsFlaggedAlways == Spec => []ExitsFlagged
<1>1. IInv => ExitsFlagged
  BY DEF IInv
<1> QED
  BY <1>1, InitIInv, NextIInv, PTL DEF Spec

-----------------------------------------------------------------------------
(* The list and the queue.                                                 *)

\* The connections that thread_pool_enqueue has linked so far.
Sent == IF pc["main"] = "enqueue" THEN accepted - 1 ELSE accepted

\* The cells c make up the list: the connections in it are the last ones
\* sent, without a gap, tail is its last cell and length counts it.
IsList(c) ==
  /\ Linked(c)
  /\ Len(c) <= Sent
  /\ \A k \in 1 .. Len(c) : heap[c[k]].fd = Sent - Len(c) + k
  /\ c # <<>> => tail = c[Len(c)]
  /\ length = Len(c)

\* The connection that thread_pool_enqueue is called with is the last one.
Called == pc["main"] = "enqueue" => accepted >= 1 /\ fd["main"] = accepted

Types ==
  /\ head \in Cells \union {NULL} /\ tail \in Cells \union {NULL}
  /\ heap \in [Cells -> q_item_t]
  /\ terminate_flag \in BOOLEAN /\ killed \in BOOLEAN
  /\ mutex \in Workers \union {"nobody"}
  /\ PcOK
  /\ fd \in [Threads -> -1 .. MaxConns]
  /\ accepted \in 0 .. MaxConns
  /\ served \in [1 .. MaxConns -> Workers \union {"nobody"}]

ListInv == Types /\ Called /\ \E c \in Seq(Cells) : IsList(c)

\* A nonempty set of naturals has a least element.
LEMMA Smallest ==
  ASSUME NEW T \in SUBSET Nat, T # {}
  PROVE  \E m \in T : \A k \in T : m <= k
<1>1. \E x \in T : \A y \in T : ~ (<<y, x>> \in OpToRel(<, Nat))
  <2>1. IsWellFoundedOn(OpToRel(<, Nat), Nat)
    BY NatLessThanWellFounded
  <2> HIDE DEF OpToRel
  <2> QED
    BY <2>1, WFMin
<1>2. PICK x \in T : \A y \in T : ~ (<<y, x>> \in OpToRel(<, Nat))
  BY <1>1
<1>3. \A y \in T : ~ (y < x)
  BY <1>2 DEF OpToRel
<1> QED
  BY <1>3

\* Pointers lead along one chain of cells only.
LEMMA OneChain ==
  ASSUME NEW c \in Seq(Cells), NEW d \in Seq(Cells), Linked(c), Linked(d)
  PROVE  c = d
<1>0. Len(c) \in Nat /\ Len(d) \in Nat /\ NULL \notin Cells
  BY ThreadPoolAssumption DEF NULL
<1>1. \A k \in 1 .. Len(c) : k <= Len(d) => c[k] = d[k]
  <2> DEFINE T == {k \in 1 .. Len(c) : k <= Len(d) /\ c[k] # d[k]}
  <2> SUFFICES ASSUME T # {} PROVE FALSE
    OBVIOUS
  <2>1. T \in SUBSET Nat
    BY <1>0
  <2> HIDE DEF T
  <2>2. PICK m \in T : \A k \in T : m <= k
    BY <2>1, Smallest
  <2>3. m \in 1 .. Len(c) /\ m <= Len(d) /\ c[m] # d[m]
    BY <2>2 DEF T
  <2>4. CASE m = 1
    <3>1. c # <<>> /\ d # <<>>
      BY <1>0, <2>3
    <3> QED
      BY <2>3, <2>4, <3>1 DEF Linked
  <2>5. CASE m # 1
    <3>1. m - 1 \in 1 .. Len(c) /\ m - 1 \in 1 .. Len(d) /\ m - 1 < m /\ m - 1 # Len(c) /\ m - 1 # Len(d)
          /\ (m - 1) + 1 = m
      BY <1>0, <2>3, <2>5
    <3>2. m - 1 \notin T
      BY <2>2, <2>3, <3>1
    <3>3. c[m - 1] = d[m - 1]
      BY <3>1, <3>2 DEF T
    <3>4. heap[c[m - 1]].next = c[m] /\ heap[d[m - 1]].next = d[m]
      BY <3>1 DEF Linked
    <3> QED
      BY <2>3, <3>3, <3>4
  <2> QED
    BY <2>4, <2>5
<1>2. ASSUME NEW p \in Seq(Cells), NEW q \in Seq(Cells), Linked(p), Linked(q), Len(p) < Len(q),
             \A k \in 1 .. Len(p) : p[k] = q[k]
      PROVE  FALSE
  <2>0. Len(p) \in Nat /\ Len(q) \in Nat /\ \A k \in 1 .. Len(q) : q[k] \in Cells
    OBVIOUS
  <2>1. CASE p = <<>>
    <3>1. q # <<>> /\ q[1] \in Cells
      BY <1>2, <2>0
    <3> QED
      BY <1>0, <1>2, <2>1, <3>1 DEF Linked
  <2>2. CASE p # <<>>
    <3> DEFINE n == Len(p)
    <3>1. n \in 1 .. Len(p) /\ n \in 1 .. Len(q) /\ n # Len(q) /\ n + 1 \in 1 .. Len(q)
      BY <1>2, <2>0, <2>2
    <3>2. heap[p[n]].next = NULL /\ heap[q[n]].next = q[n + 1]
      BY <1>2, <3>1 DEF Linked
    <3> QED
      BY <1>0, <1>2, <2>0, <3>1, <3>2
  <2> QED
    BY <2>1, <2>2
<1>3. ~ (Len(c) < Len(d))
  BY <1>0, <1>1, <1>2
<1>4. ~ (Len(d) < Len(c))
  BY <1>0, <1>1, <1>2
<1>5. Len(c) = Len(d)
  BY <1>0, <1>3, <1>4
<1> QED
  BY <1>0, <1>1, <1>5

\* What List is, given the cells of the list.
LEMMA ListIs ==
  ASSUME NEW c \in Seq(Cells), Linked(c), Len(c) <= MaxConns
  PROVE  List = [k \in 1 .. Len(c) |-> heap[c[k]].fd]
<1>1. c \in Chains
  <2>1. Len(c) \in 0 .. MaxConns /\ c \in [1 .. Len(c) -> Cells]
    BY ThreadPoolAssumption
  <2> QED
    BY <2>1 DEF Chains
<1>2. ListCells \in Chains /\ Linked(ListCells)
  BY <1>1 DEF ListCells
<1>3. ListCells \in Seq(Cells)
  <2>1. PICK n \in 0 .. MaxConns : ListCells \in [1 .. n -> Cells]
    BY <1>2 DEF Chains
  <2> QED
    BY <2>1
<1>4. ListCells = c
  BY <1>2, <1>3, OneChain
<1> QED
  BY <1>4 DEF List

\* The queue of the accept loop: the last m connections, oldest first.
Last(a, m) == [k \in 1 .. m |-> a - m + k]

\* Numbers in a row, and the next one.
LEMMA Snoc ==
  ASSUME NEW n \in Nat, NEW a \in Nat
  PROVE  [k \in 1 .. n |-> a - 1 - n + k] \o <<a>> = [k \in 1 .. n + 1 |-> a - (n + 1) + k]
<1> DEFINE p == [k \in 1 .. n |-> a - 1 - n + k]
           q == [k \in 1 .. n + 1 |-> a - (n + 1) + k]
<1>1. p \in Seq(Int) /\ Len(p) = n /\ \A k \in 1 .. n : p[k] = a - 1 - n + k
  OBVIOUS
<1>2. q \in Seq(Int) /\ Len(q) = n + 1 /\ \A k \in 1 .. n + 1 : q[k] = a - (n + 1) + k
  OBVIOUS
<1> DEFINE l == <<a>>
<1>3. l \in Seq(Int) /\ Len(l) = 1 /\ l[1] = a
  OBVIOUS
<1> HIDE DEF p, q, l
<1>4. /\ p \o l \in Seq(Int) /\ Len(p \o l) = n + 1
      /\ \A k \in 1 .. n + 1 : (p \o l)[k] = IF k <= n THEN p[k] ELSE l[k - n]
  <2>1. /\ p \o l \in Seq(Int) /\ Len(p \o l) = Len(p) + Len(l)
        /\ \A k \in 1 .. Len(p) + Len(l) : (p \o l)[k] = IF k <= Len(p) THEN p[k] ELSE l[k - Len(p)]
    BY <1>1, <1>3, ConcatProperties
  <2> QED
    BY <1>1, <1>3, <2>1
<1>5. \A k \in 1 .. n + 1 : (p \o l)[k] = q[k]
  BY <1>1, <1>2, <1>3, <1>4
<1>6. p \o l = q
  <2>1. p \o l \in Seq(Int) /\ q \in Seq(Int) /\ Len(p \o l) = Len(q)
    BY <1>2, <1>4
  <2>2. \A k \in 1 .. Len(p \o l) : (p \o l)[k] = q[k]
    BY <1>4, <1>5
  <2> QED
    BY <2>1, <2>2, SeqEqual
<1> QED
  BY <1>6 DEF p, q, l

\* What the mapping gives, in terms of the cells of the list.
LEMMA QueueIs ==
  ASSUME Types, Called, NEW c \in Seq(Cells), IsList(c)
  PROVE  /\ List = Last(Sent, Len(c))
         /\ List \o InHand = Last(accepted, accepted - Sent + Len(c))
<1>0. Len(c) \in Nat /\ accepted \in Nat /\ accepted <= MaxConns /\ Sent \in Int /\ Sent <= accepted
  BY ThreadPoolAssumption DEF Types, Sent
<1>1. List = [k \in 1 .. Len(c) |-> heap[c[k]].fd]
  <2>1. Len(c) <= MaxConns
    BY <1>0, ThreadPoolAssumption DEF IsList
  <2> QED
    BY <2>1, ListIs DEF IsList
<1>2. List = Last(Sent, Len(c))
  BY <1>1 DEF IsList, Last
<1>3. CASE pc["main"] = "enqueue"
  <2>1. InHand = <<accepted>> /\ Sent = accepted - 1
    BY <1>3 DEF InHand, Called, Sent
  <2> DEFINE n == Len(c)
             a == accepted
  <2>2. /\ n \in Nat /\ a \in Nat /\ List = [k \in 1 .. n |-> a - 1 - n + k]
    BY <1>0, <1>2, <2>1 DEF Last
  <2>3. accepted - Sent + Len(c) = n + 1
    BY <1>0, <2>1
  <2> HIDE DEF n, a
  <2>4. [k \in 1 .. n |-> a - 1 - n + k] \o <<a>> = [k \in 1 .. n + 1 |-> a - (n + 1) + k]
    BY <2>2, Snoc
  <2> QED
    BY <1>2, <2>1, <2>2, <2>3, <2>4 DEF Last, a
<1>4. CASE pc["main"] # "enqueue"
  <2>1. InHand = <<>> /\ Sent = accepted
    BY <1>4 DEF InHand, Sent
  <2>2. List \in Seq(Int)
    BY <1>0, <1>2 DEF Last
  <2>3. List \o <<>> = List
    BY <2>2
  <2>4. accepted - Sent + Len(c) = Len(c)
    BY <1>0, <2>1
  <2> QED
    BY <1>2, <2>1, <2>3, <2>4
<1> QED
  BY <1>2, <1>3, <1>4

\* A step that leaves the list alone.
LEMMA ListKept ==
  ASSUME NEW c \in Seq(Cells), IsList(c), UNCHANGED listVars, Sent' = Sent
  PROVE  IsList(c)'
BY DEF IsList, Linked, listVars

\* A step of a worker, other than taking a connection, leaves the list and
\* the accept loop alone.
LEMMA WorkerBeside ==
  ASSUME Types, NEW w \in Workers, Worker(w) \/ Handle(w) \/ SpuriousWake(w), ~ Pop(w)
  PROVE  /\ Types' /\ UNCHANGED <<listVars, accepted, served>>
         /\ pc'["main"] = pc["main"] /\ fd'["main"] = fd["main"]
<1>0. w \in Threads /\ "main" \in Threads /\ w # "main" /\ MaxConns \in Nat
  BY ThreadPoolAssumption DEF Threads
<1>1. PICK a, b \in Places : Goto(w, a, b)
  BY DEF Worker, Handle, SpuriousWake, Loop, Lock, TestWait, Wait, PopNothing, Exit, Places
<1>2. PcOK' /\ pc'["main"] = pc["main"]
  BY <1>0, <1>1, GotoFact DEF Types
<1>3. UNCHANGED <<listVars, accepted, served, terminate_flag, killed>>
  BY DEF Worker, Handle, SpuriousWake, Loop, Lock, TestWait, Wait, PopNothing, Exit
<1>4. mutex' \in Workers \union {"nobody"}
  BY DEF Types, Worker, Handle, SpuriousWake, Loop, Lock, TestWait, Wait, PopNothing, Exit
<1>5. fd' = fd \/ fd' = [fd EXCEPT ![w] = -1]
  BY DEF Worker, Handle, SpuriousWake, Loop, Lock, TestWait, Wait, PopNothing, Exit
<1>6. fd' \in [Threads -> -1 .. MaxConns] /\ fd'["main"] = fd["main"]
  BY <1>0, <1>5 DEF Types
<1> QED
  BY <1>2, <1>3, <1>4, <1>6 DEF Types, listVars

\* A step of the accept loop or of the SIGINT handler, other than accepting
\* and queueing a connection, leaves the list alone.
LEMMA OtherBeside ==
  ASSUME Types,
         TestLoop \/ Join \/ AcceptFails \/ Interrupt \/ \E x \in {"main", "signal"} : Terminator(x)
  PROVE  /\ Types' /\ UNCHANGED <<listVars, accepted, served, fd>>
         /\ (pc["main"] = "enqueue") <=> (pc'["main"] = "enqueue")
<1>0. /\ {"main", "signal"} \subseteq Threads \ Workers
  BY ThreadPoolAssumption DEF Threads
<1>1. UNCHANGED <<listVars, accepted, served, fd, mutex>>
  BY DEF TestLoop, Join, AcceptFails, Interrupt, Terminator, SetFlag, Broadcast, Kill
<1>2. terminate_flag' \in BOOLEAN /\ killed' \in BOOLEAN
  BY DEF Types, TestLoop, Join, AcceptFails, Interrupt, Terminator, SetFlag, Broadcast, Kill
<1>3. CASE \E x \in {"main", "signal"} : Broadcast(x)
  <2>1. PICK x \in {"main", "signal"} : Broadcast(x)
    BY <1>3
  <2>2. PcOK'
    BY <1>0, <2>1, WakeFact DEF Broadcast, Types, Places
  <2>3. (pc["main"] = "enqueue") <=> (pc'["main"] = "enqueue")
    BY <1>0, <2>1 DEF Broadcast, WakeAll
  <2> QED
    BY <1>1, <1>2, <2>2, <2>3 DEF Types, listVars
<1>4. CASE ~ \E x \in {"main", "signal"} : Broadcast(x)
  <2>1. PICK x \in {"main", "signal"}, a, b \in Places : Goto(x, a, b) /\ a # "enqueue" /\ b # "enqueue"
    BY <1>4 DEF TestLoop, Join, AcceptFails, Interrupt, Terminator, SetFlag, Kill, Places
  <2>2. PcOK' /\ ((pc["main"] = "enqueue") <=> (pc'["main"] = "enqueue"))
    BY <1>0, <2>1, GotoFact DEF Types
  <2> QED
    BY <1>1, <1>2, <2>2 DEF Types, listVars
<1> QED
  BY <1>3, <1>4

\* accept returns a connection.
LEMMA AcceptStep ==
  ASSUME Types, Accept
  PROVE  /\ Types' /\ Called' /\ UNCHANGED <<listVars, served>> /\ accepted' = accepted + 1
         /\ accepted < MaxConns /\ Sent' = Sent /\ Sent = accepted
<1>0. "main" \in Threads \ Workers /\ MaxConns \in Nat
  BY ThreadPoolAssumption DEF Threads
<1>1. /\ accepted < MaxConns /\ accepted' = accepted + 1 /\ fd' = [fd EXCEPT !["main"] = accepted + 1]
      /\ Goto("main", "accepting", "enqueue")
      /\ UNCHANGED <<listVars, terminate_flag, mutex, killed, served>>
  BY DEF Accept
<1>2. PcOK' /\ pc["main"] = "accepting" /\ pc'["main"] = "enqueue"
  BY <1>0, <1>1, GotoFact DEF Types, Places
<1>3. accepted \in Nat /\ accepted + 1 \in 1 .. MaxConns
  BY <1>0, <1>1 DEF Types
<1>4. fd' \in [Threads -> -1 .. MaxConns] /\ fd'["main"] = accepted'
  BY <1>0, <1>1, <1>3 DEF Types
<1>5. Types'
  BY <1>1, <1>2, <1>3, <1>4 DEF Types, listVars
<1> QED
  BY <1>1, <1>2, <1>3, <1>4, <1>5 DEF Called, Sent

\* A worker takes the first connection of the list.
LEMMA PopStep ==
  ASSUME Types, NEW w \in Workers, Pop(w), NEW c \in Seq(Cells), IsList(c)
  PROVE  /\ Types' /\ pc'["main"] = pc["main"] /\ fd'["main"] = fd["main"] /\ accepted' = accepted
         /\ Len(c) >= 1 /\ Tail(c) \in Seq(Cells) /\ Len(Tail(c)) = Len(c) - 1
         /\ IsList(Tail(c))'
         /\ served' = [served EXCEPT ![Sent - Len(c) + 1] = w]
<1> DEFINE n == Len(c)
           d == Tail(c)
<1>0. /\ w \in Threads /\ "main" \in Threads /\ w # "main" /\ MaxConns \in Nat
      /\ NULL \notin Cells /\ n \in Nat
      /\ accepted \in Nat /\ Sent \in Int /\ Sent <= accepted /\ accepted <= MaxConns
  BY ThreadPoolAssumption DEF Threads, NULL, Types, Sent
<1>1. /\ head # NULL /\ Goto(w, "test", "handle")
      /\ fd' = [fd EXCEPT ![w] = heap[head].fd]
      /\ served' = [served EXCEPT ![heap[head].fd] = w]
      /\ head' = heap[head].next
      /\ heap' = [heap EXCEPT ![head] = Free]
      /\ length' = length - 1
      /\ mutex' = "nobody"
      /\ UNCHANGED <<tail, terminate_flag, killed, accepted>>
  BY DEF Pop
<1>2. PcOK' /\ pc'["main"] = pc["main"]
  BY <1>0, <1>1, GotoFact DEF Types, Places
<1>3. /\ c # <<>> /\ n >= 1 /\ head = c[1]
      /\ \A k \in 1 .. n : c[k] \in Cells
      /\ \A k \in 1 .. n : heap[c[k]].next = IF k = n THEN NULL ELSE c[k + 1]
      /\ \A k \in 1 .. n : heap[c[k]].fd = Sent - n + k
      /\ n <= Sent /\ tail = c[n] /\ length = n
  <2>1. head = (IF c = <<>> THEN NULL ELSE c[1]) /\ c # <<>>
    BY <1>1 DEF IsList, Linked
  <2>2. n >= 1
    BY <1>0, <2>1
  <2> QED
    BY <2>1, <2>2 DEF IsList, Linked
<1>4. /\ d \in Seq(Cells) /\ Len(d) = n - 1 /\ \A k \in 1 .. n - 1 : d[k] = c[k + 1]
  BY <1>3
<1> HIDE DEF n, d
<1>5. head \in Cells /\ heap[head].fd = Sent - n + 1 /\ Sent - n + 1 \in 1 .. MaxConns
  BY <1>0, <1>3
<1>6. Sent' = Sent
  BY <1>1, <1>2 DEF Sent
<1>7. Types'
  <2>1. heap' \in [Cells -> q_item_t] /\ head' \in Cells \union {NULL}
    <3>1. Free \in q_item_t
      BY <1>0 DEF Free, q_item_t
    <3>2. heap[head] \in q_item_t
      BY <1>5 DEF Types
    <3> QED
      BY <1>1, <3>1, <3>2 DEF Types, q_item_t
  <2>2. fd' \in [Threads -> -1 .. MaxConns]
    BY <1>0, <1>1, <1>5 DEF Types
  <2>3. served' \in [1 .. MaxConns -> Workers \union {"nobody"}]
    BY <1>1 DEF Types
  <2> QED
    BY <1>1, <1>2, <2>1, <2>2, <2>3 DEF Types
<1>8. \A k \in 1 .. n - 1 : /\ k + 1 \in 1 .. n /\ d[k] = c[k + 1] /\ heap'[d[k]] = heap[c[k + 1]]
  <2> SUFFICES ASSUME NEW k \in 1 .. n - 1
               PROVE  k + 1 \in 1 .. n /\ d[k] = c[k + 1] /\ heap'[d[k]] = heap[c[k + 1]]
    OBVIOUS
  <2>1. k + 1 \in 1 .. n /\ d[k] = c[k + 1] /\ k + 1 # 1 /\ 1 \in 1 .. n
    BY <1>0, <1>3, <1>4
  <2>2. heap[c[k + 1]].fd = Sent - n + (k + 1) /\ heap[c[1]].fd = Sent - n + 1
    BY <1>3, <2>1
  <2>3. c[k + 1] # head
    BY <1>0, <1>3, <2>1, <2>2
  <2> QED
    BY <1>1, <1>3, <2>1, <2>3 DEF Types
<1>9. IsList(d)'
  <2>1. head' = IF d = <<>> THEN NULL ELSE d[1]
    <3>1. head' = IF 1 = n THEN NULL ELSE c[2]
      BY <1>0, <1>1, <1>3
    <3>2. CASE n = 1
      BY <1>4, <3>1, <3>2
    <3>3. CASE n # 1
      BY <1>0, <1>3, <1>4, <3>1, <3>3
    <3> QED
      BY <3>2, <3>3
  <2>2. \A k \in 1 .. Len(d) : heap'[d[k]].next = IF k = Len(d) THEN NULL ELSE d[k + 1]
    <3> SUFFICES ASSUME NEW k \in 1 .. n - 1
                 PROVE  heap'[d[k]].next = IF k = n - 1 THEN NULL ELSE d[k + 1]
      BY <1>4
    <3>1. heap'[d[k]].next = IF k + 1 = n THEN NULL ELSE c[(k + 1) + 1]
      BY <1>3, <1>8
    <3>2. k # n - 1 => k + 1 \in 1 .. n - 1
      BY <1>0
    <3> QED
      BY <1>0, <1>4, <3>1, <3>2
  <2>3. \A k \in 1 .. Len(d) : heap'[d[k]].fd = Sent' - Len(d) + k
    <3> SUFFICES ASSUME NEW k \in 1 .. n - 1 PROVE heap'[d[k]].fd = Sent - (n - 1) + k
      BY <1>4, <1>6
    <3>1. heap'[d[k]].fd = Sent - n + (k + 1)
      BY <1>3, <1>8
    <3> QED
      BY <1>0, <3>1
  <2>4. d # <<>> => tail' = d[Len(d)]
    <3> SUFFICES ASSUME d # <<>> PROVE tail = d[n - 1]
      BY <1>1, <1>4
    <3>1. n - 1 \in 1 .. n - 1 /\ (n - 1) + 1 = n
      <4>1. Len(d) # 0
        BY <1>4
      <4> QED
        BY <1>0, <1>4, <4>1
    <3> QED
      BY <1>3, <1>4, <3>1
  <2>5. length' = Len(d) /\ Len(d) <= Sent'
    BY <1>0, <1>1, <1>3, <1>4, <1>6
  <2> QED
    BY <2>1, <2>2, <2>3, <2>4, <2>5 DEF IsList, Linked
<1> QED
  BY <1>0, <1>1, <1>2, <1>3, <1>4, <1>5, <1>7, <1>9 DEF Types, n, d

\* thread_pool_enqueue links a connection behind the last one: the tail, which
\* may be the cell that malloc returns again, counts only when the list has
\* connections.
LEMMA EnqueueStep ==
  ASSUME Types, Called, Enqueue, NEW c \in Seq(Cells), IsList(c)
  PROVE  /\ Types' /\ pc["main"] = "enqueue" /\ pc'["main"] = "accept"
         /\ UNCHANGED <<accepted, served>>
         /\ \E d \in Seq(Cells) : Len(d) = Len(c) + 1 /\ IsList(d)'
<1> DEFINE n == Len(c)
<1>0. /\ "main" \in Threads \ Workers /\ MaxConns \in Nat
      /\ NULL \notin Cells /\ n \in Nat /\ accepted \in Nat /\ accepted <= MaxConns
  BY ThreadPoolAssumption DEF Threads, NULL, Types
<1>1. /\ pc["main"] = "enqueue" /\ Link(head = NULL) /\ length' = length + 1
      /\ WakeAll("main", "accept") /\ fd' = [fd EXCEPT !["main"] = -1]
      /\ UNCHANGED <<terminate_flag, mutex, killed, accepted, served>>
  BY DEF Enqueue
<1>2. PcOK' /\ pc'["main"] = "accept"
  <2>1. PcOK'
    BY <1>0, <1>1, WakeFact DEF Types, Places
  <2> QED
    BY <1>0, <1>1, <2>1 DEF WakeAll
<1>3. /\ Sent = accepted - 1 /\ Sent' = accepted /\ fd["main"] = accepted /\ accepted >= 1
  BY <1>1, <1>2 DEF Sent, Called
<1>4. PICK a \in Cells :
        /\ heap[a] = Free
        /\ heap' = [b \in Cells |-> CASE b = a -> [fd |-> fd["main"], next |-> NULL]
                                      [] b # a /\ b = tail /\ head # NULL -> [heap[b] EXCEPT !.next = a]
                                      [] OTHER -> heap[b]]
        /\ head' = IF head = NULL THEN a ELSE head
        /\ tail' = a
  BY <1>1 DEF Link
<1>5. /\ \A k \in 1 .. n : c[k] \in Cells
      /\ head = IF c = <<>> THEN NULL ELSE c[1]
      /\ \A k \in 1 .. n : heap[c[k]].next = IF k = n THEN NULL ELSE c[k + 1]
      /\ \A k \in 1 .. n : heap[c[k]].fd = accepted - 1 - n + k
      /\ n <= accepted - 1 /\ (c # <<>> => tail = c[n]) /\ length = n
  BY <1>3 DEF IsList, Linked
<1>6. (c = <<>> <=> n = 0) /\ (c = <<>> <=> head = NULL)
  <2>1. c = <<>> <=> n = 0
    OBVIOUS
  <2>2. c # <<>> => c[1] \in Cells
    BY <1>0, <1>5, <2>1
  <2> QED
    BY <1>0, <1>5, <2>1, <2>2
<1> DEFINE d == Append(c, a)
<1>7. /\ d \in Seq(Cells) /\ Len(d) = n + 1 /\ (\A k \in 1 .. n : d[k] = c[k]) /\ d[n + 1] = a
  OBVIOUS
<1> HIDE DEF d, n
<1>8. Types'
  <2>1. heap' \in [Cells -> q_item_t] /\ head' \in Cells \union {NULL} /\ tail' \in Cells \union {NULL}
    <3>1. [fd |-> fd["main"], next |-> NULL] \in q_item_t
      BY <1>0, <1>3 DEF q_item_t
    <3>2. \A b \in Cells : heap[b] \in q_item_t /\ [heap[b] EXCEPT !.next = a] \in q_item_t
      BY DEF Types, q_item_t
    <3>3. \A b \in Cells : heap'[b] \in q_item_t
      BY <1>4, <3>1, <3>2
    <3>4. heap' \in [Cells -> q_item_t]
      <4>1. heap' = [b \in Cells |-> heap'[b]]
        BY <1>4
      <4> QED
        BY <3>3, <4>1
    <3> QED
      BY <1>4, <3>4 DEF Types
  <2>2. fd' \in [Threads -> -1 .. MaxConns]
    BY <1>0, <1>1 DEF Types
  <2> QED
    BY <1>1, <1>2, <2>1, <2>2 DEF Types
<1>9. \A k \in 1 .. n : c[k] # a
  <2> SUFFICES ASSUME NEW k \in 1 .. n, c[k] = a PROVE FALSE
    OBVIOUS
  <2>1. heap[c[k]].fd = 0
    BY <1>4 DEF Free
  <2>2. heap[c[k]].fd = accepted - 1 - n + k
    BY <1>5
  <2> QED
    BY <1>0, <1>5, <2>1, <2>2
<1>10. \A k \in 1 .. n : k # n => c[k] # tail
  <2> SUFFICES ASSUME NEW k \in 1 .. n, k # n, c[k] = tail PROVE FALSE
    OBVIOUS
  <2>1. n \in 1 .. n /\ tail = c[n]
    BY <1>0, <1>5, <1>6
  <2>2. heap[c[k]].fd = accepted - 1 - n + k /\ heap[c[n]].fd = accepted - 1 - n + n
    BY <1>5, <2>1
  <2> QED
    BY <1>0, <2>1, <2>2
<1>11. /\ heap'[a].fd = accepted /\ heap'[a].next = NULL
       /\ \A k \in 1 .. n : /\ heap'[c[k]].fd = heap[c[k]].fd
                            /\ heap'[c[k]].next = IF k = n THEN a ELSE c[k + 1]
  <2>1. heap'[a].fd = accepted /\ heap'[a].next = NULL
    BY <1>3, <1>4
  <2>2. ASSUME NEW k \in 1 .. n
        PROVE  heap'[c[k]].fd = heap[c[k]].fd /\ heap'[c[k]].next = IF k = n THEN a ELSE c[k + 1]
    <3>1. c[k] \in Cells /\ c[k] # a /\ head # NULL
      BY <1>0, <1>5, <1>6, <1>9
    <3>2. CASE k = n
      <4>1. c[k] = tail
        BY <1>0, <1>5, <1>6, <3>2
      <4>2. heap'[c[k]] = [heap[c[k]] EXCEPT !.next = a]
        BY <1>4, <3>1, <4>1
      <4>3. heap[c[k]] \in q_item_t
        BY <3>1 DEF Types
      <4> QED
        BY <3>2, <4>2, <4>3 DEF q_item_t
    <3>3. CASE k # n
      <4>1. heap'[c[k]] = heap[c[k]]
        BY <1>4, <1>10, <3>1, <3>3
      <4> QED
        BY <1>5, <3>3, <4>1
    <3> QED
      BY <3>2, <3>3
  <2> QED
    BY <2>1, <2>2
<1>12. IsList(d)'
  <2>0. \A k \in 1 .. Len(d) : k \in 1 .. n \/ k = n + 1
    BY <1>0, <1>7
  <2>1. head' = IF d = <<>> THEN NULL ELSE d[1]
    <3>1. d # <<>>
      BY <1>0, <1>7
    <3>2. CASE n = 0
      BY <1>4, <1>6, <1>7, <3>1, <3>2
    <3>3. CASE n # 0
      <4>1. 1 \in 1 .. n
        BY <1>0, <3>3
      <4> QED
        BY <1>4, <1>5, <1>6, <1>7, <3>1, <3>3, <4>1
    <3> QED
      BY <3>2, <3>3
  <2>2. \A k \in 1 .. Len(d) : heap'[d[k]].next = IF k = Len(d) THEN NULL ELSE d[k + 1]
    <3> SUFFICES ASSUME NEW k \in 1 .. Len(d)
                 PROVE  heap'[d[k]].next = IF k = n + 1 THEN NULL ELSE d[k + 1]
      BY <1>7
    <3>1. CASE k = n + 1
      BY <1>7, <1>11, <3>1
    <3>2. CASE k \in 1 .. n
      <4>1. heap'[d[k]].next = IF k = n THEN a ELSE c[k + 1]
        BY <1>7, <1>11, <3>2
      <4>2. k # n + 1 /\ (k # n => k + 1 \in 1 .. n)
        BY <1>0, <3>2
      <4> QED
        BY <1>7, <4>1, <4>2
    <3> QED
      BY <2>0, <3>1, <3>2
  <2>3. \A k \in 1 .. Len(d) : heap'[d[k]].fd = Sent' - Len(d) + k
    <3> SUFFICES ASSUME NEW k \in 1 .. Len(d) PROVE heap'[d[k]].fd = accepted - (n + 1) + k
      BY <1>3, <1>7
    <3>1. CASE k = n + 1
      BY <1>0, <1>7, <1>11, <3>1
    <3>2. CASE k \in 1 .. n
      <4>1. heap'[d[k]].fd = accepted - 1 - n + k
        BY <1>5, <1>7, <1>11, <3>2
      <4> QED
        BY <1>0, <3>2, <4>1
    <3> QED
      BY <2>0, <3>1, <3>2
  <2>4. d # <<>> => tail' = d[Len(d)]
    BY <1>4, <1>7
  <2>5. length' = Len(d) /\ Len(d) <= Sent'
    BY <1>0, <1>1, <1>3, <1>5, <1>7
  <2> QED
    BY <2>1, <2>2, <2>3, <2>4, <2>5 DEF IsList, Linked
<1> QED
  BY <1>1, <1>2, <1>7, <1>8, <1>12 DEF n

\* The empty list, before the first connection.
LEMMA EmptyList ==
  ASSUME Init, pc["main"] = "accept"
  PROVE  <<>> \in Seq(Cells) /\ IsList(<<>>)
<1> DEFINE c == <<>>
<1>1. c \in Seq(Cells) /\ Len(c) = 0 /\ c = <<>>
  OBVIOUS
<1> HIDE DEF c
<1>2. Sent = 0 /\ head = NULL /\ length = 0
  BY DEF Init, Sent
<1>3. Linked(c)
  BY <1>1, <1>2 DEF Linked
<1>4. IsList(c)
  BY <1>1, <1>2, <1>3 DEF IsList
<1> QED
  BY <1>1, <1>4

\* Before the first connection the list is empty.
LEMMA ListInit == Init => ListInv
<1> SUFFICES ASSUME Init PROVE ListInv
  OBVIOUS
<1>0. "main" \in Threads /\ Workers \subseteq Threads /\ MaxConns \in Nat
  BY ThreadPoolAssumption DEF Threads
<1>1. PcOK
  BY InitIInv DEF IInv
<1>2. pc["main"] = "accept"
  BY <1>0, ThreadPoolAssumption DEF Init, Threads
<1>3. Types
  <2>1. Free \in q_item_t
    BY <1>0 DEF Free, q_item_t
  <2>2. heap \in [Cells -> q_item_t]
    BY <2>1 DEF Init
  <2>3. fd \in [Threads -> -1 .. MaxConns] /\ accepted \in 0 .. MaxConns
    BY <1>0 DEF Init
  <2>4. served \in [1 .. MaxConns -> Workers \union {"nobody"}]
    BY DEF Init
  <2>5. head = NULL /\ tail = NULL /\ mutex = "nobody" /\ terminate_flag = FALSE /\ killed = FALSE
    BY DEF Init
  <2> QED
    BY <1>1, <2>2, <2>3, <2>4, <2>5 DEF Types
<1>4. <<>> \in Seq(Cells) /\ IsList(<<>>)
  BY <1>2, EmptyList
<1> QED
  BY <1>2, <1>3, <1>4 DEF ListInv, Called

\* The steps that are none of the abstract queue's, but for taking and
\* queueing a connection.
Beside ==
  \/ \E w \in Workers : (Worker(w) \/ Handle(w) \/ SpuriousWake(w)) /\ ~ Pop(w)
  \/ TestLoop \/ Join \/ AcceptFails \/ Interrupt \/ (\E x \in {"main", "signal"} : Terminator(x))
  \/ UNCHANGED vars

\* They leave the list and the connection in hand alone.
LEMMA BesideStep ==
  ASSUME Types, Called, Beside
  PROVE  Types' /\ Called' /\ UNCHANGED <<listVars, accepted, served, InHand>> /\ Sent' = Sent
<1>1. CASE \E w \in Workers : (Worker(w) \/ Handle(w) \/ SpuriousWake(w)) /\ ~ Pop(w)
  BY <1>1, WorkerBeside DEF Called, InHand, Sent
<1>2. CASE TestLoop \/ Join \/ AcceptFails \/ Interrupt \/ \E x \in {"main", "signal"} : Terminator(x)
  BY <1>2, OtherBeside DEF Called, InHand, Sent
<1>3. CASE UNCHANGED vars
  BY <1>3 DEF vars, listVars, Types, PcOK, Called, InHand, Sent
<1> QED
  BY <1>1, <1>2, <1>3 DEF Beside

\* Every step is one of these.
LEMMA Steps ==
  ASSUME [Next]_vars
  PROVE  Beside \/ Accept \/ Enqueue \/ \E w \in Workers : Pop(w)
BY DEF Next, Beside, Main

\* Every step keeps the list a list.
LEMMA ListNext == ListInv /\ [Next]_vars => ListInv'
<1> SUFFICES ASSUME ListInv, [Next]_vars PROVE ListInv'
  OBVIOUS
<1>0. Types /\ Called
  BY DEF ListInv
<1>1. PICK c \in Seq(Cells) : IsList(c)
  BY DEF ListInv
<1>2. CASE Beside
  <2>1. IsList(c)'
    BY <1>0, <1>1, <1>2, BesideStep, ListKept
  <2> QED
    BY <1>0, <1>2, <2>1, BesideStep DEF ListInv
<1>3. CASE Accept
  <2>1. IsList(c)'
    BY <1>0, <1>1, <1>3, AcceptStep, ListKept
  <2> QED
    BY <1>0, <1>3, <2>1, AcceptStep DEF ListInv
<1>4. CASE Enqueue
  <2>1. Called'
    BY <1>0, <1>1, <1>4, EnqueueStep DEF Called
  <2> QED
    BY <1>0, <1>1, <1>4, <2>1, EnqueueStep DEF ListInv
<1>5. ASSUME NEW w \in Workers, Pop(w) PROVE ListInv'
  <2>1. Types' /\ Called' /\ Tail(c) \in Seq(Cells) /\ IsList(Tail(c))'
    BY <1>0, <1>1, <1>5, PopStep DEF Called
  <2> QED
    BY <2>1 DEF ListInv
<1> QED
  BY <1>2, <1>3, <1>4, <1>5, Steps

\* The state is well-typed: every pointer is NULL or the address of a cell,
\* and length, which counts the list, never falls below 0 (thread_pool.cc).
THEOREM TypeCorrect == Spec => []TypeOK
<1>1. ListInv => TypeOK
  <2> SUFFICES ASSUME ListInv PROVE TypeOK
    OBVIOUS
  <2>1. PICK c \in Seq(Cells) : length = Len(c)
    BY DEF ListInv, IsList
  <2> QED
    BY <2>1 DEF ListInv, Types, PcOK, TypeOK
<1> QED
  BY <1>1, ListInit, ListNext, PTL DEF Spec

\* The ends of a row of numbers.
LEMMA LastFacts ==
  ASSUME NEW a \in Nat, NEW m \in Nat
  PROVE  /\ Append(Last(a, m), a + 1) = Last(a + 1, m + 1)
         /\ m >= 1 => /\ Last(a, m) # <<>> /\ Head(Last(a, m)) = a - m + 1
                      /\ Tail(Last(a, m)) = Last(a, m - 1)
<1> DEFINE p == Last(a, m)
           q == Last(a + 1, m + 1)
           r == Last(a, m - 1)
<1>1. p \in Seq(Int) /\ Len(p) = m /\ \A k \in 1 .. m : p[k] = a - m + k
  BY DEF Last
<1>2. q \in Seq(Int) /\ Len(q) = m + 1 /\ \A k \in 1 .. m + 1 : q[k] = (a + 1) - (m + 1) + k
  BY DEF Last
<1>3. m >= 1 => r \in Seq(Int) /\ Len(r) = m - 1 /\ \A k \in 1 .. m - 1 : r[k] = a - (m - 1) + k
  BY DEF Last
<1> HIDE DEF p, q, r
<1>4. Append(p, a + 1) = q
  <2>1. /\ Append(p, a + 1) \in Seq(Int) /\ Len(Append(p, a + 1)) = m + 1
        /\ \A k \in 1 .. m : Append(p, a + 1)[k] = p[k]
        /\ Append(p, a + 1)[m + 1] = a + 1
    BY <1>1
  <2>2. \A k \in 1 .. m + 1 : Append(p, a + 1)[k] = q[k]
    <3> SUFFICES ASSUME NEW k \in 1 .. m + 1 PROVE Append(p, a + 1)[k] = q[k]
      OBVIOUS
    <3>1. CASE k = m + 1
      BY <1>2, <2>1, <3>1
    <3>2. CASE k # m + 1
      <4>1. k \in 1 .. m
        BY <3>2
      <4> QED
        BY <1>1, <1>2, <2>1, <4>1
    <3> QED
      BY <3>1, <3>2
  <2> QED
    BY <1>2, <2>1, <2>2, SeqEqual
<1>5. ASSUME m >= 1
      PROVE  p # <<>> /\ Head(p) = a - m + 1 /\ Tail(p) = r
  <2>1. p # <<>> /\ Head(p) = p[1] /\ 1 \in 1 .. m
    BY <1>1, <1>5
  <2>2. /\ Tail(p) \in Seq(Int) /\ Len(Tail(p)) = m - 1
        /\ \A k \in 1 .. m - 1 : Tail(p)[k] = p[k + 1]
    BY <1>1, <2>1
  <2>3. \A k \in 1 .. m - 1 : Tail(p)[k] = r[k]
    <3> SUFFICES ASSUME NEW k \in 1 .. m - 1 PROVE Tail(p)[k] = r[k]
      OBVIOUS
    <3>1. k + 1 \in 1 .. m
      OBVIOUS
    <3> QED
      BY <1>1, <1>3, <1>5, <2>2, <3>1
  <2>4. Tail(p) = r
    BY <1>3, <1>5, <2>2, <2>3, SeqEqual
  <2> QED
    BY <1>1, <2>1, <2>4
<1> QED
  BY <1>4, <1>5 DEF p, q, r

\* At first nothing is queued.
LEMMA FifoInit == Init => Queue!Init
<1> SUFFICES ASSUME Init PROVE Queue!Init
  OBVIOUS
<1>1. Types /\ Called /\ pc["main"] = "accept" /\ head = NULL
  BY ListInit, ThreadPoolAssumption DEF ListInv, Init, Threads
<1>2. IsList(<<>>) /\ <<>> \in Seq(Cells)
  BY <1>1, EmptyList
<1>3. Sent = 0 /\ accepted = 0
  BY <1>1 DEF Init, Sent
<1>4. List \o InHand = Last(accepted, accepted - Sent + Len(<<>>))
  BY <1>1, <1>2, QueueIs
<1>5. List \o InHand = Last(0, 0)
  BY <1>3, <1>4
<1>6. Last(0, 0) = <<>>
  BY DEF Last
<1> QED
  BY <1>5, <1>6 DEF Queue!Init, Init

\* The same for all cells at once.
LEMMA QueueAll ==
  \A d \in Seq(Cells) :
    Types /\ Called /\ IsList(d) => List \o InHand = Last(accepted, accepted - Sent + Len(d))
BY QueueIs

\* The same after a step.
LEMMA QueueNext ==
  ASSUME Types', Called', NEW c \in Seq(Cells), IsList(c)'
  PROVE  (List \o InHand)' = Last(accepted', accepted' - Sent' + Len(c))
<1>1. (\A d \in Seq(Cells) :
        Types /\ Called /\ IsList(d) => List \o InHand = Last(accepted, accepted - Sent + Len(d)))'
  BY QueueAll, PTL
<1> QED
  BY <1>1

\* A step is a step of the abstract queue, or none of it.
LEMMA FifoNext ==
  ASSUME ListInv, ListInv', [Next]_vars
  PROVE  [Queue!Next]_<<List \o InHand, served, accepted>>
<1>0. Types /\ Called /\ Types' /\ Called'
  BY DEF ListInv
<1>1. PICK c \in Seq(Cells) : IsList(c)
  BY DEF ListInv
<1> DEFINE n == Len(c)
           held == accepted - Sent
<1>2. n \in Nat /\ accepted \in Nat /\ held \in {0, 1} /\ Sent = accepted - held /\ held + n \in Nat
  <2>1. n \in Nat /\ accepted \in Nat
    BY <1>0 DEF Types
  <2> QED
    BY <2>1 DEF Sent
<1>3. List \o InHand = Last(accepted, held + n)
  BY <1>0, <1>1, QueueIs
<1>4. CASE Beside
  <2>1. UNCHANGED <<List, InHand, served, accepted>>
    <3>1. UNCHANGED <<listVars, InHand, served, accepted>>
      BY <1>0, <1>4, BesideStep
    <3> QED
      BY <3>1 DEF listVars, List, ListCells, Linked
  <2> QED
    BY <2>1
<1>5. CASE Accept
  <2>1. /\ accepted' = accepted + 1 /\ accepted < MaxConns /\ served' = served
        /\ Sent' = accepted /\ Sent = accepted /\ IsList(c)'
    BY <1>0, <1>1, <1>5, AcceptStep, ListKept
  <2>2. (List \o InHand)' = Last(accepted', accepted' - Sent' + Len(c))
    BY <1>0, <2>1, QueueNext
  <2>3. (List \o InHand)' = Last(accepted + 1, n + 1)
    <3>1. accepted' - Sent' + Len(c) = n + 1
      BY <1>2, <2>1
    <3> QED
      BY <2>1, <2>2, <3>1
  <2>4. List \o InHand = Last(accepted, n)
    BY <1>2, <1>3, <2>1
  <2>5. (List \o InHand)' = Append(List \o InHand, accepted + 1)
    <3>1. Append(Last(accepted, n), accepted + 1) = Last(accepted + 1, n + 1)
      BY <1>2, LastFacts
    <3> QED
      BY <2>3, <2>4, <3>1
  <2>6. Queue!Enqueue
    BY <2>1, <2>5 DEF Queue!Enqueue
  <2> QED
    BY <2>6 DEF Queue!Next
<1>6. CASE Enqueue
  <2>1. PICK d \in Seq(Cells) : Len(d) = n + 1 /\ IsList(d)'
    BY <1>0, <1>1, <1>6, EnqueueStep
  <2>2. UNCHANGED <<accepted, served>> /\ held = 1 /\ Sent' = accepted
    BY <1>0, <1>1, <1>2, <1>6, EnqueueStep DEF Sent
  <2>3. (List \o InHand)' = Last(accepted', accepted' - Sent' + Len(d))
    BY <1>0, <2>1, QueueNext
  <2>4. accepted' - Sent' + Len(d) = held + n
    BY <1>2, <2>1, <2>2
  <2> QED
    BY <1>3, <2>2, <2>3, <2>4
<1>7. ASSUME NEW w \in Workers, Pop(w) PROVE Queue!Next
  <2>1. /\ pc'["main"] = pc["main"] /\ accepted' = accepted
        /\ n >= 1 /\ Tail(c) \in Seq(Cells) /\ Len(Tail(c)) = n - 1 /\ IsList(Tail(c))'
        /\ served' = [served EXCEPT ![Sent - n + 1] = w]
    BY <1>0, <1>1, <1>7, PopStep
  <2>2. Sent' = Sent
    BY <2>1 DEF Sent
  <2>3. (List \o InHand)' = Last(accepted', accepted' - Sent' + Len(Tail(c)))
    BY <1>0, <2>1, QueueNext
  <2>4. accepted' - Sent' + Len(Tail(c)) = (held + n) - 1 /\ held + n >= 1
    BY <1>2, <2>1, <2>2
  <2>5. (List \o InHand)' = Last(accepted, (held + n) - 1)
    BY <2>1, <2>3, <2>4
  <2>6. /\ List \o InHand # <<>> /\ Head(List \o InHand) = accepted - (held + n) + 1
        /\ (List \o InHand)' = Tail(List \o InHand)
    <3> DEFINE m == held + n
    <3>1. m \in Nat /\ m >= 1
      BY <1>2, <2>4
    <3> HIDE DEF m
    <3>2. /\ Last(accepted, m) # <<>> /\ Head(Last(accepted, m)) = accepted - m + 1
          /\ Tail(Last(accepted, m)) = Last(accepted, m - 1)
      BY <1>2, <3>1, LastFacts
    <3> QED
      BY <1>3, <2>5, <3>2 DEF m
  <2>7. accepted - (held + n) + 1 = Sent - n + 1
    BY <1>2
  <2>8. Queue!Dequeue(w)
    BY <2>1, <2>6, <2>7 DEF Queue!Dequeue
  <2> QED
    BY <2>8 DEF Queue!Next
<1> QED
  BY <1>4, <1>5, <1>6, <1>7, Steps

\* The linked list of the pool is a queue: connections are handed to the
\* workers in the order of their accepts, each to one worker, for any number
\* of workers and cells, although tail is left dangling whenever the list
\* empties and malloc may give its cell out again (thread_pool.cc:17-66).
THEOREM FifoAlways == Spec => Fifo
<1>1. ListInv /\ [Next]_vars => ListInv'
  BY ListNext
<1>2. ListInv /\ ListInv' /\ [Next]_vars => [Queue!Next]_<<List \o InHand, served, accepted>>
  BY FifoNext
<1> QED
  BY <1>1, <1>2, ListInit, FifoInit, PTL DEF Spec, Fifo, Queue!Spec

-----------------------------------------------------------------------------
(* The master.                                                             *)

\* The entry of a descriptor is that of the storage server it serves.
OwnEntry ==
  \A sk \in Fds : conn[sk].peer \in Servers /\ conn[sk].at = "serving" => sock2servid[sk] = conn[sk].peer

\* The connections are records and the maps functions.
MasterTypes ==
  /\ conn \in [Fds -> Connections]
  /\ status \in [Servers -> {"Alive", "Dead"}]
  /\ sock2servid \in [Fds -> Servers \union {Nobody}]

\* No connection has ended with an error.
NoReset == \A sk \in Fds : conn[sk].end # "reset"

\* The inductive invariant: an Alive server has a handler, whatever has become
\* of the master.
WatchInv ==
  /\ MasterTypes /\ OwnEntry /\ NoReset
  /\ \A b \in Servers : status[b] = "Alive" => Registered(b) # {}

\* Nobody is no server.
LEMMA NobodyIsNoServer == Nobody \notin Servers
BY MasterAssumption DEF Nobody

\* The initial states satisfy it: every server is Dead.
LEMMA InitWatchInv == MasterInit => WatchInv
<1> SUFFICES ASSUME MasterInit PROVE WatchInv
  OBVIOUS
<1>1. FreeFd \in Connections
  BY DEF FreeFd, Connections
<1>2. MasterTypes
  BY <1>1 DEF MasterInit, MasterTypes
<1>3. OwnEntry /\ NoReset
  BY DEF MasterInit, OwnEntry, NoReset, FreeFd
<1> QED
  BY <1>2, <1>3 DEF MasterInit, WatchInv

\* A step that leaves the maps alone, and every connection with the peer and
\* the handler it has, keeps the invariant.
LEMMA QuietStep ==
  ASSUME WatchInv, UNCHANGED <<status, sock2servid>>, conn' \in [Fds -> Connections], NoReset',
         \A sk \in Fds : /\ (conn'[sk].at = "serving") = (conn[sk].at = "serving")
                         /\ conn[sk].at = "serving" => conn'[sk].peer = conn[sk].peer
  PROVE  WatchInv'
<1>1. MasterTypes' /\ OwnEntry'
  BY DEF WatchInv, MasterTypes, OwnEntry
<1>2. \A b \in Servers : Registered(b)' = Registered(b)
  BY DEF Registered, ConnsOf
<1> QED
  BY <1>1, <1>2 DEF WatchInv

\* The peers and the accept loop.
LEMMA PeerStep ==
  ASSUME WatchInv, "reset" \notin Habits,
         \/ \E p \in Peers : Connect(p)
         \/ \E sk \in Fds : Hangup(sk) \/ Send(sk)
  PROVE  WatchInv'
<1> USE DEF WatchInv, MasterTypes
<1>1. ASSUME NEW p \in Peers, Connect(p) PROVE WatchInv'
  <2>1. PICK sk \in Fds :
          /\ conn[sk].at = "free"
          /\ conn' = [conn EXCEPT ![sk] = [FreeFd EXCEPT !.peer = p, !.at = "queued"]]
    BY <1>1 DEF Connect
  <2>2. [FreeFd EXCEPT !.peer = p, !.at = "queued"] \in Connections
    BY DEF FreeFd, Connections
  <2>3. conn' \in [Fds -> Connections] /\ conn'[sk].at = "queued" /\ conn'[sk].end = "open"
    BY <2>1, <2>2 DEF FreeFd
  <2>4. NoReset'
    BY <2>1, <2>3 DEF NoReset
  <2> QED
    BY <1>1, <2>1, <2>3, <2>4, QuietStep DEF Connect
<1>2. ASSUME NEW sk \in Fds, Hangup(sk) PROVE WatchInv'
  <2>1. conn' = [conn EXCEPT ![sk].end = "closed"]
    BY <1>2 DEF Hangup
  <2>2. conn' \in [Fds -> Connections] /\ NoReset'
    BY <2>1 DEF Connections, NoReset
  <2>3. \A f \in Fds : conn'[f].at = conn[f].at /\ conn'[f].peer = conn[f].peer
    BY <2>1 DEF Connections
  <2> QED
    BY <1>2, <2>2, <2>3, QuietStep DEF Hangup
<1>3. ASSUME NEW sk \in Fds, Send(sk) PROVE WatchInv'
  <2>1. PICK r \in ({"user"} \X Users) \union ({"primary"} \X Groups) : conn' = [conn EXCEPT ![sk].req = r]
    BY <1>3 DEF Send, Groups
  <2>2. conn' \in [Fds -> Connections] /\ NoReset'
    BY <2>1 DEF Connections, NoReset
  <2>3. \A f \in Fds : conn'[f].at = conn[f].at /\ conn'[f].peer = conn[f].peer
    BY <2>1 DEF Connections
  <2> QED
    BY <1>3, <2>2, <2>3, QuietStep DEF Send
<1> QED
  BY <1>1, <1>2, <1>3

\* A thread takes a connection, or answers a request.
LEMMA ServeStep ==
  ASSUME WatchInv, NEW sk \in Fds, Start(sk) \/ Serve(sk)
  PROVE  WatchInv'
<1> USE DEF WatchInv, MasterTypes
<1>1. CASE Start(sk)
  <2>1. conn[sk].at = "queued" /\ conn' = [conn EXCEPT ![sk].at = "started"]
    BY <1>1 DEF Start
  <2>2. conn' \in [Fds -> Connections] /\ NoReset'
    BY <2>1 DEF Connections, NoReset
  <2>3. conn'[sk].at = "started" /\ \A f \in Fds \ {sk} : conn'[f] = conn[f]
    BY <2>1 DEF Connections
  <2> QED
    BY <1>1, <2>1, <2>2, <2>3, QuietStep DEF Start
<1>2. CASE Serve(sk)
  <2>1. conn' = [conn EXCEPT ![sk].req = NoRequest]
    BY <1>2 DEF Serve
  <2>2. conn' \in [Fds -> Connections] /\ NoReset'
    BY <2>1 DEF Connections, NoReset
  <2>3. \A f \in Fds : conn'[f].at = conn[f].at /\ conn'[f].peer = conn[f].peer
    BY <2>1 DEF Connections
  <2> QED
    BY <1>2, <2>2, <2>3, QuietStep DEF Serve
<1> QED
  BY <1>1, <1>2

\* A storage server writes its entry over whatever the descriptor had.
LEMMA RegisterStep ==
  ASSUME WatchInv, NEW sk \in Fds, Register(sk)
  PROVE  WatchInv'
<1> USE DEF WatchInv, MasterTypes
<1>1. conn[sk].at = "started" /\ conn' = [conn EXCEPT ![sk].at = "serving"]
  BY DEF Register
<1>2. conn' \in [Fds -> Connections] /\ NoReset'
  BY <1>1 DEF Connections, NoReset
<1>3. conn'[sk].at = "serving" /\ conn'[sk].peer = conn[sk].peer /\ \A f \in Fds \ {sk} : conn'[f] = conn[f]
  BY <1>1 DEF Connections
<1>4. \A b \in Servers : Registered(b) \subseteq Registered(b)'
  BY <1>3 DEF Registered, ConnsOf
<1>5. CASE conn[sk].peer \in Servers
  <2>1. /\ sock2servid' = [sock2servid EXCEPT ![sk] = conn[sk].peer]
        /\ status' = [status EXCEPT ![conn[sk].peer] = "Alive"]
    BY <1>5 DEF Register
  <2>2. MasterTypes' /\ OwnEntry'
    BY <1>2, <1>3, <1>5, <2>1 DEF OwnEntry
  <2>3. sk \in Registered(conn[sk].peer)'
    BY <1>3 DEF Registered, ConnsOf
  <2>4. \A b \in Servers : status'[b] = "Alive" => Registered(b)' # {}
    <3> TAKE b \in Servers
    <3>1. CASE b = conn[sk].peer
      BY <1>3, <3>1 DEF Registered, ConnsOf
    <3>2. CASE b # conn[sk].peer
      BY <1>4, <2>1, <3>2
    <3> QED
      BY <3>1, <3>2
  <2> QED
    BY <1>2, <2>2, <2>4
<1>6. CASE conn[sk].peer \notin Servers
  <2>1. UNCHANGED <<sock2servid, status>>
    BY <1>6 DEF Register
  <2>2. MasterTypes' /\ OwnEntry'
    BY <1>2, <1>3, <1>6, <2>1 DEF OwnEntry
  <2> QED
    BY <1>2, <1>4, <2>1, <2>2
<1> QED
  BY <1>5, <1>6

\* The handler of a connection that ends marks the server it serves, and
\* takes nobody else's handler away.
LEMMA EndStep ==
  ASSUME WatchInv, NEW sk \in Fds, End(sk)
  PROVE  WatchInv'
<1> USE DEF WatchInv, MasterTypes
<1>1. /\ conn[sk].at = "serving" /\ conn[sk].end = "closed"
      /\ conn' = [conn EXCEPT ![sk] = FreeFd] /\ sock2servid' = sock2servid
      /\ status' = IF sock2servid[sk] # Nobody THEN [status EXCEPT ![sock2servid[sk]] = "Dead"] ELSE status
  BY DEF End, NoReset, Connections
<1>2. FreeFd \in Connections /\ FreeFd.at = "free" /\ FreeFd.end = "open"
  BY DEF FreeFd, Connections
<1>3. conn' \in [Fds -> Connections] /\ conn'[sk] = FreeFd /\ \A f \in Fds \ {sk} : conn'[f] = conn[f]
  BY <1>1, <1>2
<1>4. NoReset' /\ OwnEntry'
  BY <1>1, <1>2, <1>3 DEF NoReset, OwnEntry
<1>5. status' \in [Servers -> {"Alive", "Dead"}]
  BY <1>1
<1>6. \A b \in Servers : status'[b] = "Alive" => Registered(b)' # {}
  <2> SUFFICES ASSUME NEW b \in Servers, status'[b] = "Alive" PROVE Registered(b)' # {}
    OBVIOUS
  <2>1. status[b] = "Alive" /\ sock2servid[sk] # b
    BY <1>1, NobodyIsNoServer
  <2>2. sk \notin Registered(b)
    BY <2>1 DEF OwnEntry, Registered, ConnsOf
  <2>3. PICK f \in Registered(b) : f # sk
    BY <2>1, <2>2
  <2>4. f \in Registered(b)'
    BY <1>3, <2>3 DEF Registered, ConnsOf
  <2> QED
    BY <2>4
<1> QED
  BY <1>1, <1>3, <1>4, <1>5, <1>6

\* Where connections end without an error, a server that the master takes for
\* alive has a handler that will see it end: in every behaviour, for any
\* servers, descriptors and threads, whatever else peers do.
THEOREM AliveIsWatchedAlways ==
  ASSUME "reset" \notin Habits
  PROVE  MasterSpec => []AliveIsWatched
<1>1. WatchInv /\ [MasterNext]_masterVars => WatchInv'
  <2> SUFFICES ASSUME WatchInv, [MasterNext]_masterVars PROVE WatchInv'
    OBVIOUS
  <2>1. CASE UNCHANGED masterVars
    BY <2>1 DEF masterVars, WatchInv, MasterTypes, OwnEntry, NoReset, Registered, ConnsOf
  <2>2. CASE MasterNext
    BY <2>2, PeerStep, ServeStep, RegisterStep, EndStep DEF MasterNext, Handler
  <2> QED
    BY <2>1, <2>2
<1>2. WatchInv => AliveIsWatched
  BY DEF WatchInv, AliveIsWatched
<1> QED
  BY <1>1, <1>2, InitWatchInv, PTL DEF MasterSpec
=============================================================================
