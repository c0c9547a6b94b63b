------------------------------ MODULE WorkQueue ------------------------------
(***************************************************************************)
(* What the master's thread pool promises to the accept loop: connections  *)
(* are handed to the workers one by one, each to one worker, in the order  *)
(* in which they were accepted.                                            *)
(***************************************************************************)
EXTENDS Naturals, Sequences

CONSTANTS Workers, MaxConns

VARIABLES
  queue,    \* the accepted connections that no worker has
  served,   \* served[c]: the worker that was given connection c, or "nobody"
  count     \* the connections accepted so far: they are numbered 1 .. count

Init ==
  /\ queue = <<>>
  /\ served = [c \in 1 .. MaxConns |-> "nobody"]
  /\ count = 0

Enqueue ==
  /\ count < MaxConns
  /\ count' = count + 1
  /\ queue' = Append(queue, count + 1)
  /\ UNCHANGED served

Dequeue(w) ==
  /\ queue # <<>>
  /\ served' = [served EXCEPT ![Head(queue)] = w]
  /\ queue' = Tail(queue)
  /\ UNCHANGED count

Next == Enqueue \/ \E w \in Workers : Dequeue(w)

Spec == Init /\ [][Next]_<<queue, served, count>>
=============================================================================
