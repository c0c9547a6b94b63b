--------------------------- MODULE ReplicatedStore ---------------------------
(***************************************************************************)
(* What a replica group promises to its clients, with no messages, threads *)
(* or flags in sight.  Every write is requested at one server.  A single   *)
(* global order is built over the writes; a server executes the writes     *)
(* requested at OTHER servers in that order, without gaps, and each of its *)
(* own writes once, at a moment of its own choosing.                       *)
(*                                                                         *)
(* The freedom left to a server's own writes is deliberate: it is what the *)
(* implementation (module SeqConsistency) provides, and less than the      *)
(* single order that its comments announce.                                *)
(***************************************************************************)
EXTENDS Integers, Sequences

CONSTANTS Servers,      \* the replica group
          Writes,       \* the write requests
          Requestor     \* the server a write was requested at

VARIABLES order,        \* order[w]: the place of w in the global order, -1 if none yet
          log           \* log[s]: the writes executed by s, oldest first

vars == <<order, log>>

Executed(s) == {log[s][i] : i \in DOMAIN log[s]}

Ordered == {w \in Writes : order[w] >= 0}

\* The ordered writes that server s has to learn from the others.
Remote(s) == {w \in Ordered : Requestor[w] # s}

TypeOK ==
  /\ order \in [Writes -> Nat \union {-1}]
  /\ log \in [Servers -> Seq(Writes)]

Init ==
  /\ order = [w \in Writes |-> -1]
  /\ log = [s \in Servers |-> <<>>]

(* A write gets a place after every write that has one. *)
Sequence(w) ==
  /\ order[w] = -1
  /\ order'[w] \in Nat
  /\ \A v \in Ordered : order[v] < order'[w]
  /\ order' = [order EXCEPT ![w] = order'[w]]
  /\ UNCHANGED log

(* Server s executes the next write of the others. *)
ExecuteRemote(s, w) ==
  /\ w \in Remote(s) \ Executed(s)
  /\ \A v \in Remote(s) : order[v] < order[w] => v \in Executed(s)
  /\ log' = [log EXCEPT ![s] = Append(@, w)]
  /\ UNCHANGED order

(* Server s executes a write of its own. *)
ExecuteOwn(s, w) ==
  /\ Requestor[w] = s
  /\ w \notin Executed(s)
  /\ log' = [log EXCEPT ![s] = Append(@, w)]
  /\ UNCHANGED order

Next ==
  \E w \in Writes :
    \/ Sequence(w)
    \/ \E s \in Servers : ExecuteRemote(s, w) \/ ExecuteOwn(s, w)

Spec == Init /\ [][Next]_vars

-----------------------------------------------------------------------------
(* A server never executes a write twice. *)
AtMostOnce ==
  \A s \in Servers : \A i, j \in DOMAIN log[s] :
    log[s][i] = log[s][j] => i = j

(* A server executes the writes of the others in the global order. *)
RemoteInOrder ==
  \A s \in Servers : \A i, j \in DOMAIN log[s] :
    (i < j /\ {log[s][i], log[s][j]} \subseteq Remote(s))
      => order[log[s][i]] < order[log[s][j]]

(* A server that executed a write of the others executed every earlier one. *)
RemoteNoGap ==
  \A s \in Servers : \A v, w \in Remote(s) :
    (w \in Executed(s) /\ order[v] < order[w]) => v \in Executed(s)

(* Any two servers agree on the relative order of any two writes that both *)
(* learned from elsewhere.                                                 *)
ThirdPartyAgreement ==
  \A s, t \in Servers : \A i, j \in DOMAIN log[s] : \A k, l \in DOMAIN log[t] :
    (/\ log[s][i] = log[t][k] /\ log[s][j] = log[t][l]
     /\ {log[s][i], log[s][j]} \subseteq Remote(s) \intersect Remote(t)
     /\ i < j)
      => k < l
=============================================================================
