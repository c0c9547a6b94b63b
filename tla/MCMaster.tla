------------------------------- MODULE MCMaster -------------------------------
(***************************************************************************)
(* The instance of Master for TLC.                                         *)
(***************************************************************************)
EXTENDS Master

CONSTANTS fe1, u1

\* A server in each of two groups.
MCServers == {<<1, 1>>, <<2, 1>>}

MCHashGroup == [u \in Users |-> 1]

\* The values of h for the groups 1 and 2, before its %.
MCHash == [g \in Groups |-> IF g = 1 THEN 824515495 ELSE 1722258072]
=============================================================================
