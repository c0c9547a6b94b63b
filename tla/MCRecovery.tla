------------------------------ MODULE MCRecovery ------------------------------
(***************************************************************************)
(* Instances of Recovery for TLC.                                          *)
(***************************************************************************)
EXTENDS Recovery

CONSTANTS s1, s2, s3, w1, w2, w3

\* Commands whose entries both a replay and a transfer reproduce.
MCReproduced == [w \in Writes |-> CASE w = w1 -> "ADD_USER" [] w = w2 -> "ADD_EMAIL" [] w = w3 -> "DELETE_FOLDER"]
=============================================================================
