--------------------------- MODULE MCSeqConsistency ---------------------------
(* Instances of SeqConsistency for TLC.  The group of config_master.txt has *)
(* three servers; s1 is the primary.                                        *)
EXTENDS SeqConsistency, TLC

CONSTANTS s1, s2, s3, c1, c2, c3

\* One client connection per server.
OneEach == c1 :> s1 @@ c2 :> s2 @@ c3 :> s3

\* Two connections to one replica, which share its block_flag.
ReplicaOnly == c2 :> s2 @@ c3 :> s2

\* The primary and one replica.
PrimaryAndReplica == c1 :> s1 @@ c2 :> s2
=============================================================================
