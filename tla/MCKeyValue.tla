------------------------------ MODULE MCKeyValue ------------------------------
(***************************************************************************)
(* The instance of KeyValue for TLC: the mailbox of a user, the drive of a *)
(* user, and two threads that write what both of their users have.         *)
(***************************************************************************)
EXTENDS KeyValue

CONSTANTS t1, t2, u1, u2, p, pq, b1, b2, a, f

\* Password "pq" begins with password "p".
MCPasswordPrefix == {<<p, p>>, <<p, pq>>, <<pq, pq>>}
MCNamePrefix == {<<a, a>>, <<f, f>>}

\* The requests of user u with one of the ops; users have password p.
Of(u, ops) ==
  {c \in Requests : c.op \in ops /\ c.user = u
                    /\ (c.op \in {"add", "delete", "auth"} => c.password = p)}

MCMailbox ==
  Of(u1, {"add", "delete", "auth", "putmail", "delmail", "getmail", "mailbody", "unknown"})
MCDrive ==
  Of(u1, {"add", "mkfolder", "delfolder", "putfile", "delfile", "getfile", "getfolder"})
MCShort(u) ==
  {c \in Of(u, {"add", "changepw", "putmail", "delmail", "mkfolder", "delfolder"}) :
     /\ c.op = "putmail" => c.body = b1
     /\ c.op = "delmail" => c.email_id = 1
     /\ c.op \in {"mkfolder", "delfolder"} => c.dir = Root}

MCScenarios == {"mailbox", "drive", "both"}
Alone(requests) == [t \in Threads |-> IF t = t1 THEN requests ELSE {}]
MCSends ==
  [x \in MCScenarios |->
     CASE x = "mailbox" -> Alone(MCMailbox)
       [] x = "drive" -> Alone(MCDrive)
       [] x = "both" -> [t \in Threads |-> IF t = t1 THEN MCShort(u1) ELSE MCShort(u2)]]
MCUndefined == [x \in MCScenarios |-> IF x = "both" THEN {"iterator", "entry"} ELSE {}]
MCMaxLog == [x \in MCScenarios |-> CASE x = "mailbox" -> 6 [] x = "drive" -> 5 [] x = "both" -> 4]
=============================================================================
