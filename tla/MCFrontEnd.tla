------------------------------ MODULE MCFrontEnd ------------------------------
(***************************************************************************)
(* The instance of FrontEnd for TLC: users amy and bob share a group, each *)
(* of two browsers has a connection.  A behaviour is followed into one of  *)
(* three: requests of every kind one after the other; the death of a       *)
(* storage server; requests that overlap.                                  *)
(***************************************************************************)
EXTENDS FrontEnd

MCGroup == [s \in Servers |-> 1]
MCHome == [u \in Users |-> 1]
MCBrowser == [t \in Threads |-> t]

\* Where requests overlap, each browser has a user of its own.
MCUser == <<"amy", "bob">>

Calls == UNION {{todo[t][i] : i \in DOMAIN todo[t]} : t \in Threads}
OpsOnly(S) == \A c \in Calls : c.op \in S
PlainOps == {"relocate", "AUTH", "GEN", "DEL", "headers", "status"}

Alone == OpsOnly(PlainOps \union {"lock", "unlock", "ADD", "getfolder", "getmail", "mailbody", "putmail", "delmail", "mkfolder", "delfolder", "delfile", "putfile"})
Replaced ==
  /\ OpsOnly(PlainOps \union {"getfolder"})
  /\ \A c \in Calls : c.user # "bob"
  /\ \A c \in DOMAIN conns : conns[c].name = "amy"
Overlapping ==
  /\ OpsOnly(PlainOps \union {"getfolder", "getfile", "getmail"})
  /\ \A t \in Threads : \A i \in DOMAIN todo[t] : todo[t][i].user \in {NoUser, MCUser[t]}
  /\ \A c \in DOMAIN conns : conns[c].server = "s1" /\ conns[c].name = MCUser[conns[c].by]

\* The servers are alike: the first to be connected to is s1.
Kept ==
  /\ conns # <<>> => conns[1].server = "s1"
  /\ IF overlap THEN Overlapping /\ \A s \in Servers : up[s]
     ELSE IF \A s \in Servers : up[s] THEN Alone
     ELSE Replaced
===============================================================================
