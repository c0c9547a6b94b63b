-------------------------------- MODULE Master --------------------------------
(***************************************************************************)
(* The master server: which storage servers are alive, and which of them a *)
(* front end is sent to (master_thread_handler.cc, master_processor.cc).   *)
(*                                                                         *)
(* Every connection that has a thread of the pool is served by my_handler: *)
(* a storage server sends its group and number and then nothing more, its  *)
(* end of file marks it Dead; a front end sends (0, 0) and user names.     *)
(* Descriptors are numbers that the system uses again.                     *)
(*                                                                         *)
(* Abstractions.  MD5 is the function HashGroup, h(group, n) is Hash[group]*)
(* modulo n.  The pool (module ThreadPool) is the number of connections    *)
(* that have a thread.  Requests are whole messages.  Handlers that change *)
(* the maps at the same time do not damage them.                           *)
(***************************************************************************)
EXTENDS Integers, Sequences, FiniteSets, FiniteSetsExt

CONSTANTS
  Servers,       \* the storage servers of the configuration: <<group, number>>
  FrontEnds,
  Users,
  HashGroup,     \* HashGroup[u]: the group that process_command computes for u
  Hash,          \* Hash[g]: the first argument of the % in h
  Fds,           \* descriptor numbers
  NUM_THREADS,
  Habits         \* what peers do: "leave": front ends end; "early": one ends before
                 \* it has sent (0, 0); "overtake": a storage server connects again
                 \* before the master has seen its end; "reset": connections end with
                 \* an error; "primary": storage servers ask for a primary

Groups == {b[1] : b \in Servers}

ASSUME MasterAssumption ==
  /\ Fds \subseteq Nat /\ NUM_THREADS \in Nat \ {0}
  /\ HashGroup \in [Users -> Groups] /\ Hash \in [Groups -> Nat]
  /\ Servers \subseteq Nat \X Nat /\ Servers \intersect FrontEnds = {}
  /\ Habits \subseteq {"leave", "early", "overtake", "reset", "primary"}

Nobody == <<>>
NoRequest == <<>>

VARIABLES
  conn,          \* conn[fd]: the connection with that descriptor
  status,        \* status[b]: Alive or Dead in groups
  sock2servid,   \* sock2servid[fd]: the storage server registered for a descriptor
  answer,        \* answer[p]: what peer p was last answered
  crashed        \* "no", or what has ended the master

masterVars == <<conn, status, sock2servid, answer, crashed>>

Peers == Servers \union FrontEnds
FreeFd == [peer |-> Nobody, at |-> "free", end |-> "open", req |-> NoRequest]

\* read_config_file: every server is Dead.
MasterInit ==
  /\ conn = [fd \in Fds |-> FreeFd]
  /\ status = [b \in Servers |-> "Dead"]
  /\ sock2servid = [fd \in Fds |-> Nobody]
  /\ answer = [p \in Peers |-> Nobody]
  /\ crashed = "no"

ConnsOf(p) == {fd \in Fds : conn[fd].peer = p}
OpenConns(p) == {fd \in ConnsOf(p) : conn[fd].end = "open"}
Serving == {fd \in Fds : conn[fd].at \in {"started", "serving"}}

-----------------------------------------------------------------------------
(* The peers and the accept loop.                                          *)

\* accept returns the lowest free number and the pool queues it.
Connect(p) ==
  /\ crashed = "no"
  /\ IF p \in Servers /\ "overtake" \in Habits THEN OpenConns(p) = {} ELSE ConnsOf(p) = {}
  /\ \E fd \in Fds :
       /\ conn[fd].at = "free" /\ \A f \in Fds : conn[f].at = "free" => fd <= f
       /\ conn' = [conn EXCEPT ![fd] = [FreeFd EXCEPT !.peer = p, !.at = "queued"]]
  /\ UNCHANGED <<status, sock2servid, answer, crashed>>

\* The peer closes its end.
Hangup(fd) ==
  /\ conn[fd].end = "open" /\ conn[fd].at # "free" /\ conn[fd].req = NoRequest
  /\ \/ conn[fd].peer \in Servers
     \/ "leave" \in Habits /\ conn[fd].at = "serving"
     \/ "early" \in Habits /\ conn[fd].at # "serving"
  /\ \E e \in {"closed"} \union ({"reset"} \intersect Habits) :
       conn' = [conn EXCEPT ![fd].end = e]
  /\ UNCHANGED <<status, sock2servid, answer, crashed>>

\* A front end sends a user name, a storage server the request "NNprimary".
Send(fd) ==
  /\ conn[fd].at = "serving" /\ conn[fd].end = "open" /\ conn[fd].req = NoRequest
  /\ \/ conn[fd].peer \in FrontEnds /\ \E u \in Users : conn' = [conn EXCEPT ![fd].req = <<"user", u>>]
     \/ /\ conn[fd].peer \in Servers /\ "primary" \in Habits
        /\ conn' = [conn EXCEPT ![fd].req = <<"primary", conn[fd].peer[1]>>]
  /\ UNCHANGED <<status, sock2servid, answer, crashed>>

-----------------------------------------------------------------------------
(* my_handler.                                                             *)

\* A thread of the pool takes the connection.
Start(fd) ==
  /\ crashed = "no" /\ conn[fd].at = "queued" /\ Cardinality(Serving) < NUM_THREADS
  /\ conn' = [conn EXCEPT ![fd].at = "started"]
  /\ UNCHANGED <<status, sock2servid, answer, crashed>>

\* The first read.  A front end that ended before it sent its pair leaves
\* the bytes of memset there, which name a group that does not exist: the
\* status is written through an empty vector.
Register(fd) ==
  /\ crashed = "no" /\ conn[fd].at = "started"
  /\ conn' = [conn EXCEPT ![fd].at = "serving"]
  /\ IF conn[fd].peer \in Servers
       THEN /\ sock2servid' = [sock2servid EXCEPT ![fd] = conn[fd].peer]
            /\ status' = [status EXCEPT ![conn[fd].peer] = "Alive"]
       ELSE UNCHANGED <<sock2servid, status>>
  /\ crashed' = IF conn[fd].peer \in FrontEnds /\ conn[fd].end # "open" THEN "unregistered" ELSE "no"
  /\ UNCHANGED answer

\* rand() % 0 kills the process.
process_command(fd) ==
  /\ conn[fd].req # NoRequest /\ conn[fd].req[1] = "user"
  /\ LET filtered_servers == {b \in Servers : b[1] = HashGroup[conn[fd].req[2]] /\ status[b] # "Dead"} IN
       IF filtered_servers = {}
         THEN crashed' = "empty" /\ UNCHANGED answer
         ELSE /\ \E b \in filtered_servers : answer' = [answer EXCEPT ![conn[fd].peer] = <<"user", b>>]
              /\ UNCHANGED crashed

\* The n-th of a set of numbers, from 0.
Nth(S, n) == CHOOSE k \in S : Cardinality({j \in S : j < k}) = n

h(g, range) == Hash[g] % range

\* The candidates are the servers that are Dead; x % 0 kills the process.
process_primary(fd) ==
  /\ conn[fd].req # NoRequest /\ conn[fd].req[1] = "primary"
  /\ LET g == conn[fd].req[2]
         filtered_servers == {b[2] : b \in {s \in Servers : s[1] = g /\ status[s] = "Dead"}}
     IN IF filtered_servers = {}
          THEN crashed' = "empty" /\ UNCHANGED answer
          ELSE /\ answer' = [answer EXCEPT ![conn[fd].peer] =
                                <<"primary", <<g, Nth(filtered_servers, h(g, Cardinality(filtered_servers)))>>>>]
               /\ UNCHANGED crashed

\* The loop of my_handler reads a request.
Serve(fd) ==
  /\ crashed = "no" /\ conn[fd].at = "serving"
  /\ process_command(fd) \/ process_primary(fd)
  /\ conn' = [conn EXCEPT ![fd].req = NoRequest]
  /\ UNCHANGED <<status, sock2servid>>

\* Mutant: only an error marks the server.
EndSwapped(fd) ==
  /\ crashed = "no" /\ conn[fd].at = "serving" /\ conn[fd].end # "open" /\ conn[fd].req = NoRequest
  /\ status' = IF sock2servid[fd] # Nobody /\ conn[fd].end = "reset"
                 THEN [status EXCEPT ![sock2servid[fd]] = "Dead"] ELSE status
  /\ conn' = [conn EXCEPT ![fd] = FreeFd]
  /\ UNCHANGED <<sock2servid, answer, crashed>>

\* read returns 0 or -1: an entry of sock2servid that another connection
\* with this number has left is used too.  close frees the number.
End(fd) ==
  /\ crashed = "no" /\ conn[fd].at = "serving" /\ conn[fd].end # "open" /\ conn[fd].req = NoRequest
  /\ status' = IF sock2servid[fd] # Nobody /\ conn[fd].end = "closed"
                 THEN [status EXCEPT ![sock2servid[fd]] = "Dead"] ELSE status
  /\ conn' = [conn EXCEPT ![fd] = FreeFd]
  /\ UNCHANGED <<sock2servid, answer, crashed>>

Handler(fd) == Start(fd) \/ Register(fd) \/ Serve(fd) \/ End(fd)

MasterNext ==
  \/ \E p \in Peers : Connect(p)
  \/ \E fd \in Fds : Hangup(fd) \/ Send(fd) \/ Handler(fd)

\* A connection that has a thread is served; nothing says when a queued one
\* gets a thread, since a storage server keeps its thread for good.
MasterFairness == \A fd \in Fds : WF_masterVars(Register(fd) \/ Serve(fd) \/ End(fd))

MasterSpec == MasterInit /\ [][MasterNext]_masterVars /\ MasterFairness

-----------------------------------------------------------------------------
(* Properties.                                                             *)

Connections ==
  [peer : Peers \union {Nobody}, at : {"free", "queued", "started", "serving"},
   end : {"open", "closed", "reset"},
   req : ({"user"} \X Users) \union ({"primary"} \X Groups) \union {NoRequest}]

\* Type invariant: a storage server is told a primary and a front end a server
\* of the configuration, never the other way round (process_command).
MasterTypeOK ==
  /\ conn \in [Fds -> Connections]
  /\ status \in [Servers -> {"Alive", "Dead"}]
  /\ sock2servid \in [Fds -> Servers \union {Nobody}]
  /\ \A p \in Peers : answer[p] # Nobody =>
       answer[p][2] \in Servers /\ (answer[p][1] = "primary") = (p \in Servers)
  /\ crashed \in {"no", "empty", "unregistered"}

\* The connection of storage server b that a handler has registered.
Registered(b) == {fd \in ConnsOf(b) : conn[fd].at = "serving"}

\* A server the master takes for alive has a handler that will see it end:
\* no front end is sent for ever to a server that is gone, although entries
\* of closed descriptors stay in sock2servid and are used again.
AliveIsWatched ==
  crashed = "no" => \A b \in Servers : status[b] = "Alive" => Registered(b) # {}

\* A server that is gone is Dead in the end, or has come back.
GoneIsDead ==
  \A b \in Servers : (OpenConns(b) = {}) ~> (status[b] = "Dead" \/ OpenConns(b) # {} \/ crashed # "no")

-----------------------------------------------------------------------------
(* Not among the runs: what the source says of the program and the code    *)
(* does not keep; README.md, "Departures", has the setting for each.       *)

\* A server whose connection is open and registered is Alive (master_thread_handler.cc:72
\* "mark backend as alive").
RegisteredIsAlive ==
  \A b \in Servers : Registered(b) \intersect OpenConns(b) # {} => status[b] = "Alive"

\* "Filter dead servers" (master_processor.cc:55): the primary that a server
\* is given is alive.
PrimaryIsAlive ==
  [][\A p \in Servers : answer'[p] # answer[p] => status[answer'[p][2]] = "Alive"]_masterVars

\* A front end whose group has no live server is not the end of the master
\* (master_processor.cc:35 "Filter dead servers").
EmptyGroupSurvived == crashed # "empty"

\* Only a storage server is registered (master_thread_handler.cc:66 "check if
\* connection is from backend").
OnlyBackendsRegistered == crashed # "unregistered"
=============================================================================
