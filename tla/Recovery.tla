------------------------------- MODULE Recovery -------------------------------
(***************************************************************************)
(* Disabling and restarting the servers of a storage group: the admin      *)
(* thread of storage_server.cc, replay_log and transfer_log of logging.cc, *)
(* and the parts of seq_consistency.cc that serve them.                    *)
(*                                                                         *)
(* The admin's "disable" clears the tablet and leaves the log file.  Its   *)
(* "restart" replays the log file, enables the server and asks the         *)
(* sequencer of the primary for the entries logged since.  A disabled      *)
(* replica drops the commits it receives; the primary drops nothing.       *)
(*                                                                         *)
(* Abstractions.  The clients write through a server that is none of       *)
(* Servers, so that every server here executes a write when its commit     *)
(* arrives (module SeqConsistency has the other case).  The tablet is the  *)
(* sequence of the commands applied to it (module KeyValue has the map).   *)
(* "-TRANSFER" enters hold_queue when it is sent: the sequencer pops it at *)
(* any later time.                                                         *)
(***************************************************************************)
EXTENDS Integers, Sequences, FiniteSets, SequencesExt

CONSTANTS
  Servers,      \* the primary and some of the replicas
  Primary,
  Writes,       \* the write commands
  Type,         \* Type[w]: the op_type of the log entry of w
  Handled,      \* the servers that the admin commands and restarts
  Careless,     \* "write": the clients write and the admin acts at any time
                \* "restart": the admin also restarts a server that is up
  MaxCommands   \* bound: commands of the admin

op_type == {"ADD_FILE", "ADD_FOLDER", "ADD_EMAIL", "ADD_USER", "CHNG_PW", "DELETE_FILE",
            "DELETE_EMAIL", "DELETE_USER", "DELETE_FOLDER"}

ASSUME RecoveryAssumption ==
  /\ Primary \in Servers
  /\ Type \in [Writes -> op_type]
  /\ Handled \subseteq Servers
  /\ Careless \subseteq {"write", "restart"}
  /\ MaxCommands \in Nat
  /\ "another server" \notin Servers   \* the one the clients write through

Replicas == Servers \ {Primary}

VARIABLES
  hold_queue,     \* the requests that wait for the sequencer
  spc,            \* where the sequencer is: "pop" or in the loop of "transfer_log"
  requestor_id,   \* the server it transfers entries to
  i,              \* the entry of the log file up to which it has done so
  chan,           \* chan[r]: the connection from the primary to replica r
  log,            \* log[s]: the log file; its length is the log sequence number
  tablet,         \* tablet[s]: the commands applied to the map since it was cleared
  disabled_flag,
  apc,            \* apc[s]: where the admin thread of s is
  ctr,            \* ctr[s]: entries replay_log has gone through
  sequence_no,    \* sequence_no[s]: the entries it will go through
  master_sockfd,  \* master_sockfd[s]: whether the connection to the master is open
  commands        \* number of admin commands so far

adminVars == <<apc, ctr, sequence_no, master_sockfd, commands>>
storeVars == <<log, tablet>>
loopVars == <<spc, requestor_id, i>>
vars == <<hold_queue, loopVars, chan, storeVars, disabled_flag, adminVars>>

Init ==
  /\ hold_queue = <<>>
  /\ spc = "pop" /\ requestor_id = Primary /\ i = 0
  /\ chan = [r \in Replicas |-> <<>>]
  /\ log = [s \in Servers |-> <<>>]
  /\ tablet = [s \in Servers |-> <<>>]
  /\ disabled_flag = [s \in Servers |-> 0]
  /\ apc = [s \in Servers |-> "up"]
  /\ ctr = [s \in Servers |-> 0]
  /\ sequence_no = [s \in Servers |-> 0]
  /\ master_sockfd = [s \in Servers |-> TRUE]
  /\ commands = 0

\* Nothing is waiting or on its way.
Quiet == hold_queue = <<>> /\ spc = "pop" /\ \A r \in Replicas : chan[r] = <<>>

\* The writes that wait in hold_queue.
Waiting == {k \in DOMAIN hold_queue : hold_queue[k].kind = "write"}

\* The writes that the clients have sent so far.
Requested == ToSet(log[Primary]) \union {hold_queue[k].data : k \in Waiting}

-----------------------------------------------------------------------------
(* The sequencer and the listeners.                                        *)

\* Unless they are careless, clients write while the primary is up and no server restarts.
Request(w) ==
  /\ w \notin Requested
  /\ \/ "write" \in Careless
     \/ Quiet /\ apc[Primary] = "up" /\ \A r \in Replicas : apc[r] \in {"up", "disabled"}
  /\ hold_queue' = Append(hold_queue, [kind |-> "write", data |-> w])
  /\ UNCHANGED <<loopVars, chan, storeVars, disabled_flag, adminVars>>

process_command(s, w) ==
  /\ log' = [log EXCEPT ![s] = Append(@, w)]
  /\ tablet' = [tablet EXCEPT ![s] = Append(@, w)]

\* The commit goes to every replica; the primary executes it whatever its
\* own disabled_flag says.
Commit ==
  /\ spc = "pop" /\ hold_queue # <<>> /\ Head(hold_queue).kind = "write"
  /\ LET w == Head(hold_queue).data IN
       /\ chan' = [r \in Replicas |-> Append(chan[r], [kind |-> "commit", data |-> w])]
       /\ process_command(Primary, w)
  /\ hold_queue' = Tail(hold_queue)
  /\ UNCHANGED <<loopVars, disabled_flag, adminVars>>

\* The cases whose code builds a message: the two others only parse.
SentAdditions == {"ADD_FILE", "ADD_FOLDER", "ADD_EMAIL", "ADD_USER"}
SentDeletions == {"DELETE_FILE", "DELETE_FOLDER", "DELETE_EMAIL"}

\* A DELETE_FILE message holds the bytes of a pointer, which no command
\* begins with.
Message(w) ==
  [kind |-> "5555", data |-> w, garbled |-> Type[w] = "DELETE_FILE"]

\* Mutant: the last entry the requestor has is sent again.
TransferAll ==
  /\ spc = "pop" /\ hold_queue # <<>> /\ Head(hold_queue).kind = "-TRANSFER"
  /\ spc' = "transfer_log"
  /\ requestor_id' = Head(hold_queue).requestor_id
  /\ i' = IF Head(hold_queue).glbl_seq_num = 0 THEN 0 ELSE Head(hold_queue).glbl_seq_num - 1
  /\ hold_queue' = Tail(hold_queue)
  /\ UNCHANGED <<chan, storeVars, disabled_flag, adminVars>>

\* The sequencer pops "-TRANSFER".  The loop goes through the whole log file,
\* and sends the entries behind the sequence number of the requestor.
Transfer ==
  /\ spc = "pop" /\ hold_queue # <<>> /\ Head(hold_queue).kind = "-TRANSFER"
  /\ spc' = "transfer_log"
  /\ requestor_id' = Head(hold_queue).requestor_id
  /\ i' = Head(hold_queue).glbl_seq_num
  /\ hold_queue' = Tail(hold_queue)
  /\ UNCHANGED <<chan, storeVars, disabled_flag, adminVars>>

\* One round of the loop.
TransferEntry ==
  /\ spc = "transfer_log" /\ i < Len(log[Primary])
  /\ i' = i + 1
  /\ LET w == log[Primary][i + 1] IN
       chan' = IF Type[w] \in SentAdditions \union SentDeletions
                 THEN [chan EXCEPT ![requestor_id] = Append(@, Message(w))]
                 ELSE chan
  /\ UNCHANGED <<hold_queue, spc, requestor_id, storeVars, disabled_flag, adminVars>>

TransferEnd ==
  /\ spc = "transfer_log" /\ i >= Len(log[Primary])
  /\ spc' = "pop"
  /\ UNCHANGED <<hold_queue, requestor_id, i, chan, storeVars, disabled_flag, adminVars>>

transfer_log == TransferEntry \/ TransferEnd

\* is_commit == 1.
RecvCommit(r) ==
  /\ chan[r] # <<>> /\ Head(chan[r]).kind = "commit"
  /\ IF disabled_flag[r] = 0 THEN process_command(r, Head(chan[r]).data) ELSE UNCHANGED storeVars
  /\ chan' = [chan EXCEPT ![r] = Tail(@)]
  /\ UNCHANGED <<hold_queue, loopVars, disabled_flag, adminVars>>

\* is_commit == 5555; a garbled command is unknown to process_command.
RecvTransfer(r) ==
  /\ chan[r] # <<>> /\ Head(chan[r]).kind = "5555"
  /\ IF disabled_flag[r] = 0 /\ ~Head(chan[r]).garbled
       THEN process_command(r, Head(chan[r]).data)
       ELSE UNCHANGED storeVars
  /\ chan' = [chan EXCEPT ![r] = Tail(@)]
  /\ UNCHANGED <<hold_queue, loopVars, disabled_flag, adminVars>>

-----------------------------------------------------------------------------
(* read_admin_commands.                                                    *)

\* "disable", up to clear_tablet; a careful admin commands a server when
\* nothing is on its way.
Disable(s) ==
  /\ apc[s] = "up" /\ commands < MaxCommands
  /\ "write" \in Careless \/ Quiet
  /\ tablet' = [tablet EXCEPT ![s] = <<>>]
  /\ commands' = commands + 1
  /\ apc' = [apc EXCEPT ![s] = "cleared"]
  /\ UNCHANGED <<hold_queue, loopVars, chan, log, disabled_flag, ctr, sequence_no, master_sockfd>>

\* The rest of "disable": the master sees the connection end.
DisableFlag(s) ==
  /\ apc[s] = "cleared"
  /\ master_sockfd' = [master_sockfd EXCEPT ![s] = FALSE]
  /\ disabled_flag' = [disabled_flag EXCEPT ![s] = 1]
  /\ apc' = [apc EXCEPT ![s] = "disabled"]
  /\ UNCHANGED <<hold_queue, loopVars, chan, storeVars, ctr, sequence_no, commands>>

\* "restart": replay_log reads the sequence number.  Nothing keeps it from
\* a server that is up; a careful admin restarts one at a time.
Restart(s) ==
  /\ apc[s] = "disabled" \/ (apc[s] = "up" /\ "restart" \in Careless)
  /\ "write" \in Careless \/ (Quiet /\ \A r \in Servers : apc[r] \in {"up", "disabled"})
  /\ commands < MaxCommands
  /\ sequence_no' = [sequence_no EXCEPT ![s] = Len(log[s])]
  /\ ctr' = [ctr EXCEPT ![s] = 0]
  /\ commands' = commands + 1
  /\ apc' = [apc EXCEPT ![s] = "replay"]
  /\ UNCHANGED <<hold_queue, loopVars, chan, storeVars, disabled_flag, master_sockfd>>

ReplayEntryNoMail(s) ==
  /\ apc[s] = "replay" /\ ctr[s] < sequence_no[s]
  /\ LET w == log[s][ctr[s] + 1] IN
       tablet' = [tablet EXCEPT ![s] = IF Type[w] \in {"DELETE_USER", "ADD_EMAIL"} THEN @ ELSE Append(@, w)]
  /\ ctr' = [ctr EXCEPT ![s] = @ + 1]
  /\ UNCHANGED <<hold_queue, loopVars, chan, log, disabled_flag, apc, sequence_no, master_sockfd, commands>>

\* The loop of replay_log: DELETE_USER is parsed wrongly and deletes no
\* user of the tablet.
ReplayEntry(s) ==
  /\ apc[s] = "replay" /\ ctr[s] < sequence_no[s]
  /\ LET w == log[s][ctr[s] + 1] IN
       tablet' = [tablet EXCEPT ![s] = IF Type[w] = "DELETE_USER" THEN @ ELSE Append(@, w)]
  /\ ctr' = [ctr EXCEPT ![s] = @ + 1]
  /\ UNCHANGED <<hold_queue, loopVars, chan, log, disabled_flag, apc, sequence_no, master_sockfd, commands>>

\* The server registers with the master again.
create_socket_for_master(s) == master_sockfd' = [master_sockfd EXCEPT ![s] = TRUE]

\* Mutant: the server is enabled without having replayed its log.
EnableAtOnce(s) ==
  /\ apc[s] = "replay"
  /\ create_socket_for_master(s)
  /\ disabled_flag' = [disabled_flag EXCEPT ![s] = 0]
  /\ apc' = [apc EXCEPT ![s] = "ask"]
  /\ UNCHANGED <<hold_queue, loopVars, chan, storeVars, ctr, sequence_no, commands>>

\* The rest of "restart" up to the flag: the server is enabled.
Enable(s) ==
  /\ apc[s] = "replay" /\ ctr[s] = sequence_no[s]
  /\ create_socket_for_master(s)
  /\ disabled_flag' = [disabled_flag EXCEPT ![s] = 0]
  /\ apc' = [apc EXCEPT ![s] = "ask"]
  /\ UNCHANGED <<hold_queue, loopVars, chan, storeVars, ctr, sequence_no, commands>>

\* The missing entries are asked for on gserver_fd[1], which the primary
\* itself has not open.
AskTransfer(s) ==
  /\ apc[s] = "ask"
  /\ hold_queue' = IF s = Primary THEN hold_queue
                   ELSE Append(hold_queue, [kind |-> "-TRANSFER", requestor_id |-> s,
                                            glbl_seq_num |-> Len(log[s])])
  /\ apc' = [apc EXCEPT ![s] = "up"]
  /\ UNCHANGED <<loopVars, chan, storeVars, disabled_flag, ctr, sequence_no, master_sockfd, commands>>

-----------------------------------------------------------------------------
Sequencer == Commit \/ Transfer \/ transfer_log
Server(s) == DisableFlag(s) \/ ReplayEntry(s) \/ Enable(s) \/ AskTransfer(s)
Listener(r) == RecvCommit(r) \/ RecvTransfer(r)

Next ==
  \/ \E w \in Writes : Request(w)
  \/ Sequencer
  \/ \E r \in Replicas : Listener(r)
  \/ \E s \in Handled : Disable(s) \/ Restart(s) \/ Server(s)

\* A thread that can go on does so; clients and the admin owe nothing.
Fairness ==
  /\ WF_vars(Sequencer)
  /\ \A r \in Replicas : WF_vars(Listener(r))
  /\ \A s \in Handled : WF_vars(Server(s))

Spec == Init /\ [][Next]_vars /\ Fairness

-----------------------------------------------------------------------------
(* Properties.                                                             *)

\* Type invariant: the replay counter and the sequence number stay within the
\* log file, whatever the admin does meanwhile (logging.cc, storage_server.cc).
TypeOK ==
  /\ log \in [Servers -> Seq(Writes)] /\ tablet \in [Servers -> Seq(Writes)]
  /\ disabled_flag \in [Servers -> {0, 1}]
  /\ apc \in [Servers -> {"up", "cleared", "disabled", "replay", "ask"}]
  /\ \A s \in Servers : ctr[s] <= sequence_no[s] /\ sequence_no[s] <= Len(log[s])

\* When nothing is on its way, every server that is up has the tablet that
\* the log of the primary describes: what a disabled server missed has been
\* transferred, and what it had has been replayed, once each and in order.
Recovered ==
  Quiet => \A s \in Servers : apc[s] = "up" => tablet[s] = log[Primary] /\ log[s] = log[Primary]

\* A replica that has asked for its missing entries gets all of them,
\* unless the admin commands it again.
CatchesUp ==
  \A r \in Replicas :
    (apc[r] = "ask") ~> ((apc[r] = "up" /\ tablet[r] = log[Primary]) \/ apc[r] = "cleared")

\* The place of a write in the order the primary imposes.
Place(w) ==
  IF w \in ToSet(log[Primary])
    THEN CHOOSE k \in DOMAIN log[Primary] : log[Primary][k] = w
  ELSE IF w \in Requested
    THEN Len(log[Primary])
         + Cardinality({k \in Waiting : \E j \in Waiting : hold_queue[j].data = w /\ k <= j})
    ELSE -1

\* The logs implement the store of module ReplicatedStore: servers that are
\* disabled, restarted and brought up to date still log every write of the
\* clients once, in one order and without a gap.
Store == INSTANCE ReplicatedStore
           WITH order <- [w \in Writes |-> Place(w)],
                Requestor <- [w \in Writes |-> "another server"]

\* The logs implement the replicated store through that mapping.
Implements == Store!Spec
=============================================================================
