---------------------------- MODULE SeqConsistency ----------------------------
(***************************************************************************)
(* The replication protocol of one group of storage servers:               *)
(* seq_consistency.cc, with the client threads of thread.cc that enter it  *)
(* and the log and checkpoint operations it calls.                         *)
(*                                                                         *)
(* A client thread (read_commands) that reads a write command asks the     *)
(* primary to sequentialize it and polls block_flag.  The primary's        *)
(* sequencer thread (primary_sequentialize) pops the requests one by one,  *)
(* broadcasts each as a commit, executes it, and every LOG_LIMIT log       *)
(* entries runs a checkpoint barrier.  A listener thread (listen_peer) per *)
(* incoming connection executes commits and counts acknowledgements.       *)
(*                                                                         *)
(* Abstractions.  A command is the pair <<client, k>>: the k-th write of   *)
(* that connection.  A connection between two servers is a FIFO sequence   *)
(* of whole messages.  The key-value map is the sequence of the commands   *)
(* executed on it.  A broadcast is one step: its sends go to different     *)
(* connections and only the sequencer sends commits.  "+COMMIT" messages,  *)
(* which every receiver ignores, are left out.                             *)
(***************************************************************************)
EXTENDS Integers, Sequences, FiniteSets

CONSTANTS
  Servers,      \* the storage servers of the group
  Primary,      \* the server whose gossip port is 12000; it runs the sequencer
  Clients,      \* client connections; each has its read_commands thread
  Home,         \* Home[c]: the server that connection c is open to
  MaxWrites,    \* bound: write commands sent over one connection
  LOG_LIMIT,    \* log entries between two checkpoints
  Races,        \* the unsynchronised code windows the scheduler may open
  None          \* the -1 or empty field of a message

(* "wakeup": a client thread is preempted between sending its request and  *)
(*           setting block_flag (lines 179-180, 214-218).                  *)
(* "ack":    two listeners interleave in the read-modify-write of          *)
(*           acktrack and in what follows it (lines 275-311).              *)
(* "cp_ack": the same for send_count and is_checkpoint_block (318-321).    *)
AllRaces == {"wakeup", "ack", "cp_ack"}

ASSUME ServersAssumption ==
  /\ IsFiniteSet(Servers)
  /\ Primary \in Servers
  /\ Home \in [Clients -> Servers]

ASSUME BoundsAssumption ==
  /\ MaxWrites \in Nat
  /\ LOG_LIMIT \in Nat \ {0}
  /\ Races \subseteq AllRaces

Peers == Servers \ {Primary}

Writes == Clients \X (1 .. MaxWrites)

\* requestor_id of the message that carries a write.
Requestor == [w \in Writes |-> Home[w[1]]]

\* logging_consensus; kind stands for is_commit and for the "+..." texts.
RequestMsg ==
  [kind : {"request"}, requestor_id : Servers, seq_num : Nat,
   glbl_seq_num : {-1}, data : Writes]

CommitMsg ==
  [kind : {"commit"}, requestor_id : Servers, seq_num : Nat,
   glbl_seq_num : Nat, data : Writes]

\* "+ACK" and "+OK" name the write by the numbers of its commit.
AnswerMsg(kind) ==
  [kind : {kind}, requestor_id : Servers, seq_num : Nat,
   glbl_seq_num : Nat, data : {None}]

\* "+CHECKPOINT" and "+CP_ACK" name no write.
CheckpointMsg(kind) ==
  [kind : {kind}, requestor_id : {None}, seq_num : {None},
   glbl_seq_num : Nat, data : {None}]

ToPeerMsg == CommitMsg \union AnswerMsg("+OK") \union CheckpointMsg("+CHECKPOINT")

ToPrimaryMsg == RequestMsg \union AnswerMsg("+ACK") \union CheckpointMsg("+CP_ACK")

VARIABLES
  pc,             \* pc[c]: where the thread of connection c is in ensure_consistency
  issued,         \* issued[c]: number of write commands read from c
  node_seq_num,   \* node_seq_num[s]: the static counter of ensure_consistency
  block_flag,     \* block_flag[s]: one flag per server process
  hold_queue,     \* the primary's queue of requests
  spc,            \* where the sequencer thread is in its loop
  rd_log_struct,  \* the request the sequencer popped
  glbl_seq_num,   \* the sequencer's counter
  order,          \* history: the global number each write was broadcast with
  acktrack,       \* acktrack[<<requestor, seq_num>>]: acknowledgements still missing
  lpc,            \* lpc[p]: where the primary's listener for p is in its handler
  reg,            \* reg[p]: the counter value that listener has loaded
  send_count,     \* checkpoint acknowledgements still missing
  is_checkpoint_block,
  checkpoint,     \* checkpoint[s]: version number and contents of the checkpoint files
  toPeer,         \* toPeer[p]: the connection from the primary to p
  toPrimary,      \* toPrimary[p]: the connection from p to the primary
  log,            \* log[s]: the log file; its length is the log sequence number
  tablet,         \* tablet[s]: the commands executed on the in-memory map
  disabled_flag   \* disabled_flag[s]: set and reset by the admin console only

clientVars == <<pc, issued, node_seq_num>>
queueVars  == <<hold_queue, spc, rd_log_struct, glbl_seq_num, order>>
ackVars    == <<acktrack, lpc, reg>>
cpVars     == <<send_count, is_checkpoint_block, checkpoint>>
netVars    == <<toPeer, toPrimary>>
storeVars  == <<log, tablet>>

vars == <<clientVars, block_flag, queueVars, ackVars, cpVars, netVars,
          storeVars, disabled_flag>>

Init ==
  /\ pc = [c \in Clients |-> "idle"]
  /\ issued = [c \in Clients |-> 0]
  /\ node_seq_num = [s \in Servers |-> 0]
  /\ block_flag = [s \in Servers |-> 0]
  /\ hold_queue = <<>>
  /\ spc = "pop"
  /\ rd_log_struct = None
  /\ glbl_seq_num = 0
  /\ order = [w \in Writes |-> -1]
  /\ acktrack = [k \in {} |-> 0]
  /\ lpc = [p \in Peers |-> "recv"]
  /\ reg = [p \in Peers |-> 0]
  /\ send_count = 0
  /\ is_checkpoint_block = 0
  /\ checkpoint = [s \in Servers |-> [version |-> 0, tablet |-> <<>>]]
  /\ toPeer = [p \in Peers |-> <<>>]
  /\ toPrimary = [p \in Peers |-> <<>>]
  /\ log = [s \in Servers |-> <<>>]
  /\ tablet = [s \in Servers |-> <<>>]
  /\ disabled_flag = [s \in Servers |-> 0]

-----------------------------------------------------------------------------
(* The store operations the protocol calls.                                *)

\* process_command: the log entry is added first, then the map is changed.
process_command(s, w) ==
  /\ log' = [log EXCEPT ![s] = Append(@, w)]
  /\ tablet' = [tablet EXCEPT ![s] = Append(@, w)]

process_if_enabled(s, w) ==
  IF disabled_flag[s] = 1 THEN UNCHANGED storeVars ELSE process_command(s, w)

get_log_sequence_no(s) == Len(log[s])

\* Mutant: the version number is not incremented.
CheckpointSameVersion(s) ==
  checkpoint' = [checkpoint EXCEPT ![s] = [version |-> @.version, tablet |-> tablet[s]]]

take_checkpoint(s) ==
  checkpoint' = [checkpoint EXCEPT ![s] =
                   [version |-> @.version + 1, tablet |-> tablet[s]]]

-----------------------------------------------------------------------------
(* Client threads: read_commands and ensure_consistency.                   *)

\* The message that asks for the sequencing of the next write of c.
Request(c) ==
  [kind |-> "request", requestor_id |-> Home[c], seq_num |-> node_seq_num[Home[c]],
   glbl_seq_num |-> -1, data |-> <<c, issued[c] + 1>>]

\* Where the thread stands once the request has left it, and the flag then.
EnterWait(c) ==
  IF "wakeup" \in Races
    THEN /\ pc' = [pc EXCEPT ![c] = "sent"]
         /\ UNCHANGED block_flag
    ELSE /\ pc' = [pc EXCEPT ![c] = "waiting"]
         /\ block_flag' = [block_flag EXCEPT ![Home[c]] = 1]

\* A replica sends the request to server 1 (req_sequentialize).
RequestRemote(c) ==
  /\ Home[c] # Primary
  /\ pc[c] = "idle" /\ issued[c] < MaxWrites
  /\ toPrimary' = [toPrimary EXCEPT ![Home[c]] = Append(@, Request(c))]
  /\ issued' = [issued EXCEPT ![c] = @ + 1]
  /\ EnterWait(c)
  /\ UNCHANGED <<node_seq_num, queueVars, ackVars, cpVars, toPeer, storeVars, disabled_flag>>

\* The primary pushes its own request on hold_queue.
RequestLocal(c) ==
  /\ Home[c] = Primary
  /\ pc[c] = "idle" /\ issued[c] < MaxWrites
  /\ hold_queue' = Append(hold_queue, Request(c))
  /\ issued' = [issued EXCEPT ![c] = @ + 1]
  /\ EnterWait(c)
  /\ UNCHANGED <<node_seq_num, spc, rd_log_struct, glbl_seq_num, order, ackVars, cpVars,
                 netVars, storeVars, disabled_flag>>

\* block_flag = 1, after the request is already under way.
Block(c) ==
  /\ pc[c] = "sent"
  /\ pc' = [pc EXCEPT ![c] = "waiting"]
  /\ block_flag' = [block_flag EXCEPT ![Home[c]] = 1]
  /\ UNCHANGED <<issued, node_seq_num, queueVars, ackVars, cpVars, netVars, storeVars,
                 disabled_flag>>

\* The polling loop finds block_flag = 0.
Wake(c) ==
  /\ pc[c] = "waiting"
  /\ block_flag[Home[c]] = 0
  /\ pc' = [pc EXCEPT ![c] = "released"]
  /\ UNCHANGED <<issued, node_seq_num, block_flag, queueVars, ackVars, cpVars, netVars,
                 storeVars, disabled_flag>>

\* The thread executes its write; only a replica looks at disabled_flag.
Proceed(c) ==
  LET s == Home[c]
      w == <<c, issued[c]>>
  IN /\ pc[c] = "released"
     /\ IF s = Primary THEN process_command(s, w) ELSE process_if_enabled(s, w)
     /\ node_seq_num' = [node_seq_num EXCEPT ![s] = @ + 1]
     /\ pc' = [pc EXCEPT ![c] = "idle"]
     /\ UNCHANGED <<issued, block_flag, queueVars, ackVars, cpVars, netVars, disabled_flag>>

-----------------------------------------------------------------------------
(* The sequencer thread of the primary: primary_sequentialize.             *)

\* Mutant: a message overtakes the ones that are still under way.
BroadcastOvertaking(m) == toPeer' = [p \in Peers |-> <<m>> \o toPeer[p]]

Broadcast(m) == toPeer' = [p \in Peers |-> Append(toPeer[p], m)]

\* Mutants: the primary is counted as well; one replica is forgotten.
TrackAcksOfAll(key) ==
  acktrack' = [k \in DOMAIN acktrack \union {key} |->
                 IF k \in DOMAIN acktrack THEN acktrack[k] ELSE Cardinality(Servers)]

TrackAcksOneShort(key) ==
  acktrack' = [k \in DOMAIN acktrack \union {key} |->
                 IF k \in DOMAIN acktrack THEN acktrack[k] ELSE Cardinality(Peers) - 1]

\* map::insert of the expected number of acknowledgements: no effect on a
\* key that is already there.
TrackAcks(key) ==
  acktrack' = [k \in DOMAIN acktrack \union {key} |->
                 IF k \in DOMAIN acktrack THEN acktrack[k] ELSE Cardinality(Peers)]

\* Pop a request, prepare its acknowledgement count, broadcast the commit.
Sequentialize ==
  /\ spc = "pop"
  /\ hold_queue # <<>>
  /\ LET m == Head(hold_queue) IN
       /\ rd_log_struct' = m
       /\ TrackAcks(<<m.requestor_id, m.seq_num>>)
       /\ Broadcast([m EXCEPT !.kind = "commit", !.glbl_seq_num = glbl_seq_num])
       /\ order' = [order EXCEPT ![m.data] = glbl_seq_num]
  /\ hold_queue' = Tail(hold_queue)
  /\ spc' = "commit"
  /\ UNCHANGED <<clientVars, block_flag, glbl_seq_num, lpc, reg, cpVars, toPrimary,
                 storeVars, disabled_flag>>

\* Mutants: the test of the requestor is inverted; the number is not advanced.
CommitPrimaryInverted ==
  /\ spc = "commit"
  /\ IF rd_log_struct.requestor_id = Primary
       THEN /\ process_command(Primary, rd_log_struct.data)
            /\ UNCHANGED block_flag
       ELSE /\ block_flag' = [block_flag EXCEPT ![Primary] = 0]
            /\ UNCHANGED storeVars
  /\ glbl_seq_num' = glbl_seq_num + 1
  /\ spc' = "check"
  /\ UNCHANGED <<clientVars, hold_queue, rd_log_struct, order, ackVars, cpVars, netVars,
                 disabled_flag>>

CommitPrimarySameNumber ==
  /\ spc = "commit"
  /\ IF rd_log_struct.requestor_id # Primary
       THEN /\ process_command(Primary, rd_log_struct.data)
            /\ UNCHANGED block_flag
       ELSE /\ block_flag' = [block_flag EXCEPT ![Primary] = 0]
            /\ UNCHANGED storeVars
  /\ spc' = "check"
  /\ UNCHANGED <<clientVars, hold_queue, rd_log_struct, glbl_seq_num, order, ackVars, cpVars,
                 netVars, disabled_flag>>

\* The primary executes a replica's write at once, and releases its own
\* waiting client for one of its own.
CommitPrimary ==
  /\ spc = "commit"
  /\ IF rd_log_struct.requestor_id # Primary
       THEN /\ process_command(Primary, rd_log_struct.data)
            /\ UNCHANGED block_flag
       ELSE /\ block_flag' = [block_flag EXCEPT ![Primary] = 0]
            /\ UNCHANGED storeVars
  /\ glbl_seq_num' = glbl_seq_num + 1
  /\ spc' = "check"
  /\ UNCHANGED <<clientVars, hold_queue, rd_log_struct, order, ackVars, cpVars, netVars,
                 disabled_flag>>

\* Every LOG_LIMIT log entries the sequencer starts a checkpoint.
CheckLogLimit ==
  /\ spc = "check"
  /\ IF get_log_sequence_no(Primary) % LOG_LIMIT = 0
       THEN /\ send_count' = Cardinality(Peers)
            /\ is_checkpoint_block' = 1
            /\ Broadcast([kind |-> "+CHECKPOINT", requestor_id |-> None, seq_num |-> None,
                          glbl_seq_num |-> glbl_seq_num, data |-> None])
            /\ spc' = "checkpoint"
       ELSE /\ spc' = "pop"
            /\ UNCHANGED <<send_count, is_checkpoint_block, toPeer>>
  /\ UNCHANGED <<clientVars, block_flag, hold_queue, rd_log_struct, glbl_seq_num, order,
                 ackVars, checkpoint, toPrimary, storeVars, disabled_flag>>

CheckpointPrimary ==
  /\ spc = "checkpoint"
  /\ take_checkpoint(Primary)
  /\ spc' = "wait"
  /\ UNCHANGED <<clientVars, block_flag, hold_queue, rd_log_struct, glbl_seq_num, order,
                 ackVars, send_count, is_checkpoint_block, netVars, storeVars, disabled_flag>>

\* Mutant: the acknowledgements of the checkpoint are not waited for.
EndCheckpointAtOnce ==
  /\ spc = "wait"
  /\ glbl_seq_num' = glbl_seq_num + 1
  /\ spc' = "pop"
  /\ UNCHANGED <<clientVars, block_flag, hold_queue, rd_log_struct, order, ackVars, cpVars,
                 netVars, storeVars, disabled_flag>>

\* while(is_checkpoint_block == 1) is left.
EndCheckpoint ==
  /\ spc = "wait"
  /\ is_checkpoint_block = 0
  /\ glbl_seq_num' = glbl_seq_num + 1
  /\ spc' = "pop"
  /\ UNCHANGED <<clientVars, block_flag, hold_queue, rd_log_struct, order, ackVars, cpVars,
                 netVars, storeVars, disabled_flag>>

-----------------------------------------------------------------------------
(* listen_peer on a replica: messages of the primary.                      *)

\* The first message of a connection is of the given kind.
Incoming(chan, p, kind) == chan[p] # <<>> /\ Head(chan[p]).kind = kind

\* Mutant: the command stays in the answer.
ReplyWithData(p, m, kind) ==
  toPrimary' = [toPrimary EXCEPT ![p] = Append(@, [m EXCEPT !.kind = kind])]

Reply(p, m, kind) ==
  toPrimary' = [toPrimary EXCEPT ![p] = Append(@, [m EXCEPT !.kind = kind, !.data = None])]

\* Mutant: a replica also executes the commits of its own requests.
RecvCommitOwnToo(p) ==
  LET m == Head(toPeer[p]) IN
  /\ Incoming(toPeer, p, "commit")
  /\ process_if_enabled(p, m.data)
  /\ Reply(p, m, "+ACK")
  /\ toPeer' = [toPeer EXCEPT ![p] = Tail(@)]
  /\ UNCHANGED <<clientVars, block_flag, queueVars, ackVars, cpVars, disabled_flag>>

\* is_commit == 1: execute it unless this server requested it; acknowledge.
RecvCommit(p) ==
  LET m == Head(toPeer[p]) IN
  /\ Incoming(toPeer, p, "commit")
  /\ IF m.requestor_id # p THEN process_if_enabled(p, m.data) ELSE UNCHANGED storeVars
  /\ Reply(p, m, "+ACK")
  /\ toPeer' = [toPeer EXCEPT ![p] = Tail(@)]
  /\ UNCHANGED <<clientVars, block_flag, queueVars, ackVars, cpVars, disabled_flag>>

RecvOK(p) ==
  /\ Incoming(toPeer, p, "+OK")
  /\ block_flag' = [block_flag EXCEPT ![p] = 0]
  /\ toPeer' = [toPeer EXCEPT ![p] = Tail(@)]
  /\ UNCHANGED <<clientVars, queueVars, ackVars, cpVars, toPrimary, storeVars, disabled_flag>>

RecvCheckpoint(p) ==
  LET m == Head(toPeer[p]) IN
  /\ Incoming(toPeer, p, "+CHECKPOINT")
  /\ IF disabled_flag[p] = 1 THEN UNCHANGED checkpoint ELSE take_checkpoint(p)
  /\ Reply(p, m, "+CP_ACK")
  /\ toPeer' = [toPeer EXCEPT ![p] = Tail(@)]
  /\ UNCHANGED <<clientVars, block_flag, queueVars, ackVars, send_count,
                 is_checkpoint_block, storeVars, disabled_flag>>

-----------------------------------------------------------------------------
(* listen_peer on the primary: messages of replica p.  A message stays at  *)
(* the head of the connection until its handler is through.                *)

Consume(p) == toPrimary' = [toPrimary EXCEPT ![p] = Tail(@)]

\* Mutant: a request replaces the ones that wait.
RecvRequestReplacing(p) ==
  /\ Incoming(toPrimary, p, "request")
  /\ hold_queue' = <<Head(toPrimary[p])>>
  /\ Consume(p)
  /\ UNCHANGED <<clientVars, block_flag, spc, rd_log_struct, glbl_seq_num, order, ackVars,
                 cpVars, toPeer, storeVars, disabled_flag>>

RecvRequest(p) ==
  /\ Incoming(toPrimary, p, "request")
  /\ hold_queue' = Append(hold_queue, Head(toPrimary[p]))
  /\ Consume(p)
  /\ UNCHANGED <<clientVars, block_flag, spc, rd_log_struct, glbl_seq_num, order, ackVars,
                 cpVars, toPeer, storeVars, disabled_flag>>

AckKey(p) == <<Head(toPrimary[p]).requestor_id, Head(toPrimary[p]).seq_num>>

\* The last acknowledgement releases the requestor: by "+OK", or directly
\* when the requestor is the primary.
ReleaseRequestor(m) ==
  IF m.requestor_id # Primary
    THEN /\ toPeer' = [toPeer EXCEPT ![m.requestor_id] =
                         Append(@, [m EXCEPT !.kind = "+OK"])]
         /\ UNCHANGED block_flag
    ELSE /\ block_flag' = [block_flag EXCEPT ![Primary] = 0]
         /\ UNCHANGED toPeer

\* Mutant: the counter is not erased.
EraseNothing(key) == UNCHANGED acktrack

Erase(key) == acktrack' = [k \in DOMAIN acktrack \ {key} |-> acktrack[k]]

\* The handler of "+ACK" run without interference.  A seq_num that is not
\* in the map makes find return end(); decrementing through it changes the
\* high half of the map's size field, and the count read is negative.
RecvAck(p) ==
  LET key == AckKey(p) IN
  /\ "ack" \notin Races
  /\ Incoming(toPrimary, p, "+ACK")
  /\ Consume(p)
  /\ IF key \in DOMAIN acktrack
       THEN IF acktrack[key] = 1
              THEN Erase(key) /\ ReleaseRequestor(Head(toPrimary[p]))
              ELSE /\ acktrack' = [acktrack EXCEPT ![key] = @ - 1]
                   /\ UNCHANGED <<toPeer, block_flag>>
       ELSE UNCHANGED <<acktrack, toPeer, block_flag>>
  /\ UNCHANGED <<clientVars, queueVars, lpc, reg, cpVars, storeVars, disabled_flag>>

\* The same handler in the steps another listener can come between: load
\* the count, store it decremented, read it again and act.
AckLoad(p) ==
  LET key == AckKey(p) IN
  /\ "ack" \in Races
  /\ lpc[p] = "recv"
  /\ Incoming(toPrimary, p, "+ACK")
  /\ IF key \in DOMAIN acktrack
       THEN /\ reg' = [reg EXCEPT ![p] = acktrack[key]]
            /\ lpc' = [lpc EXCEPT ![p] = "ack_store"]
            /\ UNCHANGED toPrimary
       ELSE Consume(p) /\ UNCHANGED <<reg, lpc>>
  /\ UNCHANGED <<clientVars, block_flag, queueVars, acktrack, cpVars, toPeer, storeVars,
                 disabled_flag>>

\* A store to a node that was erased meanwhile is lost.
AckStore(p) ==
  /\ lpc[p] = "ack_store" /\ Incoming(toPrimary, p, "+ACK")
  /\ acktrack' = [k \in DOMAIN acktrack |->
                    IF k = AckKey(p) THEN reg[p] - 1 ELSE acktrack[k]]
  /\ lpc' = [lpc EXCEPT ![p] = "ack_act"]
  /\ UNCHANGED <<clientVars, block_flag, queueVars, reg, cpVars, netVars, storeVars,
                 disabled_flag>>

\* An erased node still holds its count of 0 when it is read.
AckAct(p) ==
  LET key == AckKey(p) IN
  /\ lpc[p] = "ack_act" /\ Incoming(toPrimary, p, "+ACK")
  /\ IF key \in DOMAIN acktrack => acktrack[key] = 0
       THEN Erase(key) /\ ReleaseRequestor(Head(toPrimary[p]))
       ELSE UNCHANGED <<acktrack, toPeer, block_flag>>
  /\ Consume(p)
  /\ lpc' = [lpc EXCEPT ![p] = "recv"]
  /\ UNCHANGED <<clientVars, queueVars, reg, cpVars, storeVars, disabled_flag>>

\* The handler of "+CP_ACK" run without interference.
RecvCpAck(p) ==
  /\ "cp_ack" \notin Races
  /\ Incoming(toPrimary, p, "+CP_ACK")
  /\ Consume(p)
  /\ send_count' = send_count - 1
  /\ is_checkpoint_block' = IF send_count' = 0 THEN 0 ELSE is_checkpoint_block
  /\ UNCHANGED <<clientVars, block_flag, queueVars, ackVars, checkpoint, toPeer, storeVars,
                 disabled_flag>>

\* The same handler in steps: load, store, test, clear the flag.
CpAckLoad(p) ==
  /\ "cp_ack" \in Races
  /\ lpc[p] = "recv"
  /\ Incoming(toPrimary, p, "+CP_ACK")
  /\ reg' = [reg EXCEPT ![p] = send_count]
  /\ lpc' = [lpc EXCEPT ![p] = "cp_store"]
  /\ UNCHANGED <<clientVars, block_flag, queueVars, acktrack, cpVars, netVars, storeVars,
                 disabled_flag>>

CpAckStore(p) ==
  /\ lpc[p] = "cp_store" /\ Incoming(toPrimary, p, "+CP_ACK")
  /\ send_count' = reg[p] - 1
  /\ lpc' = [lpc EXCEPT ![p] = "cp_test"]
  /\ UNCHANGED <<clientVars, block_flag, queueVars, acktrack, reg, is_checkpoint_block,
                 checkpoint, netVars, storeVars, disabled_flag>>

CpAckTest(p) ==
  /\ lpc[p] = "cp_test" /\ Incoming(toPrimary, p, "+CP_ACK")
  /\ IF send_count = 0
       THEN lpc' = [lpc EXCEPT ![p] = "cp_clear"] /\ UNCHANGED toPrimary
       ELSE lpc' = [lpc EXCEPT ![p] = "recv"] /\ Consume(p)
  /\ UNCHANGED <<clientVars, block_flag, queueVars, acktrack, reg, cpVars, toPeer, storeVars,
                 disabled_flag>>

CpAckClear(p) ==
  /\ lpc[p] = "cp_clear" /\ Incoming(toPrimary, p, "+CP_ACK")
  /\ is_checkpoint_block' = 0
  /\ Consume(p)
  /\ lpc' = [lpc EXCEPT ![p] = "recv"]
  /\ UNCHANGED <<clientVars, block_flag, queueVars, acktrack, reg, send_count, checkpoint,
                 toPeer, storeVars, disabled_flag>>

-----------------------------------------------------------------------------
ClientStep(c) ==
  RequestRemote(c) \/ RequestLocal(c) \/ Block(c) \/ Wake(c) \/ Proceed(c)

SequencerStep ==
  Sequentialize \/ CommitPrimary \/ CheckLogLimit \/ CheckpointPrimary \/ EndCheckpoint

ReplicaListenerStep(p) == RecvCommit(p) \/ RecvOK(p) \/ RecvCheckpoint(p)

PrimaryListenerStep(p) ==
  \/ RecvRequest(p)
  \/ RecvAck(p) \/ AckLoad(p) \/ AckStore(p) \/ AckAct(p)
  \/ RecvCpAck(p) \/ CpAckLoad(p) \/ CpAckStore(p) \/ CpAckTest(p) \/ CpAckClear(p)

Next ==
  \/ \E c \in Clients : ClientStep(c)
  \/ SequencerStep
  \/ \E p \in Peers : ReplicaListenerStep(p) \/ PrimaryListenerStep(p)

Spec == Init /\ [][Next]_vars

(* Threads are scheduled by the operating system: a thread that can run    *)
(* eventually does.  A client is never obliged to send another command.    *)
Fairness ==
  /\ \A c \in Clients : WF_vars(Block(c) \/ Wake(c) \/ Proceed(c))
  /\ WF_vars(SequencerStep)
  /\ \A p \in Peers : WF_vars(ReplicaListenerStep(p)) /\ WF_vars(PrimaryListenerStep(p))

FairSpec == Spec /\ Fairness
-----------------------------------------------------------------------------
(* Properties.                                                             *)

Executed(s) == {log[s][i] : i \in DOMAIN log[s]}

TypeClients ==
  /\ pc \in [Clients -> {"idle", "sent", "waiting", "released"}]
  /\ issued \in [Clients -> 0 .. MaxWrites]
  /\ \A c \in Clients : pc[c] # "idle" => issued[c] > 0
  /\ node_seq_num \in [Servers -> Nat]
  /\ block_flag \in [Servers -> {0, 1}]
  /\ disabled_flag \in [Servers -> {0, 1}]

TypeSequencer ==
  /\ hold_queue \in Seq(RequestMsg)
  /\ spc \in {"pop", "commit", "check", "checkpoint", "wait"}
  /\ rd_log_struct \in RequestMsg \union {None}
  /\ spc = "commit" => rd_log_struct \in RequestMsg
  /\ glbl_seq_num \in Nat
  /\ order \in [Writes -> Nat \union {-1}]

TypeCounters ==
  /\ acktrack \in [DOMAIN acktrack -> Int]
  /\ lpc \in [Peers -> {"recv", "ack_store", "ack_act",
                        "cp_store", "cp_test", "cp_clear"}]
  /\ reg \in [Peers -> Int]
  /\ send_count \in Int
  /\ is_checkpoint_block \in {0, 1}

TypeChannels ==
  /\ toPeer \in [Peers -> Seq(ToPeerMsg)]
  /\ toPrimary \in [Peers -> Seq(ToPrimaryMsg)]

TypeStores ==
  /\ log \in [Servers -> Seq(Writes)]
  /\ tablet \in [Servers -> Seq(Writes)]
  /\ checkpoint \in [Servers -> [version : Nat, tablet : Seq(Writes)]]

TypeOK == TypeClients /\ TypeSequencer /\ TypeCounters /\ TypeChannels /\ TypeStores

(* The group implements ReplicatedStore: whatever the threads do, a server *)
(* executes the commits of the other servers in the order in which the     *)
(* sequencer numbered them, skipping none, and its own writes once.        *)
Store == INSTANCE ReplicatedStore

Implements == Store!Spec

(* A server executes no write twice, however often its client threads are  *)
(* released.                                                               *)
ExecutedOnce == Store!AtMostOnce

(* Two servers that both learned two writes from elsewhere executed them   *)
(* in the same order.                                                      *)
ThirdPartyAgreement == Store!ThirdPartyAgreement

(* Checkpoints with the same version number, at any two servers, contain   *)
(* the same writes of the rest of the group: the "+CHECKPOINT" message     *)
(* cuts every connection at the same place of the global order.            *)
Contents(s) == {checkpoint[s].tablet[i] : i \in DOMAIN checkpoint[s].tablet}

CheckpointAgreement ==
  \A s, t \in Servers :
    checkpoint[s].version = checkpoint[t].version =>
      {w \in Contents(s) : Requestor[w] \notin {s, t}}
        = {w \in Contents(t) : Requestor[w] \notin {s, t}}

(* The barrier: while the sequencer takes new requests, every server has   *)
(* taken every checkpoint that was ordered.                                *)
CheckpointBarrier ==
  spc = "pop" => \A s, t \in Servers : checkpoint[s].version = checkpoint[t].version

(* When nothing is under way every server has executed every write.        *)
Quiescent ==
  /\ \A c \in Clients : pc[c] = "idle"
  /\ spc = "pop" /\ hold_queue = <<>>
  /\ \A p \in Peers : toPeer[p] = <<>> /\ toPrimary[p] = <<>>

Convergence ==
  Quiescent =>
    \A s \in Servers : Executed(s) = {w \in Writes : w[2] <= issued[w[1]]}

(* A replica answers its client only after every other replica has the     *)
(* write in its log.                                                       *)
ReleasedMeansReplicated ==
  \A c \in Clients : (Home[c] # Primary /\ pc[c] = "released") =>
    \A p \in Peers \ {Home[c]} : <<c, issued[c]>> \in Executed(p)

(* acktrack counts exactly the replicas whose commit or acknowledgement is *)
(* still under way, and an acknowledgement always finds its counter.       *)
Carries(chan, kind, key) ==
  \E i \in DOMAIN chan :
    chan[i].kind = kind /\ <<chan[i].requestor_id, chan[i].seq_num>> = key

Unacknowledged(key) ==
  {p \in Peers : Carries(toPeer[p], "commit", key) \/ Carries(toPrimary[p], "+ACK", key)}

AckAccounting ==
  /\ \A key \in DOMAIN acktrack : acktrack[key] = Cardinality(Unacknowledged(key))
  /\ \A p \in Peers : \A i \in DOMAIN toPrimary[p] :
       toPrimary[p][i].kind = "+ACK" =>
         <<toPrimary[p][i].requestor_id, toPrimary[p][i].seq_num>> \in DOMAIN acktrack

(* Every write that a client thread has read is eventually executed by     *)
(* every server, the requesting one included.                              *)
EventuallyReplicated ==
  \A w \in Writes :
    (issued[w[1]] >= w[2]) ~> (\A s \in Servers : w \in Executed(s))

(* A write that reached the queue is eventually executed by every server   *)
(* that did not request it, even if its requestor stays blocked by a lost  *)
(* wake-up or acknowledgement, unless the sequencer waits for ever for a   *)
(* checkpoint whose acknowledgements were miscounted (318-321).            *)
EventuallyAtOthers ==
  ([]<>(is_checkpoint_block = 0)) =>
    \A w \in Writes :
      (issued[w[1]] >= w[2]) ~> (\A s \in Servers \ {Requestor[w]} : w \in Executed(s))

(* "Thread to ensure a sequential order to all recipients"                 *)
(* (seq_consistency.cc:403): all servers execute all writes in one order.  *)
SequentialOrder ==
  \A s, t \in Servers : \A i, j \in DOMAIN log[s] : \A k, l \in DOMAIN log[t] :
    (log[s][i] = log[t][k] /\ log[s][j] = log[t][l] /\ i < j) => k < l

-----------------------------------------------------------------------------
(* Not among the runs: what the source says of the program and the code    *)
(* does not keep; README.md, "Departures", has the setting for each.       *)

(* "it blocks on CP_ACK only if there are peers" (seq_consistency.cc:575): *)
(* a checkpoint the sequencer waits for is eventually over.                *)
CheckpointEnds == (spc = "wait") ~> (spc = "pop")

(* "appending its own FIFO ordering" (seq_consistency.cc:179), "number     *)
(* within the sending system" (122): the queued requests of one server     *)
(* carry different numbers.                                                *)
OwnNumbering ==
  \A i, j \in DOMAIN hold_queue :
    (/\ hold_queue[i].requestor_id = hold_queue[j].requestor_id
     /\ hold_queue[i].seq_num = hold_queue[j].seq_num) => i = j

-----------------------------------------------------------------------------
(* The inductive invariant behind Implements.                              *)

\* A request that the sequencer has not numbered yet.
Pending(m) ==
  /\ m.requestor_id = Requestor[m.data]
  /\ order[m.data] = -1
  /\ m.data[2] <= issued[m.data[1]]

PendingRequests ==
  /\ \A i \in DOMAIN hold_queue : Pending(hold_queue[i])
  /\ \A p \in Peers : \A i \in DOMAIN toPrimary[p] :
       toPrimary[p][i].kind = "request" =>
         Pending(toPrimary[p][i]) /\ toPrimary[p][i].requestor_id = p

RequestedOnce ==
  /\ \A i, j \in DOMAIN hold_queue : hold_queue[i].data = hold_queue[j].data => i = j
  /\ \A p \in Peers : \A i \in DOMAIN toPrimary[p] :
       toPrimary[p][i].kind = "request" =>
         /\ \A j \in DOMAIN toPrimary[p] :
              (toPrimary[p][j].kind = "request" /\ toPrimary[p][i].data = toPrimary[p][j].data)
                => i = j
         /\ \A j \in DOMAIN hold_queue : toPrimary[p][i].data # hold_queue[j].data

NumberedBelow ==
  \A w \in Writes :
    /\ order[w] <= glbl_seq_num
    /\ spc # "commit" => order[w] < glbl_seq_num
    /\ order[w] >= 0 => w[2] <= issued[w[1]]

CommitsInFlight ==
  \A p \in Peers : \A i \in DOMAIN toPeer[p] :
    toPeer[p][i].kind = "commit" =>
      /\ toPeer[p][i].requestor_id = Requestor[toPeer[p][i].data]
      /\ order[toPeer[p][i].data] >= 0
      /\ Requestor[toPeer[p][i].data] # p => toPeer[p][i].data \notin Executed(p)

CommitsInOrder ==
  \A p \in Peers : \A i, j \in DOMAIN toPeer[p] :
    (toPeer[p][i].kind = "commit" /\ toPeer[p][j].kind = "commit" /\ i < j)
      => order[toPeer[p][i].data] < order[toPeer[p][j].data]

PeersCovered ==
  \A p \in Peers : \A w \in Writes :
    (order[w] >= 0 /\ Requestor[w] # p) =>
      \/ w \in Executed(p)
      \/ \E i \in DOMAIN toPeer[p] : toPeer[p][i].kind = "commit" /\ toPeer[p][i].data = w

PrimaryCovered ==
  /\ \A w \in Writes :
       (order[w] >= 0 /\ Requestor[w] # Primary) =>
         w \in Executed(Primary) \/ (spc = "commit" /\ rd_log_struct.data = w)
  /\ spc = "commit" =>
       /\ rd_log_struct.requestor_id = Requestor[rd_log_struct.data]
       /\ order[rd_log_struct.data] = glbl_seq_num
       /\ Requestor[rd_log_struct.data] # Primary => rd_log_struct.data \notin Executed(Primary)

ExecutedWrites ==
  \A s \in Servers : \A w \in Executed(s) :
    IF Requestor[w] # s THEN order[w] >= 0
    ELSE w[2] < issued[w[1]] \/ (w[2] = issued[w[1]] /\ pc[w[1]] = "idle")

OrderInv ==
  /\ TypeOK
  /\ disabled_flag = [s \in Servers |-> 0]
  /\ PendingRequests /\ RequestedOnce
  /\ NumberedBelow
  /\ CommitsInFlight /\ CommitsInOrder
  /\ PeersCovered /\ PrimaryCovered
  /\ ExecutedWrites
=============================================================================
