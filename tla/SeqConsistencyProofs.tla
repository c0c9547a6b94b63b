------------------------ MODULE SeqConsistencyProofs ------------------------
(***************************************************************************)
(* Type correctness of the replication protocol, its inductive invariant   *)
(* OrderInv, and what follows from it: the protocol implements             *)
(* ReplicatedStore, and the servers converge.                              *)
(*                                                                         *)
(* The first lemmas say what the helpers of SeqConsistency (a send, a      *)
(* broadcast, the end of a handler, a store operation) do to the types of  *)
(* the state they change; TypeNext goes through the actions of every       *)
(* thread.                                                                 *)
(*                                                                         *)
(* OrderInv says where the requests, the commits and the executed writes   *)
(* of the group can be.  The argument: a write is a request in one place   *)
(* until it is numbered; the sequencer numbers upwards, so every           *)
(* connection carries its commits in the order of their numbers; and a     *)
(* numbered write is, for each server that did not request it, either      *)
(* executed or still on its connection.                                    *)
(*                                                                         *)
(* Implementing ReplicatedStore, the group inherits what StoreCorrect      *)
(* shows of every behaviour of that store.                                 *)
(*                                                                         *)
(* Convergence: when nothing is under way, every server has executed every *)
(* write.  OrderInv says where an unnumbered request and an own write may  *)
(* be; ConvergenceInv adds that they are nowhere lost: a write that was    *)
(* read is a request until it is numbered (RequestsPlaced), and a client   *)
(* thread that left its wait has executed its write (OwnExecuted).         *)
(*                                                                         *)
(* Agreement of checkpoints.  The commits and the "+CHECKPOINT" messages   *)
(* of the sequencer carry numbers that rise along every connection, and a  *)
(* replica has executed no write numbered above a message that is still on *)
(* its way.  So the number in the v-th "+CHECKPOINT" cuts the global       *)
(* order: every checkpoint of version v contains the writes of the other   *)
(* servers numbered below it.  CutInv says that such cuts exist.           *)
(*                                                                         *)
(* The barrier.  While the flag is_checkpoint_block is set, send_count is  *)
(* the number of replicas with a "+CHECKPOINT" or a "+CP_ACK" under way;   *)
(* while it is not, there is none (BarrierInv).  This holds when no two    *)
(* listeners interleave in the handler of "+CP_ACK".                       *)
(*                                                                         *)
(* The acknowledgements.  acktrack counts, per write, the replicas that    *)
(* hold its commit or whose "+ACK" is under way; a write leaves the map    *)
(* when there is none, and only then is its requestor told (AckInv).  This *)
(* holds when no two listeners interleave in the handler of "+ACK" and no  *)
(* two connections are open to one server, whose numbers would coincide.   *)
(***************************************************************************)
EXTENDS SeqConsistency, TLAPS, FiniteSetTheorems, SequenceTheorems

USE ServersAssumption, BoundsAssumption

(* The number of peers that TrackAcks and CheckLogLimit count is a         *)
(* natural.                                                                *)
LEMMA CardPeers == Cardinality(Peers) \in Nat
  BY FS_Subset, FS_CardinalityType DEF Peers

(* Request(c) builds a well-formed request message.                        *)
LEMMA RequestType ==
  ASSUME TypeClients, NEW c \in Clients, issued[c] < MaxWrites
  PROVE  Request(c) \in RequestMsg
  BY DEF TypeClients, Request, RequestMsg, Writes

(* Entering the polling loop keeps pc and block_flag in their types.       *)
LEMMA EnterWaitType ==
  ASSUME TypeClients, NEW c \in Clients, EnterWait(c), issued[c] < MaxWrites,
         issued' = [issued EXCEPT ![c] = @ + 1],
         UNCHANGED <<node_seq_num, disabled_flag>>
  PROVE  TypeClients'
<1> USE DEF TypeClients
<1>1. CASE "wakeup" \in Races
  BY <1>1 DEF EnterWait
<1>2. CASE "wakeup" \notin Races
  BY <1>2 DEF EnterWait
<1>q. QED
  BY <1>1, <1>2

(* Appending a well-formed message to one connection keeps the connections *)
(* well-formed.                                                            *)
LEMMA SendType ==
  ASSUME NEW S, NEW chan \in [Peers -> Seq(S)], NEW p \in Peers, NEW m \in S
  PROVE  [chan EXCEPT ![p] = Append(@, m)] \in [Peers -> Seq(S)]
  OBVIOUS

(* The same for a message appended to every connection of the primary.     *)
LEMMA BroadcastType ==
  ASSUME TypeChannels, NEW m \in ToPeerMsg, Broadcast(m), UNCHANGED toPrimary
  PROVE  TypeChannels'
  BY DEF TypeChannels, Broadcast

(* process_command and process_if_enabled keep the log and the map well-   *)
(* formed.                                                                 *)
LEMMA ProcessType ==
  ASSUME TypeStores, NEW s \in Servers, NEW w \in Writes, process_command(s, w),
         UNCHANGED checkpoint
  PROVE  TypeStores'
  BY DEF TypeStores, process_command

(* take_checkpoint keeps the checkpoint files well-formed.                 *)
LEMMA CheckpointType ==
  ASSUME TypeStores, NEW s \in Servers, take_checkpoint(s), UNCHANGED storeVars
  PROVE  TypeStores'
  BY DEF TypeStores, take_checkpoint, storeVars

(* Dropping the handled message at the primary keeps its connections well- *)
(* formed.                                                                 *)
LEMMA ConsumeType ==
  ASSUME TypeChannels, NEW p \in Peers, toPrimary[p] # <<>>, Consume(p)
  PROVE  toPrimary' \in [Peers -> Seq(ToPrimaryMsg)]
  BY DEF TypeChannels, Consume

(* Dropping the handled message at a replica keeps its connection well-    *)
(* formed, and the message is a possible one.                              *)
LEMMA ReceiveType ==
  ASSUME TypeChannels, NEW p \in Peers, NEW kind, Incoming(toPeer, p, kind),
         toPeer' = [toPeer EXCEPT ![p] = Tail(@)]
  PROVE  /\ toPeer' \in [Peers -> Seq(ToPeerMsg)]
         /\ Head(toPeer[p]) \in ToPeerMsg
         /\ Head(toPeer[p]).kind = kind
  BY DEF TypeChannels, Incoming

(* A received commit is a well-formed commit, and its acknowledgement a    *)
(* well-formed answer.                                                     *)
LEMMA CommitMessage ==
  ASSUME TypeChannels, NEW p \in Peers, Incoming(toPeer, p, "commit")
  PROVE  Head(toPeer[p]) \in CommitMsg
<1>1. Head(toPeer[p]) \in ToPeerMsg
  BY DEF TypeChannels, Incoming
<1>q. QED
  BY <1>1 DEF Incoming, ToPeerMsg, CommitMsg, AnswerMsg, CheckpointMsg

(* A received acknowledgement is well-formed, and so is the "+OK" made     *)
(* from it.                                                                *)
LEMMA AckMessage ==
  ASSUME TypeChannels, NEW p \in Peers, Incoming(toPrimary, p, "+ACK")
  PROVE  Head(toPrimary[p]) \in AnswerMsg("+ACK")
<1>1. Head(toPrimary[p]) \in ToPrimaryMsg
  BY DEF TypeChannels, Incoming
<1>q. QED
  BY <1>1 DEF Incoming, ToPrimaryMsg, RequestMsg, AnswerMsg, CheckpointMsg

(* Answering the primary keeps its incoming connections well-formed.       *)
LEMMA ReplyType ==
  ASSUME TypeChannels, NEW p \in Peers, NEW m, NEW kind,
         [m EXCEPT !.kind = kind, !.data = None] \in ToPrimaryMsg, Reply(p, m, kind)
  PROVE  toPrimary' \in [Peers -> Seq(ToPrimaryMsg)]
  BY DEF TypeChannels, Reply

(* Releasing the requestor keeps block_flag and the connections well-      *)
(* formed.                                                                 *)
LEMMA ReleaseType ==
  ASSUME TypeChannels, TypeClients, NEW m \in AnswerMsg("+ACK"), ReleaseRequestor(m)
  PROVE  /\ toPeer' \in [Peers -> Seq(ToPeerMsg)]
         /\ block_flag' \in [Servers -> {0, 1}]
<1>1. [m EXCEPT !.kind = "+OK"] \in ToPeerMsg
  BY DEF AnswerMsg, ToPeerMsg
<1>2. m.requestor_id \in Servers
  BY DEF AnswerMsg
<1>3. CASE m.requestor_id # Primary
  <2>1. m.requestor_id \in Peers
    BY <1>2, <1>3 DEF Peers
  <2>2. /\ toPeer' = [toPeer EXCEPT ![m.requestor_id] = Append(@, [m EXCEPT !.kind = "+OK"])]
        /\ block_flag' = block_flag
    BY <1>3 DEF ReleaseRequestor
  <2>q. QED
    BY <1>1, <2>1, <2>2, SendType DEF TypeChannels, TypeClients
<1>4. CASE m.requestor_id = Primary
  BY <1>4 DEF ReleaseRequestor, TypeChannels, TypeClients
<1>q. QED
  BY <1>3, <1>4

(* The initial state is well-typed.                                        *)
LEMMA TypeInit == Init => TypeOK
<1> SUFFICES ASSUME Init PROVE TypeOK
  OBVIOUS
<1>1. TypeClients BY DEF Init, TypeClients
<1>2. TypeSequencer BY DEF Init, TypeSequencer
<1>3. TypeCounters BY DEF Init, TypeCounters
<1>4. TypeChannels BY DEF Init, TypeChannels
<1>5. TypeStores BY DEF Init, TypeStores
<1>q. QED BY <1>1, <1>2, <1>3, <1>4, <1>5 DEF TypeOK

(* Every step of every thread keeps the state well-typed.                  *)
LEMMA TypeNext == TypeOK /\ [Next]_vars => TypeOK'
<1> SUFFICES ASSUME TypeOK, [Next]_vars PROVE TypeOK'
  OBVIOUS
<1>0. TypeClients /\ TypeSequencer /\ TypeCounters /\ TypeChannels /\ TypeStores
  BY DEF TypeOK
<1>1. ASSUME NEW c \in Clients, ClientStep(c) PROVE TypeOK'
  <2>1. CASE RequestRemote(c)
    <3> USE <1>0, <2>1 DEF RequestRemote
    <3>1. TypeClients' BY EnterWaitType
    <3>2. TypeSequencer' BY DEF queueVars, TypeSequencer
    <3>3. TypeCounters' BY DEF ackVars, cpVars, TypeCounters
    <3>4. TypeChannels'
      <4>1. Request(c) \in ToPrimaryMsg BY RequestType DEF ToPrimaryMsg
      <4>2. Home[c] \in Peers BY DEF Peers
      <4>q. QED BY <4>1, <4>2, SendType DEF TypeChannels
    <3>5. TypeStores' BY DEF storeVars, cpVars, TypeStores
    <3>q. QED BY <3>1, <3>2, <3>3, <3>4, <3>5 DEF TypeOK
  <2>2. CASE RequestLocal(c)
    <3> USE <1>0, <2>2 DEF RequestLocal
    <3>1. TypeClients' BY EnterWaitType
    <3>2. TypeSequencer' BY RequestType DEF TypeSequencer
    <3>3. TypeCounters' BY DEF ackVars, cpVars, TypeCounters
    <3>4. TypeChannels' BY DEF netVars, TypeChannels
    <3>5. TypeStores' BY DEF storeVars, cpVars, TypeStores
    <3>q. QED BY <3>1, <3>2, <3>3, <3>4, <3>5 DEF TypeOK
  <2>3. CASE Block(c)
    <3> USE <1>0, <2>3 DEF Block
    <3>1. TypeClients' BY DEF TypeClients
    <3>2. TypeSequencer' BY DEF queueVars, TypeSequencer
    <3>3. TypeCounters' BY DEF ackVars, cpVars, TypeCounters
    <3>4. TypeChannels' BY DEF netVars, TypeChannels
    <3>5. TypeStores' BY DEF storeVars, cpVars, TypeStores
    <3>q. QED BY <3>1, <3>2, <3>3, <3>4, <3>5 DEF TypeOK
  <2>4. CASE Wake(c)
    <3> USE <1>0, <2>4 DEF Wake
    <3>1. TypeClients' BY DEF TypeClients
    <3>2. TypeSequencer' BY DEF queueVars, TypeSequencer
    <3>3. TypeCounters' BY DEF ackVars, cpVars, TypeCounters
    <3>4. TypeChannels' BY DEF netVars, TypeChannels
    <3>5. TypeStores' BY DEF storeVars, cpVars, TypeStores
    <3>q. QED BY <3>1, <3>2, <3>3, <3>4, <3>5 DEF TypeOK
  <2>5. CASE Proceed(c)
    <3> USE <1>0, <2>5 DEF Proceed
    <3>1. TypeClients' BY DEF TypeClients
    <3>2. TypeSequencer' BY DEF queueVars, TypeSequencer
    <3>3. TypeCounters' BY DEF ackVars, cpVars, TypeCounters
    <3>4. TypeChannels' BY DEF netVars, TypeChannels
    <3>5. TypeStores'
      <4>1. <<c, issued[c]>> \in Writes BY DEF TypeClients, Writes
      <4>2. \/ process_command(Home[c], <<c, issued[c]>>)
            \/ UNCHANGED storeVars
        BY DEF process_if_enabled
      <4>3. UNCHANGED checkpoint BY DEF cpVars
      <4>q. QED BY <4>1, <4>2, <4>3, ProcessType DEF storeVars, TypeStores
    <3>q. QED BY <3>1, <3>2, <3>3, <3>4, <3>5 DEF TypeOK
  <2>q. QED BY <1>1, <2>1, <2>2, <2>3, <2>4, <2>5 DEF ClientStep
<1>2. CASE SequencerStep
  <2>1. CASE Sequentialize
    <3> USE <1>0, <2>1 DEF Sequentialize
    <3>0. Head(hold_queue) \in RequestMsg BY DEF TypeSequencer
    <3>1. TypeClients' BY DEF clientVars, TypeClients
    <3>2. TypeSequencer'
      <4>1. hold_queue' \in Seq(RequestMsg) BY DEF TypeSequencer
      <4>2. Head(hold_queue).data \in Writes BY <3>0 DEF RequestMsg
      <4>3. order' \in [Writes -> Nat \union {-1}] BY <4>2 DEF TypeSequencer
      <4>4. spc' = "commit" /\ rd_log_struct' \in RequestMsg /\ glbl_seq_num' \in Nat
        BY <3>0 DEF TypeSequencer
      <4>q. QED BY <4>1, <4>3, <4>4 DEF TypeSequencer
    <3>3. TypeCounters' BY CardPeers DEF cpVars, TypeCounters, TrackAcks
    <3>4. TypeChannels'
      <4> DEFINE m == [Head(hold_queue) EXCEPT !.kind = "commit", !.glbl_seq_num = glbl_seq_num]
      <4>1. m \in ToPeerMsg BY <3>0 DEF ToPeerMsg, CommitMsg, RequestMsg, TypeSequencer
      <4>2. Broadcast(m) OBVIOUS
      <4> HIDE DEF m
      <4>q. QED BY <4>1, <4>2, BroadcastType
    <3>5. TypeStores' BY DEF storeVars, cpVars, TypeStores
    <3>q. QED BY <3>1, <3>2, <3>3, <3>4, <3>5 DEF TypeOK
  <2>2. CASE CommitPrimary
    <3> USE <1>0, <2>2 DEF CommitPrimary
    <3>1. TypeClients' BY DEF clientVars, TypeClients
    <3>2. TypeSequencer' BY DEF TypeSequencer
    <3>3. TypeCounters' BY DEF ackVars, cpVars, TypeCounters
    <3>4. TypeChannels' BY DEF netVars, TypeChannels
    <3>5. TypeStores'
      <4>1. rd_log_struct.data \in Writes BY DEF TypeSequencer, RequestMsg
      <4>2. process_command(Primary, rd_log_struct.data) \/ UNCHANGED storeVars OBVIOUS
      <4>3. UNCHANGED checkpoint BY DEF cpVars
      <4>q. QED BY <4>1, <4>2, <4>3, ProcessType DEF storeVars, TypeStores
    <3>q. QED BY <3>1, <3>2, <3>3, <3>4, <3>5 DEF TypeOK
  <2>3. CASE CheckLogLimit
    <3> USE <1>0, <2>3 DEF CheckLogLimit
    <3>1. TypeClients' BY DEF clientVars, TypeClients
    <3>2. TypeSequencer' BY DEF TypeSequencer
    <3>3. TypeCounters' BY CardPeers DEF ackVars, cpVars, TypeCounters
    <3>4. TypeChannels'
      <4> DEFINE m == [kind |-> "+CHECKPOINT", requestor_id |-> None, seq_num |-> None,
                       glbl_seq_num |-> glbl_seq_num, data |-> None]
      <4>1. m \in ToPeerMsg BY DEF ToPeerMsg, CheckpointMsg, TypeSequencer
      <4>2. Broadcast(m) \/ UNCHANGED toPeer OBVIOUS
      <4> HIDE DEF m
      <4>q. QED BY <4>1, <4>2, BroadcastType DEF TypeChannels
    <3>5. TypeStores' BY DEF storeVars, cpVars, TypeStores
    <3>q. QED BY <3>1, <3>2, <3>3, <3>4, <3>5 DEF TypeOK
  <2>4. CASE CheckpointPrimary
    <3> USE <1>0, <2>4 DEF CheckpointPrimary
    <3>1. TypeClients' BY DEF clientVars, TypeClients
    <3>2. TypeSequencer' BY DEF TypeSequencer
    <3>3. TypeCounters' BY DEF ackVars, TypeCounters
    <3>4. TypeChannels' BY DEF netVars, TypeChannels
    <3>5. TypeStores' BY CheckpointType
    <3>q. QED BY <3>1, <3>2, <3>3, <3>4, <3>5 DEF TypeOK
  <2>5. CASE EndCheckpoint
    <3> USE <1>0, <2>5 DEF EndCheckpoint
    <3>1. TypeClients' BY DEF clientVars, TypeClients
    <3>2. TypeSequencer' BY DEF TypeSequencer
    <3>3. TypeCounters' BY DEF ackVars, cpVars, TypeCounters
    <3>4. TypeChannels' BY DEF netVars, TypeChannels
    <3>5. TypeStores' BY DEF storeVars, cpVars, TypeStores
    <3>q. QED BY <3>1, <3>2, <3>3, <3>4, <3>5 DEF TypeOK
  <2>q. QED BY <1>2, <2>1, <2>2, <2>3, <2>4, <2>5 DEF SequencerStep
<1>3. ASSUME NEW p \in Peers, ReplicaListenerStep(p) PROVE TypeOK'
  <2>1. CASE RecvCommit(p)
    <3> USE <1>0, <2>1 DEF RecvCommit
    <3>0. Head(toPeer[p]) \in CommitMsg
      BY CommitMessage
    <3>1. TypeClients' BY DEF clientVars, TypeClients
    <3>2. TypeSequencer' BY DEF queueVars, TypeSequencer
    <3>3. TypeCounters' BY DEF ackVars, cpVars, TypeCounters
    <3>4. TypeChannels'
      <4>1. [Head(toPeer[p]) EXCEPT !.kind = "+ACK", !.data = None] \in ToPrimaryMsg
        BY <3>0 DEF CommitMsg, ToPrimaryMsg, AnswerMsg
      <4>q. QED BY <4>1, ReplyType, ReceiveType DEF TypeChannels
    <3>5. TypeStores'
      <4>1. Head(toPeer[p]).data \in Writes BY <3>0 DEF CommitMsg
      <4>2. process_command(p, Head(toPeer[p]).data) \/ UNCHANGED storeVars
        BY DEF process_if_enabled
      <4>3. UNCHANGED checkpoint BY DEF cpVars
      <4>4. p \in Servers BY DEF Peers
      <4>q. QED BY <4>1, <4>2, <4>3, <4>4, ProcessType DEF storeVars, TypeStores
    <3>q. QED BY <3>1, <3>2, <3>3, <3>4, <3>5 DEF TypeOK
  <2>2. CASE RecvOK(p)
    <3> USE <1>0, <2>2 DEF RecvOK
    <3>1. TypeClients' BY DEF clientVars, TypeClients, Peers
    <3>2. TypeSequencer' BY DEF queueVars, TypeSequencer
    <3>3. TypeCounters' BY DEF ackVars, cpVars, TypeCounters
    <3>4. TypeChannels' BY ReceiveType DEF TypeChannels
    <3>5. TypeStores' BY DEF storeVars, cpVars, TypeStores
    <3>q. QED BY <3>1, <3>2, <3>3, <3>4, <3>5 DEF TypeOK
  <2>3. CASE RecvCheckpoint(p)
    <3> USE <1>0, <2>3 DEF RecvCheckpoint
    <3>0. Head(toPeer[p]) \in CheckpointMsg("+CHECKPOINT")
      BY ReceiveType DEF ToPeerMsg, CommitMsg, AnswerMsg, CheckpointMsg
    <3>1. TypeClients' BY DEF clientVars, TypeClients
    <3>2. TypeSequencer' BY DEF queueVars, TypeSequencer
    <3>3. TypeCounters' BY DEF ackVars, cpVars, TypeCounters
    <3>4. TypeChannels'
      <4>1. [Head(toPeer[p]) EXCEPT !.kind = "+CP_ACK", !.data = None] \in ToPrimaryMsg
        BY <3>0 DEF CheckpointMsg, ToPrimaryMsg
      <4>q. QED BY <4>1, ReplyType, ReceiveType DEF TypeChannels
    <3>5. TypeStores'
      <4>1. p \in Servers BY DEF Peers
      <4>q. QED BY <4>1, CheckpointType DEF storeVars, TypeStores
    <3>q. QED BY <3>1, <3>2, <3>3, <3>4, <3>5 DEF TypeOK
  <2>q. QED BY <1>3, <2>1, <2>2, <2>3 DEF ReplicaListenerStep
<1>4. ASSUME NEW p \in Peers, PrimaryListenerStep(p) PROVE TypeOK'
  <2>1. CASE RecvRequest(p)
    <3> USE <1>0, <2>1 DEF RecvRequest
    <3>1. TypeClients' BY DEF clientVars, TypeClients
    <3>2. TypeSequencer'
      <4>1. Head(toPrimary[p]) \in RequestMsg
        BY DEF Incoming, TypeChannels, ToPrimaryMsg, RequestMsg, AnswerMsg, CheckpointMsg
      <4>q. QED BY <4>1 DEF TypeSequencer
    <3>3. TypeCounters' BY DEF ackVars, cpVars, TypeCounters
    <3>4. TypeChannels' BY ConsumeType DEF TypeChannels, Incoming
    <3>5. TypeStores' BY DEF storeVars, cpVars, TypeStores
    <3>q. QED BY <3>1, <3>2, <3>3, <3>4, <3>5 DEF TypeOK
  <2>2. CASE RecvAck(p)
    <3> USE <1>0, <2>2 DEF RecvAck
    <3>0. /\ toPeer' \in [Peers -> Seq(ToPeerMsg)]
          /\ block_flag' \in [Servers -> {0, 1}]
      BY AckMessage, ReleaseType DEF TypeChannels, TypeClients
    <3>1. TypeClients' BY <3>0 DEF clientVars, TypeClients
    <3>2. TypeSequencer' BY DEF queueVars, TypeSequencer
    <3>3. TypeCounters' BY DEF cpVars, TypeCounters, Erase
    <3>4. TypeChannels' BY <3>0, ConsumeType DEF TypeChannels, Incoming
    <3>5. TypeStores' BY DEF storeVars, cpVars, TypeStores
    <3>q. QED BY <3>1, <3>2, <3>3, <3>4, <3>5 DEF TypeOK
  <2>3. CASE AckLoad(p)
    <3> USE <1>0, <2>3 DEF AckLoad
    <3>1. TypeClients' BY DEF clientVars, TypeClients
    <3>2. TypeSequencer' BY DEF queueVars, TypeSequencer
    <3>3. TypeCounters' BY DEF cpVars, TypeCounters
    <3>4. TypeChannels' BY ConsumeType DEF TypeChannels, Incoming
    <3>5. TypeStores' BY DEF storeVars, cpVars, TypeStores
    <3>q. QED BY <3>1, <3>2, <3>3, <3>4, <3>5 DEF TypeOK
  <2>4. CASE AckStore(p)
    <3> USE <1>0, <2>4 DEF AckStore
    <3>1. TypeClients' BY DEF clientVars, TypeClients
    <3>2. TypeSequencer' BY DEF queueVars, TypeSequencer
    <3>3. TypeCounters' BY DEF cpVars, TypeCounters
    <3>4. TypeChannels' BY DEF netVars, TypeChannels
    <3>5. TypeStores' BY DEF storeVars, cpVars, TypeStores
    <3>q. QED BY <3>1, <3>2, <3>3, <3>4, <3>5 DEF TypeOK
  <2>5. CASE AckAct(p)
    <3> USE <1>0, <2>5 DEF AckAct
    <3>0. /\ toPeer' \in [Peers -> Seq(ToPeerMsg)]
          /\ block_flag' \in [Servers -> {0, 1}]
      BY AckMessage, ReleaseType DEF TypeChannels, TypeClients
    <3>1. TypeClients' BY <3>0 DEF clientVars, TypeClients
    <3>2. TypeSequencer' BY DEF queueVars, TypeSequencer
    <3>3. TypeCounters' BY DEF cpVars, TypeCounters, Erase
    <3>4. TypeChannels' BY <3>0, ConsumeType DEF TypeChannels, Incoming
    <3>5. TypeStores' BY DEF storeVars, cpVars, TypeStores
    <3>q. QED BY <3>1, <3>2, <3>3, <3>4, <3>5 DEF TypeOK
  <2>6. CASE RecvCpAck(p)
    <3> USE <1>0, <2>6 DEF RecvCpAck
    <3>1. TypeClients' BY DEF clientVars, TypeClients
    <3>2. TypeSequencer' BY DEF queueVars, TypeSequencer
    <3>3. TypeCounters' BY DEF ackVars, TypeCounters
    <3>4. TypeChannels' BY ConsumeType DEF TypeChannels, Incoming
    <3>5. TypeStores' BY DEF storeVars, cpVars, TypeStores
    <3>q. QED BY <3>1, <3>2, <3>3, <3>4, <3>5 DEF TypeOK
  <2>7. CASE CpAckLoad(p)
    <3> USE <1>0, <2>7 DEF CpAckLoad
    <3>1. TypeClients' BY DEF clientVars, TypeClients
    <3>2. TypeSequencer' BY DEF queueVars, TypeSequencer
    <3>3. TypeCounters' BY DEF cpVars, TypeCounters
    <3>4. TypeChannels' BY DEF netVars, TypeChannels
    <3>5. TypeStores' BY DEF storeVars, cpVars, TypeStores
    <3>q. QED BY <3>1, <3>2, <3>3, <3>4, <3>5 DEF TypeOK
  <2>8. CASE CpAckStore(p)
    <3> USE <1>0, <2>8 DEF CpAckStore
    <3>1. TypeClients' BY DEF clientVars, TypeClients
    <3>2. TypeSequencer' BY DEF queueVars, TypeSequencer
    <3>3. TypeCounters' BY DEF TypeCounters
    <3>4. TypeChannels' BY DEF netVars, TypeChannels
    <3>5. TypeStores' BY DEF storeVars, cpVars, TypeStores
    <3>q. QED BY <3>1, <3>2, <3>3, <3>4, <3>5 DEF TypeOK
  <2>9. CASE CpAckTest(p)
    <3> USE <1>0, <2>9 DEF CpAckTest
    <3>1. TypeClients' BY DEF clientVars, TypeClients
    <3>2. TypeSequencer' BY DEF queueVars, TypeSequencer
    <3>3. TypeCounters' BY DEF cpVars, TypeCounters
    <3>4. TypeChannels' BY ConsumeType DEF TypeChannels, Incoming
    <3>5. TypeStores' BY DEF storeVars, cpVars, TypeStores
    <3>q. QED BY <3>1, <3>2, <3>3, <3>4, <3>5 DEF TypeOK
  <2>10. CASE CpAckClear(p)
    <3> USE <1>0, <2>10 DEF CpAckClear
    <3>1. TypeClients' BY DEF clientVars, TypeClients
    <3>2. TypeSequencer' BY DEF queueVars, TypeSequencer
    <3>3. TypeCounters' BY DEF TypeCounters
    <3>4. TypeChannels' BY ConsumeType DEF TypeChannels, Incoming
    <3>5. TypeStores' BY DEF storeVars, cpVars, TypeStores
    <3>q. QED BY <3>1, <3>2, <3>3, <3>4, <3>5 DEF TypeOK
  <2>q. QED
    BY <1>4, <2>1, <2>2, <2>3, <2>4, <2>5, <2>6, <2>7, <2>8, <2>9, <2>10
    DEF PrimaryListenerStep
<1>5. CASE UNCHANGED vars
  BY <1>5, <1>0 DEF vars, clientVars, queueVars, ackVars, cpVars, netVars, storeVars,
     TypeOK, TypeClients, TypeSequencer, TypeCounters, TypeChannels, TypeStores
<1>q. QED
  BY <1>1, <1>2, <1>3, <1>4, <1>5 DEF Next

(* The state is well-typed in every behaviour, for any number of servers,  *)
(* connections and writes and whichever races happen: a flag is 0 or 1, a  *)
(* connection carries only the messages its receiver knows, and the        *)
(* sequencer never handles the commit of an empty rd_log_struct.           *)
THEOREM TypeCorrect == Spec => []TypeOK
  BY TypeInit, TypeNext, PTL DEF Spec

-----------------------------------------------------------------------------
(* OrderInv.                                                               *)

(* A handled message that is no request leaves the unnumbered requests as  *)
(* they were.                                                              *)
LEMMA RequestsAfterConsume ==
  ASSUME TypeChannels, PendingRequests, RequestedOnce,
         NEW p \in Peers, toPrimary[p] # <<>>, Head(toPrimary[p]).kind # "request",
         Consume(p), UNCHANGED <<hold_queue, order, issued>>
  PROVE  PendingRequests' /\ RequestedOnce'
<1>1. \A q \in Peers : \A i \in DOMAIN toPrimary'[q] :
        \E j \in DOMAIN toPrimary[q] :
          toPrimary'[q][i] = toPrimary[q][j] /\ j = IF q = p THEN i + 1 ELSE i
  BY DEF TypeChannels, Consume
<1>2. \A q \in Peers : DOMAIN toPrimary'[q] \subseteq Nat
  BY DEF TypeChannels, Consume
<1>3. PendingRequests'
  BY <1>1 DEF PendingRequests, Pending
<1>4. RequestedOnce'
  BY <1>1, <1>2 DEF RequestedOnce
<1>q. QED
  BY <1>3, <1>4

(* So does an answer that a replica sends.                                 *)
LEMMA RequestsAfterReply ==
  ASSUME TypeChannels, PendingRequests, RequestedOnce,
         NEW p \in Peers, NEW m, m.kind # "request",
         toPrimary' = [toPrimary EXCEPT ![p] = Append(@, m)],
         UNCHANGED <<hold_queue, order, issued>>
  PROVE  PendingRequests' /\ RequestedOnce'
<1>1. \A q \in Peers : \A i \in DOMAIN toPrimary'[q] :
        toPrimary'[q][i].kind = "request" =>
          i \in DOMAIN toPrimary[q] /\ toPrimary'[q][i] = toPrimary[q][i]
  BY DEF TypeChannels
<1>3. PendingRequests'
  BY <1>1 DEF PendingRequests, Pending
<1>4. RequestedOnce'
  BY <1>1 DEF RequestedOnce
<1>q. QED
  BY <1>3, <1>4

(* A handled message that is no commit leaves the commits under way as     *)
(* they were.                                                              *)
LEMMA CommitsAfterReceive ==
  ASSUME TypeChannels, CommitsInFlight, CommitsInOrder, PeersCovered,
         NEW p \in Peers, toPeer[p] # <<>>, Head(toPeer[p]).kind # "commit",
         toPeer' = [toPeer EXCEPT ![p] = Tail(@)], UNCHANGED <<order, log>>
  PROVE  CommitsInFlight' /\ CommitsInOrder' /\ PeersCovered'
<1>1. \A q \in Peers : \A i \in DOMAIN toPeer'[q] :
        \E j \in DOMAIN toPeer[q] :
          toPeer'[q][i] = toPeer[q][j] /\ j = IF q = p THEN i + 1 ELSE i
  BY DEF TypeChannels
<1>2. \A q \in Peers : DOMAIN toPeer'[q] \subseteq Nat
  BY DEF TypeChannels
<1>3. \A q \in Peers : \A j \in DOMAIN toPeer[q] : toPeer[q][j].kind = "commit" =>
        \E i \in DOMAIN toPeer'[q] : toPeer'[q][i] = toPeer[q][j]
  <2> SUFFICES ASSUME NEW q \in Peers, NEW j \in DOMAIN toPeer[q], toPeer[q][j].kind = "commit"
               PROVE  \E i \in DOMAIN toPeer'[q] : toPeer'[q][i] = toPeer[q][j]
    OBVIOUS
  <2>1. CASE q = p
    <3>1. j # 1 /\ j - 1 \in DOMAIN toPeer'[q] /\ toPeer'[q][j - 1] = toPeer[q][j]
      BY <2>1 DEF TypeChannels
    <3>q. QED BY <3>1
  <2>2. CASE q # p
    BY <2>2 DEF TypeChannels
  <2>q. QED BY <2>1, <2>2
<1>4. CommitsInFlight'
  BY <1>1 DEF CommitsInFlight, Executed
<1>5. CommitsInOrder'
  <2> SUFFICES ASSUME NEW q \in Peers, NEW i \in DOMAIN toPeer'[q], NEW j \in DOMAIN toPeer'[q],
                      toPeer'[q][i].kind = "commit", toPeer'[q][j].kind = "commit", i < j
               PROVE  order[toPeer'[q][i].data] < order[toPeer'[q][j].data]
    BY DEF CommitsInOrder
  <2>1. PICK a \in DOMAIN toPeer[q] : toPeer'[q][i] = toPeer[q][a] /\ a = IF q = p THEN i + 1 ELSE i
    BY <1>1
  <2>2. PICK b \in DOMAIN toPeer[q] : toPeer'[q][j] = toPeer[q][b] /\ b = IF q = p THEN j + 1 ELSE j
    BY <1>1
  <2>3. a < b
    BY <1>2, <2>1, <2>2
  <2>q. QED
    BY <2>1, <2>2, <2>3 DEF CommitsInOrder
<1>6. PeersCovered'
  <2> SUFFICES ASSUME NEW q \in Peers, NEW w \in Writes, order[w] >= 0, Requestor[w] # q,
                      w \notin Executed(q)
               PROVE  \E i \in DOMAIN toPeer'[q] :
                        toPeer'[q][i].kind = "commit" /\ toPeer'[q][i].data = w
    BY DEF PeersCovered, Executed
  <2>1. PICK j \in DOMAIN toPeer[q] : toPeer[q][j].kind = "commit" /\ toPeer[q][j].data = w
    BY DEF PeersCovered
  <2>q. QED
    BY <1>3, <2>1
<1>q. QED
  BY <1>4, <1>5, <1>6

(* So does a message that is no commit, sent to any set of peers.          *)
LEMMA CommitsAfterSend ==
  ASSUME TypeChannels, CommitsInFlight, CommitsInOrder, PeersCovered,
         NEW Q \in SUBSET Peers, NEW m, m.kind # "commit",
         toPeer' = [p \in Peers |-> IF p \in Q THEN Append(toPeer[p], m) ELSE toPeer[p]],
         UNCHANGED <<order, log>>
  PROVE  CommitsInFlight' /\ CommitsInOrder' /\ PeersCovered'
<1>1. \A q \in Peers : \A i \in DOMAIN toPeer'[q] :
        toPeer'[q][i].kind = "commit" =>
          i \in DOMAIN toPeer[q] /\ toPeer'[q][i] = toPeer[q][i]
  BY DEF TypeChannels
<1>2. \A q \in Peers : \A i \in DOMAIN toPeer[q] :
        i \in DOMAIN toPeer'[q] /\ toPeer'[q][i] = toPeer[q][i]
  BY DEF TypeChannels
<1>3. CommitsInFlight'
  BY <1>1 DEF CommitsInFlight, Executed
<1>4. CommitsInOrder'
  BY <1>1 DEF CommitsInOrder
<1>5. PeersCovered'
  <2> SUFFICES ASSUME NEW q \in Peers, NEW w \in Writes, order[w] >= 0, Requestor[w] # q,
                      w \notin Executed(q)
               PROVE  \E i \in DOMAIN toPeer'[q] :
                        toPeer'[q][i].kind = "commit" /\ toPeer'[q][i].data = w
    BY DEF PeersCovered, Executed
  <2>1. PICK j \in DOMAIN toPeer[q] : toPeer[q][j].kind = "commit" /\ toPeer[q][j].data = w
    BY DEF PeersCovered
  <2>q. QED
    BY <1>2, <2>1
<1>q. QED
  BY <1>3, <1>4, <1>5

(* Executing a write adds it to the executed writes of one server. *)
LEMMA ExecutedAfterProcess ==
  ASSUME TypeStores, NEW s \in Servers, NEW w \in Writes, process_command(s, w)
  PROVE  /\ Executed(s)' = Executed(s) \union {w}
         /\ \A t \in Servers : t # s => Executed(t)' = Executed(t)
         /\ log' = [log EXCEPT ![s] = Append(@, w)]
<1>1. log'[s] = Append(log[s], w) /\ \A t \in Servers : t # s => log'[t] = log[t]
  BY DEF process_command, TypeStores
<1>2. /\ log[s] \in Seq(Writes)
      /\ DOMAIN log'[s] = DOMAIN log[s] \union {Len(log[s]) + 1}
      /\ \A i \in DOMAIN log[s] : log'[s][i] = log[s][i]
      /\ log'[s][Len(log[s]) + 1] = w
  BY <1>1 DEF TypeStores
<1>3. Executed(s)' = Executed(s) \union {w}
  BY <1>2 DEF Executed
<1>4. \A t \in Servers : t # s => Executed(t)' = Executed(t)
  BY <1>1 DEF Executed
<1>q. QED
  BY <1>3, <1>4 DEF process_command

(* Only writes are executed.                                               *)
LEMMA ExecutedType ==
  ASSUME TypeStores, NEW s \in Servers
  PROVE  Executed(s) \subseteq Writes
  BY DEF TypeStores, Executed

(* A step that leaves the queue, the requests and the numbers alone keeps  *)
(* the facts about requests.                                               *)
LEMMA RequestsUnchanged ==
  ASSUME PendingRequests, RequestedOnce, UNCHANGED <<hold_queue, toPrimary, order, issued>>
  PROVE  PendingRequests' /\ RequestedOnce'
  BY DEF PendingRequests, Pending, RequestedOnce

(* A step that leaves the commits, the numbers and the logs alone keeps    *)
(* the facts about commits.                                                *)
LEMMA CommitsUnchanged ==
  ASSUME CommitsInFlight, CommitsInOrder, PeersCovered, UNCHANGED <<toPeer, order, log>>
  PROVE  CommitsInFlight' /\ CommitsInOrder' /\ PeersCovered'
  BY DEF CommitsInFlight, CommitsInOrder, PeersCovered, Executed

(* The sequencer steps that number and execute nothing keep the facts      *)
(* about the primary.                                                      *)
LEMMA PrimaryUnchanged ==
  ASSUME TypeSequencer, NumberedBelow, PrimaryCovered,
         UNCHANGED <<order, log, rd_log_struct, issued>>,
         spc = "commit" <=> spc' = "commit",
         glbl_seq_num' = glbl_seq_num \/ (spc # "commit" /\ glbl_seq_num' = glbl_seq_num + 1)
  PROVE  NumberedBelow' /\ PrimaryCovered'
  BY DEF TypeSequencer, NumberedBelow, PrimaryCovered, Executed

(* A step that executes nothing and moves no client thread keeps the facts *)
(* about the logs.                                                         *)
LEMMA ExecutedUnchanged ==
  ASSUME ExecutedWrites, UNCHANGED <<log, order, issued, pc>>
  PROVE  ExecutedWrites'
  BY DEF ExecutedWrites, Executed

(* A write is a client and an index, and its requestor is the server of    *)
(* the client.                                                             *)
LEMMA WritesFacts ==
  ASSUME NEW w \in Writes
  PROVE  /\ w[1] \in Clients /\ w[2] \in 1 .. MaxWrites /\ w = <<w[1], w[2]>>
         /\ Requestor[w] = Home[w[1]] /\ Requestor[w] \in Servers
  BY DEF Writes, Requestor

(* The write a client thread has just read is new.                         *)
LEMMA IssuedGrows ==
  ASSUME TypeClients, NEW c \in Clients, issued' = [issued EXCEPT ![c] = @ + 1]
  PROVE  /\ \A v \in Writes : v[2] <= issued[v[1]] =>
              v[2] <= issued'[v[1]] /\ v # <<c, issued[c] + 1>>
         /\ issued[c] + 1 <= issued'[c]
<1>1. \A d \in Clients : issued[d] \in Nat /\ issued'[d] = IF d = c THEN issued[c] + 1 ELSE issued[d]
  BY DEF TypeClients
<1>2. \A v \in Writes : v[1] \in Clients /\ v[2] \in Nat
  BY WritesFacts
<1>q. QED
  BY <1>1, <1>2

(* Requests carry writes.                                                  *)
LEMMA RequestData ==
  ASSUME TypeChannels, TypeSequencer
  PROVE  /\ \A i \in DOMAIN hold_queue : hold_queue[i].data \in Writes
         /\ \A q \in Peers : \A i \in DOMAIN toPrimary[q] :
              toPrimary[q][i].kind = "request" => toPrimary[q][i].data \in Writes
<1>1. \A i \in DOMAIN hold_queue : hold_queue[i] \in RequestMsg
  BY DEF TypeSequencer
<1>2. \A q \in Peers : \A i \in DOMAIN toPrimary[q] : toPrimary[q][i] \in ToPrimaryMsg
  BY DEF TypeChannels
<1>3. \A m \in ToPrimaryMsg : m.kind = "request" => m.data \in Writes
  BY DEF ToPrimaryMsg, RequestMsg, AnswerMsg, CheckpointMsg
<1>q. QED
  BY <1>1, <1>2, <1>3 DEF RequestMsg

(* Commits carry writes.                                                   *)
LEMMA CommitData ==
  ASSUME TypeChannels
  PROVE  \A q \in Peers : \A i \in DOMAIN toPeer[q] :
           toPeer[q][i].kind = "commit" => toPeer[q][i].data \in Writes
<1>1. \A q \in Peers : \A i \in DOMAIN toPeer[q] : toPeer[q][i] \in ToPeerMsg
  BY DEF TypeChannels
<1>2. \A m \in ToPeerMsg : m.kind = "commit" => m.data \in Writes
  BY DEF ToPeerMsg, CommitMsg, AnswerMsg, CheckpointMsg
<1>q. QED
  BY <1>1, <1>2

(* OrderInv holds initially.                                               *)
LEMMA OrderInit == Init => OrderInv
<1> SUFFICES ASSUME Init PROVE OrderInv
  OBVIOUS
<1>1. TypeOK
  BY TypeInit
<1>2. PendingRequests /\ RequestedOnce
  BY DEF Init, PendingRequests, RequestedOnce
<1>3. NumberedBelow /\ CommitsInFlight /\ CommitsInOrder /\ PeersCovered /\ PrimaryCovered
  BY DEF Init, NumberedBelow, CommitsInFlight, CommitsInOrder, PeersCovered, PrimaryCovered
<1>4. ExecutedWrites
  BY DEF Init, ExecutedWrites, Executed
<1>q. QED
  BY <1>1, <1>2, <1>3, <1>4 DEF OrderInv, Init

(* The client threads (ensure_consistency) keep OrderInv.                  *)
LEMMA OrderClient ==
  ASSUME OrderInv, NEW c \in Clients, ClientStep(c), TypeOK'
  PROVE  OrderInv'
<1>0. /\ TypeClients /\ TypeSequencer /\ TypeChannels /\ TypeStores
      /\ disabled_flag = [s \in Servers |-> 0]
      /\ PendingRequests /\ RequestedOnce /\ NumberedBelow /\ CommitsInFlight
      /\ CommitsInOrder /\ PeersCovered /\ PrimaryCovered /\ ExecutedWrites
  BY DEF OrderInv, TypeOK
<1>1. ASSUME pc[c] = "idle", issued[c] < MaxWrites, issued' = [issued EXCEPT ![c] = @ + 1],
             EnterWait(c), UNCHANGED <<queueVars, log>> \/ UNCHANGED <<spc, rd_log_struct, glbl_seq_num, order, log>>
      PROVE  NumberedBelow' /\ PrimaryCovered' /\ ExecutedWrites'
  <2>1. /\ UNCHANGED <<order, log, spc, rd_log_struct, glbl_seq_num>>
        /\ \A s \in Servers : Executed(s)' = Executed(s)
    BY <1>1 DEF queueVars, Executed
  <2>2. \A d \in Clients : issued'[d] = IF d = c THEN issued[c] + 1 ELSE issued[d]
    BY <1>1, <1>0 DEF TypeClients
  <2>3. NumberedBelow'
    BY <1>0, <2>1, <2>2, WritesFacts DEF NumberedBelow, TypeClients
  <2>4. PrimaryCovered'
    BY <1>0, <2>1 DEF PrimaryCovered
  <2>5. \A d \in Clients : d # c => pc'[d] = pc[d]
    BY <1>1, <1>0 DEF EnterWait, TypeClients
  <2>6. ExecutedWrites'
    <3> SUFFICES ASSUME NEW s \in Servers, NEW w \in Executed(s)
                 PROVE  IF Requestor[w] # s THEN order[w] >= 0
                        ELSE \/ w[2] < issued'[w[1]]
                             \/ w[2] = issued'[w[1]] /\ pc'[w[1]] = "idle"
      BY <2>1 DEF ExecutedWrites
    <3>1. w \in Writes
      BY <1>0, ExecutedType
    <3>q. QED
      BY <1>0, <2>2, <2>5, <3>1, WritesFacts DEF ExecutedWrites, TypeClients
  <2>q. QED
    BY <2>3, <2>4, <2>6
<1>2. ASSUME issued[c] < MaxWrites
      PROVE  /\ Request(c).kind = "request" /\ Request(c).data = <<c, issued[c] + 1>>
             /\ <<c, issued[c] + 1>> \in Writes
             /\ Request(c).requestor_id = Requestor[<<c, issued[c] + 1>>]
             /\ order[<<c, issued[c] + 1>>] = -1
  <2>1. <<c, issued[c] + 1>> \in Writes
    BY <1>0, <1>2 DEF TypeClients, Writes
  <2>2. order[<<c, issued[c] + 1>>] = -1
    BY <1>0, <1>2, <2>1 DEF NumberedBelow, TypeSequencer, TypeClients
  <2>q. QED
    BY <2>1, <2>2 DEF Request, Requestor
<1>3. CASE RequestRemote(c)
  <2> USE <1>0, <1>3 DEF RequestRemote
  <2>0. NumberedBelow' /\ PrimaryCovered' /\ ExecutedWrites'
    BY <1>1 DEF storeVars
  <2>1. CommitsInFlight' /\ CommitsInOrder' /\ PeersCovered'
    BY CommitsUnchanged DEF storeVars, queueVars
  <2> DEFINE h == Home[c]
             r == Request(c)
  <2>2. h \in Peers
    BY DEF Peers
  <2>3. /\ \A q \in Peers : q # h => toPrimary'[q] = toPrimary[q]
        /\ DOMAIN toPrimary'[h] = DOMAIN toPrimary[h] \union {Len(toPrimary[h]) + 1}
        /\ \A i \in DOMAIN toPrimary[h] : toPrimary'[h][i] = toPrimary[h][i]
        /\ toPrimary'[h][Len(toPrimary[h]) + 1] = r
        /\ hold_queue' = hold_queue /\ order' = order
    BY <2>2, RequestType DEF TypeChannels, queueVars
  <2>4. /\ \A i \in DOMAIN hold_queue : hold_queue[i].data \in Writes
        /\ \A q \in Peers : \A i \in DOMAIN toPrimary[q] :
             toPrimary[q][i].kind = "request" => toPrimary[q][i].data \in Writes
    BY RequestData
  <2>5. /\ \A v \in Writes : v[2] <= issued[v[1]] =>
             v[2] <= issued'[v[1]] /\ v # <<c, issued[c] + 1>>
        /\ r.data[2] <= issued'[r.data[1]]
    <3>1. r.data = <<c, issued[c] + 1>>
      BY <1>2
    <3>2. /\ \A v \in Writes : v[2] <= issued[v[1]] =>
               v[2] <= issued'[v[1]] /\ v # <<c, issued[c] + 1>>
          /\ issued[c] + 1 <= issued'[c]
      BY IssuedGrows
    <3>q. QED
      BY <3>1, <3>2
  <2> HIDE DEF r, h
  <2>8. \A q \in Peers : \A i \in DOMAIN toPrimary'[q] :
          \/ q = h /\ i = Len(toPrimary[h]) + 1 /\ toPrimary'[q][i] = r
          \/ i \in DOMAIN toPrimary[q] /\ toPrimary'[q][i] = toPrimary[q][i]
    BY <2>2, <2>3
  <2>6. PendingRequests'
    <3>1. \A i \in DOMAIN hold_queue' : Pending(hold_queue[i])'
      BY <2>3, <2>4, <2>5 DEF PendingRequests, Pending
    <3>2. ASSUME NEW q \in Peers, NEW i \in DOMAIN toPrimary'[q],
                 toPrimary'[q][i].kind = "request"
          PROVE  Pending(toPrimary[q][i])' /\ toPrimary'[q][i].requestor_id = q
      <4>1. CASE q = h /\ i = Len(toPrimary[h]) + 1
        BY <1>2, <2>2, <2>3, <2>5, <4>1 DEF Pending, r, h, Requestor
      <4>2. CASE ~(q = h /\ i = Len(toPrimary[h]) + 1)
        <5>1. i \in DOMAIN toPrimary[q] /\ toPrimary'[q][i] = toPrimary[q][i]
          BY <2>8, <4>2
        <5>2. toPrimary[q][i].kind = "request" /\ toPrimary[q][i].data \in Writes
          BY <2>4, <3>2, <5>1
        <5>3. Pending(toPrimary[q][i]) /\ toPrimary[q][i].requestor_id = q
          BY <5>1, <5>2 DEF PendingRequests
        <5> HIDE <1>0, <1>3
        <5>q. QED
          BY <2>3, <2>5, <5>1, <5>2, <5>3 DEF Pending
      <4>q. QED
        BY <4>1, <4>2
    <3>q. QED
      BY <3>1, <3>2 DEF PendingRequests
  <2>7. RequestedOnce'
    <3>1. r.data = <<c, issued[c] + 1>>
      BY <1>2 DEF r
    <3>2. /\ \A i \in DOMAIN hold_queue : hold_queue[i].data # r.data
          /\ \A q \in Peers : \A i \in DOMAIN toPrimary[q] :
               toPrimary[q][i].kind = "request" => toPrimary[q][i].data # r.data
      <4>1. /\ \A i \in DOMAIN hold_queue : Pending(hold_queue[i])
            /\ \A q \in Peers : \A i \in DOMAIN toPrimary[q] :
                 toPrimary[q][i].kind = "request" => Pending(toPrimary[q][i])
        BY DEF PendingRequests
      <4> HIDE <1>0, <1>3
      <4>q. QED
        BY <2>4, <2>5, <3>1, <4>1 DEF Pending
    <3> HIDE <1>3
    <3>q. QED
      BY <2>3, <2>8, <3>2 DEF RequestedOnce
  <2>q. QED
    BY <2>0, <2>1, <2>6, <2>7 DEF OrderInv
<1>4. CASE RequestLocal(c)
  <2> USE <1>0, <1>4 DEF RequestLocal
  <2>0. NumberedBelow' /\ PrimaryCovered' /\ ExecutedWrites'
    BY <1>1 DEF storeVars
  <2>1. CommitsInFlight' /\ CommitsInOrder' /\ PeersCovered'
    BY CommitsUnchanged DEF storeVars, netVars
  <2> DEFINE r == Request(c)
  <2>3. /\ DOMAIN hold_queue' = DOMAIN hold_queue \union {Len(hold_queue) + 1}
        /\ \A i \in DOMAIN hold_queue : hold_queue'[i] = hold_queue[i]
        /\ hold_queue'[Len(hold_queue) + 1] = r
        /\ toPrimary' = toPrimary /\ order' = order
    BY RequestType DEF TypeSequencer, netVars
  <2>4. /\ \A i \in DOMAIN hold_queue : hold_queue[i].data \in Writes
        /\ \A q \in Peers : \A i \in DOMAIN toPrimary[q] :
             toPrimary[q][i].kind = "request" => toPrimary[q][i].data \in Writes
    BY RequestData
  <2>5. /\ \A v \in Writes : v[2] <= issued[v[1]] =>
             v[2] <= issued'[v[1]] /\ v # <<c, issued[c] + 1>>
        /\ r.data[2] <= issued'[r.data[1]]
    <3>1. r.data = <<c, issued[c] + 1>>
      BY <1>2
    <3>2. /\ \A v \in Writes : v[2] <= issued[v[1]] =>
               v[2] <= issued'[v[1]] /\ v # <<c, issued[c] + 1>>
          /\ issued[c] + 1 <= issued'[c]
      BY IssuedGrows
    <3>q. QED
      BY <3>1, <3>2
  <2> HIDE DEF r
  <2>6. PendingRequests'
    <3>1. ASSUME NEW i \in DOMAIN hold_queue' PROVE Pending(hold_queue[i])'
      <4>1. CASE i = Len(hold_queue) + 1
        BY <1>2, <2>3, <2>5, <4>1 DEF Pending, r
      <4>2. CASE i \in DOMAIN hold_queue
        <5>1. Pending(hold_queue[i])
          BY <4>2 DEF PendingRequests
        <5> HIDE <1>0, <1>4
        <5>q. QED
          BY <2>3, <2>4, <2>5, <4>2, <5>1 DEF Pending
      <4>q. QED
        BY <2>3, <4>1, <4>2
    <3>2. ASSUME NEW q \in Peers, NEW i \in DOMAIN toPrimary'[q],
                 toPrimary'[q][i].kind = "request"
          PROVE  Pending(toPrimary[q][i])' /\ toPrimary'[q][i].requestor_id = q
      <4>1. toPrimary[q][i].kind = "request" /\ toPrimary[q][i].data \in Writes
        BY <2>3, <2>4, <3>2
      <4>2. Pending(toPrimary[q][i]) /\ toPrimary[q][i].requestor_id = q
        BY <2>3, <4>1 DEF PendingRequests
      <4> HIDE <1>0, <1>4
      <4>q. QED
        BY <2>3, <2>5, <4>1, <4>2 DEF Pending
    <3>q. QED
      BY <3>1, <3>2 DEF PendingRequests
  <2>7. RequestedOnce'
    <3>1. r.data = <<c, issued[c] + 1>>
      BY <1>2 DEF r
    <3>2. /\ \A i \in DOMAIN hold_queue : hold_queue[i].data # r.data
          /\ \A q \in Peers : \A i \in DOMAIN toPrimary[q] :
               toPrimary[q][i].kind = "request" => toPrimary[q][i].data # r.data
      <4>1. /\ \A i \in DOMAIN hold_queue : Pending(hold_queue[i])
            /\ \A q \in Peers : \A i \in DOMAIN toPrimary[q] :
                 toPrimary[q][i].kind = "request" => Pending(toPrimary[q][i])
        BY DEF PendingRequests
      <4> HIDE <1>0, <1>4
      <4>q. QED
        BY <2>4, <2>5, <3>1, <4>1 DEF Pending
    <3>q. QED
      BY <2>3, <3>2 DEF RequestedOnce
  <2>q. QED
    BY <2>0, <2>1, <2>6, <2>7 DEF OrderInv
<1>5. ASSUME Block(c) \/ Wake(c) PROVE OrderInv'
  <2> USE <1>0, <1>5 DEF Block, Wake
  <2>1. UNCHANGED <<issued, queueVars, netVars, storeVars, disabled_flag>>
    OBVIOUS
  <2>2. PendingRequests' /\ RequestedOnce'
    BY <2>1, RequestsUnchanged DEF queueVars, netVars
  <2>3. CommitsInFlight' /\ CommitsInOrder' /\ PeersCovered'
    BY <2>1, CommitsUnchanged DEF queueVars, netVars, storeVars
  <2>4. NumberedBelow' /\ PrimaryCovered'
    BY <2>1, PrimaryUnchanged DEF queueVars, storeVars
  <2>5. \A d \in Clients : pc[d] = "idle" => pc'[d] = "idle"
    BY DEF TypeClients
  <2>6. ExecutedWrites'
    <3> SUFFICES ASSUME NEW s \in Servers, NEW w \in Executed(s)
                 PROVE  IF Requestor[w] # s THEN order[w] >= 0
                        ELSE \/ w[2] < issued[w[1]]
                             \/ w[2] = issued[w[1]] /\ pc'[w[1]] = "idle"
      BY <2>1 DEF ExecutedWrites, Executed, queueVars, storeVars
    <3>1. w[1] \in Clients
      BY ExecutedType, WritesFacts
    <3>q. QED
      BY <2>5, <3>1 DEF ExecutedWrites
  <2>q. QED
    BY <2>1, <2>2, <2>3, <2>4, <2>6 DEF OrderInv
<1>6. CASE Proceed(c)
  <2> USE <1>0, <1>6 DEF Proceed
  <2> DEFINE s == Home[c]
             w == <<c, issued[c]>>
  <2>1. w \in Writes /\ Requestor[w] = s /\ s \in Servers
    BY DEF TypeClients, Writes, Requestor
  <2>2. process_command(s, w)
    BY DEF process_if_enabled
  <2>3. /\ Executed(s)' = Executed(s) \union {w}
        /\ \A t \in Servers : t # s => Executed(t)' = Executed(t)
    BY <2>1, <2>2, ExecutedAfterProcess
  <2>4. UNCHANGED <<issued, hold_queue, spc, rd_log_struct, glbl_seq_num, order, toPeer, toPrimary, disabled_flag>>
    BY DEF queueVars, netVars
  <2>5. PendingRequests' /\ RequestedOnce'
    BY <2>4, RequestsUnchanged
  <2>6. NumberedBelow'
    BY <2>4 DEF NumberedBelow
  <2>7. CommitsInFlight' /\ CommitsInOrder' /\ PeersCovered'
    <3> HIDE <1>6
    <3>1. \A p \in Peers : p \in Servers
      BY DEF Peers
    <3>2. CommitsInFlight'
      BY <2>1, <2>3, <2>4, <3>1 DEF CommitsInFlight
    <3>3. CommitsInOrder'
      BY <2>4 DEF CommitsInOrder
    <3>4. PeersCovered'
      BY <2>1, <2>3, <2>4, <3>1 DEF PeersCovered
    <3>q. QED
      BY <3>2, <3>3, <3>4
  <2>8. PrimaryCovered'
    BY <2>1, <2>3, <2>4 DEF PrimaryCovered
  <2>9. ExecutedWrites'
    <3> SUFFICES ASSUME NEW t \in Servers, NEW v \in Executed(t)'
                 PROVE  IF Requestor[v] # t THEN order[v] >= 0
                        ELSE \/ v[2] < issued[v[1]]
                             \/ v[2] = issued[v[1]] /\ pc'[v[1]] = "idle"
      BY <2>4 DEF ExecutedWrites
    <3>0. pc' = [pc EXCEPT ![c] = "idle"] /\ pc \in [Clients -> {"idle", "sent", "waiting", "released"}]
      BY DEF TypeClients
    <3>1. CASE v = w /\ t = s
      BY <2>1, <3>0, <3>1
    <3>2. CASE v \in Executed(t)
      <4>1. v[1] \in Clients
        BY <3>2, ExecutedType, WritesFacts
      <4>q. QED
        BY <3>0, <3>2, <4>1 DEF ExecutedWrites
    <3>q. QED
      BY <2>1, <2>3, <3>1, <3>2
  <2>q. QED
    BY <2>4, <2>5, <2>6, <2>7, <2>8, <2>9 DEF OrderInv
<1>q. QED
  BY <1>3, <1>4, <1>5, <1>6 DEF ClientStep

(* The listeners of the primary (listen_peer) keep OrderInv: a request     *)
(* moves from its connection to hold_queue, everything else leaves order   *)
(* and logs alone.                                                         *)
LEMMA OrderPrimaryListener ==
  ASSUME OrderInv, NEW p \in Peers, PrimaryListenerStep(p), TypeOK'
  PROVE  OrderInv'
<1>0. /\ TypeClients /\ TypeSequencer /\ TypeChannels /\ TypeStores
      /\ disabled_flag = [s \in Servers |-> 0]
      /\ PendingRequests /\ RequestedOnce /\ NumberedBelow /\ CommitsInFlight
      /\ CommitsInOrder /\ PeersCovered /\ PrimaryCovered /\ ExecutedWrites
  BY DEF OrderInv, TypeOK
<1>1. CASE RecvRequest(p)
  <2> USE <1>0, <1>1 DEF RecvRequest
  <2>1. UNCHANGED <<issued, pc, spc, rd_log_struct, glbl_seq_num, order, toPeer, log, disabled_flag>>
    BY DEF clientVars, storeVars
  <2>2. CommitsInFlight' /\ CommitsInOrder' /\ PeersCovered'
    BY <2>1, CommitsUnchanged
  <2>3. NumberedBelow' /\ PrimaryCovered'
    BY <2>1, PrimaryUnchanged
  <2>4. ExecutedWrites'
    BY <2>1, ExecutedUnchanged
  <2> DEFINE r == Head(toPrimary[p])
  <2>5. /\ toPrimary[p] # <<>> /\ r.kind = "request" /\ r = toPrimary[p][1]
        /\ 1 \in DOMAIN toPrimary[p] /\ r \in RequestMsg
    <3>1. toPrimary[p] # <<>> /\ r.kind = "request" /\ r \in ToPrimaryMsg
      BY DEF Incoming, TypeChannels
    <3>2. r \in RequestMsg
      BY <3>1 DEF ToPrimaryMsg, AnswerMsg, CheckpointMsg
    <3>q. QED
      BY <3>1, <3>2 DEF TypeChannels
  <2>6. /\ DOMAIN hold_queue' = DOMAIN hold_queue \union {Len(hold_queue) + 1}
        /\ \A i \in DOMAIN hold_queue : hold_queue'[i] = hold_queue[i]
        /\ hold_queue'[Len(hold_queue) + 1] = r
    BY <2>5 DEF TypeSequencer
  <2>7. \A q \in Peers : \A i \in DOMAIN toPrimary'[q] :
          \E j \in DOMAIN toPrimary[q] :
            toPrimary'[q][i] = toPrimary[q][j] /\ j = IF q = p THEN i + 1 ELSE i
    BY DEF TypeChannels, Consume
  <2>8. \A q \in Peers : DOMAIN toPrimary'[q] \subseteq Nat \ {0}
    BY DEF TypeChannels, Consume
  <2>a. \A q \in Peers : \A i \in DOMAIN toPrimary[q] :
          toPrimary[q][i].kind = "request" => toPrimary[q][i].requestor_id = q
    BY DEF PendingRequests
  <2> HIDE <1>1 DEF r
  <2>9. PendingRequests'
    <3>1. ASSUME NEW i \in DOMAIN hold_queue' PROVE Pending(hold_queue[i])'
      <4>1. CASE i = Len(hold_queue) + 1
        BY <2>1, <2>5, <2>6, <4>1 DEF PendingRequests, Pending
      <4>2. CASE i \in DOMAIN hold_queue
        BY <2>1, <2>6, <4>2 DEF PendingRequests, Pending
      <4>q. QED
        BY <2>6, <4>1, <4>2
    <3>2. ASSUME NEW q \in Peers, NEW i \in DOMAIN toPrimary'[q],
                 toPrimary'[q][i].kind = "request"
          PROVE  Pending(toPrimary[q][i])' /\ toPrimary'[q][i].requestor_id = q
      BY <2>1, <2>7, <3>2 DEF PendingRequests, Pending
    <3>q. QED
      BY <3>1, <3>2 DEF PendingRequests
  <2>10. RequestedOnce'
    <3>1. \A i, j \in DOMAIN hold_queue' : hold_queue'[i].data = hold_queue'[j].data => i = j
      BY <2>5, <2>6 DEF RequestedOnce
    <3>2. ASSUME NEW q \in Peers, NEW i \in DOMAIN toPrimary'[q],
                 toPrimary'[q][i].kind = "request"
          PROVE  /\ \A j \in DOMAIN toPrimary'[q] :
                      (toPrimary'[q][j].kind = "request"
                         /\ toPrimary'[q][i].data = toPrimary'[q][j].data) => i = j
                 /\ \A j \in DOMAIN hold_queue' : toPrimary'[q][i].data # hold_queue'[j].data
      <4>1. PICK a \in DOMAIN toPrimary[q] :
              toPrimary'[q][i] = toPrimary[q][a] /\ a = IF q = p THEN i + 1 ELSE i
        BY <2>7
      <4>2. ASSUME NEW j \in DOMAIN toPrimary'[q], toPrimary'[q][j].kind = "request",
                   toPrimary'[q][i].data = toPrimary'[q][j].data
            PROVE  i = j
        <5>1. PICK b \in DOMAIN toPrimary[q] :
                toPrimary'[q][j] = toPrimary[q][b] /\ b = IF q = p THEN j + 1 ELSE j
          BY <2>7
        <5>2. a = b
          BY <3>2, <4>1, <4>2, <5>1 DEF RequestedOnce
        <5>q. QED
          BY <2>8, <4>1, <5>1, <5>2
      <4>3. toPrimary[q][a].data # r.data
        <5>1. CASE q = p
          <6>1. a # 1 /\ a \in DOMAIN toPrimary[p] /\ toPrimary[p][a].kind = "request"
            BY <2>8, <3>2, <4>1, <5>1
          <6>q. QED
            BY <2>5, <5>1, <6>1 DEF RequestedOnce
        <5>2. CASE q # p
          <6>1. toPrimary[q][a].requestor_id = Requestor[toPrimary[q][a].data]
            BY <3>2, <4>1 DEF PendingRequests, Pending
          <6>2. r.requestor_id = Requestor[r.data]
            BY <2>5 DEF PendingRequests, Pending
          <6>q. QED
            BY <2>5, <2>a, <3>2, <4>1, <5>2, <6>1, <6>2
        <5>q. QED
          BY <5>1, <5>2
      <4>4. \A j \in DOMAIN hold_queue' : toPrimary'[q][i].data # hold_queue'[j].data
        BY <2>6, <3>2, <4>1, <4>3 DEF RequestedOnce
      <4>q. QED
        BY <4>2, <4>4
    <3>q. QED
      BY <3>1, <3>2 DEF RequestedOnce
  <2>q. QED
    BY <2>1, <2>2, <2>3, <2>4, <2>9, <2>10 DEF OrderInv
<1>2. ASSUME UNCHANGED <<issued, pc, queueVars, log, disabled_flag>>,
             Incoming(toPrimary, p, "+ACK") \/ Incoming(toPrimary, p, "+CP_ACK"),
             UNCHANGED toPrimary \/ Consume(p),
             \/ UNCHANGED toPeer
             \/ ReleaseRequestor(Head(toPrimary[p])) /\ Incoming(toPrimary, p, "+ACK")
      PROVE  OrderInv'
  <2> USE <1>0, <1>2
  <2>1. UNCHANGED <<hold_queue, spc, rd_log_struct, glbl_seq_num, order>>
    BY DEF queueVars
  <2>2. NumberedBelow' /\ PrimaryCovered'
    BY <2>1, PrimaryUnchanged
  <2>3. ExecutedWrites'
    BY <2>1, ExecutedUnchanged
  <2>4. PendingRequests' /\ RequestedOnce'
    <3>1. CASE UNCHANGED toPrimary
      BY <2>1, <3>1, RequestsUnchanged
    <3>2. CASE Consume(p)
      <4>1. toPrimary[p] # <<>> /\ Head(toPrimary[p]).kind # "request"
        BY DEF Incoming
      <4>q. QED
        BY <2>1, <3>2, <4>1, RequestsAfterConsume
    <3>q. QED
      BY <3>1, <3>2
  <2>5. CommitsInFlight' /\ CommitsInOrder' /\ PeersCovered'
    <3>1. CASE UNCHANGED toPeer
      BY <2>1, <3>1, CommitsUnchanged
    <3>2. CASE ReleaseRequestor(Head(toPrimary[p])) /\ Incoming(toPrimary, p, "+ACK")
      <4> DEFINE m == Head(toPrimary[p])
                 k == [m EXCEPT !.kind = "+OK"]
                 Q == {m.requestor_id}
      <4>1. CASE m.requestor_id = Primary
        BY <2>1, <3>2, <4>1, CommitsUnchanged DEF ReleaseRequestor
      <4>2. CASE m.requestor_id # Primary
        <5>1. m \in AnswerMsg("+ACK")
          <6>1. m \in ToPrimaryMsg /\ m.kind = "+ACK"
            BY <3>2 DEF Incoming, TypeChannels
          <6>q. QED
            BY <6>1 DEF ToPrimaryMsg, RequestMsg, AnswerMsg, CheckpointMsg
        <5>2. m.requestor_id \in Peers /\ k.kind # "commit"
          BY <4>2, <5>1 DEF AnswerMsg, Peers
        <5>3. toPeer' = [toPeer EXCEPT ![m.requestor_id] = Append(@, k)]
          BY <3>2, <4>2 DEF ReleaseRequestor
        <5> HIDE DEF m, k
        <5>4. toPeer' = [q \in Peers |-> IF q \in Q THEN Append(toPeer[q], k) ELSE toPeer[q]]
          BY <5>2, <5>3 DEF TypeChannels
        <5>5. Q \in SUBSET Peers
          BY <5>2
        <5> HIDE DEF Q
        <5>q. QED
          BY <2>1, <5>2, <5>4, <5>5, CommitsAfterSend
      <4>q. QED
        BY <4>1, <4>2
    <3>q. QED
      BY <3>1, <3>2
  <2>q. QED
    BY <2>1, <2>2, <2>3, <2>4, <2>5 DEF OrderInv
<1>3. CASE RecvAck(p)
  <2>1. /\ UNCHANGED <<issued, pc, queueVars, log, disabled_flag>>
        /\ Incoming(toPrimary, p, "+ACK") /\ Consume(p)
        /\ UNCHANGED toPeer \/ ReleaseRequestor(Head(toPrimary[p]))
    BY <1>3 DEF RecvAck, clientVars, storeVars
  <2>q. QED
    BY <1>2, <2>1
<1>4. CASE AckLoad(p)
  <2>1. /\ UNCHANGED <<issued, pc, queueVars, log, disabled_flag>>
        /\ Incoming(toPrimary, p, "+ACK")
        /\ UNCHANGED toPrimary \/ Consume(p)
        /\ UNCHANGED toPeer
    BY <1>4 DEF AckLoad, clientVars, storeVars
  <2>q. QED
    BY <1>2, <2>1
<1>5. CASE AckStore(p)
  <2>1. /\ UNCHANGED <<issued, pc, queueVars, log, disabled_flag>>
        /\ Incoming(toPrimary, p, "+ACK")
        /\ UNCHANGED toPrimary /\ UNCHANGED toPeer
    BY <1>5 DEF AckStore, clientVars, storeVars, netVars
  <2>q. QED
    BY <1>2, <2>1
<1>6. CASE AckAct(p)
  <2>1. /\ UNCHANGED <<issued, pc, queueVars, log, disabled_flag>>
        /\ Incoming(toPrimary, p, "+ACK") /\ Consume(p)
        /\ UNCHANGED toPeer \/ ReleaseRequestor(Head(toPrimary[p]))
    BY <1>6 DEF AckAct, clientVars, storeVars
  <2>q. QED
    BY <1>2, <2>1
<1>7. ASSUME RecvCpAck(p) \/ CpAckLoad(p) \/ CpAckStore(p) \/ CpAckTest(p) \/ CpAckClear(p)
      PROVE  OrderInv'
  <2>1. /\ UNCHANGED <<issued, pc, queueVars, log, disabled_flag>>
        /\ Incoming(toPrimary, p, "+CP_ACK")
        /\ UNCHANGED toPrimary \/ Consume(p)
        /\ UNCHANGED toPeer
    BY <1>7 DEF RecvCpAck, CpAckLoad, CpAckStore, CpAckTest, CpAckClear, clientVars, storeVars,
                netVars
  <2>q. QED
    BY <1>2, <2>1
<1>q. QED
  BY <1>1, <1>3, <1>4, <1>5, <1>6, <1>7 DEF PrimaryListenerStep

(* The listeners of the replicas keep OrderInv: a replica executes the     *)
(* oldest commit it has not executed.                                      *)
LEMMA OrderReplica ==
  ASSUME OrderInv, NEW p \in Peers, ReplicaListenerStep(p), TypeOK'
  PROVE  OrderInv'
<1>0. /\ TypeClients /\ TypeSequencer /\ TypeChannels /\ TypeStores
      /\ disabled_flag = [s \in Servers |-> 0]
      /\ PendingRequests /\ RequestedOnce /\ NumberedBelow /\ CommitsInFlight
      /\ CommitsInOrder /\ PeersCovered /\ PrimaryCovered /\ ExecutedWrites
      /\ p \in Servers /\ p # Primary
  BY DEF OrderInv, TypeOK, Peers
<1>1. CASE RecvCommit(p)
  <2> USE <1>0, <1>1 DEF RecvCommit
  <2> DEFINE m == Head(toPeer[p])
             d == m.data
  <2>1. UNCHANGED <<issued, pc, hold_queue, spc, rd_log_struct, glbl_seq_num, order, disabled_flag>>
    BY DEF clientVars, queueVars
  <2>2. /\ toPeer[p] # <<>> /\ m.kind = "commit" /\ m = toPeer[p][1]
        /\ 1 \in DOMAIN toPeer[p] /\ m \in CommitMsg
    <3>1. toPeer[p] # <<>> /\ m.kind = "commit" /\ m \in ToPeerMsg
      BY DEF Incoming, TypeChannels
    <3>2. m \in CommitMsg
      BY <3>1 DEF ToPeerMsg, AnswerMsg, CheckpointMsg
    <3>q. QED
      BY <3>1, <3>2 DEF TypeChannels
  <2>3. d \in Writes /\ m.requestor_id = Requestor[d] /\ order[d] >= 0
    BY <2>2 DEF CommitsInFlight, CommitMsg
  <2>4. /\ \A t \in Servers : t # p => Executed(t)' = Executed(t)
        /\ Requestor[d] # p => Executed(p)' = Executed(p) \union {d}
        /\ Requestor[d] = p => Executed(p)' = Executed(p)
    <3>1. CASE Requestor[d] # p
      <4>1. process_command(p, d)
        BY <2>3, <3>1 DEF process_if_enabled
      <4>q. QED
        BY <2>3, <3>1, <4>1, ExecutedAfterProcess
    <3>2. CASE Requestor[d] = p
      BY <2>3, <3>2 DEF Executed, storeVars
    <3>q. QED
      BY <3>1, <3>2
  <2>5. PendingRequests' /\ RequestedOnce'
    <3> DEFINE a == [m EXCEPT !.kind = "+ACK", !.data = None]
    <3>1. a.kind # "request"
      BY <2>2 DEF CommitMsg
    <3>2. toPrimary' = [toPrimary EXCEPT ![p] = Append(@, a)]
      BY DEF Reply
    <3> HIDE DEF a
    <3>q. QED
      BY <2>1, <3>1, <3>2, RequestsAfterReply
  <2>6. \A q \in Peers : \A i \in DOMAIN toPeer'[q] :
          \E j \in DOMAIN toPeer[q] :
            toPeer'[q][i] = toPeer[q][j] /\ j = IF q = p THEN i + 1 ELSE i
    BY DEF TypeChannels
  <2>7. \A q \in Peers : DOMAIN toPeer'[q] \subseteq Nat \ {0}
    BY DEF TypeChannels
  <2>8. \A q \in Peers : \A j \in DOMAIN toPeer[q] :
          \/ q = p /\ toPeer[q][j] = m
          \/ \E i \in DOMAIN toPeer'[q] : toPeer'[q][i] = toPeer[q][j]
    <3> SUFFICES ASSUME NEW q \in Peers, NEW j \in DOMAIN toPeer[q]
                 PROVE  \/ q = p /\ toPeer[q][j] = m
                        \/ \E i \in DOMAIN toPeer'[q] : toPeer'[q][i] = toPeer[q][j]
      OBVIOUS
    <3>1. CASE q = p /\ j = 1
      BY <2>2, <3>1
    <3>2. CASE q = p /\ j # 1
      <4>1. j - 1 \in DOMAIN toPeer'[q] /\ toPeer'[q][j - 1] = toPeer[q][j]
        BY <3>2 DEF TypeChannels
      <4>q. QED BY <4>1
    <3>3. CASE q # p
      BY <3>3 DEF TypeChannels
    <3>q. QED BY <3>1, <3>2, <3>3
  <2>9. \A q \in Peers : q \in Servers
    BY DEF Peers
  <2> HIDE <1>1 DEF m, d
  <2>10. CommitsInFlight'
    <3> SUFFICES ASSUME NEW q \in Peers, NEW i \in DOMAIN toPeer'[q],
                        toPeer'[q][i].kind = "commit"
                 PROVE  /\ toPeer'[q][i].requestor_id = Requestor[toPeer'[q][i].data]
                        /\ order[toPeer'[q][i].data] >= 0
                        /\ Requestor[toPeer'[q][i].data] # q => toPeer'[q][i].data \notin Executed(q)'
      BY <2>1 DEF CommitsInFlight
    <3>1. PICK j \in DOMAIN toPeer[q] :
            toPeer'[q][i] = toPeer[q][j] /\ j = IF q = p THEN i + 1 ELSE i
      BY <2>6
    <3>2. /\ toPeer[q][j].requestor_id = Requestor[toPeer[q][j].data]
          /\ order[toPeer[q][j].data] >= 0
          /\ Requestor[toPeer[q][j].data] # q => toPeer[q][j].data \notin Executed(q)
      BY <3>1 DEF CommitsInFlight
    <3>3. CASE q = p
      <4>1. 1 < j
        BY <2>7, <3>1, <3>3
      <4>2. order[d] < order[toPeer[q][j].data]
        BY <2>2, <3>1, <3>3, <4>1 DEF CommitsInOrder, d
      <4>3. d # toPeer[q][j].data
        <5>1. order[d] \in Int
          BY <2>3 DEF TypeSequencer
        <5>q. QED BY <4>2, <5>1
      <4>q. QED
        BY <2>4, <3>1, <3>2, <3>3, <4>3
    <3>4. CASE q # p
      BY <2>4, <2>9, <3>1, <3>2, <3>4
    <3>q. QED BY <3>3, <3>4
  <2>11. CommitsInOrder'
    <3> SUFFICES ASSUME NEW q \in Peers, NEW i \in DOMAIN toPeer'[q], NEW j \in DOMAIN toPeer'[q],
                        toPeer'[q][i].kind = "commit", toPeer'[q][j].kind = "commit", i < j
                 PROVE  order[toPeer'[q][i].data] < order[toPeer'[q][j].data]
      BY <2>1 DEF CommitsInOrder
    <3>1. PICK a \in DOMAIN toPeer[q] : toPeer'[q][i] = toPeer[q][a] /\ a = IF q = p THEN i + 1 ELSE i
      BY <2>6
    <3>2. PICK b \in DOMAIN toPeer[q] : toPeer'[q][j] = toPeer[q][b] /\ b = IF q = p THEN j + 1 ELSE j
      BY <2>6
    <3>3. a < b
      BY <2>7, <3>1, <3>2
    <3>q. QED
      BY <3>1, <3>2, <3>3 DEF CommitsInOrder
  <2>12. PeersCovered'
    <3> SUFFICES ASSUME NEW q \in Peers, NEW w \in Writes, order[w] >= 0, Requestor[w] # q,
                        w \notin Executed(q)'
                 PROVE  \E i \in DOMAIN toPeer'[q] :
                          toPeer'[q][i].kind = "commit" /\ toPeer'[q][i].data = w
      BY <2>1 DEF PeersCovered
    <3>1. w \notin Executed(q) /\ (q = p => w # d)
      BY <2>4, <2>9
    <3>2. PICK j \in DOMAIN toPeer[q] : toPeer[q][j].kind = "commit" /\ toPeer[q][j].data = w
      BY <3>1 DEF PeersCovered
    <3>q. QED
      BY <2>8, <3>1, <3>2 DEF d
  <2>13. NumberedBelow' /\ PrimaryCovered'
    BY <2>1, <2>4 DEF NumberedBelow, PrimaryCovered
  <2>14. ExecutedWrites'
    BY <2>1, <2>3, <2>4 DEF ExecutedWrites
  <2>q. QED
    BY <2>1, <2>5, <2>10, <2>11, <2>12, <2>13, <2>14 DEF OrderInv
<1>2. CASE RecvOK(p)
  <2> USE <1>0, <1>2 DEF RecvOK
  <2>1. UNCHANGED <<issued, pc, hold_queue, spc, rd_log_struct, glbl_seq_num, order, toPrimary,
                    log, disabled_flag>>
    BY DEF clientVars, queueVars, storeVars
  <2>2. CommitsInFlight' /\ CommitsInOrder' /\ PeersCovered'
    <3>1. toPeer[p] # <<>> /\ Head(toPeer[p]).kind # "commit"
      BY DEF Incoming
    <3>q. QED
      BY <2>1, <3>1, CommitsAfterReceive
  <2>q. QED
    BY <2>1, <2>2, RequestsUnchanged, PrimaryUnchanged, ExecutedUnchanged DEF OrderInv
<1>3. CASE RecvCheckpoint(p)
  <2> USE <1>0, <1>3 DEF RecvCheckpoint
  <2>1. UNCHANGED <<issued, pc, hold_queue, spc, rd_log_struct, glbl_seq_num, order,
                    log, disabled_flag>>
    BY DEF clientVars, queueVars, storeVars
  <2> DEFINE m == Head(toPeer[p])
             a == [m EXCEPT !.kind = "+CP_ACK", !.data = None]
  <2>2. toPeer[p] # <<>> /\ m.kind = "+CHECKPOINT" /\ m \in ToPeerMsg
    BY DEF Incoming, TypeChannels
  <2>3. CommitsInFlight' /\ CommitsInOrder' /\ PeersCovered'
    BY <2>1, <2>2, CommitsAfterReceive
  <2>4. PendingRequests' /\ RequestedOnce'
    <3>1. a.kind # "request"
      BY <2>2 DEF ToPeerMsg, CommitMsg, AnswerMsg, CheckpointMsg
    <3>2. toPrimary' = [toPrimary EXCEPT ![p] = Append(@, a)]
      BY DEF Reply
    <3> HIDE DEF a
    <3>q. QED
      BY <2>1, <3>1, <3>2, RequestsAfterReply
  <2>q. QED
    BY <2>1, <2>3, <2>4, PrimaryUnchanged, ExecutedUnchanged DEF OrderInv
<1>q. QED
  BY <1>1, <1>2, <1>3 DEF ReplicaListenerStep

(* Numbering and broadcasting a request keeps OrderInv.                    *)
LEMMA OrderSequentialize ==
  ASSUME OrderInv, Sequentialize, TypeOK'
  PROVE  OrderInv'
<1>0. /\ TypeClients /\ TypeSequencer /\ TypeChannels /\ TypeStores
      /\ disabled_flag = [s \in Servers |-> 0]
      /\ PendingRequests /\ RequestedOnce /\ NumberedBelow /\ CommitsInFlight
      /\ CommitsInOrder /\ PeersCovered /\ PrimaryCovered /\ ExecutedWrites
  BY DEF OrderInv, TypeOK
<1> USE <1>0
<1> DEFINE m == Head(hold_queue)
           d == m.data
           k == [m EXCEPT !.kind = "commit", !.glbl_seq_num = glbl_seq_num]
<1>1. /\ UNCHANGED <<issued, pc, glbl_seq_num, toPrimary, log, disabled_flag>>
      /\ spc = "pop" /\ spc' = "commit" /\ rd_log_struct' = m
      /\ hold_queue # <<>> /\ hold_queue' = Tail(hold_queue)
      /\ order' = [order EXCEPT ![d] = glbl_seq_num]
      /\ \A s \in Servers : Executed(s)' = Executed(s)
  BY DEF Sequentialize, clientVars, storeVars, Executed
<1>2. m = hold_queue[1] /\ 1 \in DOMAIN hold_queue /\ m \in RequestMsg
  BY <1>1 DEF TypeSequencer
<1>3. d \in Writes /\ m.requestor_id = Requestor[d] /\ order[d] = -1 /\ d[2] <= issued[d[1]]
  BY <1>2 DEF PendingRequests, Pending, RequestMsg
<1>4. k.kind = "commit" /\ k.data = d /\ k.requestor_id = Requestor[d]
  BY <1>2, <1>3 DEF RequestMsg
<1>5. /\ \A q \in Peers : DOMAIN toPeer'[q] = DOMAIN toPeer[q] \union {Len(toPeer[q]) + 1}
      /\ \A q \in Peers : \A i \in DOMAIN toPeer[q] :
           toPeer'[q][i] = toPeer[q][i] /\ i < Len(toPeer[q]) + 1
      /\ \A q \in Peers : toPeer'[q][Len(toPeer[q]) + 1] = k
  <2>1. toPeer' = [q \in Peers |-> Append(toPeer[q], k)]
    BY DEF Sequentialize, Broadcast
  <2> HIDE DEF k
  <2>q. QED
    BY <2>1 DEF TypeChannels
<1>6. /\ \A w \in Writes : order'[w] = IF w = d THEN glbl_seq_num ELSE order[w]
      /\ \A w \in Writes : order[w] \in Int /\ order[w] < glbl_seq_num
      /\ glbl_seq_num \in Nat
  BY <1>1, <1>3 DEF TypeSequencer, NumberedBelow
<1>7. /\ \A i \in DOMAIN hold_queue' : /\ i \in Nat \ {0} /\ i + 1 \in DOMAIN hold_queue
                                        /\ hold_queue'[i] = hold_queue[i + 1]
      /\ DOMAIN hold_queue \subseteq Nat
  BY <1>1 DEF TypeSequencer
<1>8. /\ \A i \in DOMAIN hold_queue : hold_queue[i].data \in Writes
      /\ \A q \in Peers : \A i \in DOMAIN toPrimary[q] :
           toPrimary[q][i].kind = "request" => toPrimary[q][i].data \in Writes
  BY RequestData
<1>9. \A q \in Peers : \A i \in DOMAIN toPeer[q] :
        toPeer[q][i].kind = "commit" => toPeer[q][i].data \in Writes
  BY CommitData
<1>10. \A q \in Peers : q \in Servers
  BY DEF Peers
<1> HIDE DEF m, k, d
<1>11. PendingRequests'
  <2>1. ASSUME NEW i \in DOMAIN hold_queue' PROVE Pending(hold_queue[i])'
    <3>1. hold_queue[i + 1].data # d
      BY <1>2, <1>7 DEF RequestedOnce, d
    <3>q. QED
      BY <1>1, <1>6, <1>7, <1>8, <3>1 DEF PendingRequests, Pending
  <2>2. ASSUME NEW q \in Peers, NEW i \in DOMAIN toPrimary'[q],
               toPrimary'[q][i].kind = "request"
        PROVE  Pending(toPrimary[q][i])' /\ toPrimary'[q][i].requestor_id = q
    <3>1. toPrimary[q][i].data # d
      BY <1>1, <1>2, <2>2 DEF RequestedOnce, d
    <3>q. QED
      BY <1>1, <1>6, <1>8, <2>2, <3>1 DEF PendingRequests, Pending
  <2>q. QED
    BY <2>1, <2>2 DEF PendingRequests
<1>12. RequestedOnce'
  <2>1. \A i, j \in DOMAIN hold_queue' : hold_queue'[i].data = hold_queue'[j].data => i = j
    <3> SUFFICES ASSUME NEW i \in DOMAIN hold_queue', NEW j \in DOMAIN hold_queue',
                        hold_queue'[i].data = hold_queue'[j].data
                 PROVE  i = j
      OBVIOUS
    <3>1. i + 1 = j + 1
      BY <1>7 DEF RequestedOnce
    <3>q. QED BY <1>7, <3>1
  <2>q. QED
    BY <1>1, <1>7, <2>1 DEF RequestedOnce
<1>13. NumberedBelow'
  BY <1>1, <1>3, <1>6 DEF NumberedBelow
<1>14. CommitsInFlight'
  <2> SUFFICES ASSUME NEW q \in Peers, NEW i \in DOMAIN toPeer'[q],
                      toPeer'[q][i].kind = "commit"
               PROVE  /\ toPeer'[q][i].requestor_id = Requestor[toPeer'[q][i].data]
                      /\ order'[toPeer'[q][i].data] >= 0
                      /\ Requestor[toPeer'[q][i].data] # q => toPeer'[q][i].data \notin Executed(q)
    BY <1>1, <1>10 DEF CommitsInFlight
  <2>1. CASE i = Len(toPeer[q]) + 1
    <3>1. Requestor[d] # q => d \notin Executed(q)
      BY <1>3, <1>10 DEF ExecutedWrites
    <3>q. QED
      BY <1>3, <1>4, <1>5, <1>6, <2>1, <3>1
  <2>2. CASE i \in DOMAIN toPeer[q]
    BY <1>5, <1>6, <1>9, <2>2 DEF CommitsInFlight
  <2>q. QED
    BY <1>5, <2>1, <2>2
<1>15. CommitsInOrder'
  <2> SUFFICES ASSUME NEW q \in Peers, NEW i \in DOMAIN toPeer'[q], NEW j \in DOMAIN toPeer'[q],
                      toPeer'[q][i].kind = "commit", toPeer'[q][j].kind = "commit", i < j
               PROVE  order'[toPeer'[q][i].data] < order'[toPeer'[q][j].data]
    BY DEF CommitsInOrder
  <2>1. i \in DOMAIN toPeer[q] /\ toPeer'[q][i] = toPeer[q][i]
    <3>1. DOMAIN toPeer[q] \subseteq 1 .. Len(toPeer[q]) /\ Len(toPeer[q]) \in Nat
      BY DEF TypeChannels
    <3>q. QED
      BY <1>5, <3>1
  <2>2. toPeer[q][i].data \in Writes /\ toPeer[q][i].data # d
    BY <1>3, <1>9, <2>1 DEF CommitsInFlight
  <2>3. CASE j = Len(toPeer[q]) + 1
    BY <1>3, <1>4, <1>5, <1>6, <2>1, <2>2, <2>3
  <2>4. CASE j \in DOMAIN toPeer[q]
    <3>1. toPeer'[q][j] = toPeer[q][j] /\ toPeer[q][j].data \in Writes /\ toPeer[q][j].data # d
      BY <1>3, <1>5, <1>9, <2>4 DEF CommitsInFlight
    <3>2. order[toPeer[q][i].data] < order[toPeer[q][j].data]
      BY <2>1, <2>4, <3>1 DEF CommitsInOrder
    <3>q. QED
      BY <1>6, <2>1, <2>2, <3>1, <3>2
  <2>q. QED
    BY <1>5, <2>3, <2>4
<1>16. PeersCovered'
  <2> SUFFICES ASSUME NEW q \in Peers, NEW w \in Writes, order'[w] >= 0, Requestor[w] # q,
                      w \notin Executed(q)
               PROVE  \E i \in DOMAIN toPeer'[q] :
                        toPeer'[q][i].kind = "commit" /\ toPeer'[q][i].data = w
    BY <1>1, <1>10 DEF PeersCovered
  <2>1. CASE w = d
    BY <1>4, <1>5, <2>1
  <2>2. CASE w # d
    <3>1. PICK j \in DOMAIN toPeer[q] : toPeer[q][j].kind = "commit" /\ toPeer[q][j].data = w
      BY <1>6, <2>2 DEF PeersCovered
    <3>q. QED
      BY <1>5, <3>1
  <2>q. QED
    BY <2>1, <2>2
<1>17. PrimaryCovered'
  <2>1. Requestor[d] # Primary => d \notin Executed(Primary)
    BY <1>3 DEF ExecutedWrites
  <2>q. QED
    BY <1>1, <1>3, <1>6, <2>1 DEF PrimaryCovered, d
<1>18. ExecutedWrites'
  <2>1. \A s \in Servers : \A w \in Executed(s) : w \in Writes
    BY ExecutedType
  <2>q. QED
    BY <1>1, <1>6, <2>1 DEF ExecutedWrites
<1>q. QED
  BY <1>1, <1>11, <1>12, <1>13, <1>14, <1>15, <1>16, <1>17, <1>18 DEF OrderInv

(* The whole loop of the sequencer (primary_sequentialize) keeps OrderInv. *)
LEMMA OrderSequencer ==
  ASSUME OrderInv, SequencerStep, TypeOK'
  PROVE  OrderInv'
<1>0. /\ TypeClients /\ TypeSequencer /\ TypeChannels /\ TypeStores
      /\ disabled_flag = [s \in Servers |-> 0]
      /\ PendingRequests /\ RequestedOnce /\ NumberedBelow /\ CommitsInFlight
      /\ CommitsInOrder /\ PeersCovered /\ PrimaryCovered /\ ExecutedWrites
  BY DEF OrderInv, TypeOK
<1>1. CASE CommitPrimary
  <2> USE <1>0, <1>1 DEF CommitPrimary
  <2> DEFINE d == rd_log_struct.data
  <2>1. /\ UNCHANGED <<issued, pc, hold_queue, rd_log_struct, order, toPeer, toPrimary, disabled_flag>>
        /\ spc = "commit" /\ spc' = "check" /\ glbl_seq_num' = glbl_seq_num + 1
    BY DEF clientVars, netVars
  <2>2. /\ d \in Writes /\ rd_log_struct.requestor_id = Requestor[d]
        /\ order[d] = glbl_seq_num /\ glbl_seq_num \in Nat
        /\ Requestor[d] # Primary => d \notin Executed(Primary)
    BY DEF TypeSequencer, PrimaryCovered, RequestMsg
  <2>3. /\ \A t \in Servers : t # Primary => Executed(t)' = Executed(t)
        /\ Requestor[d] # Primary => Executed(Primary)' = Executed(Primary) \union {d}
        /\ Requestor[d] = Primary => Executed(Primary)' = Executed(Primary)
    <3>1. CASE Requestor[d] # Primary
      <4>1. process_command(Primary, d)
        BY <2>2, <3>1
      <4>q. QED
        BY <2>2, <3>1, <4>1, ExecutedAfterProcess
    <3>2. CASE Requestor[d] = Primary
      BY <2>2, <3>2 DEF Executed, storeVars
    <3>q. QED
      BY <3>1, <3>2
  <2> HIDE <1>1
  <2>4. PendingRequests' /\ RequestedOnce'
    BY <2>1, RequestsUnchanged
  <2>5. NumberedBelow'
    BY <2>1 DEF NumberedBelow, TypeSequencer
  <2>6. \A q \in Peers : q \in Servers /\ q # Primary
    BY DEF Peers
  <2>7. CommitsInFlight' /\ CommitsInOrder' /\ PeersCovered'
    BY <2>1, <2>3, <2>6 DEF CommitsInFlight, CommitsInOrder, PeersCovered
  <2>8. PrimaryCovered'
    BY <2>1, <2>2, <2>3 DEF PrimaryCovered
  <2>9. ExecutedWrites'
    BY <2>1, <2>2, <2>3 DEF ExecutedWrites
  <2>q. QED
    BY <2>1, <2>4, <2>5, <2>7, <2>8, <2>9 DEF OrderInv
<1>2. CASE CheckLogLimit
  <2> USE <1>0, <1>2 DEF CheckLogLimit
  <2>1. /\ UNCHANGED <<issued, pc, hold_queue, rd_log_struct, glbl_seq_num, order, toPrimary,
                       log, disabled_flag>>
        /\ spc = "check" /\ spc' # "commit"
    BY DEF clientVars, storeVars
  <2>2. CommitsInFlight' /\ CommitsInOrder' /\ PeersCovered'
    <3>1. CASE UNCHANGED toPeer
      BY <2>1, <3>1, CommitsUnchanged
    <3>2. CASE ~ UNCHANGED toPeer
      <4> DEFINE k == [kind |-> "+CHECKPOINT", requestor_id |-> None, seq_num |-> None,
                       glbl_seq_num |-> glbl_seq_num, data |-> None]
                 Q == Peers
      <4>1. toPeer' = [q \in Peers |-> Append(toPeer[q], k)]
        BY <3>2 DEF Broadcast
      <4>2. k.kind # "commit"
        OBVIOUS
      <4> HIDE DEF k
      <4>3. toPeer' = [q \in Peers |-> IF q \in Q THEN Append(toPeer[q], k) ELSE toPeer[q]]
        BY <4>1
      <4>4. Q \in SUBSET Peers
        OBVIOUS
      <4> HIDE DEF Q
      <4>q. QED
        BY <2>1, <4>2, <4>3, <4>4, CommitsAfterSend
    <3>q. QED
      BY <3>1, <3>2
  <2>q. QED
    BY <2>1, <2>2, RequestsUnchanged, PrimaryUnchanged, ExecutedUnchanged DEF OrderInv
<1>3. ASSUME CheckpointPrimary \/ EndCheckpoint PROVE OrderInv'
  <2> USE <1>0, <1>3 DEF CheckpointPrimary, EndCheckpoint
  <2>1. /\ UNCHANGED <<issued, pc, hold_queue, rd_log_struct, order, toPeer, toPrimary, log, disabled_flag>>
        /\ spc # "commit" /\ spc' # "commit"
        /\ glbl_seq_num' \in {glbl_seq_num, glbl_seq_num + 1}
    BY DEF clientVars, storeVars, netVars
  <2>2. PendingRequests' /\ RequestedOnce'
    BY <2>1, RequestsUnchanged
  <2>3. NumberedBelow' /\ PrimaryCovered'
    BY <2>1, PrimaryUnchanged
  <2>q. QED
    BY <2>1, <2>2, <2>3, CommitsUnchanged, ExecutedUnchanged DEF OrderInv
<1>q. QED
  BY <1>1, <1>2, <1>3, OrderSequentialize DEF SequencerStep

(* OrderInv is inductive.                                                  *)
LEMMA OrderNext == OrderInv /\ [Next]_vars => OrderInv'
<1> SUFFICES ASSUME OrderInv, [Next]_vars PROVE OrderInv'
  OBVIOUS
<1>0. TypeOK'
  BY TypeNext DEF OrderInv
<1>1. ASSUME NEW c \in Clients, ClientStep(c) PROVE OrderInv'
  BY <1>0, <1>1, OrderClient
<1>2. CASE SequencerStep
  BY <1>0, <1>2, OrderSequencer
<1>3. ASSUME NEW p \in Peers, ReplicaListenerStep(p) PROVE OrderInv'
  BY <1>0, <1>3, OrderReplica
<1>4. ASSUME NEW p \in Peers, PrimaryListenerStep(p) PROVE OrderInv'
  BY <1>0, <1>4, OrderPrimaryListener
<1>5. CASE UNCHANGED vars
  <2>1. UNCHANGED <<issued, pc, hold_queue, spc, rd_log_struct, glbl_seq_num, order, toPeer,
                    toPrimary, log, disabled_flag>>
    BY <1>5 DEF vars, clientVars, queueVars, netVars, storeVars
  <2>2. /\ TypeSequencer /\ PendingRequests /\ RequestedOnce /\ NumberedBelow /\ CommitsInFlight
        /\ CommitsInOrder /\ PeersCovered /\ PrimaryCovered /\ ExecutedWrites
    BY DEF OrderInv, TypeOK
  <2>3. NumberedBelow' /\ PrimaryCovered'
    BY <2>1, <2>2, PrimaryUnchanged
  <2>q. QED
    BY <1>0, <2>1, <2>2, <2>3, RequestsUnchanged, CommitsUnchanged, ExecutedUnchanged DEF OrderInv
<1>q. QED
  BY <1>1, <1>2, <1>3, <1>4, <1>5 DEF Next

(* OrderInv holds in every reachable state, for any number of servers,     *)
(* connections and writes and whichever races happen.                      *)
THEOREM OrderInvariant == Spec => []OrderInv
  BY OrderInit, OrderNext, PTL DEF Spec

-----------------------------------------------------------------------------
(* Refinement and convergence.                                             *)

(* An initial state of the group is an initial state of the abstract       *)
(* store.                                                                  *)
LEMMA RefineInit == Init => Store!Init
  BY DEF Init, Store!Init

(* Proceed executes an own write; the other client steps are invisible.    *)
LEMMA RefineClient ==
  ASSUME OrderInv, NEW c \in Clients, ClientStep(c)
  PROVE  [Store!Next]_(Store!vars)
<1>0. TypeClients /\ TypeStores /\ ExecutedWrites /\ disabled_flag = [s \in Servers |-> 0]
  BY DEF OrderInv, TypeOK
<1>1. CASE Proceed(c)
  <2> DEFINE s == Home[c]
             w == <<c, issued[c]>>
  <2>1. w \in Writes /\ Requestor[w] = s /\ s \in Servers /\ pc[c] = "released"
    BY <1>0, <1>1 DEF Proceed, TypeClients, Writes, Requestor
  <2>2. process_command(s, w) /\ UNCHANGED order
    BY <1>0, <1>1 DEF Proceed, process_if_enabled, queueVars
  <2>3. w \notin Executed(s)
    BY <1>0, <2>1 DEF ExecutedWrites, TypeClients
  <2>4. Store!ExecuteOwn(s, w)
    BY <2>1, <2>2, <2>3 DEF Store!ExecuteOwn, Store!Executed, Executed, process_command
  <2>q. QED
    BY <2>1, <2>4 DEF Store!Next
<1>2. CASE ~ Proceed(c)
  BY <1>2 DEF ClientStep, RequestRemote, RequestLocal, Block, Wake, queueVars, storeVars, Store!vars
<1>q. QED
  BY <1>1, <1>2

(* Sequentialize orders a write, CommitPrimary executes it on the primary; *)
(* the checkpoint steps are invisible.                                     *)
LEMMA RefineSequencer ==
  ASSUME OrderInv, SequencerStep
  PROVE  [Store!Next]_(Store!vars)
<1>0. /\ TypeSequencer /\ TypeStores /\ PendingRequests /\ NumberedBelow /\ PrimaryCovered
      /\ ExecutedWrites
  BY DEF OrderInv, TypeOK
<1>1. CASE Sequentialize
  <2> DEFINE d == Head(hold_queue).data
  <2>1. /\ spc = "pop" /\ hold_queue # <<>> /\ UNCHANGED log
        /\ order' = [order EXCEPT ![d] = glbl_seq_num]
    BY <1>1 DEF Sequentialize, storeVars
  <2>2. d \in Writes /\ order[d] = -1
    <3>1. Head(hold_queue) = hold_queue[1] /\ 1 \in DOMAIN hold_queue
      BY <1>0, <2>1 DEF TypeSequencer
    <3>2. hold_queue[1] \in RequestMsg
      BY <1>0, <3>1 DEF TypeSequencer
    <3>q. QED
      BY <1>0, <3>1, <3>2 DEF PendingRequests, Pending, RequestMsg
  <2>3. /\ order'[d] = glbl_seq_num /\ glbl_seq_num \in Nat
        /\ \A v \in Writes : order[v] < glbl_seq_num
    BY <1>0, <2>1, <2>2 DEF TypeSequencer, NumberedBelow
  <2> HIDE DEF d
  <2>4. Store!Sequence(d)
    BY <2>1, <2>2, <2>3 DEF Store!Sequence, Store!Ordered
  <2>q. QED
    BY <2>2, <2>4 DEF Store!Next
<1>2. CASE CommitPrimary
  <2> DEFINE d == rd_log_struct.data
  <2>1. /\ spc = "commit" /\ UNCHANGED order
        /\ IF rd_log_struct.requestor_id # Primary THEN process_command(Primary, d) ELSE UNCHANGED log
    BY <1>2 DEF CommitPrimary, storeVars
  <2>2. /\ d \in Writes /\ rd_log_struct.requestor_id = Requestor[d]
        /\ order[d] = glbl_seq_num /\ glbl_seq_num \in Nat
        /\ Requestor[d] # Primary => d \notin Executed(Primary)
    BY <1>0, <2>1 DEF TypeSequencer, PrimaryCovered, RequestMsg
  <2>3. CASE Requestor[d] = Primary
    BY <2>1, <2>2, <2>3 DEF Store!vars
  <2>4. CASE Requestor[d] # Primary
    <3>1. \A v \in Writes : (order[v] >= 0 /\ Requestor[v] # Primary /\ order[v] < order[d])
                              => v \in Executed(Primary)
      BY <1>0, <2>2 DEF PrimaryCovered, TypeSequencer
    <3>2. Store!ExecuteRemote(Primary, d)
      BY <2>1, <2>2, <2>4, <3>1
         DEF Store!ExecuteRemote, Store!Remote, Store!Ordered, Store!Executed, Executed,
             process_command
    <3>q. QED
      BY <2>2, <3>2 DEF Store!Next
  <2>q. QED
    BY <2>3, <2>4
<1>3. CASE CheckLogLimit \/ CheckpointPrimary \/ EndCheckpoint
  BY <1>3 DEF CheckLogLimit, CheckpointPrimary, EndCheckpoint, storeVars, Store!vars
<1>q. QED
  BY <1>1, <1>2, <1>3 DEF SequencerStep

(* RecvCommit executes the next write of the others; the other messages    *)
(* are invisible.                                                          *)
LEMMA RefineReplica ==
  ASSUME OrderInv, NEW p \in Peers, ReplicaListenerStep(p)
  PROVE  [Store!Next]_(Store!vars)
<1>0. /\ TypeSequencer /\ TypeChannels /\ TypeStores /\ CommitsInFlight /\ CommitsInOrder
      /\ PeersCovered /\ disabled_flag = [s \in Servers |-> 0] /\ p \in Servers
  BY DEF OrderInv, TypeOK, Peers
<1>1. CASE RecvCommit(p)
  <2> DEFINE m == Head(toPeer[p])
             d == m.data
  <2>1. /\ toPeer[p] # <<>> /\ m.kind = "commit" /\ UNCHANGED order
        /\ IF m.requestor_id # p THEN process_command(p, d) ELSE UNCHANGED log
    BY <1>0, <1>1 DEF RecvCommit, Incoming, process_if_enabled, queueVars, storeVars
  <2>2. m = toPeer[p][1] /\ DOMAIN toPeer[p] \subseteq Nat \ {0} /\ 1 \in DOMAIN toPeer[p]
    BY <1>0, <2>1 DEF TypeChannels
  <2>3. /\ d \in Writes /\ m.requestor_id = Requestor[d] /\ order[d] >= 0
        /\ Requestor[d] # p => d \notin Executed(p)
    BY <1>0, <2>1, <2>2, CommitData DEF CommitsInFlight
  <2> HIDE DEF m, d
  <2>4. CASE Requestor[d] = p
    BY <2>1, <2>3, <2>4 DEF Store!vars
  <2>5. CASE Requestor[d] # p
    <3>1. ASSUME NEW v \in Writes, order[v] >= 0, Requestor[v] # p, order[v] < order[d]
          PROVE  v \in Executed(p)
      <4>1. ASSUME NEW j \in DOMAIN toPeer[p], toPeer[p][j].kind = "commit", toPeer[p][j].data = v
            PROVE  FALSE
        <5>1. j = 1 \/ 1 < j
          BY <2>2
        <5>2. CASE 1 < j
          <6>1. order[d] < order[v]
            BY <1>0, <2>1, <2>2, <4>1, <5>2 DEF CommitsInOrder, d
          <6>q. QED
            BY <1>0, <2>3, <3>1, <6>1 DEF TypeSequencer
        <5>3. CASE j = 1
          BY <1>0, <2>2, <2>3, <3>1, <4>1, <5>3 DEF TypeSequencer, d
        <5>q. QED
          BY <5>1, <5>2, <5>3
      <4>q. QED
        BY <1>0, <3>1, <4>1 DEF PeersCovered
    <3>2. Store!ExecuteRemote(p, d)
      BY <2>1, <2>3, <2>5, <3>1
         DEF Store!ExecuteRemote, Store!Remote, Store!Ordered, Store!Executed, Executed,
             process_command
    <3>q. QED
      BY <1>0, <2>3, <3>2 DEF Store!Next
  <2>q. QED
    BY <2>4, <2>5
<1>2. CASE RecvOK(p) \/ RecvCheckpoint(p)
  BY <1>2 DEF RecvOK, RecvCheckpoint, queueVars, storeVars, Store!vars
<1>q. QED
  BY <1>1, <1>2 DEF ReplicaListenerStep

(* Every step is a step of the abstract store or invisible to it.          *)
LEMMA RefineNext == OrderInv /\ [Next]_vars => [Store!Next]_(Store!vars)
<1> SUFFICES ASSUME OrderInv, [Next]_vars PROVE [Store!Next]_(Store!vars)
  OBVIOUS
<1>1. ASSUME NEW c \in Clients, ClientStep(c) PROVE [Store!Next]_(Store!vars)
  BY <1>1, RefineClient
<1>2. CASE SequencerStep
  BY <1>2, RefineSequencer
<1>3. ASSUME NEW p \in Peers, ReplicaListenerStep(p) PROVE [Store!Next]_(Store!vars)
  BY <1>3, RefineReplica
<1>4. ASSUME NEW p \in Peers, PrimaryListenerStep(p) PROVE UNCHANGED Store!vars
  BY <1>4 DEF PrimaryListenerStep, RecvRequest, RecvAck, AckLoad, AckStore, AckAct, RecvCpAck,
              CpAckLoad, CpAckStore, CpAckTest, CpAckClear, queueVars, storeVars, Store!vars
<1>5. CASE UNCHANGED vars
  BY <1>5 DEF vars, queueVars, storeVars, Store!vars
<1>q. QED
  BY <1>1, <1>2, <1>3, <1>4, <1>5 DEF Next

(* The replica group implements ReplicatedStore: commits are executed in   *)
(* the order of their numbers, without gaps, and each server executes its  *)
(* own writes once.                                                        *)
THEOREM Refinement == Spec => Implements
  BY RefineInit, RefineNext, OrderInvariant, PTL DEF Spec, Implements, Store!Spec

-----------------------------------------------------------------------------
(* What follows from the promise of ReplicatedStore alone: writes learned  *)
(* from other servers are executed once, in one order, without gaps.       *)

\* No two writes have the same place.
DistinctPlaces == \A v, w \in Store!Ordered : order[v] = order[w] => v = w

\* A write of another server is executed only after it has a place.
ExecutedAreOrdered ==
  \A s \in Servers : \A w \in Store!Executed(s) : Requestor[w] # s => order[w] >= 0

StoreInv ==
  /\ Store!TypeOK
  /\ DistinctPlaces /\ ExecutedAreOrdered
  /\ Store!AtMostOnce /\ Store!RemoteInOrder /\ Store!RemoteNoGap

(* The empty store satisfies the invariant. *)
LEMMA StoreInit == Store!Init => StoreInv
<1> SUFFICES ASSUME Store!Init PROVE StoreInv
  OBVIOUS
<1>1. Store!TypeOK /\ DistinctPlaces
  BY DEF Store!Init, Store!TypeOK, DistinctPlaces, Store!Ordered
<1>2. ExecutedAreOrdered /\ Store!AtMostOnce /\ Store!RemoteInOrder /\ Store!RemoteNoGap
  BY DEF Store!Init, ExecutedAreOrdered, Store!AtMostOnce, Store!RemoteInOrder, Store!RemoteNoGap, Store!Executed, Store!Remote,
         Store!Ordered
<1>q. QED
  BY <1>1, <1>2 DEF StoreInv

(* Giving a write the next place disturbs nothing that was executed. *)
LEMMA StoreSequence ==
  ASSUME StoreInv, NEW w \in Writes, Store!Sequence(w)
  PROVE  StoreInv'
<1>0. Store!TypeOK /\ DistinctPlaces /\ ExecutedAreOrdered /\ Store!AtMostOnce /\ Store!RemoteInOrder /\ Store!RemoteNoGap
  BY DEF StoreInv
<1> DEFINE n == order'[w]
<1>1. /\ order[w] = -1 /\ n \in Nat /\ UNCHANGED log
      /\ \A v \in Store!Ordered : order[v] < n
      /\ \A v \in Writes : order'[v] = IF v = w THEN n ELSE order[v]
      /\ \A v \in Writes : order[v] \in Int
      /\ order' \in [Writes -> Nat \union {-1}]
  BY <1>0 DEF Store!Sequence, Store!TypeOK
<1>2. /\ Store!Ordered' = Store!Ordered \union {w} /\ w \notin Store!Ordered /\ Store!Ordered \subseteq Writes
      /\ \A s \in Servers : Store!Executed(s)' = Store!Executed(s) /\ Store!Executed(s) \subseteq Writes
  BY <1>0, <1>1 DEF Store!Ordered, Store!Executed, Store!TypeOK
<1>3. \A s \in Servers : w \in Store!Executed(s) => Requestor[w] = s
  BY <1>0, <1>1 DEF ExecutedAreOrdered
<1> HIDE DEF n
<1>4. Store!TypeOK' /\ Store!AtMostOnce'
  BY <1>0, <1>1 DEF Store!TypeOK, Store!AtMostOnce
<1>5. DistinctPlaces'
  BY <1>0, <1>1, <1>2 DEF DistinctPlaces
<1>6. ExecutedAreOrdered'
  BY <1>0, <1>1, <1>2 DEF ExecutedAreOrdered
<1>7. Store!RemoteInOrder'
  <2> SUFFICES ASSUME NEW s \in Servers, NEW i \in DOMAIN log[s], NEW j \in DOMAIN log[s],
                      i < j, {log[s][i], log[s][j]} \subseteq Store!Remote(s)'
               PROVE  order'[log[s][i]] < order'[log[s][j]]
    BY <1>1 DEF Store!RemoteInOrder
  <2>1. log[s][i] \in Store!Executed(s) /\ log[s][j] \in Store!Executed(s)
    BY DEF Store!Executed
  <2>2. {log[s][i], log[s][j]} \subseteq Store!Remote(s) /\ log[s][i] # w /\ log[s][j] # w
    BY <1>2, <1>3, <2>1 DEF Store!Remote
  <2>q. QED
    BY <1>0, <1>1, <1>2, <2>1, <2>2 DEF Store!RemoteInOrder
<1>8. Store!RemoteNoGap'
  <2> SUFFICES ASSUME NEW s \in Servers, NEW v \in Store!Remote(s)', NEW u \in Store!Remote(s)',
                      u \in Store!Executed(s), order'[v] < order'[u]
               PROVE  v \in Store!Executed(s)
    BY <1>2 DEF Store!RemoteNoGap
  <2>1. u # w /\ u \in Store!Remote(s) /\ u \in Store!Ordered
    BY <1>2, <1>3 DEF Store!Remote
  <2>2. v # w
    BY <1>1, <1>2, <2>1
  <2>3. v \in Store!Remote(s)
    BY <1>2, <2>2 DEF Store!Remote
  <2>q. QED
    BY <1>0, <1>1, <1>2, <2>1, <2>2, <2>3 DEF Store!RemoteNoGap, Store!Remote
<1>q. QED
  BY <1>4, <1>5, <1>6, <1>7, <1>8 DEF StoreInv

(* Executing a write that was not executed before appends it to one log. *)
LEMMA StoreAppend ==
  ASSUME Store!TypeOK, NEW s \in Servers, NEW w \in Writes,
         log' = [log EXCEPT ![s] = Append(@, w)]
  PROVE  /\ log'[s] = Append(log[s], w)
         /\ DOMAIN log'[s] = DOMAIN log[s] \union {Len(log[s]) + 1}
         /\ DOMAIN log[s] = 1 .. Len(log[s]) /\ Len(log[s]) \in Nat
         /\ \A i \in DOMAIN log[s] : log'[s][i] = log[s][i]
         /\ log'[s][Len(log[s]) + 1] = w
         /\ \A t \in Servers : t # s => log'[t] = log[t]
         /\ Store!Executed(s)' = Store!Executed(s) \union {w}
         /\ \A t \in Servers : t # s => Store!Executed(t)' = Store!Executed(t)
<1>1. log'[s] = Append(log[s], w) /\ \A t \in Servers : t # s => log'[t] = log[t]
  BY DEF Store!TypeOK
<1>2. /\ DOMAIN log'[s] = DOMAIN log[s] \union {Len(log[s]) + 1}
      /\ DOMAIN log[s] = 1 .. Len(log[s]) /\ Len(log[s]) \in Nat
      /\ \A i \in DOMAIN log[s] : log'[s][i] = log[s][i]
      /\ log'[s][Len(log[s]) + 1] = w
  BY <1>1 DEF Store!TypeOK
<1>3. Store!Executed(s)' = Store!Executed(s) \union {w}
  BY <1>2 DEF Store!Executed
<1>4. \A t \in Servers : t # s => Store!Executed(t)' = Store!Executed(t)
  BY <1>1 DEF Store!Executed
<1>q. QED
  BY <1>1, <1>2, <1>3, <1>4

(* Executing the next write of the others, or an own write, keeps the      *)
(* invariant.                                                              *)
LEMMA StoreExecute ==
  ASSUME StoreInv, NEW s \in Servers, NEW w \in Writes,
         Store!ExecuteRemote(s, w) \/ Store!ExecuteOwn(s, w)
  PROVE  StoreInv'
<1>0. Store!TypeOK /\ DistinctPlaces /\ ExecutedAreOrdered /\ Store!AtMostOnce /\ Store!RemoteInOrder /\ Store!RemoteNoGap
  BY DEF StoreInv
<1>1. /\ order' = order /\ log' = [log EXCEPT ![s] = Append(@, w)] /\ w \notin Store!Executed(s)
      /\ Requestor[w] # s => /\ w \in Store!Remote(s)
                             /\ \A v \in Store!Remote(s) : order[v] < order[w] => v \in Store!Executed(s)
  BY DEF Store!ExecuteRemote, Store!ExecuteOwn, Store!Remote
<1>2. /\ DOMAIN log'[s] = DOMAIN log[s] \union {Len(log[s]) + 1}
      /\ DOMAIN log[s] = 1 .. Len(log[s]) /\ Len(log[s]) \in Nat
      /\ \A i \in DOMAIN log[s] : log'[s][i] = log[s][i]
      /\ log'[s][Len(log[s]) + 1] = w
      /\ \A t \in Servers : t # s => log'[t] = log[t]
      /\ Store!Executed(s)' = Store!Executed(s) \union {w}
      /\ \A t \in Servers : t # s => Store!Executed(t)' = Store!Executed(t)
  BY <1>0, <1>1, StoreAppend
<1>3. \A t \in Servers : Store!Remote(t)' = Store!Remote(t)
  BY <1>1 DEF Store!Remote, Store!Ordered
<1>4. Store!TypeOK' /\ DistinctPlaces'
  BY <1>0, <1>1 DEF Store!TypeOK, DistinctPlaces, Store!Ordered
<1>5. ExecutedAreOrdered'
  BY <1>0, <1>1, <1>2 DEF ExecutedAreOrdered, Store!Remote, Store!Ordered
<1>6. Store!AtMostOnce'
  <2>1. \A i \in DOMAIN log[s] : log[s][i] # w
    BY <1>1 DEF Store!Executed
  <2>q. QED
    BY <1>0, <1>2, <2>1 DEF Store!AtMostOnce
<1>7. Store!RemoteInOrder'
  <2> SUFFICES ASSUME NEW t \in Servers, NEW i \in DOMAIN log'[t], NEW j \in DOMAIN log'[t],
                      i < j, {log'[t][i], log'[t][j]} \subseteq Store!Remote(t)
               PROVE  order[log'[t][i]] < order[log'[t][j]]
    BY <1>1, <1>3 DEF Store!RemoteInOrder
  <2>1. CASE t = s /\ j = Len(log[s]) + 1
    <3>1. i \in DOMAIN log[s] /\ log'[s][i] = log[s][i] /\ log'[s][j] = w
      BY <1>2, <2>1
    <3> DEFINE v == log[s][i]
    <3>2. v \in Store!Executed(s) /\ v \in Store!Remote(s) /\ w \in Store!Remote(s) /\ v # w
      BY <1>1, <2>1, <3>1 DEF Store!Executed
    <3>3. ~ (order[w] < order[v])
      BY <1>0, <1>1, <3>2 DEF Store!RemoteNoGap
    <3>4. order[v] # order[w] /\ order[v] \in Int /\ order[w] \in Int
      BY <1>0, <3>2 DEF DistinctPlaces, Store!Remote, Store!Ordered, Store!TypeOK
    <3>q. QED
      BY <2>1, <3>1, <3>3, <3>4
  <2>2. CASE t = s /\ j # Len(log[s]) + 1
    <3>1. i \in DOMAIN log[s] /\ j \in DOMAIN log[s]
      BY <1>2, <2>2
    <3>q. QED
      BY <1>0, <1>2, <2>2, <3>1 DEF Store!RemoteInOrder
  <2>3. CASE t # s
    BY <1>0, <1>2, <2>3 DEF Store!RemoteInOrder
  <2>q. QED
    BY <2>1, <2>2, <2>3
<1>8. Store!RemoteNoGap'
  <2> SUFFICES ASSUME NEW t \in Servers, NEW v \in Store!Remote(t), NEW u \in Store!Remote(t),
                      u \in Store!Executed(t)', order[v] < order[u]
               PROVE  v \in Store!Executed(t)'
    BY <1>1, <1>3 DEF Store!RemoteNoGap
  <2>1. CASE t = s /\ u = w
    BY <1>1, <1>2, <2>1 DEF Store!Remote
  <2>2. CASE ~ (t = s /\ u = w)
    BY <1>0, <1>2, <2>2 DEF Store!RemoteNoGap
  <2>q. QED
    BY <2>1, <2>2
<1>q. QED
  BY <1>4, <1>5, <1>6, <1>7, <1>8 DEF StoreInv

(* Every step of the abstract store keeps its invariant. *)
LEMMA StoreNext == StoreInv /\ [Store!Next]_(Store!vars) => StoreInv'
<1> SUFFICES ASSUME StoreInv, [Store!Next]_(Store!vars) PROVE StoreInv'
  OBVIOUS
<1>1. CASE Store!Next
  BY <1>1, StoreSequence, StoreExecute DEF Store!Next
<1>2. CASE UNCHANGED Store!vars
  <2>1. UNCHANGED <<order, log>>
    BY <1>2 DEF Store!vars
  <2>q. QED
    BY <2>1 DEF StoreInv, Store!TypeOK, DistinctPlaces, ExecutedAreOrdered, Store!AtMostOnce,
                Store!RemoteInOrder, Store!RemoteNoGap, Store!Executed, Store!Remote, Store!Ordered
<1>q. QED
  BY <1>1, <1>2

(* Two servers that follow one order of the writes they learn agree on it. *)
LEMMA StoreAgreement == StoreInv => Store!ThirdPartyAgreement
<1> SUFFICES ASSUME StoreInv, NEW s \in Servers, NEW t \in Servers,
                    NEW i \in DOMAIN log[s], NEW j \in DOMAIN log[s],
                    NEW k \in DOMAIN log[t], NEW l \in DOMAIN log[t],
                    log[s][i] = log[t][k], log[s][j] = log[t][l],
                    {log[s][i], log[s][j]} \subseteq Store!Remote(s) \intersect Store!Remote(t),
                    i < j
             PROVE  k < l
  BY DEF Store!ThirdPartyAgreement
<1>1. Store!TypeOK /\ Store!RemoteInOrder
  BY DEF StoreInv
<1>2. order[log[s][i]] < order[log[s][j]]
  BY <1>1 DEF Store!RemoteInOrder
<1>3. order[log[s][i]] \in Int /\ order[log[s][j]] \in Int
  BY <1>1 DEF Store!TypeOK, Store!Remote, Store!Ordered
<1>4. k \in Nat /\ l \in Nat
  BY <1>1 DEF Store!TypeOK
<1>5. ~ (l < k)
  <2>1. l < k => order[log[t][l]] < order[log[t][k]]
    BY <1>1 DEF Store!RemoteInOrder
  <2>q. QED
    BY <1>2, <1>3, <2>1
<1>6. k # l
  BY <1>2, <1>3
<1>q. QED
  BY <1>4, <1>5, <1>6

(* In every behaviour of the abstract store, each server executes a write  *)
(* at most once and the writes of the others in the global order.          *)
THEOREM StoreCorrect == Store!Spec => [](StoreInv /\ Store!ThirdPartyAgreement)
<1>1. Store!Spec => []StoreInv
  BY StoreInit, StoreNext, PTL DEF Store!Spec
<1>q. QED
  BY <1>1, StoreAgreement, PTL

(* Whatever the threads do, any two servers execute the writes that both   *)
(* learned from elsewhere (the commits of listen_peer and the sequencer)   *)
(* in the same relative order.                                             *)
THEOREM Agreement == Spec => []ThirdPartyAgreement
  BY Refinement, StoreCorrect, PTL DEF Implements, ThirdPartyAgreement

(* No server executes a write twice, however often its client thread is    *)
(* released and whatever the listeners do to the counters.                 *)
THEOREM Once == Spec => []ExecutedOnce
<1>1. StoreInv => ExecutedOnce
  BY DEF StoreInv, ExecutedOnce
<1>q. QED
  BY <1>1, Refinement, StoreCorrect, PTL DEF Implements

-----------------------------------------------------------------------------
(* Convergence.                                                            *)

\* The request of w is in the queue or on its way to the primary.
Placed(w) ==
  \/ \E i \in DOMAIN hold_queue : hold_queue[i].data = w
  \/ \E p \in Peers : \E i \in DOMAIN toPrimary[p] :
       toPrimary[p][i].kind = "request" /\ toPrimary[p][i].data = w

RequestsPlaced ==
  \A w \in Writes : w[2] <= issued[w[1]] /\ order[w] = -1 => Placed(w)

\* The thread of the connection of w is done with w.
Left(w) == w[2] < issued[w[1]] \/ (w[2] = issued[w[1]] /\ pc[w[1]] = "idle")

OwnExecuted == \A w \in Writes : Left(w) => w \in Executed(Requestor[w])

\* The inductive invariant.
ConvergenceInv == OrderInv /\ RequestsPlaced /\ OwnExecuted

(* A step that moves no client thread and takes nothing out of a log keeps *)
(* OwnExecuted.                                                            *)
LEMMA OwnKept ==
  ASSUME OwnExecuted, UNCHANGED <<pc, issued>>,
         \A s \in Servers : Executed(s) \subseteq Executed(s)'
  PROVE  OwnExecuted'
  BY WritesFacts DEF OwnExecuted, Left

(* A step that reads and numbers no write and loses no request keeps       *)
(* RequestsPlaced.                                                         *)
LEMMA PlacedKept ==
  ASSUME RequestsPlaced, UNCHANGED <<issued, order>>,
         \A w \in Writes : Placed(w) => Placed(w)'
  PROVE  RequestsPlaced'
  BY DEF RequestsPlaced

(* A handled message that is no request takes no request away.             *)
LEMMA PlacedAfterConsume ==
  ASSUME TypeChannels, NEW p \in Peers, toPrimary[p] # <<>>, Head(toPrimary[p]).kind # "request",
         Consume(p), UNCHANGED hold_queue
  PROVE  \A w \in Writes : Placed(w) => Placed(w)'
<1>1. ASSUME NEW q \in Peers, NEW i \in DOMAIN toPrimary[q], toPrimary[q][i].kind = "request"
      PROVE  \E j \in DOMAIN toPrimary'[q] : toPrimary'[q][j] = toPrimary[q][i]
  <2>1. CASE q = p
    <3>1. i # 1 /\ i - 1 \in DOMAIN toPrimary'[q] /\ toPrimary'[q][i - 1] = toPrimary[q][i]
      BY <1>1, <2>1 DEF TypeChannels, Consume
    <3> QED
      BY <3>1
  <2>2. CASE q # p
    BY <2>2 DEF TypeChannels, Consume
  <2> QED
    BY <2>1, <2>2
<1> QED
  BY <1>1 DEF Placed

(* An answer that a replica sends takes no request away.                   *)
LEMMA PlacedAfterReply ==
  ASSUME TypeChannels, NEW p \in Peers, NEW m,
         toPrimary' = [toPrimary EXCEPT ![p] = Append(@, m)], UNCHANGED hold_queue
  PROVE  \A w \in Writes : Placed(w) => Placed(w)'
<1>1. \A q \in Peers : \A i \in DOMAIN toPrimary[q] :
        i \in DOMAIN toPrimary'[q] /\ toPrimary'[q][i] = toPrimary[q][i]
  BY DEF TypeChannels
<1> QED
  BY <1>1 DEF Placed

(* A thread that reads a write puts its request in the queue or on its way *)
(* to the primary, and waits.                                              *)
LEMMA RequestStep ==
  ASSUME ConvergenceInv, NEW c \in Clients, RequestRemote(c) \/ RequestLocal(c)
  PROVE  RequestsPlaced' /\ OwnExecuted'
<1>0. TypeClients /\ TypeSequencer /\ TypeChannels /\ TypeStores
  BY DEF ConvergenceInv, OrderInv, TypeOK
<1> USE <1>0
<1> DEFINE r == Request(c)
<1> PICK v : v = <<c, issued[c] + 1>>
  OBVIOUS
<1>1. /\ pc[c] = "idle" /\ issued[c] < MaxWrites /\ issued' = [issued EXCEPT ![c] = @ + 1]
      /\ EnterWait(c) /\ order' = order /\ log' = log
  BY DEF RequestRemote, RequestLocal, queueVars, storeVars
<1>2. r.kind = "request" /\ r.data = v
  BY DEF Request
<1>3. Placed(v)' /\ \A w \in Writes : Placed(w) => Placed(w)'
  <2>1. CASE RequestRemote(c)
    <3> DEFINE h == Home[c]
    <3>1. h \in Peers /\ hold_queue' = hold_queue /\ toPrimary' = [toPrimary EXCEPT ![h] = Append(@, r)]
      BY <2>1 DEF RequestRemote, Peers, queueVars
    <3> HIDE DEF r, h
    <3>2. Len(toPrimary[h]) + 1 \in DOMAIN toPrimary'[h] /\ toPrimary'[h][Len(toPrimary[h]) + 1] = r
      BY <3>1 DEF TypeChannels
    <3>3. Placed(v)'
      BY <1>2, <3>1, <3>2 DEF Placed
    <3> QED
      BY <3>1, <3>3, PlacedAfterReply
  <2>2. CASE RequestLocal(c)
    <3>1. hold_queue' = Append(hold_queue, r) /\ toPrimary' = toPrimary
      BY <2>2 DEF RequestLocal, netVars
    <3> HIDE DEF r
    <3>2. /\ Len(hold_queue) + 1 \in DOMAIN hold_queue' /\ hold_queue'[Len(hold_queue) + 1] = r
          /\ \A i \in DOMAIN hold_queue : i \in DOMAIN hold_queue' /\ hold_queue'[i] = hold_queue[i]
      BY <3>1 DEF TypeSequencer
    <3> QED
      BY <1>2, <3>1, <3>2 DEF Placed
  <2> QED
    BY <2>1, <2>2
<1>4. \A d \in Clients : /\ issued[d] \in Nat /\ issued'[d] = IF d = c THEN issued[c] + 1 ELSE issued[d]
                         /\ pc'[d] = "idle" => d # c /\ pc[d] = "idle"
  BY <1>1 DEF TypeClients, EnterWait
<1>5. RequestsPlaced'
  <2> SUFFICES ASSUME NEW w \in Writes, w[2] <= issued'[w[1]], order[w] = -1 PROVE Placed(w)'
    BY <1>1 DEF RequestsPlaced
  <2>1. CASE w = v
    BY <1>3, <2>1
  <2>2. CASE w # v
    <3>1. w[2] <= issued[w[1]]
      BY <1>4, <2>2, WritesFacts
    <3> QED
      BY <1>3, <3>1 DEF ConvergenceInv, RequestsPlaced
  <2> QED
    BY <2>1, <2>2
<1>6. OwnExecuted'
  <2> SUFFICES ASSUME NEW w \in Writes, Left(w)' PROVE w \in Executed(Requestor[w])'
    BY DEF OwnExecuted
  <2>1. Left(w)
    BY <1>1, <1>4, WritesFacts DEF Left
  <2> QED
    BY <1>1, <2>1 DEF ConvergenceInv, OwnExecuted, Executed
<1> QED
  BY <1>5, <1>6

(* The rest of ensure_consistency: a thread is done with its write only    *)
(* when it has executed it.                                                *)
LEMMA WaitStep ==
  ASSUME ConvergenceInv, NEW c \in Clients, Block(c) \/ Wake(c) \/ Proceed(c)
  PROVE  RequestsPlaced' /\ OwnExecuted'
<1>0. TypeClients /\ TypeStores /\ disabled_flag = [s \in Servers |-> 0]
  BY DEF ConvergenceInv, OrderInv, TypeOK
<1> USE <1>0
<1>1. UNCHANGED <<issued, order, hold_queue, toPrimary>>
  BY DEF Block, Wake, Proceed, queueVars, netVars
<1>2. RequestsPlaced'
  BY <1>1, PlacedKept DEF ConvergenceInv, Placed
<1>3. CASE Block(c) \/ Wake(c)
  <2>1. log' = log /\ \A d \in Clients : pc'[d] = "idle" => pc[d] = "idle"
    BY <1>3 DEF Block, Wake, storeVars, TypeClients
  <2>2. \A w \in Writes : Left(w)' => Left(w)
    BY <1>1, <2>1, WritesFacts DEF Left
  <2> QED
    BY <1>2, <2>1, <2>2 DEF ConvergenceInv, OwnExecuted, Executed
<1>4. CASE Proceed(c)
  <2> DEFINE v == <<c, issued[c]>>
  <2>1. v \in Writes /\ Requestor[v] = Home[c] /\ Home[c] \in Servers
    BY <1>4 DEF Proceed, TypeClients, Writes, Requestor
  <2>2. process_command(Home[c], v)
    BY <1>4 DEF Proceed, process_if_enabled
  <2>3. /\ Executed(Home[c])' = Executed(Home[c]) \union {v}
        /\ \A t \in Servers : t # Home[c] => Executed(t)' = Executed(t)
    BY <2>1, <2>2, ExecutedAfterProcess
  <2>4. \A d \in Clients : d # c => pc'[d] = pc[d]
    BY <1>4 DEF Proceed, TypeClients
  <2>5. \A w \in Writes : Left(w)' => Left(w) \/ w = v
    <3> SUFFICES ASSUME NEW w \in Writes, Left(w)', ~Left(w) PROVE w = v
      OBVIOUS
    <3>1. w[1] = c /\ w[2] = issued[c]
      BY <1>1, <2>4, WritesFacts DEF Left
    <3> QED
      BY <3>1, WritesFacts
  <2> QED
    BY <1>2, <2>1, <2>3, <2>5, WritesFacts DEF ConvergenceInv, OwnExecuted
<1> QED
  BY <1>3, <1>4

(* The sequencer takes a request out of the queue only to number it.       *)
LEMMA SequencerKeeps ==
  ASSUME ConvergenceInv, SequencerStep
  PROVE  RequestsPlaced' /\ OwnExecuted'
<1>0. TypeSequencer /\ TypeStores /\ NumberedBelow /\ PendingRequests
  BY DEF ConvergenceInv, OrderInv, TypeOK
<1> USE <1>0
<1>1. UNCHANGED <<pc, issued>>
  BY DEF SequencerStep, Sequentialize, CommitPrimary, CheckLogLimit, CheckpointPrimary, EndCheckpoint, clientVars
<1>2. \A s \in Servers : Executed(s) \subseteq Executed(s)'
  <2>1. CASE log' = log
    BY <2>1 DEF Executed
  <2>2. CASE CommitPrimary /\ rd_log_struct.requestor_id # Primary
    <3>1. rd_log_struct.data \in Writes /\ process_command(Primary, rd_log_struct.data)
      BY <2>2 DEF CommitPrimary, TypeSequencer, RequestMsg
    <3> QED
      BY <3>1, ExecutedAfterProcess
  <2> QED
    BY <2>1, <2>2 DEF SequencerStep, Sequentialize, CommitPrimary, CheckLogLimit, CheckpointPrimary,
                      EndCheckpoint, storeVars
<1>3. OwnExecuted'
  BY <1>1, <1>2, OwnKept DEF ConvergenceInv
<1>4. CASE Sequentialize
  <2> DEFINE d == Head(hold_queue).data
  <2>1. /\ hold_queue # <<>> /\ hold_queue' = Tail(hold_queue) /\ toPrimary' = toPrimary
        /\ order' = [order EXCEPT ![d] = glbl_seq_num]
    BY <1>4 DEF Sequentialize
  <2>2. d \in Writes
    <3>1. Head(hold_queue) \in RequestMsg
      BY <2>1 DEF TypeSequencer
    <3> QED
      BY <3>1 DEF RequestMsg
  <2>3. order'[d] # -1 /\ \A w \in Writes : w # d => order'[w] = order[w]
    BY <2>1, <2>2 DEF TypeSequencer
  <2>4. \A i \in DOMAIN hold_queue : hold_queue[i].data # d =>
          \E j \in DOMAIN hold_queue' : hold_queue'[j] = hold_queue[i]
    <3> SUFFICES ASSUME NEW i \in DOMAIN hold_queue, hold_queue[i].data # d
                 PROVE  i - 1 \in DOMAIN hold_queue' /\ hold_queue'[i - 1] = hold_queue[i]
      OBVIOUS
    <3>1. i # 1
      BY <2>1 DEF TypeSequencer
    <3> QED
      BY <2>1, <3>1 DEF TypeSequencer
  <2>5. \A w \in Writes : w # d /\ Placed(w) => Placed(w)'
    BY <2>1, <2>4 DEF Placed
  <2> QED
    BY <1>1, <1>3, <2>3, <2>5 DEF ConvergenceInv, RequestsPlaced
<1>5. CASE ~Sequentialize
  <2>1. UNCHANGED <<order, hold_queue, toPrimary>>
    BY <1>5 DEF SequencerStep, CommitPrimary, CheckLogLimit, CheckpointPrimary, EndCheckpoint, netVars
  <2> QED
    BY <1>1, <1>3, <2>1, PlacedKept DEF ConvergenceInv, Placed
<1> QED
  BY <1>4, <1>5

(* listen_peer on a replica.                                               *)
LEMMA ReplicaKeeps ==
  ASSUME ConvergenceInv, NEW p \in Peers, ReplicaListenerStep(p)
  PROVE  RequestsPlaced' /\ OwnExecuted'
<1>0. TypeChannels /\ TypeStores
  BY DEF ConvergenceInv, OrderInv, TypeOK
<1> USE <1>0
<1>1. UNCHANGED <<pc, issued, order, hold_queue>>
  BY DEF ReplicaListenerStep, RecvCommit, RecvOK, RecvCheckpoint, clientVars, queueVars
<1>2. \A s \in Servers : Executed(s) \subseteq Executed(s)'
  <2>1. CASE log' = log
    BY <2>1 DEF Executed
  <2>2. CASE RecvCommit(p) /\ process_command(p, Head(toPeer[p]).data)
    <3>1. Head(toPeer[p]).data \in Writes /\ p \in Servers
      BY <2>2, CommitMessage DEF RecvCommit, CommitMsg, Peers
    <3> QED
      BY <2>2, <3>1, ExecutedAfterProcess
  <2> QED
    BY <2>1, <2>2 DEF ReplicaListenerStep, RecvCommit, RecvOK, RecvCheckpoint, process_if_enabled, storeVars
<1>3. \A w \in Writes : Placed(w) => Placed(w)'
  <2>1. CASE toPrimary' = toPrimary
    BY <1>1, <2>1 DEF Placed
  <2>2. ASSUME NEW m, toPrimary' = [toPrimary EXCEPT ![p] = Append(@, m)]
        PROVE  \A w \in Writes : Placed(w) => Placed(w)'
    BY <1>1, <2>2, PlacedAfterReply
  <2> QED
    BY <2>1, <2>2 DEF ReplicaListenerStep, RecvCommit, RecvOK, RecvCheckpoint, Reply
<1> QED
  BY <1>1, <1>2, <1>3, OwnKept, PlacedKept DEF ConvergenceInv

(* listen_peer on the primary: a request that leaves its connection is in  *)
(* the queue, and every other message is none.                             *)
LEMMA PrimaryKeeps ==
  ASSUME ConvergenceInv, NEW p \in Peers, PrimaryListenerStep(p)
  PROVE  RequestsPlaced' /\ OwnExecuted'
<1>0. TypeChannels /\ TypeSequencer
  BY DEF ConvergenceInv, OrderInv, TypeOK
<1> USE <1>0
<1>1. UNCHANGED <<pc, issued, order, log>>
  BY DEF PrimaryListenerStep, RecvRequest, RecvAck, AckLoad, AckStore, AckAct, RecvCpAck, CpAckLoad,
         CpAckStore, CpAckTest, CpAckClear, clientVars, queueVars, storeVars
<1>2. CASE RecvRequest(p)
  <2> DEFINE m == Head(toPrimary[p])
  <2>1. toPrimary[p] # <<>> /\ m = toPrimary[p][1] /\ hold_queue' = Append(hold_queue, m) /\ Consume(p)
    BY <1>2 DEF RecvRequest, Incoming, TypeChannels
  <2> HIDE DEF m
  <2>2. /\ Len(hold_queue) + 1 \in DOMAIN hold_queue' /\ hold_queue'[Len(hold_queue) + 1] = m
        /\ \A i \in DOMAIN hold_queue : i \in DOMAIN hold_queue' /\ hold_queue'[i] = hold_queue[i]
    BY <2>1 DEF TypeSequencer
  <2>3. ASSUME NEW q \in Peers, NEW i \in DOMAIN toPrimary[q]
        PROVE  toPrimary[q][i] = m \/ \E j \in DOMAIN toPrimary'[q] : toPrimary'[q][j] = toPrimary[q][i]
    <3>1. CASE q = p /\ i = 1
      BY <2>1, <3>1
    <3>2. CASE q = p /\ i # 1
      <4>1. i - 1 \in DOMAIN toPrimary'[q] /\ toPrimary'[q][i - 1] = toPrimary[q][i]
        BY <2>1, <3>2 DEF TypeChannels, Consume
      <4> QED
        BY <4>1
    <3>3. CASE q # p
      BY <2>1, <3>3 DEF TypeChannels, Consume
    <3> QED
      BY <3>1, <3>2, <3>3
  <2>4. \A w \in Writes : Placed(w) => Placed(w)'
    BY <2>2, <2>3 DEF Placed
  <2> QED
    BY <1>1, <2>4, OwnKept, PlacedKept DEF ConvergenceInv, Executed
<1>3. CASE ~RecvRequest(p)
  <2>1. /\ hold_queue' = hold_queue
        /\ \/ toPrimary' = toPrimary
           \/ toPrimary[p] # <<>> /\ Head(toPrimary[p]).kind # "request" /\ Consume(p)
    BY <1>3 DEF PrimaryListenerStep, RecvAck, AckLoad, AckStore, AckAct, RecvCpAck, CpAckLoad,
                CpAckStore, CpAckTest, CpAckClear, Incoming, queueVars, netVars
  <2>2. \A w \in Writes : Placed(w) => Placed(w)'
    BY <2>1, PlacedAfterConsume DEF Placed
  <2> QED
    BY <1>1, <2>2, OwnKept, PlacedKept DEF ConvergenceInv, Executed
<1> QED
  BY <1>2, <1>3

(* ConvergenceInv is inductive.                                            *)
LEMMA ConvergenceNext == ConvergenceInv /\ [Next]_vars => ConvergenceInv'
<1> SUFFICES ASSUME ConvergenceInv, [Next]_vars PROVE ConvergenceInv'
  OBVIOUS
<1>1. OrderInv'
  BY OrderNext DEF ConvergenceInv
<1>2. CASE Next
  BY <1>1, <1>2, RequestStep, WaitStep, SequencerKeeps, ReplicaKeeps, PrimaryKeeps
     DEF Next, ClientStep, ConvergenceInv
<1>3. CASE UNCHANGED vars
  <2>1. UNCHANGED <<pc, issued, order, hold_queue, toPrimary, log>>
    BY <1>3 DEF vars, clientVars, queueVars, netVars, storeVars
  <2> QED
    BY <1>1, <2>1, OwnKept, PlacedKept DEF ConvergenceInv, Executed, Placed
<1> QED
  BY <1>2, <1>3

(* At rest, a write is numbered, for there is no request; so the others    *)
(* have executed it, for there is no commit; and its requestor has.        *)
LEMMA ConvergenceFollows == ConvergenceInv => Convergence
<1> SUFFICES ASSUME ConvergenceInv, Quiescent, NEW s \in Servers
             PROVE  Executed(s) = {w \in Writes : w[2] <= issued[w[1]]}
  BY DEF Convergence
<1>0. /\ TypeClients /\ TypeSequencer /\ TypeStores /\ NumberedBelow
      /\ PeersCovered /\ PrimaryCovered /\ ExecutedWrites
  BY DEF ConvergenceInv, OrderInv, TypeOK
<1>1. ASSUME NEW w \in Executed(s) PROVE w \in Writes /\ w[2] <= issued[w[1]]
  <2>1. w \in Writes
    BY <1>0, ExecutedType
  <2> QED
    BY <1>0, <2>1, WritesFacts DEF ExecutedWrites, NumberedBelow, TypeClients
<1>2. ASSUME NEW w \in Writes, w[2] <= issued[w[1]] PROVE w \in Executed(s)
  <2>1. ~Placed(w)
    BY DEF Placed, Quiescent
  <2>2. order[w] >= 0
    BY <1>0, <1>2, <2>1 DEF ConvergenceInv, RequestsPlaced, TypeSequencer
  <2>3. Left(w)
    BY <1>0, <1>2, WritesFacts DEF Left, Quiescent, TypeClients
  <2>4. CASE Requestor[w] = s
    BY <2>3, <2>4 DEF ConvergenceInv, OwnExecuted
  <2>5. CASE Requestor[w] # s /\ s = Primary
    BY <1>0, <2>2, <2>5 DEF PrimaryCovered, Quiescent
  <2>6. CASE Requestor[w] # s /\ s # Primary
    BY <1>0, <2>2, <2>6 DEF PeersCovered, Peers, Quiescent
  <2> QED
    BY <2>4, <2>5, <2>6
<1> QED
  BY <1>1, <1>2

(* When nothing is under way in the group, every server has executed every *)
(* write that was read from a client (listen_peer, primary_sequentialize   *)
(* and ensure_consistency lose none): for any number of servers and        *)
(* connections, whichever races happen.                                    *)
THEOREM ConvergenceAlways == Spec => []Convergence
<1>1. Init => ConvergenceInv
  <2> SUFFICES ASSUME Init PROVE ConvergenceInv
    OBVIOUS
  <2>1. \A w \in Writes : ~(w[2] <= issued[w[1]])
    BY WritesFacts DEF Init
  <2> QED
    BY <2>1, OrderInit, WritesFacts DEF ConvergenceInv, RequestsPlaced, OwnExecuted, Left, Init
<1> QED
  BY <1>1, ConvergenceNext, ConvergenceFollows, PTL DEF Spec

-----------------------------------------------------------------------------
(* Agreement of checkpoints.                                               *)

\* The messages of the sequencer that carry its number.
Stamped(m) == m.kind \in {"commit", "+CHECKPOINT"}

StampsRise ==
  \A p \in Peers :
    /\ \A i \in DOMAIN toPeer[p] :
         toPeer[p][i].kind = "commit" => toPeer[p][i].glbl_seq_num = order[toPeer[p][i].data]
    /\ \A i, j \in DOMAIN toPeer[p] :
         (Stamped(toPeer[p][i]) /\ Stamped(toPeer[p][j]) /\ i < j)
           => toPeer[p][i].glbl_seq_num < toPeer[p][j].glbl_seq_num

StampsBelow ==
  \A p \in Peers : \A i \in DOMAIN toPeer[p] :
    Stamped(toPeer[p][i]) =>
      /\ toPeer[p][i].glbl_seq_num <= glbl_seq_num
      /\ spc \in {"pop", "check"} => toPeer[p][i].glbl_seq_num < glbl_seq_num

ExecutedBelow ==
  \A p \in Peers : \A i \in DOMAIN toPeer[p] :
    Stamped(toPeer[p][i]) =>
      \A w \in Executed(p) : Requestor[w] # p => order[w] < toPeer[p][i].glbl_seq_num

\* The version of the last checkpoint that the sequencer has ordered.
Ordered == checkpoint[Primary].version + (IF spc = "checkpoint" THEN 1 ELSE 0)

CutsRise(cut) ==
  /\ cut[0] = 0
  /\ \A u, v \in 0 .. Ordered : u < v => cut[u] < cut[v]
  /\ spc = "check" => \A v \in 0 .. Ordered : cut[v] < glbl_seq_num
  /\ spc = "checkpoint" => cut[Ordered] = glbl_seq_num

CutContents(cut) ==
  \A s \in Servers :
    /\ checkpoint[s].version \in 0 .. Ordered
    /\ \A w \in Writes :
         Requestor[w] # s =>
           (w \in Contents(s) <=> order[w] \in 0 .. cut[checkpoint[s].version] - 1)

CutMessages(cut) ==
  \A p \in Peers :
    /\ \A i \in DOMAIN toPeer[p] :
         toPeer[p][i].kind = "+CHECKPOINT" =>
           \E v \in checkpoint[p].version + 1 .. Ordered : toPeer[p][i].glbl_seq_num = cut[v]
    /\ \A v \in checkpoint[p].version + 1 .. Ordered :
         \E i \in DOMAIN toPeer[p] :
           toPeer[p][i].kind = "+CHECKPOINT" /\ toPeer[p][i].glbl_seq_num = cut[v]

CutInv ==
  \E cut \in [0 .. Ordered -> 0 .. glbl_seq_num] :
    CutsRise(cut) /\ CutContents(cut) /\ CutMessages(cut)

StoresSame == tablet = log

\* The inductive invariant behind CheckpointAgreement.
Cuts == StampsRise /\ StampsBelow /\ ExecutedBelow /\ StoresSame /\ CutInv

CheckpointInv == OrderInv /\ Cuts

(* The messages to the replicas have the fields of their kind.             *)
LEMMA StampType ==
  ASSUME TypeChannels, NEW p \in Peers, NEW i \in DOMAIN toPeer[p]
  PROVE  /\ toPeer[p][i] \in ToPeerMsg
         /\ toPeer[p][i].glbl_seq_num \in Nat
         /\ i \in Nat
<1>1. toPeer[p][i] \in ToPeerMsg /\ i \in Nat
  BY DEF TypeChannels
<1> QED
  BY <1>1 DEF ToPeerMsg, CommitMsg, AnswerMsg, CheckpointMsg

\* d[q] messages at the head of q's connection are gone, and nothing with a
\* number was added.
NothingStampedSent(d) ==
  \A q \in Peers : \A i \in DOMAIN toPeer'[q] :
    Stamped(toPeer'[q][i]) =>
      i + d[q] \in DOMAIN toPeer[q] /\ toPeer[q][i + d[q]] = toPeer'[q][i]

(* A step that sends no numbered message keeps the numbers in order.       *)
LEMMA StampsKept ==
  ASSUME TypeChannels, TypeSequencer, TypeSequencer', StampsRise, StampsBelow,
         NEW d \in [Peers -> {0, 1}], NothingStampedSent(d), TypeChannels',
         UNCHANGED order,
         glbl_seq_num <= glbl_seq_num',
         spc' \in {"pop", "check"} => glbl_seq_num < glbl_seq_num' \/ spc \in {"pop", "check"}
  PROVE  StampsRise' /\ StampsBelow'
<1>1. StampsRise'
  <2>1. ASSUME NEW p \in Peers, NEW i \in DOMAIN toPeer'[p], toPeer'[p][i].kind = "commit"
        PROVE  toPeer'[p][i].glbl_seq_num = order'[toPeer'[p][i].data]
    BY <2>1 DEF NothingStampedSent, Stamped, StampsRise
  <2>2. ASSUME NEW p \in Peers, NEW i \in DOMAIN toPeer'[p], NEW j \in DOMAIN toPeer'[p],
               Stamped(toPeer'[p][i]), Stamped(toPeer'[p][j]), i < j
        PROVE  toPeer'[p][i].glbl_seq_num < toPeer'[p][j].glbl_seq_num
    <3>1. i \in Nat /\ j \in Nat
      BY DEF TypeChannels
    <3>2. i + d[p] < j + d[p]
      BY <2>2, <3>1
    <3>q. QED
      BY <2>2, <3>2 DEF NothingStampedSent, StampsRise
  <2>q. QED
    BY <2>1, <2>2 DEF StampsRise, Stamped
<1>2. StampsBelow'
  <2> SUFFICES ASSUME NEW p \in Peers, NEW i \in DOMAIN toPeer'[p], Stamped(toPeer'[p][i])
               PROVE  /\ toPeer'[p][i].glbl_seq_num <= glbl_seq_num'
                      /\ spc' \in {"pop", "check"} => toPeer'[p][i].glbl_seq_num < glbl_seq_num'
    BY DEF StampsBelow, Stamped
  <2>1. PICK j \in DOMAIN toPeer[p] : toPeer[p][j] = toPeer'[p][i]
    BY DEF NothingStampedSent
  <2>2. /\ toPeer[p][j].glbl_seq_num <= glbl_seq_num
        /\ spc \in {"pop", "check"} => toPeer[p][j].glbl_seq_num < glbl_seq_num
    BY <2>1 DEF StampsBelow
  <2>3. toPeer[p][j].glbl_seq_num \in Nat
    BY StampType
  <2>q. QED
    BY <2>1, <2>2, <2>3 DEF TypeSequencer
<1>q. QED
  BY <1>1, <1>2

(* A step that sends no numbered message and executes no write of another  *)
(* server keeps the executed writes below the messages.                    *)
LEMMA BelowKept ==
  ASSUME ExecutedBelow, NEW d \in [Peers -> {0, 1}], NothingStampedSent(d),
         UNCHANGED order,
         \A p \in Peers : \A w \in Executed(p)' : Requestor[w] # p => w \in Executed(p)
  PROVE  ExecutedBelow'
<1> SUFFICES ASSUME NEW p \in Peers, NEW i \in DOMAIN toPeer'[p], Stamped(toPeer'[p][i]),
                    NEW w \in Executed(p)', Requestor[w] # p
             PROVE  order'[w] < toPeer'[p][i].glbl_seq_num
  BY DEF ExecutedBelow, Stamped, Requestor
<1>1. PICK j \in DOMAIN toPeer[p] : toPeer[p][j] = toPeer'[p][i]
  BY DEF NothingStampedSent
<1>q. QED
  BY <1>1 DEF ExecutedBelow

(* A step that orders and takes no checkpoint, loses no "+CHECKPOINT" and  *)
(* numbers writes upwards only, keeps the cuts.                            *)
LEMMA CutsKept ==
  ASSUME TypeSequencer, TypeSequencer', TypeStores, CutInv,
         UNCHANGED checkpoint, Ordered' = Ordered,
         glbl_seq_num <= glbl_seq_num',
         spc' = "check" => spc = "check" \/ glbl_seq_num < glbl_seq_num',
         spc' = "checkpoint" => spc = "checkpoint" /\ glbl_seq_num' = glbl_seq_num,
         \A w \in Writes :
           order'[w] = order[w] \/ (order[w] = -1 /\ order'[w] >= glbl_seq_num),
         \A p \in Peers :
           /\ \A i \in DOMAIN toPeer'[p] :
                toPeer'[p][i].kind = "+CHECKPOINT" =>
                  \E j \in DOMAIN toPeer[p] : toPeer[p][j] = toPeer'[p][i]
           /\ \A i \in DOMAIN toPeer[p] :
                toPeer[p][i].kind = "+CHECKPOINT" =>
                  \E j \in DOMAIN toPeer'[p] : toPeer'[p][j] = toPeer[p][i]
  PROVE  CutInv'
<1>1. PICK cut \in [0 .. Ordered -> 0 .. glbl_seq_num] :
        CutsRise(cut) /\ CutContents(cut) /\ CutMessages(cut)
  BY DEF CutInv
<1>2. glbl_seq_num \in Nat /\ glbl_seq_num' \in Nat /\ Ordered \in Nat
  BY DEF TypeSequencer, TypeStores, Ordered
<1>3. \A v \in 0 .. Ordered : cut[v] \in 0 .. glbl_seq_num
  OBVIOUS
<1>4. cut \in [0 .. Ordered' -> 0 .. glbl_seq_num']
  BY <1>2
<1>5. CutsRise(cut)'
  BY <1>1, <1>2, <1>3 DEF CutsRise
<1>6. CutContents(cut)'
  <2> SUFFICES ASSUME NEW s \in Servers
               PROVE  /\ checkpoint[s].version \in 0 .. Ordered
                      /\ \A w \in Writes :
                           Requestor[w] # s =>
                             (w \in Contents(s) <=> order'[w] \in 0 .. cut[checkpoint[s].version] - 1)
    BY DEF CutContents, Contents, Requestor
  <2>1. checkpoint[s].version \in 0 .. Ordered
    BY <1>1 DEF CutContents
  <2>2. cut[checkpoint[s].version] \in 0 .. glbl_seq_num
    BY <1>3, <2>1
  <2>3. ASSUME NEW w \in Writes, Requestor[w] # s
        PROVE  w \in Contents(s) <=> order'[w] \in 0 .. cut[checkpoint[s].version] - 1
    <3>1. w \in Contents(s) <=> order[w] \in 0 .. cut[checkpoint[s].version] - 1
      BY <1>1, <2>3 DEF CutContents
    <3>2. order[w] \in Nat \union {-1} /\ order'[w] \in Nat \union {-1}
      BY DEF TypeSequencer
    <3>3. order'[w] = order[w] \/ (order[w] = -1 /\ order'[w] >= glbl_seq_num)
      OBVIOUS
    <3> DEFINE top == cut[checkpoint[s].version]
    <3>4. order'[w] \in 0 .. top - 1 <=> order[w] \in 0 .. top - 1
      <4>1. top \in Nat /\ top <= glbl_seq_num
        BY <1>2, <2>2
      <4> HIDE DEF top
      <4>q. QED
        BY <1>2, <3>2, <3>3, <4>1
    <3>q. QED
      BY <3>1, <3>4
  <2>q. QED
    BY <2>1, <2>3
<1>7. CutMessages(cut)'
  <2>1. ASSUME NEW p \in Peers, NEW i \in DOMAIN toPeer'[p], toPeer'[p][i].kind = "+CHECKPOINT"
        PROVE  \E v \in checkpoint[p].version + 1 .. Ordered : toPeer'[p][i].glbl_seq_num = cut[v]
    <3>1. PICK j \in DOMAIN toPeer[p] : toPeer[p][j] = toPeer'[p][i]
      BY <2>1
    <3>0. toPeer[p][j].kind = "+CHECKPOINT"
      BY <2>1, <3>1
    <3>2. PICK v \in checkpoint[p].version + 1 .. Ordered : toPeer[p][j].glbl_seq_num = cut[v]
      <4>1. CutMessages(cut)
        BY <1>1
      <4>q. QED
        BY <3>0, <4>1 DEF CutMessages
    <3>q. QED
      BY <3>1, <3>2
  <2>2. ASSUME NEW p \in Peers, NEW v \in checkpoint[p].version + 1 .. Ordered
        PROVE  \E i \in DOMAIN toPeer'[p] :
                 toPeer'[p][i].kind = "+CHECKPOINT" /\ toPeer'[p][i].glbl_seq_num = cut[v]
    <3>1. PICK i \in DOMAIN toPeer[p] :
            toPeer[p][i].kind = "+CHECKPOINT" /\ toPeer[p][i].glbl_seq_num = cut[v]
      BY <1>1 DEF CutMessages
    <3>q. QED
      BY <3>1
  <2>q. QED
    BY <2>1, <2>2 DEF CutMessages
<1>q. QED
  BY <1>4, <1>5, <1>6, <1>7 DEF CutInv

\* The same "+CHECKPOINT" messages are on their way.
SameCheckpointsSent ==
  \A p \in Peers :
    /\ \A i \in DOMAIN toPeer'[p] :
         toPeer'[p][i].kind = "+CHECKPOINT" =>
           \E j \in DOMAIN toPeer[p] : toPeer[p][j] = toPeer'[p][i]
    /\ \A i \in DOMAIN toPeer[p] :
         toPeer[p][i].kind = "+CHECKPOINT" =>
           \E j \in DOMAIN toPeer'[p] : toPeer'[p][j] = toPeer[p][i]

(* A handler that neither numbers, nor orders, nor takes a checkpoint, nor *)
(* executes a write of another server keeps the cuts.                      *)
LEMMA HandlerKeeps ==
  ASSUME TypeOK, TypeOK', Cuts, NEW d \in [Peers -> {0, 1}], NothingStampedSent(d),
         SameCheckpointsSent, tablet' = log',
         UNCHANGED <<order, checkpoint, spc, glbl_seq_num>>,
         \A p \in Peers : \A w \in Executed(p)' : Requestor[w] # p => w \in Executed(p)
  PROVE  Cuts'
<1>1. /\ TypeChannels /\ TypeSequencer /\ TypeStores
      /\ TypeChannels' /\ TypeSequencer'
  BY DEF TypeOK
<1>2. StampsRise /\ StampsBelow /\ ExecutedBelow /\ CutInv
  BY DEF Cuts
<1>3. glbl_seq_num <= glbl_seq_num'
  BY <1>1 DEF TypeSequencer
<1>4. StampsRise' /\ StampsBelow'
  BY <1>1, <1>2, <1>3, StampsKept
<1>5. ExecutedBelow'
  BY <1>2, BelowKept
<1>6. CutInv'
  BY <1>1, <1>2, <1>3, CutsKept DEF SameCheckpointsSent, Ordered
<1>q. QED
  BY <1>4, <1>5, <1>6 DEF Cuts, StoresSame

(* A step that leaves the connections of the primary, the stores and the   *)
(* sequencer alone keeps the cuts.                                         *)
LEMMA QuietStep ==
  ASSUME TypeOK, TypeOK', Cuts,
         UNCHANGED <<toPeer, order, checkpoint, spc, glbl_seq_num, log, tablet>>
  PROVE  Cuts'
<1> DEFINE d == [q \in Peers |-> 0]
<1>1. NothingStampedSent(d)
  BY DEF NothingStampedSent, TypeOK, TypeChannels
<1>2. SameCheckpointsSent
  BY DEF SameCheckpointsSent
<1>3. \A p \in Peers : \A w \in Executed(p)' : Requestor[w] # p => w \in Executed(p)
  BY DEF Executed
<1>4. d \in [Peers -> {0, 1}]
  OBVIOUS
<1> HIDE DEF d
<1>q. QED
  BY <1>1, <1>2, <1>3, <1>4, HandlerKeeps DEF Cuts, StoresSame

(* Releasing the requestor sends an "+OK" at most.                         *)
LEMMA ReleaseStep ==
  ASSUME TypeOK, TypeOK', Cuts, NEW m \in AnswerMsg("+ACK"), ReleaseRequestor(m),
         UNCHANGED <<order, checkpoint, spc, glbl_seq_num, log, tablet>>
  PROVE  Cuts'
<1>1. CASE m.requestor_id = Primary
  BY <1>1, QuietStep DEF ReleaseRequestor
<1>2. CASE m.requestor_id # Primary
  <2> DEFINE r == m.requestor_id
             ok == [m EXCEPT !.kind = "+OK"]
             d == [q \in Peers |-> 0]
  <2>1. r \in Peers /\ toPeer' = [toPeer EXCEPT ![r] = Append(@, ok)] /\ ok.kind = "+OK"
    BY <1>2 DEF ReleaseRequestor, AnswerMsg, Peers
  <2>2. d \in [Peers -> {0, 1}] /\ \A q \in Peers : d[q] = 0
    OBVIOUS
  <2> HIDE DEF r, ok, d
  <2>3. \A q \in Peers : \A i \in DOMAIN toPeer[q] :
          i \in DOMAIN toPeer'[q] /\ toPeer'[q][i] = toPeer[q][i]
    BY <2>1 DEF TypeOK, TypeChannels
  <2>4. \A q \in Peers : \A i \in DOMAIN toPeer'[q] :
          i \in Nat /\ (i \in DOMAIN toPeer[q] \/ toPeer'[q][i] = ok)
    BY <2>1 DEF TypeOK, TypeChannels
  <2>5. NothingStampedSent(d)
    BY <2>1, <2>2, <2>3, <2>4 DEF NothingStampedSent, Stamped
  <2>6. SameCheckpointsSent
    BY <2>1, <2>3, <2>4 DEF SameCheckpointsSent
  <2>7. \A p \in Peers : \A w \in Executed(p)' : Requestor[w] # p => w \in Executed(p)
    BY DEF Executed
  <2>q. QED
    BY <2>2, <2>5, <2>6, <2>7, HandlerKeeps DEF Cuts, StoresSame
<1>q. QED
  BY <1>1, <1>2

\* One message less on the connection to p.
Shift(p) == [q \in Peers |-> IF q = p THEN 1 ELSE 0]

\* The first message has gone from the connection to p, and no other.
MovedUp(p) ==
  /\ NothingStampedSent(Shift(p))
  /\ toPeer[p][1] = Head(toPeer[p]) /\ 1 \in DOMAIN toPeer[p]
  /\ \A q \in Peers : \A i \in DOMAIN toPeer'[q] :
       /\ i \in Nat \ {0}
       /\ i + Shift(p)[q] \in DOMAIN toPeer[q]
       /\ toPeer'[q][i] = toPeer[q][i + Shift(p)[q]]
  /\ \A q \in Peers : \A i \in DOMAIN toPeer[q] :
       \/ q = p /\ i = 1
       \/ \E j \in DOMAIN toPeer'[q] : toPeer'[q][j] = toPeer[q][i]

LEMMA ShiftType == \A p \in Peers : Shift(p) \in [Peers -> {0, 1}]
  BY DEF Shift

(* Taking the first message from a connection moves the others up.         *)
LEMMA ReceiveShifts ==
  ASSUME TypeChannels, NEW p \in Peers, toPeer[p] # <<>>,
         toPeer' = [toPeer EXCEPT ![p] = Tail(@)]
  PROVE  MovedUp(p)
<1>2. toPeer[p][1] = Head(toPeer[p]) /\ 1 \in DOMAIN toPeer[p]
  BY DEF TypeChannels
<1>3. ASSUME NEW q \in Peers, NEW i \in DOMAIN toPeer'[q]
      PROVE  /\ i \in Nat \ {0}
             /\ i + Shift(p)[q] \in DOMAIN toPeer[q]
             /\ toPeer'[q][i] = toPeer[q][i + Shift(p)[q]]
  <2>1. CASE q = p
    BY <2>1 DEF TypeChannels, Shift
  <2>2. CASE q # p
    BY <2>2 DEF TypeChannels, Shift
  <2>q. QED
    BY <2>1, <2>2
<1>4. ASSUME NEW q \in Peers, NEW i \in DOMAIN toPeer[q], ~(q = p /\ i = 1)
      PROVE  \E j \in DOMAIN toPeer'[q] : toPeer'[q][j] = toPeer[q][i]
  <2>1. CASE q = p
    <3>1. i - 1 \in DOMAIN toPeer'[q] /\ toPeer'[q][i - 1] = toPeer[q][i]
      BY <1>4, <2>1 DEF TypeChannels
    <3>q. QED
      BY <3>1
  <2>2. CASE q # p
    BY <2>2 DEF TypeChannels
  <2>q. QED
    BY <2>1, <2>2
<1>q. QED
  BY <1>2, <1>3, <1>4 DEF NothingStampedSent, MovedUp

(* RecvOK only takes an "+OK" from the connection.                         *)
LEMMA OkStep ==
  ASSUME TypeOK, TypeOK', Cuts, NEW p \in Peers, RecvOK(p)
  PROVE  Cuts'
<1>1. /\ toPeer[p] # <<>> /\ Head(toPeer[p]).kind = "+OK"
      /\ toPeer' = [toPeer EXCEPT ![p] = Tail(@)]
      /\ UNCHANGED <<order, checkpoint, spc, glbl_seq_num, log, tablet>>
  BY DEF RecvOK, Incoming, queueVars, cpVars, storeVars
<1>2. TypeChannels
  BY DEF TypeOK
<1>3. MovedUp(p)
  BY <1>1, <1>2, ReceiveShifts
<1>4. SameCheckpointsSent
  <2>1. \A q \in Peers : \A i \in DOMAIN toPeer'[q] :
          \E j \in DOMAIN toPeer[q] : toPeer[q][j] = toPeer'[q][i]
    BY <1>3 DEF MovedUp
  <2>2. \A q \in Peers : \A i \in DOMAIN toPeer[q] :
          toPeer[q][i].kind = "+CHECKPOINT" =>
            \E j \in DOMAIN toPeer'[q] : toPeer'[q][j] = toPeer[q][i]
    BY <1>1, <1>3 DEF MovedUp
  <2>q. QED
    BY <2>1, <2>2 DEF SameCheckpointsSent
<1>5. \A q \in Peers : \A w \in Executed(q)' : Requestor[w] # q => w \in Executed(q)
  BY <1>1 DEF Executed
<1>q. QED
  BY <1>1, <1>3, <1>4, <1>5, HandlerKeeps, ShiftType DEF Cuts, StoresSame, MovedUp

(* Executing a commit keeps the executed writes below the messages that    *)
(* follow it.                                                              *)
LEMMA CommitStep ==
  ASSUME CheckpointInv, TypeOK', NEW p \in Peers, RecvCommit(p)
  PROVE  Cuts'
<1> DEFINE m == Head(toPeer[p])
<1>1. /\ toPeer[p] # <<>> /\ m.kind = "commit"
      /\ toPeer' = [toPeer EXCEPT ![p] = Tail(@)]
      /\ UNCHANGED <<order, checkpoint, spc, glbl_seq_num>>
      /\ IF m.requestor_id # p THEN process_if_enabled(p, m.data) ELSE UNCHANGED storeVars
  BY DEF RecvCommit, Incoming, queueVars, cpVars
<1>2. /\ TypeChannels /\ TypeSequencer /\ TypeStores /\ TypeChannels' /\ TypeSequencer'
      /\ StampsRise /\ StampsBelow /\ ExecutedBelow /\ CutInv /\ tablet = log
      /\ p \in Servers /\ disabled_flag[p] = 0 /\ CommitsInFlight
  BY DEF CheckpointInv, Cuts, OrderInv, TypeOK, StoresSame, Peers
<1>3. MovedUp(p)
  BY <1>1, <1>2, ReceiveShifts
<1>4. /\ m = toPeer[p][1] /\ 1 \in DOMAIN toPeer[p] /\ m.data \in Writes
      /\ m.requestor_id = Requestor[m.data]
      /\ m.glbl_seq_num = order[m.data]
  <2>1. m = toPeer[p][1] /\ 1 \in DOMAIN toPeer[p]
    BY <1>3 DEF MovedUp
  <2>2. m \in CommitMsg
    BY <1>1, <1>2, CommitMessage DEF Incoming
  <2> HIDE DEF m
  <2>q. QED
    BY <1>1, <1>2, <2>1, <2>2 DEF CommitMsg, CommitsInFlight, StampsRise
<1>5. /\ tablet' = log'
      /\ \A q \in Peers : q # p => Executed(q)' = Executed(q)
      /\ \A w \in Executed(p)' : w \in Executed(p) \/ w = m.data
  <2> HIDE DEF m
  <2>1. CASE m.requestor_id # p
    <3>1. process_command(p, m.data)
      BY <1>1, <1>2, <2>1 DEF process_if_enabled
    <3>2. \A q \in Peers : q \in Servers
      BY DEF Peers
    <3>3. tablet' = log'
      BY <1>2, <3>1 DEF process_command
    <3>q. QED
      BY <1>2, <1>4, <3>1, <3>2, <3>3, ExecutedAfterProcess
  <2>2. CASE m.requestor_id = p
    BY <1>1, <1>2, <2>2 DEF storeVars, Executed
  <2>q. QED
    BY <2>1, <2>2
<1> HIDE DEF m
<1>6. glbl_seq_num <= glbl_seq_num'
  BY <1>1, <1>2 DEF TypeSequencer
<1>7. StampsRise' /\ StampsBelow'
  BY <1>1, <1>2, <1>3, <1>6, StampsKept, ShiftType DEF MovedUp
<1>8. ExecutedBelow'
  <2> SUFFICES ASSUME NEW q \in Peers, NEW i \in DOMAIN toPeer'[q], Stamped(toPeer'[q][i]),
                      NEW w \in Executed(q)', Requestor[w] # q
               PROVE  order[w] < toPeer'[q][i].glbl_seq_num
    BY <1>1 DEF ExecutedBelow, Stamped, Requestor
  <2> DEFINE j == i + Shift(p)[q]
  <2>1. j \in DOMAIN toPeer[q] /\ toPeer'[q][i] = toPeer[q][j] /\ i \in Nat \ {0}
    BY <1>3 DEF MovedUp
  <2>2. CASE w \in Executed(q)
    BY <1>2, <2>1, <2>2 DEF ExecutedBelow
  <2>3. CASE w \notin Executed(q)
    <3>1. q = p /\ w = m.data
      BY <1>5, <2>3
    <3>2. j = i + 1
      BY <3>1 DEF Shift
    <3>3. 1 < j
      BY <2>1, <3>2
    <3> HIDE DEF j
    <3>4. Stamped(toPeer[p][1])
      BY <1>1, <1>4 DEF Stamped
    <3>5. toPeer[p][1].glbl_seq_num < toPeer[p][j].glbl_seq_num
      BY <1>2, <1>4, <2>1, <3>1, <3>3, <3>4 DEF StampsRise
    <3>q. QED
      BY <1>4, <2>1, <3>1, <3>5
  <2>q. QED
    BY <2>2, <2>3
<1>9. CutInv'
  <2>1. \A q \in Peers : \A i \in DOMAIN toPeer'[q] :
          \E j \in DOMAIN toPeer[q] : toPeer[q][j] = toPeer'[q][i]
    BY <1>3 DEF MovedUp
  <2>2. \A q \in Peers : \A i \in DOMAIN toPeer[q] :
          toPeer[q][i].kind = "+CHECKPOINT" =>
            \E j \in DOMAIN toPeer'[q] : toPeer'[q][j] = toPeer[q][i]
    BY <1>1, <1>3, <1>4 DEF MovedUp
  <2>3. Ordered' = Ordered
    BY <1>1 DEF Ordered
  <2>q. QED
    BY <1>1, <1>2, <1>6, <2>1, <2>2, <2>3, CutsKept
<1>q. QED
  BY <1>5, <1>7, <1>8, <1>9 DEF Cuts, StoresSame

(* A client thread that executes its own write changes no cut.             *)
LEMMA ProceedStep ==
  ASSUME CheckpointInv, TypeOK', NEW c \in Clients, Proceed(c)
  PROVE  Cuts'
<1> DEFINE w == <<c, issued[c]>>
<1>1. /\ TypeChannels /\ TypeStores /\ TypeClients /\ tablet = log
      /\ disabled_flag = [s \in Servers |-> 0]
      /\ TypeOK /\ Cuts
  BY DEF CheckpointInv, Cuts, OrderInv, TypeOK, StoresSame
<1>2. /\ process_command(Home[c], w)
      /\ UNCHANGED <<toPeer, order, checkpoint, spc, glbl_seq_num>>
  BY <1>1 DEF Proceed, process_if_enabled, queueVars, cpVars, netVars
<1>3. w \in Writes /\ Requestor[w] = Home[c] /\ Home[c] \in Servers
  BY <1>1 DEF Proceed, TypeClients, Writes, Requestor
<1> HIDE DEF w
<1>4. /\ Executed(Home[c])' = Executed(Home[c]) \union {w}
      /\ \A t \in Servers : t # Home[c] => Executed(t)' = Executed(t)
  BY <1>1, <1>2, <1>3, ExecutedAfterProcess
<1>5. \A p \in Peers : \A v \in Executed(p)' : Requestor[v] # p => v \in Executed(p)
  BY <1>3, <1>4 DEF Peers
<1> DEFINE d == [q \in Peers |-> 0]
<1>6. NothingStampedSent(d) /\ d \in [Peers -> {0, 1}]
  BY <1>1, <1>2 DEF NothingStampedSent, TypeChannels
<1>7. SameCheckpointsSent
  BY <1>2 DEF SameCheckpointsSent
<1> HIDE DEF d
<1>8. tablet' = log'
  BY <1>1, <1>2 DEF process_command
<1>q. QED
  BY <1>1, <1>2, <1>5, <1>6, <1>7, <1>8, HandlerKeeps

(* The first "+CHECKPOINT" on a connection is the one after the checkpoint *)
(* the replica has, and the replica has executed exactly the writes of     *)
(* others below its number.                                                *)
LEMMA CheckpointCuts ==
  ASSUME CheckpointInv, NEW p \in Peers, NEW cut \in [0 .. Ordered -> 0 .. glbl_seq_num],
         CutsRise(cut), CutContents(cut), CutMessages(cut),
         1 \in DOMAIN toPeer[p], toPeer[p][1].kind = "+CHECKPOINT"
  PROVE  /\ checkpoint[p].version + 1 \in 0 .. Ordered
         /\ toPeer[p][1].glbl_seq_num = cut[checkpoint[p].version + 1]
         /\ \A w \in Writes :
              Requestor[w] # p =>
                (w \in Executed(p) <=> order[w] \in 0 .. toPeer[p][1].glbl_seq_num - 1)
<1> DEFINE v == checkpoint[p].version
           g == toPeer[p][1].glbl_seq_num
<1>1. /\ TypeChannels /\ TypeSequencer /\ TypeStores
      /\ StampsRise /\ ExecutedBelow /\ PeersCovered /\ ExecutedWrites
      /\ p \in Servers
  BY DEF CheckpointInv, Cuts, OrderInv, TypeOK, Peers
<1>2. v \in Nat /\ v \in 0 .. Ordered /\ Ordered \in Nat /\ glbl_seq_num \in Nat
  BY <1>1 DEF TypeStores, TypeSequencer, CutContents, Ordered
<1>3. g \in Nat
  BY <1>1, StampType
<1>4. PICK u \in v + 1 .. Ordered : g = cut[u]
  BY DEF CutMessages
<1>5. \A i \in DOMAIN toPeer[p] : i # 1 => 1 < i
  BY <1>1 DEF TypeChannels
<1>6. u = v + 1
  <2> SUFFICES ASSUME u # v + 1 PROVE FALSE
    OBVIOUS
  <2>1. /\ v + 1 \in v + 1 .. Ordered
        /\ v + 1 \in 0 .. Ordered /\ u \in 0 .. Ordered /\ v + 1 < u
    <3>1. u \in v + 1 .. Ordered
      BY <1>4
    <3> HIDE DEF v
    <3>q. QED
      BY <1>2, <3>1
  <2>2. cut[v + 1] < g
    BY <1>4, <2>1 DEF CutsRise
  <2> HIDE DEF v
  <2>3. PICK i \in DOMAIN toPeer[p] :
          toPeer[p][i].kind = "+CHECKPOINT" /\ toPeer[p][i].glbl_seq_num = cut[v + 1]
    BY <2>1 DEF CutMessages, v
  <2>4. cut[v + 1] \in Nat
    BY <2>1, <1>2
  <2>5. i # 1
    BY <1>3, <2>2, <2>3, <2>4
  <2>6. g < cut[v + 1]
    BY <1>1, <1>5, <2>3, <2>5 DEF StampsRise, Stamped
  <2>q. QED
    BY <1>3, <2>2, <2>4, <2>6
<1>7. ASSUME NEW w \in Writes, Requestor[w] # p
      PROVE  w \in Executed(p) <=> order[w] \in 0 .. g - 1
  <2>1. order[w] \in Nat \union {-1}
    BY <1>1 DEF TypeSequencer
  <2>2. ASSUME w \in Executed(p) PROVE order[w] >= 0 /\ order[w] < g
    BY <1>1, <1>7, <2>2 DEF ExecutedBelow, ExecutedWrites, Stamped
  <2>3. ASSUME order[w] >= 0, order[w] < g, w \notin Executed(p) PROVE FALSE
    <3>1. PICK i \in DOMAIN toPeer[p] : toPeer[p][i].kind = "commit" /\ toPeer[p][i].data = w
      BY <1>1, <1>7, <2>3 DEF PeersCovered
    <3>2. 1 < i
      BY <1>5, <3>1
    <3>3. g < order[w]
      BY <1>1, <3>1, <3>2 DEF StampsRise, Stamped
    <3>q. QED
      BY <1>3, <2>1, <2>3, <3>3
  <2> HIDE DEF g
  <2>q. QED
    BY <1>3, <2>1, <2>2, <2>3
<1>q. QED
  BY <1>2, <1>4, <1>6, <1>7

(* A replica that takes a checkpoint gives it the contents of its cut.     *)
LEMMA TakeStep ==
  ASSUME CheckpointInv, TypeOK', NEW p \in Peers, RecvCheckpoint(p)
  PROVE  Cuts'
<1>1. /\ TypeOK /\ TypeChannels /\ TypeSequencer /\ TypeStores /\ TypeChannels' /\ TypeSequencer'
      /\ StampsRise /\ StampsBelow /\ ExecutedBelow /\ CutInv /\ tablet = log
      /\ p \in Servers /\ p # Primary /\ Primary \in Servers /\ disabled_flag[p] = 0
  BY DEF CheckpointInv, Cuts, OrderInv, TypeOK, StoresSame, Peers
<1>2. /\ toPeer[p] # <<>> /\ Head(toPeer[p]).kind = "+CHECKPOINT"
      /\ toPeer' = [toPeer EXCEPT ![p] = Tail(@)]
      /\ UNCHANGED <<order, spc, glbl_seq_num, log, tablet>>
      /\ take_checkpoint(p)
  BY <1>1 DEF RecvCheckpoint, Incoming, queueVars, storeVars
<1>3. MovedUp(p)
  BY <1>1, <1>2, ReceiveShifts
<1>4. 1 \in DOMAIN toPeer[p] /\ toPeer[p][1].kind = "+CHECKPOINT"
  BY <1>2, <1>3 DEF MovedUp
<1>5. glbl_seq_num <= glbl_seq_num' /\ glbl_seq_num \in Nat
  BY <1>1, <1>2 DEF TypeSequencer
<1>6. StampsRise' /\ StampsBelow'
  BY <1>1, <1>2, <1>3, <1>5, StampsKept, ShiftType DEF MovedUp
<1>7. ExecutedBelow'
  <2>1. \A q \in Peers : Executed(q)' = Executed(q)
    BY <1>2 DEF Executed
  <2>q. QED
    BY <1>1, <1>2, <1>3, <2>1, BelowKept, ShiftType DEF MovedUp
<1>8. CutInv'
  <2>1. PICK cut \in [0 .. Ordered -> 0 .. glbl_seq_num] :
          CutsRise(cut) /\ CutContents(cut) /\ CutMessages(cut)
    BY <1>1 DEF CutInv
  <2> DEFINE v == checkpoint[p].version
             g == toPeer[p][1].glbl_seq_num
  <2>2. /\ v + 1 \in 0 .. Ordered
        /\ g = cut[v + 1]
        /\ \A w \in Writes :
             Requestor[w] # p => (w \in Executed(p) <=> order[w] \in 0 .. g - 1)
    BY <1>4, <2>1, CheckpointCuts
  <2>3. /\ checkpoint'[p] = [version |-> v + 1, tablet |-> tablet[p]]
        /\ \A s \in Servers \ {p} : checkpoint'[s] = checkpoint[s]
    BY <1>1, <1>2 DEF take_checkpoint, TypeStores
  <2>4. v \in Nat /\ Ordered \in Nat
    BY <1>1 DEF TypeStores, Ordered
  <2>5. Ordered' = Ordered
    BY <1>1, <1>2, <2>3 DEF Ordered
  <2>6. CutsRise(cut)'
    BY <1>2, <2>1, <2>5 DEF CutsRise
  <2>7. CutContents(cut)'
    <3>1. Contents(p)' = Executed(p)
      BY <1>1, <2>3 DEF Contents, Executed
    <3>2. \A s \in Servers \ {p} : Contents(s)' = Contents(s)
      BY <2>3 DEF Contents
    <3> HIDE DEF v, g
    <3>3. checkpoint'[p].version = v + 1
      BY <2>3
    <3>4. \A w \in Writes :
             Requestor[w] # p => (w \in Contents(p)' <=> order'[w] \in 0 .. cut[checkpoint'[p].version] - 1)
      BY <1>2, <2>2, <3>1, <3>3
    <3>5. ASSUME NEW s \in Servers
          PROVE  /\ checkpoint'[s].version \in 0 .. Ordered'
                 /\ \A w \in Writes :
                      Requestor[w] # s =>
                        (w \in Contents(s)' <=> order'[w] \in 0 .. cut[checkpoint'[s].version] - 1)
      <4>1. CASE s = p
        BY <2>2, <2>5, <3>3, <3>4, <4>1
      <4>2. CASE s # p
        BY <1>2, <2>1, <2>3, <2>5, <3>2, <4>2 DEF CutContents
      <4>q. QED
        BY <4>1, <4>2
    <3>q. QED
      BY <3>5 DEF CutContents, Requestor
  <2>8. CutMessages(cut)'
    <3>1. ASSUME NEW q \in Peers, NEW i \in DOMAIN toPeer'[q], toPeer'[q][i].kind = "+CHECKPOINT"
          PROVE  \E u \in checkpoint'[q].version + 1 .. Ordered : toPeer'[q][i].glbl_seq_num = cut[u]
      <4> DEFINE j == i + Shift(p)[q]
      <4>1. j \in DOMAIN toPeer[q] /\ toPeer'[q][i] = toPeer[q][j] /\ i \in Nat \ {0}
        BY <1>3 DEF MovedUp
      <4>2. j = IF q = p THEN i + 1 ELSE i
        BY <4>1 DEF Shift
      <4> HIDE DEF j
      <4>3. PICK u \in checkpoint[q].version + 1 .. Ordered : toPeer[q][j].glbl_seq_num = cut[u]
        BY <2>1, <3>1, <4>1 DEF CutMessages
      <4>4. CASE q = p
        <5>1. g < toPeer[q][j].glbl_seq_num
          BY <1>1, <1>4, <3>1, <4>1, <4>2, <4>4 DEF StampsRise, Stamped
        <5>2. g \in Nat
          BY <1>1, <1>4, StampType
        <5>3. u # v + 1
          BY <2>2, <4>3, <5>1, <5>2
        <5>4. checkpoint'[q].version = v + 1
          BY <2>3, <4>4
        <5> HIDE DEF v
        <5>5. u \in (v + 1) + 1 .. Ordered
          BY <2>4, <4>3, <4>4, <5>3 DEF v
        <5>q. QED
          BY <4>1, <4>3, <5>4, <5>5
      <4>5. CASE q # p
        <5>1. checkpoint'[q] = checkpoint[q]
          BY <2>3, <4>5 DEF Peers
        <5>q. QED
          BY <4>1, <4>3, <5>1
      <4>q. QED
        BY <4>4, <4>5
    <3>2. ASSUME NEW q \in Peers, NEW u \in checkpoint'[q].version + 1 .. Ordered
          PROVE  \E i \in DOMAIN toPeer'[q] :
                   toPeer'[q][i].kind = "+CHECKPOINT" /\ toPeer'[q][i].glbl_seq_num = cut[u]
      <4>1. u \in checkpoint[q].version + 1 .. Ordered /\ (q = p => u # v + 1 /\ v + 1 < u /\ u \in 0 .. Ordered)
        <5>1. CASE q = p
          <6>1. checkpoint'[q].version = v + 1 /\ checkpoint[q].version = v
            BY <2>3, <5>1
          <6> HIDE DEF v
          <6>q. QED
            BY <2>4, <6>1
        <5>2. CASE q # p
          BY <2>3, <5>2 DEF Peers
        <5>q. QED
          BY <5>1, <5>2
      <4>2. PICK i \in DOMAIN toPeer[q] :
              toPeer[q][i].kind = "+CHECKPOINT" /\ toPeer[q][i].glbl_seq_num = cut[u]
        BY <2>1, <4>1 DEF CutMessages
      <4>3. ~(q = p /\ i = 1)
        <5> SUFFICES ASSUME q = p, i = 1 PROVE FALSE
          OBVIOUS
        <5>1. cut[v + 1] < cut[u]
          BY <2>1, <2>2, <4>1 DEF CutsRise
        <5>2. cut[v + 1] \in Nat /\ cut[u] \in Nat
          BY <2>1, <2>2, <4>1, <1>5
        <5>q. QED
          BY <2>2, <4>2, <5>1, <5>2
      <4>4. PICK j \in DOMAIN toPeer'[q] : toPeer'[q][j] = toPeer[q][i]
        BY <1>3, <4>3 DEF MovedUp
      <4>q. QED
        BY <4>2, <4>4
    <3>q. QED
      BY <2>5, <3>1, <3>2 DEF CutMessages
  <2>9. cut \in [0 .. Ordered' -> 0 .. glbl_seq_num']
    BY <1>2, <2>5
  <2>q. QED
    BY <2>6, <2>7, <2>8, <2>9 DEF CutInv
<1>q. QED
  BY <1>1, <1>2, <1>6, <1>7, <1>8 DEF Cuts, StoresSame

\* m is the last message on every connection to a replica, and new.
SentToAll(m) ==
  \A q \in Peers :
    /\ \A i \in DOMAIN toPeer[q] : i \in DOMAIN toPeer'[q] /\ toPeer'[q][i] = toPeer[q][i]
    /\ \A i \in DOMAIN toPeer'[q] :
         \/ i \in DOMAIN toPeer[q]
         \/ toPeer'[q][i] = m /\ \A j \in DOMAIN toPeer'[q] : j <= i
    /\ \E i \in DOMAIN toPeer'[q] : toPeer'[q][i] = m

(* What a broadcast does to the connections.                               *)
LEMMA BroadcastSends ==
  ASSUME TypeChannels, NEW m, Broadcast(m)
  PROVE  SentToAll(m)
<1> SUFFICES ASSUME NEW q \in Peers
             PROVE  /\ \A i \in DOMAIN toPeer[q] :
                         i \in DOMAIN toPeer'[q] /\ toPeer'[q][i] = toPeer[q][i]
                    /\ \A i \in DOMAIN toPeer'[q] :
                         \/ i \in DOMAIN toPeer[q]
                         \/ toPeer'[q][i] = m /\ \A j \in DOMAIN toPeer'[q] : j <= i
                    /\ \E i \in DOMAIN toPeer'[q] : toPeer'[q][i] = m
  BY DEF SentToAll
<1>1. toPeer'[q] = Append(toPeer[q], m) /\ toPeer[q] \in Seq(ToPeerMsg)
  BY DEF Broadcast, TypeChannels
<1>2. /\ DOMAIN toPeer'[q] = 1 .. Len(toPeer[q]) + 1 /\ Len(toPeer[q]) \in Nat
      /\ DOMAIN toPeer[q] = 1 .. Len(toPeer[q])
      /\ toPeer'[q][Len(toPeer[q]) + 1] = m
      /\ \A i \in DOMAIN toPeer[q] : toPeer'[q][i] = toPeer[q][i]
  BY <1>1
<1>q. QED
  BY <1>2

(* A numbered broadcast comes after all messages under way: its number is  *)
(* the highest so far.                                                     *)
LEMMA BroadcastStamps ==
  ASSUME TypeChannels, TypeChannels', TypeSequencer, StampsRise, StampsBelow, ExecutedBelow,
         CommitsInFlight, ExecutedWrites, NumberedBelow, TypeStores,
         spc \in {"pop", "check"}, spc' \notin {"pop", "check"},
         NEW m, SentToAll(m), Stamped(m), m.glbl_seq_num = glbl_seq_num,
         UNCHANGED <<glbl_seq_num, log>>,
         \A w \in Writes : order[w] >= 0 => order'[w] = order[w],
         m.kind = "commit" => order'[m.data] = glbl_seq_num
  PROVE  StampsRise' /\ StampsBelow' /\ ExecutedBelow'
<1>0. glbl_seq_num \in Nat
  BY DEF TypeSequencer
<1>1. \A p \in Peers : \A i \in DOMAIN toPeer[p] :
        toPeer[p][i].kind = "commit" =>
          order'[toPeer[p][i].data] = order[toPeer[p][i].data]
  BY CommitData DEF CommitsInFlight
<1>2. StampsRise'
  <2>1. ASSUME NEW p \in Peers, NEW i \in DOMAIN toPeer'[p], toPeer'[p][i].kind = "commit"
        PROVE  toPeer'[p][i].glbl_seq_num = order'[toPeer'[p][i].data]
    <3>1. CASE i \in DOMAIN toPeer[p]
      BY <1>1, <2>1, <3>1 DEF SentToAll, StampsRise
    <3>2. CASE i \notin DOMAIN toPeer[p]
      <4>1. toPeer'[p][i] = m
        BY <3>2 DEF SentToAll
      <4>q. QED
        BY <2>1, <4>1
    <3>q. QED
      BY <3>1, <3>2
  <2>2. ASSUME NEW p \in Peers, NEW i \in DOMAIN toPeer'[p], NEW j \in DOMAIN toPeer'[p],
               Stamped(toPeer'[p][i]), Stamped(toPeer'[p][j]), i < j
        PROVE  toPeer'[p][i].glbl_seq_num < toPeer'[p][j].glbl_seq_num
    <3>1. i \in DOMAIN toPeer[p] /\ toPeer'[p][i] = toPeer[p][i]
      <4>1. i \in Nat /\ j \in Nat
        BY DEF TypeChannels
      <4>q. QED
        BY <2>2, <4>1 DEF SentToAll
    <3>2. CASE j \in DOMAIN toPeer[p]
      BY <2>2, <3>1, <3>2 DEF SentToAll, StampsRise
    <3>3. CASE j \notin DOMAIN toPeer[p]
      <4>1. toPeer'[p][j] = m
        BY <3>3 DEF SentToAll
      <4>2. toPeer[p][i].glbl_seq_num < glbl_seq_num
        BY <2>2, <3>1 DEF StampsBelow
      <4>q. QED
        BY <3>1, <4>1, <4>2
    <3>q. QED
      BY <3>2, <3>3
  <2>q. QED
    BY <2>1, <2>2 DEF StampsRise, Stamped
<1>3. StampsBelow'
  <2> SUFFICES ASSUME NEW p \in Peers, NEW i \in DOMAIN toPeer'[p], Stamped(toPeer'[p][i])
               PROVE  toPeer'[p][i].glbl_seq_num <= glbl_seq_num
    BY DEF StampsBelow, Stamped
  <2>1. CASE i \in DOMAIN toPeer[p]
    BY <2>1 DEF SentToAll, StampsBelow
  <2>2. CASE i \notin DOMAIN toPeer[p]
    BY <1>0, <2>2 DEF SentToAll
  <2>q. QED
    BY <2>1, <2>2
<1>4. ExecutedBelow'
  <2> SUFFICES ASSUME NEW p \in Peers, NEW i \in DOMAIN toPeer'[p], Stamped(toPeer'[p][i]),
                      NEW w \in Executed(p)', Requestor[w] # p
               PROVE  order'[w] < toPeer'[p][i].glbl_seq_num
    BY DEF ExecutedBelow, Stamped, Requestor
  <2>1. w \in Executed(p) /\ p \in Servers
    BY DEF Executed, Peers
  <2>2. w \in Writes
    BY <2>1, ExecutedType
  <2>3. order'[w] = order[w] /\ order[w] < glbl_seq_num
    <3>1. order[w] >= 0
      BY <2>1 DEF ExecutedWrites
    <3>q. QED
      BY <2>2, <3>1 DEF NumberedBelow
  <2>4. CASE i \in DOMAIN toPeer[p]
    BY <2>1, <2>3, <2>4 DEF SentToAll, ExecutedBelow
  <2>5. CASE i \notin DOMAIN toPeer[p]
    <3>1. toPeer'[p][i] = m
      BY <2>5 DEF SentToAll
    <3>q. QED
      BY <2>3, <3>1
  <2>q. QED
    BY <2>4, <2>5
<1>q. QED
  BY <1>2, <1>3, <1>4

(* Numbering a write cuts nothing: its number is above every cut.          *)
LEMMA SequentializeStep ==
  ASSUME CheckpointInv, TypeOK', Sequentialize
  PROVE  Cuts'
<1> DEFINE h == Head(hold_queue)
           m == [h EXCEPT !.kind = "commit", !.glbl_seq_num = glbl_seq_num]
<1>1. /\ TypeChannels /\ TypeSequencer /\ TypeStores /\ TypeChannels' /\ TypeSequencer'
      /\ StampsRise /\ StampsBelow /\ ExecutedBelow /\ CutInv /\ tablet = log
      /\ CommitsInFlight /\ ExecutedWrites /\ NumberedBelow /\ PendingRequests
  BY DEF CheckpointInv, Cuts, OrderInv, TypeOK, StoresSame
<1>2. /\ spc = "pop" /\ spc' = "commit" /\ hold_queue # <<>>
      /\ Broadcast(m)
      /\ order' = [order EXCEPT ![h.data] = glbl_seq_num]
      /\ UNCHANGED <<glbl_seq_num, log, tablet, checkpoint>>
  BY DEF Sequentialize, cpVars, storeVars
<1>3. h \in RequestMsg /\ order[h.data] = -1
  <2>1. h \in RequestMsg /\ h = hold_queue[1] /\ 1 \in DOMAIN hold_queue
    BY <1>1, <1>2 DEF TypeSequencer
  <2>q. QED
    BY <1>1, <2>1 DEF PendingRequests, Pending
<1>4. m.kind = "commit" /\ m.glbl_seq_num = glbl_seq_num /\ m.data = h.data /\ h.data \in Writes
  BY <1>3 DEF RequestMsg
<1> HIDE DEF h, m
<1>5. SentToAll(m)
  BY <1>1, <1>2, BroadcastSends
<1>6. /\ order'[h.data] = glbl_seq_num
      /\ \A w \in Writes : w # h.data => order'[w] = order[w]
  BY <1>1, <1>2, <1>4 DEF TypeSequencer
<1>7. StampsRise' /\ StampsBelow' /\ ExecutedBelow'
  <2>1. \A w \in Writes : order[w] >= 0 => order'[w] = order[w]
    BY <1>3, <1>6
  <2>q. QED
    BY <1>1, <1>2, <1>4, <1>5, <1>6, <2>1, BroadcastStamps DEF Stamped
<1>8. CutInv'
  <2>1. Ordered' = Ordered
    BY <1>2 DEF Ordered
  <2>2. \A w \in Writes :
          order'[w] = order[w] \/ (order[w] = -1 /\ order'[w] >= glbl_seq_num)
    BY <1>1, <1>3, <1>6 DEF TypeSequencer
  <2>3. \A p \in Peers : \A i \in DOMAIN toPeer'[p] :
          toPeer'[p][i].kind = "+CHECKPOINT" =>
            \E j \in DOMAIN toPeer[p] : toPeer[p][j] = toPeer'[p][i]
    BY <1>4, <1>5 DEF SentToAll
  <2>4. \A p \in Peers : \A i \in DOMAIN toPeer[p] :
          \E j \in DOMAIN toPeer'[p] : toPeer'[p][j] = toPeer[p][i]
    BY <1>5 DEF SentToAll
  <2>5. glbl_seq_num <= glbl_seq_num'
    BY <1>1, <1>2 DEF TypeSequencer
  <2>q. QED
    BY <1>1, <1>2, <2>1, <2>2, <2>3, <2>4, <2>5, CutsKept
<1>q. QED
  BY <1>1, <1>2, <1>7, <1>8 DEF Cuts, StoresSame

(* Ordering a checkpoint adds a cut at the sequencer's number.             *)
LEMMA OrderCheckpointStep ==
  ASSUME CheckpointInv, TypeOK', CheckLogLimit
  PROVE  Cuts'
<1> DEFINE m == [kind |-> "+CHECKPOINT", requestor_id |-> None, seq_num |-> None,
                 glbl_seq_num |-> glbl_seq_num, data |-> None]
<1>1. /\ TypeChannels /\ TypeSequencer /\ TypeStores /\ TypeChannels' /\ TypeSequencer'
      /\ StampsRise /\ StampsBelow /\ ExecutedBelow /\ CutInv /\ tablet = log
      /\ CommitsInFlight /\ ExecutedWrites /\ NumberedBelow /\ TypeOK /\ Cuts
  BY DEF CheckpointInv, Cuts, OrderInv, TypeOK, StoresSame
<1>2. /\ spc = "check"
      /\ UNCHANGED <<order, glbl_seq_num, log, tablet, checkpoint>>
      /\ \/ spc' = "checkpoint" /\ Broadcast(m)
         \/ spc' = "pop" /\ UNCHANGED toPeer
  BY DEF CheckLogLimit, storeVars
<1>3. m.kind = "+CHECKPOINT" /\ m.glbl_seq_num = glbl_seq_num
  OBVIOUS
<1> HIDE DEF m
<1>4. glbl_seq_num \in Nat /\ Ordered \in Nat /\ glbl_seq_num <= glbl_seq_num'
  BY <1>1, <1>2 DEF TypeSequencer, TypeStores, Ordered
<1>5. CASE spc' = "checkpoint" /\ Broadcast(m)
  <2>1. SentToAll(m)
    BY <1>1, <1>5, BroadcastSends
  <2>2. StampsRise' /\ StampsBelow' /\ ExecutedBelow'
    BY <1>1, <1>2, <1>3, <1>5, <2>1, BroadcastStamps DEF Stamped
  <2>3. CutInv'
    <3>1. PICK cut \in [0 .. Ordered -> 0 .. glbl_seq_num] :
            CutsRise(cut) /\ CutContents(cut) /\ CutMessages(cut)
      BY <1>1 DEF CutInv
    <3>2. Ordered' = Ordered + 1
      BY <1>1, <1>2, <1>5 DEF Ordered, TypeStores
    <3>3. PICK new : new = [v \in 0 .. Ordered + 1 |-> IF v = Ordered + 1 THEN glbl_seq_num ELSE cut[v]]
      OBVIOUS
    <3>4. /\ new \in [0 .. Ordered' -> 0 .. glbl_seq_num']
          /\ new[Ordered + 1] = glbl_seq_num
          /\ \A v \in 0 .. Ordered : new[v] = cut[v] /\ v \in 0 .. Ordered + 1
      BY <1>2, <1>4, <3>2, <3>3
    <3>5. \A v \in 0 .. Ordered + 1 : v \in 0 .. Ordered \/ v = Ordered + 1
      BY <1>4
    <3>6. CutsRise(new)'
      <4>1. new[0] = 0
        BY <1>4, <3>1, <3>4 DEF CutsRise
      <4>2. ASSUME NEW u \in 0 .. Ordered + 1, NEW v \in 0 .. Ordered + 1, u < v
            PROVE  new[u] < new[v]
        <5>1. u \in 0 .. Ordered
          BY <1>4, <4>2
        <5>2. CASE v \in 0 .. Ordered
          BY <3>1, <3>4, <4>2, <5>1, <5>2 DEF CutsRise
        <5>3. CASE v = Ordered + 1
          BY <1>2, <3>1, <3>4, <5>1, <5>3 DEF CutsRise
        <5>q. QED
          BY <3>5, <5>2, <5>3
      <4>q. QED
        BY <1>2, <1>5, <3>2, <3>4, <4>1, <4>2 DEF CutsRise
    <3>7. CutContents(new)'
      <4> SUFFICES ASSUME NEW s \in Servers
                   PROVE  /\ checkpoint[s].version \in 0 .. Ordered + 1
                          /\ \A w \in Writes :
                               Requestor[w] # s =>
                                 (w \in Contents(s) <=> order[w] \in 0 .. new[checkpoint[s].version] - 1)
        BY <1>2, <3>2 DEF CutContents, Contents, Requestor
      <4>1. checkpoint[s].version \in 0 .. Ordered
        BY <3>1 DEF CutContents
      <4>2. new[checkpoint[s].version] = cut[checkpoint[s].version]
        BY <3>4, <4>1
      <4>q. QED
        BY <3>1, <3>4, <4>1, <4>2 DEF CutContents
    <3>8. CutMessages(new)'
      <4>1. ASSUME NEW p \in Peers
            PROVE  checkpoint[p].version \in Nat /\ checkpoint[p].version <= Ordered
        <5>1. checkpoint[p].version \in 0 .. Ordered
          BY <3>1 DEF CutContents, Peers
        <5>q. QED
          BY <1>4, <5>1
      <4>2. ASSUME NEW p \in Peers, NEW i \in DOMAIN toPeer'[p], toPeer'[p][i].kind = "+CHECKPOINT"
            PROVE  \E v \in checkpoint[p].version + 1 .. Ordered + 1 : toPeer'[p][i].glbl_seq_num = new[v]
        <5>1. CASE i \in DOMAIN toPeer[p]
          <6>1. toPeer'[p][i] = toPeer[p][i]
            BY <2>1, <5>1 DEF SentToAll
          <6>2. PICK v \in checkpoint[p].version + 1 .. Ordered : toPeer[p][i].glbl_seq_num = cut[v]
            BY <3>1, <4>2, <5>1, <6>1 DEF CutMessages
          <6>3. v \in 0 .. Ordered /\ v \in checkpoint[p].version + 1 .. Ordered + 1
            BY <1>4, <4>1, <6>2
          <6>q. QED
            BY <3>4, <6>1, <6>2, <6>3
        <5>2. CASE i \notin DOMAIN toPeer[p]
          <6>1. toPeer'[p][i] = m
            BY <2>1, <5>2 DEF SentToAll
          <6>2. Ordered + 1 \in checkpoint[p].version + 1 .. Ordered + 1
            BY <1>4, <4>1
          <6>q. QED
            BY <1>3, <3>4, <6>1, <6>2
        <5>q. QED
          BY <5>1, <5>2
      <4>3. ASSUME NEW p \in Peers, NEW v \in checkpoint[p].version + 1 .. Ordered + 1
            PROVE  \E i \in DOMAIN toPeer'[p] :
                     toPeer'[p][i].kind = "+CHECKPOINT" /\ toPeer'[p][i].glbl_seq_num = new[v]
        <5>1. v = Ordered + 1 \/ (v \in checkpoint[p].version + 1 .. Ordered /\ v \in 0 .. Ordered)
          BY <1>4, <4>1
        <5>2. CASE v = Ordered + 1
          BY <1>3, <2>1, <3>4, <5>2 DEF SentToAll
        <5>3. CASE v \in checkpoint[p].version + 1 .. Ordered /\ v \in 0 .. Ordered
          <6>1. PICK i \in DOMAIN toPeer[p] :
                  toPeer[p][i].kind = "+CHECKPOINT" /\ toPeer[p][i].glbl_seq_num = cut[v]
            BY <3>1, <5>3 DEF CutMessages
          <6>2. i \in DOMAIN toPeer'[p] /\ toPeer'[p][i] = toPeer[p][i]
            BY <2>1 DEF SentToAll
          <6>q. QED
            BY <3>4, <5>3, <6>1, <6>2
        <5>q. QED
          BY <5>1, <5>2, <5>3
      <4>q. QED
        BY <1>2, <3>2, <4>2, <4>3 DEF CutMessages
    <3>q. QED
      BY <3>4, <3>6, <3>7, <3>8 DEF CutInv
  <2>q. QED
    BY <1>1, <1>2, <2>2, <2>3 DEF Cuts, StoresSame
<1>6. CASE spc' = "pop" /\ UNCHANGED toPeer
  <2> DEFINE d == [q \in Peers |-> 0]
  <2>1. NothingStampedSent(d) /\ d \in [Peers -> {0, 1}]
    BY <1>1, <1>6 DEF NothingStampedSent, TypeChannels
  <2> HIDE DEF d
  <2>2. StampsRise' /\ StampsBelow'
    BY <1>1, <1>2, <1>4, <2>1, StampsKept
  <2>3. ExecutedBelow'
    BY <1>1, <1>2, <2>1, BelowKept DEF Executed
  <2>4. CutInv'
    BY <1>1, <1>2, <1>4, <1>6, CutsKept DEF Ordered
  <2>q. QED
    BY <1>1, <1>2, <2>2, <2>3, <2>4 DEF Cuts, StoresSame
<1>q. QED
  BY <1>2, <1>5, <1>6

(* The sequencer executes a commit, or leaves the barrier, and counts on.  *)
LEMMA CountStep ==
  ASSUME CheckpointInv, TypeOK', CommitPrimary \/ EndCheckpoint
  PROVE  Cuts'
<1>1. /\ TypeChannels /\ TypeSequencer /\ TypeStores /\ TypeChannels' /\ TypeSequencer'
      /\ StampsRise /\ StampsBelow /\ ExecutedBelow /\ CutInv /\ tablet = log
  BY DEF CheckpointInv, Cuts, OrderInv, TypeOK, StoresSame
<1>2. /\ UNCHANGED <<toPeer, order, checkpoint>>
      /\ glbl_seq_num' = glbl_seq_num + 1
      /\ spc # "checkpoint" /\ spc' # "checkpoint"
      /\ tablet' = log'
      /\ \A p \in Peers : log'[p] = log[p]
  <2>1. CASE CommitPrimary
    BY <1>1, <2>1 DEF CommitPrimary, cpVars, netVars, storeVars, process_command, Peers, TypeStores
  <2>2. CASE EndCheckpoint
    BY <1>1, <2>2 DEF EndCheckpoint, cpVars, netVars, storeVars
  <2>q. QED
    BY <2>1, <2>2
<1>3. glbl_seq_num < glbl_seq_num' /\ glbl_seq_num <= glbl_seq_num'
  BY <1>1, <1>2 DEF TypeSequencer
<1> DEFINE d == [q \in Peers |-> 0]
<1>4. NothingStampedSent(d) /\ d \in [Peers -> {0, 1}]
  BY <1>1, <1>2 DEF NothingStampedSent, TypeChannels
<1> HIDE DEF d
<1>5. StampsRise' /\ StampsBelow'
  BY <1>1, <1>2, <1>3, <1>4, StampsKept
<1>6. ExecutedBelow'
  <2>1. \A p \in Peers : Executed(p)' = Executed(p)
    BY <1>2 DEF Executed
  <2>q. QED
    BY <1>1, <1>2, <1>4, <2>1, BelowKept
<1>7. CutInv'
  BY <1>1, <1>2, <1>3, CutsKept DEF Ordered
<1>q. QED
  BY <1>2, <1>5, <1>6, <1>7 DEF Cuts, StoresSame

(* The checkpoint of the primary contains all that is numbered so far.     *)
LEMMA TakePrimaryStep ==
  ASSUME CheckpointInv, TypeOK', CheckpointPrimary
  PROVE  Cuts'
<1>1. /\ TypeChannels /\ TypeSequencer /\ TypeStores /\ TypeChannels' /\ TypeSequencer'
      /\ StampsRise /\ StampsBelow /\ ExecutedBelow /\ CutInv /\ tablet = log
      /\ NumberedBelow /\ PrimaryCovered /\ ExecutedWrites /\ Primary \in Servers
  BY DEF CheckpointInv, Cuts, OrderInv, TypeOK, StoresSame
<1>2. /\ spc = "checkpoint" /\ spc' = "wait"
      /\ take_checkpoint(Primary)
      /\ UNCHANGED <<toPeer, order, glbl_seq_num, log, tablet>>
  BY DEF CheckpointPrimary, netVars, storeVars
<1>3. glbl_seq_num <= glbl_seq_num' /\ glbl_seq_num \in Nat
  BY <1>1, <1>2 DEF TypeSequencer
<1> DEFINE d == [q \in Peers |-> 0]
<1>4. NothingStampedSent(d) /\ d \in [Peers -> {0, 1}]
  BY <1>1, <1>2 DEF NothingStampedSent, TypeChannels
<1> HIDE DEF d
<1>5. StampsRise' /\ StampsBelow'
  BY <1>1, <1>2, <1>3, <1>4, StampsKept
<1>6. ExecutedBelow'
  BY <1>1, <1>2, <1>4, BelowKept DEF Executed
<1>7. CutInv'
  <2>1. PICK cut \in [0 .. Ordered -> 0 .. glbl_seq_num] :
          CutsRise(cut) /\ CutContents(cut) /\ CutMessages(cut)
    BY <1>1 DEF CutInv
  <2> DEFINE v == checkpoint[Primary].version
  <2>2. /\ checkpoint'[Primary] = [version |-> v + 1, tablet |-> tablet[Primary]]
        /\ \A s \in Servers \ {Primary} : checkpoint'[s] = checkpoint[s]
    BY <1>1, <1>2 DEF take_checkpoint, TypeStores
  <2>3. v \in Nat /\ Ordered = v + 1 /\ Ordered' = Ordered
    BY <1>1, <1>2, <2>2 DEF Ordered, TypeStores
  <2>4. CutsRise(cut)'
    BY <1>2, <2>1, <2>3 DEF CutsRise
  <2>5. cut[Ordered] = glbl_seq_num
    BY <1>2, <2>1 DEF CutsRise
  <2>6. Contents(Primary)' = Executed(Primary)
    BY <1>1, <2>2 DEF Contents, Executed
  <2>7. \A s \in Servers \ {Primary} : Contents(s)' = Contents(s)
    BY <2>2 DEF Contents
  <2>8. checkpoint'[Primary].version = Ordered
    BY <2>2, <2>3
  <2> HIDE DEF v
  <2>9. ASSUME NEW w \in Writes, Requestor[w] # Primary
        PROVE  w \in Contents(Primary)' <=> order[w] \in 0 .. cut[Ordered] - 1
    <3>1. order[w] \in Nat \union {-1}
      BY <1>1 DEF TypeSequencer
    <3>2. w \in Executed(Primary) => order[w] >= 0
      BY <1>1, <2>9 DEF ExecutedWrites
    <3>3. order[w] >= 0 => w \in Executed(Primary)
      BY <1>1, <1>2, <2>9 DEF PrimaryCovered
    <3>4. order[w] < glbl_seq_num
      BY <1>1, <1>2 DEF NumberedBelow
    <3>q. QED
      BY <1>3, <2>5, <2>6, <3>1, <3>2, <3>3, <3>4
  <2>10. CutContents(cut)'
    <3>1. Ordered \in 0 .. Ordered
      BY <2>3
    <3>2. ASSUME NEW s \in Servers
          PROVE  /\ checkpoint'[s].version \in 0 .. Ordered'
                 /\ \A w \in Writes :
                      Requestor[w] # s =>
                        (w \in Contents(s)' <=> order'[w] \in 0 .. cut[checkpoint'[s].version] - 1)
      <4>1. CASE s = Primary
        BY <1>2, <2>3, <2>8, <2>9, <3>1, <4>1
      <4>2. CASE s # Primary
        BY <1>2, <2>1, <2>2, <2>3, <2>7, <4>2 DEF CutContents
      <4>q. QED
        BY <4>1, <4>2
    <3>q. QED
      BY <3>2 DEF CutContents, Requestor
  <2>11. CutMessages(cut)'
    <3>1. \A p \in Peers : checkpoint'[p] = checkpoint[p]
      BY <2>2 DEF Peers
    <3>2. ASSUME NEW p \in Peers
          PROVE  /\ \A i \in DOMAIN toPeer'[p] :
                      toPeer'[p][i].kind = "+CHECKPOINT" =>
                        \E u \in checkpoint'[p].version + 1 .. Ordered' :
                          toPeer'[p][i].glbl_seq_num = cut[u]
                 /\ \A u \in checkpoint'[p].version + 1 .. Ordered' :
                      \E i \in DOMAIN toPeer'[p] :
                        toPeer'[p][i].kind = "+CHECKPOINT" /\ toPeer'[p][i].glbl_seq_num = cut[u]
      BY <1>2, <2>1, <2>3, <3>1 DEF CutMessages
    <3>q. QED
      BY <3>2 DEF CutMessages
  <2>q. QED
    BY <1>2, <2>1, <2>3, <2>4, <2>10, <2>11 DEF CutInv
<1>q. QED
  BY <1>1, <1>2, <1>5, <1>6, <1>7 DEF Cuts, StoresSame

(* The client threads keep the cuts.                                       *)
LEMMA ClientKeepsCuts ==
  ASSUME CheckpointInv, TypeOK', NEW c \in Clients, ClientStep(c)
  PROVE  Cuts'
<1>1. TypeOK /\ Cuts
  BY DEF CheckpointInv, OrderInv
<1>2. CASE RequestRemote(c) \/ RequestLocal(c) \/ Block(c) \/ Wake(c)
  <2>1. UNCHANGED <<toPeer, order, checkpoint, spc, glbl_seq_num, log, tablet>>
    BY <1>2 DEF RequestRemote, RequestLocal, Block, Wake, queueVars, cpVars, netVars, storeVars
  <2>q. QED
    BY <1>1, <2>1, QuietStep
<1>3. CASE Proceed(c)
  BY <1>3, ProceedStep
<1>q. QED
  BY <1>2, <1>3 DEF ClientStep

(* The listeners of the primary keep the cuts.                             *)
LEMMA PrimaryKeepsCuts ==
  ASSUME CheckpointInv, TypeOK', NEW p \in Peers, PrimaryListenerStep(p)
  PROVE  Cuts'
<1>1. TypeOK /\ Cuts /\ TypeChannels
  BY DEF CheckpointInv, OrderInv, TypeOK
<1>2. UNCHANGED <<order, checkpoint, spc, glbl_seq_num, log, tablet>>
  BY DEF PrimaryListenerStep, RecvRequest, RecvAck, AckLoad, AckStore, AckAct, RecvCpAck,
         CpAckLoad, CpAckStore, CpAckTest, CpAckClear, queueVars, cpVars, storeVars
<1>3. CASE UNCHANGED toPeer
  BY <1>1, <1>2, <1>3, QuietStep
<1>4. CASE (RecvAck(p) \/ AckAct(p)) /\ toPeer' # toPeer
  <2>1. Head(toPrimary[p]) \in AnswerMsg("+ACK") /\ ReleaseRequestor(Head(toPrimary[p]))
    BY <1>1, <1>4, AckMessage DEF RecvAck, AckAct
  <2>q. QED
    BY <1>1, <1>2, <2>1, ReleaseStep
<1>q. QED
  BY <1>3, <1>4 DEF PrimaryListenerStep, RecvRequest, AckLoad, AckStore, RecvCpAck,
         CpAckLoad, CpAckStore, CpAckTest, CpAckClear, netVars

(* CheckpointInv holds initially: no message is under way and every        *)
(* checkpoint is empty.                                                    *)
LEMMA CheckpointInit == Init => CheckpointInv
<1> SUFFICES ASSUME Init PROVE CheckpointInv
  OBVIOUS
<1>1. OrderInv
  BY OrderInit
<1>2. \A p \in Peers : toPeer[p] = <<>>
  BY DEF Init
<1>3. StampsRise /\ StampsBelow /\ ExecutedBelow /\ StoresSame
  BY <1>2 DEF Init, StampsRise, StampsBelow, ExecutedBelow, StoresSame
<1>4. CutInv
  <2>1. PICK cut : cut = [v \in 0 .. 0 |-> 0]
    OBVIOUS
  <2>2. /\ Ordered = 0 /\ glbl_seq_num = 0 /\ spc = "pop"
        /\ \A s \in Servers : checkpoint[s].version = 0 /\ Contents(s) = {}
        /\ \A w \in Writes : order[w] = -1
    BY DEF Init, Ordered, Contents, Peers
  <2>3. cut \in [0 .. Ordered -> 0 .. glbl_seq_num] /\ cut[0] = 0
    BY <2>1, <2>2
  <2>4. CutsRise(cut)
    BY <2>2, <2>3 DEF CutsRise
  <2>5. CutContents(cut)
    BY <2>2, <2>3 DEF CutContents
  <2>6. CutMessages(cut)
    BY <1>2, <2>2 DEF CutMessages, Peers
  <2>q. QED
    BY <2>3, <2>4, <2>5, <2>6 DEF CutInv
<1>q. QED
  BY <1>1, <1>3, <1>4 DEF CheckpointInv, Cuts

(* Every step keeps CheckpointInv.                                         *)
LEMMA CheckpointNext == CheckpointInv /\ [Next]_vars => CheckpointInv'
<1> SUFFICES ASSUME CheckpointInv, [Next]_vars PROVE CheckpointInv'
  OBVIOUS
<1>1. OrderInv /\ Cuts /\ TypeOK
  BY DEF CheckpointInv, OrderInv
<1>2. OrderInv' /\ TypeOK'
  BY <1>1, OrderNext DEF OrderInv
<1> SUFFICES Cuts'
  BY <1>2 DEF CheckpointInv
<1>3. ASSUME NEW c \in Clients, ClientStep(c) PROVE Cuts'
  BY <1>2, <1>3, ClientKeepsCuts
<1>4. CASE SequencerStep
  <2>1. CASE Sequentialize
    BY <1>2, <2>1, SequentializeStep
  <2>2. CASE CommitPrimary \/ EndCheckpoint
    BY <1>2, <2>2, CountStep
  <2>3. CASE CheckLogLimit
    BY <1>2, <2>3, OrderCheckpointStep
  <2>4. CASE CheckpointPrimary
    BY <1>2, <2>4, TakePrimaryStep
  <2>q. QED
    BY <1>4, <2>1, <2>2, <2>3, <2>4 DEF SequencerStep
<1>5. ASSUME NEW p \in Peers, ReplicaListenerStep(p) PROVE Cuts'
  BY <1>1, <1>2, <1>5, CommitStep, OkStep, TakeStep DEF ReplicaListenerStep
<1>6. ASSUME NEW p \in Peers, PrimaryListenerStep(p) PROVE Cuts'
  BY <1>2, <1>6, PrimaryKeepsCuts
<1>7. CASE UNCHANGED vars
  <2>1. UNCHANGED <<toPeer, order, checkpoint, spc, glbl_seq_num, log, tablet>>
    BY <1>7 DEF vars, queueVars, cpVars, netVars, storeVars
  <2>q. QED
    BY <1>1, <1>2, <2>1, QuietStep
<1>q. QED
  BY <1>3, <1>4, <1>5, <1>6, <1>7 DEF Next

(* Two checkpoints with one version have one cut.                          *)
LEMMA AgreementFollows == CheckpointInv => CheckpointAgreement
<1> SUFFICES ASSUME CheckpointInv, NEW s \in Servers, NEW t \in Servers,
                    checkpoint[s].version = checkpoint[t].version
             PROVE  {w \in Contents(s) : Requestor[w] \notin {s, t}}
                      = {w \in Contents(t) : Requestor[w] \notin {s, t}}
  BY DEF CheckpointAgreement
<1>1. PICK cut : CutContents(cut)
  <2>1. CutInv
    BY DEF CheckpointInv, Cuts
  <2>q. QED
    BY <2>1 DEF CutInv
<1>2. \A r \in Servers : Contents(r) \subseteq Writes
  <2>1. \A r \in Servers : checkpoint[r].tablet \in Seq(Writes)
    BY DEF CheckpointInv, OrderInv, TypeOK, TypeStores
  <2>q. QED
    BY <2>1 DEF Contents
<1>3. ASSUME NEW w \in Writes, Requestor[w] \notin {s, t}
      PROVE  w \in Contents(s) <=> w \in Contents(t)
  BY <1>1, <1>3 DEF CutContents
<1>q. QED
  BY <1>2, <1>3

(* Checkpoints of one version agree on the writes of the other servers,    *)
(* whatever the threads do to the barrier: each is one cut of the global   *)
(* order (listen_peer's take_checkpoint and primary_sequentialize's).      *)
THEOREM CheckpointAgreementAlways == Spec => []CheckpointAgreement
<1>1. Spec => []CheckpointInv
  BY CheckpointInit, CheckpointNext, PTL DEF Spec
<1>q. QED
  BY <1>1, AgreementFollows, PTL

-----------------------------------------------------------------------------
(* Messages of a kind on a connection.                                     *)

Within(chan, K) == \E i \in DOMAIN chan : chan[i] \in K

Single(chan, K) == \A i, j \in DOMAIN chan : chan[i] \in K /\ chan[j] \in K => i = j

\* As far as the messages in K go, b is no worse than a.
Alike(a, b, K) == (Within(b, K) <=> Within(a, K)) /\ (Single(a, K) => Single(b, K))

(* What a new last message changes.                                        *)
LEMMA AfterSend ==
  ASSUME NEW S, NEW chan \in Seq(S), NEW m \in S, NEW K
  PROVE  /\ Within(Append(chan, m), K) <=> Within(chan, K) \/ m \in K
         /\ Single(chan, K) /\ ~(Within(chan, K) /\ m \in K) => Single(Append(chan, m), K)
<1> DEFINE new == Append(chan, m)
<1>1. /\ DOMAIN new = DOMAIN chan \union {Len(chan) + 1}
      /\ new[Len(chan) + 1] = m
      /\ \A i \in DOMAIN chan : new[i] = chan[i]
  OBVIOUS
<1> HIDE DEF new
<1>2. Within(new, K) <=> Within(chan, K) \/ m \in K
  BY <1>1 DEF Within
<1>3. ASSUME Single(chan, K), ~(Within(chan, K) /\ m \in K) PROVE Single(new, K)
  BY <1>1, <1>3 DEF Single, Within
<1>q. QED
  BY <1>2, <1>3 DEF new

(* What taking the first message changes.                                  *)
LEMMA AfterTake ==
  ASSUME NEW S, NEW chan \in Seq(S), chan # <<>>, NEW K
  PROVE  /\ Within(chan, K) <=> Within(Tail(chan), K) \/ Head(chan) \in K
         /\ Single(chan, K) => Single(Tail(chan), K)
         /\ Single(chan, K) /\ Head(chan) \in K => ~Within(Tail(chan), K)
<1> DEFINE new == Tail(chan)
<1>1. /\ 1 \in DOMAIN chan /\ chan[1] = Head(chan)
      /\ \A i \in DOMAIN new : i \in Nat \ {0} /\ i + 1 \in DOMAIN chan /\ new[i] = chan[i + 1]
      /\ \A i \in DOMAIN chan : i \in Nat /\ (i = 1 \/ (i - 1 \in DOMAIN new /\ new[i - 1] = chan[i]))
  OBVIOUS
<1> HIDE DEF new
<1>2. Within(chan, K) <=> Within(new, K) \/ Head(chan) \in K
  BY <1>1 DEF Within
<1>3. ASSUME Single(chan, K) PROVE Single(new, K)
  <2> SUFFICES ASSUME NEW i \in DOMAIN new, NEW j \in DOMAIN new, new[i] \in K, new[j] \in K
               PROVE  i = j
    BY DEF Single
  <2>1. i + 1 = j + 1
    BY <1>1, <1>3 DEF Single
  <2>q. QED
    BY <1>1, <2>1
<1>4. ASSUME Single(chan, K), Head(chan) \in K, NEW i \in DOMAIN new, new[i] \in K PROVE FALSE
  <2>1. i + 1 = 1
    BY <1>1, <1>4 DEF Single
  <2>q. QED
    BY <1>1, <2>1
<1>q. QED
  BY <1>2, <1>3, <1>4 DEF Within, new

(* A message that is sent and is not in K changes nothing about K.         *)
LEMMA SendElse ==
  ASSUME NEW S, NEW chan \in [Peers -> Seq(S)], NEW p \in Peers, NEW m \in S, NEW K, m \notin K,
         NEW q \in Peers
  PROVE  Alike(chan[q], [chan EXCEPT ![p] = Append(@, m)][q], K)
<1>1. CASE q = p
  <2>1. [chan EXCEPT ![p] = Append(@, m)][q] = Append(chan[p], m)
    BY <1>1
  <2>2. chan[p] \in Seq(S)
    OBVIOUS
  <2>q. QED
    BY <1>1, <2>1, <2>2, AfterSend DEF Alike
<1>2. CASE q # p
  BY <1>2 DEF Alike
<1>q. QED
  BY <1>1, <1>2

(* The same for a broadcast.                                               *)
LEMMA BroadcastElse ==
  ASSUME TypeChannels, NEW m \in ToPeerMsg, NEW K, m \notin K, Broadcast(m), NEW q \in Peers
  PROVE  Alike(toPeer[q], toPeer'[q], K)
<1>1. toPeer'[q] = Append(toPeer[q], m) /\ toPeer[q] \in Seq(ToPeerMsg)
  BY DEF Broadcast, TypeChannels
<1>q. QED
  BY <1>1, AfterSend DEF Alike

(* The same for a first message that is taken.                             *)
LEMMA TakeElse ==
  ASSUME NEW S, NEW chan \in [Peers -> Seq(S)], NEW p \in Peers, chan[p] # <<>>, NEW K,
         Head(chan[p]) \notin K, NEW q \in Peers
  PROVE  Alike(chan[q], [chan EXCEPT ![p] = Tail(@)][q], K)
<1>1. CASE q = p
  <2>1. [chan EXCEPT ![p] = Tail(@)][q] = Tail(chan[p])
    BY <1>1
  <2>2. chan[p] \in Seq(S)
    OBVIOUS
  <2>q. QED
    BY <1>1, <2>1, <2>2, AfterTake DEF Alike
<1>2. CASE q # p
  BY <1>2 DEF Alike
<1>q. QED
  BY <1>1, <1>2

-----------------------------------------------------------------------------
(* The barrier.                                                            *)

Orders == CheckpointMsg("+CHECKPOINT")
Answers == CheckpointMsg("+CP_ACK")

Asked(p) == Within(toPeer[p], Orders)
Answered(p) == Within(toPrimary[p], Answers)
Awaited == {p \in Peers : Asked(p) \/ Answered(p)}

OneCheckpointEach ==
  \A p \in Peers :
    ~(Asked(p) /\ Answered(p)) /\ Single(toPeer[p], Orders) /\ Single(toPrimary[p], Answers)

AwaitedCounted ==
  /\ is_checkpoint_block = 0 => Awaited = {}
  /\ is_checkpoint_block = 1 =>
       spc \in {"checkpoint", "wait"} /\ send_count = Cardinality(Awaited)

\* No listener is between the steps of the handler of "+CP_ACK".
CpAckWhole == \A p \in Peers : lpc[p] \notin {"cp_store", "cp_test", "cp_clear"}

\* The inductive invariant behind CheckpointBarrier.
BarrierInv == OneCheckpointEach /\ AwaitedCounted /\ CpAckWhole

\* The steps that leave the "+CHECKPOINT" and "+CP_ACK" messages alone.
NoCheckpointTraffic ==
  \A q \in Peers : Alike(toPeer[q], toPeer'[q], Orders) /\ Alike(toPrimary[q], toPrimary'[q], Answers)

(* Such a step that also leaves the counters alone keeps the barrier.      *)
LEMMA BarrierKept ==
  ASSUME OneCheckpointEach, AwaitedCounted, NoCheckpointTraffic,
         UNCHANGED <<send_count, is_checkpoint_block>>,
         spc' = spc \/ spc' \in {"checkpoint", "wait"} \/ is_checkpoint_block # 1
  PROVE  OneCheckpointEach' /\ AwaitedCounted'
<1>1. \A q \in Peers : (Asked(q)' <=> Asked(q)) /\ (Answered(q)' <=> Answered(q))
  BY DEF NoCheckpointTraffic, Alike, Asked, Answered
<1>2. Awaited' = Awaited
  BY <1>1 DEF Awaited
<1>3. OneCheckpointEach'
  BY <1>1 DEF OneCheckpointEach, NoCheckpointTraffic, Alike
<1>q. QED
  BY <1>2, <1>3 DEF AwaitedCounted

(* Unchanged connections carry no checkpoint traffic.                      *)
LEMMA AlikeSame == \A chan, K : Alike(chan, chan, K)
  BY DEF Alike

(* Neither does a step that sends or takes one message of another kind.    *)
LEMMA ToPrimarySent ==
  ASSUME TypeChannels, NEW p \in Peers, NEW m \in ToPrimaryMsg, m.kind # "+CP_ACK",
         toPrimary' = [toPrimary EXCEPT ![p] = Append(@, m)]
  PROVE  \A q \in Peers : Alike(toPrimary[q], toPrimary'[q], Answers)
<1>1. m \notin Answers
  BY DEF Answers, CheckpointMsg
<1>q. QED
  BY <1>1, SendElse DEF TypeChannels

(* The same for a message the primary has handled.                         *)
LEMMA ToPrimaryTaken ==
  ASSUME TypeChannels, NEW p \in Peers, toPrimary[p] # <<>>, Head(toPrimary[p]).kind # "+CP_ACK",
         Consume(p)
  PROVE  \A q \in Peers : Alike(toPrimary[q], toPrimary'[q], Answers)
<1>1. Head(toPrimary[p]) \notin Answers
  BY DEF Answers, CheckpointMsg
<1>q. QED
  BY <1>1, TakeElse DEF TypeChannels, Consume

(* The same for a message a replica has handled.                           *)
LEMMA ToPeerTaken ==
  ASSUME TypeChannels, NEW p \in Peers, toPeer[p] # <<>>, Head(toPeer[p]).kind # "+CHECKPOINT",
         toPeer' = [toPeer EXCEPT ![p] = Tail(@)]
  PROVE  \A q \in Peers : Alike(toPeer[q], toPeer'[q], Orders)
<1>1. Head(toPeer[p]) \notin Orders
  BY DEF Orders, CheckpointMsg
<1>q. QED
  BY <1>1, TakeElse DEF TypeChannels

(* The same for the "+OK" to the requestor.                                *)
LEMMA ReleaseSends ==
  ASSUME TypeChannels, NEW m \in AnswerMsg("+ACK"), ReleaseRequestor(m)
  PROVE  \A q \in Peers : Alike(toPeer[q], toPeer'[q], Orders)
<1>1. CASE m.requestor_id = Primary
  BY <1>1, AlikeSame DEF ReleaseRequestor
<1>2. CASE m.requestor_id # Primary
  <2>1. m.requestor_id \in Peers
    BY <1>2 DEF AnswerMsg, Peers
  <2> DEFINE ok == [m EXCEPT !.kind = "+OK"]
  <2>2. ok \in ToPeerMsg /\ ok.kind = "+OK"
    BY DEF AnswerMsg, ToPeerMsg
  <2>3. toPeer' = [toPeer EXCEPT ![m.requestor_id] = Append(@, ok)]
    BY <1>2 DEF ReleaseRequestor
  <2> HIDE DEF ok
  <2>4. ok \notin Orders
    BY <2>2 DEF Orders, CheckpointMsg
  <2>q. QED
    BY <2>1, <2>2, <2>3, <2>4, SendElse DEF TypeChannels
<1>q. QED
  BY <1>1, <1>2

(* The client threads order and answer no checkpoint.                      *)
LEMMA BarrierClient ==
  ASSUME TypeOK, BarrierInv, NEW c \in Clients, ClientStep(c)
  PROVE  BarrierInv'
<1>1. TypeChannels /\ TypeClients /\ OneCheckpointEach /\ AwaitedCounted /\ CpAckWhole
  BY DEF TypeOK, BarrierInv
<1>2. UNCHANGED <<toPeer, send_count, is_checkpoint_block, spc, lpc>>
  BY DEF ClientStep, RequestRemote, RequestLocal, Block, Wake, Proceed, queueVars, ackVars,
         cpVars, netVars
<1>3. \A q \in Peers : Alike(toPrimary[q], toPrimary'[q], Answers)
  <2>1. CASE RequestRemote(c)
    <3>1. Request(c) \in ToPrimaryMsg /\ Request(c).kind # "+CP_ACK"
      BY <1>1, <2>1, RequestType DEF RequestRemote, ToPrimaryMsg, Request
    <3>2. Home[c] \in Peers
      BY <2>1 DEF RequestRemote, Peers
    <3>3. toPrimary' = [toPrimary EXCEPT ![Home[c]] = Append(@, Request(c))]
      BY <2>1 DEF RequestRemote
    <3>q. QED
      BY <1>1, <3>1, <3>2, <3>3, ToPrimarySent
  <2>2. CASE UNCHANGED toPrimary
    BY <2>2, AlikeSame
  <2>q. QED
    BY <2>1, <2>2 DEF ClientStep, RequestLocal, Block, Wake, Proceed, netVars
<1>4. NoCheckpointTraffic
  BY <1>2, <1>3, AlikeSame DEF NoCheckpointTraffic
<1>q. QED
  BY <1>1, <1>2, <1>4, BarrierKept DEF BarrierInv, CpAckWhole

(* The sequencer sets the counter when it asks all replicas, and only      *)
(* leaves the barrier when none is awaited.                                *)
LEMMA BarrierSequencer ==
  ASSUME TypeOK, BarrierInv, SequencerStep
  PROVE  BarrierInv'
<1>1. /\ TypeChannels /\ TypeSequencer /\ is_checkpoint_block \in {0, 1}
      /\ OneCheckpointEach /\ AwaitedCounted /\ CpAckWhole
  BY DEF TypeOK, BarrierInv, TypeCounters
<1>2. UNCHANGED <<toPrimary, lpc>>
  BY DEF SequencerStep, Sequentialize, CommitPrimary, CheckLogLimit, CheckpointPrimary, EndCheckpoint,
         ackVars, netVars
<1>3. \A q \in Peers : Alike(toPrimary[q], toPrimary'[q], Answers)
  BY <1>2, AlikeSame
<1>4. CpAckWhole'
  BY <1>1, <1>2 DEF CpAckWhole
<1>5. CASE Sequentialize
  <2> DEFINE m == [Head(hold_queue) EXCEPT !.kind = "commit", !.glbl_seq_num = glbl_seq_num]
  <2>1. Head(hold_queue) \in RequestMsg
    BY <1>1, <1>5 DEF Sequentialize, TypeSequencer
  <2>2. m \in ToPeerMsg /\ m.kind = "commit"
    BY <1>1, <2>1 DEF ToPeerMsg, CommitMsg, RequestMsg, TypeSequencer
  <2>3. Broadcast(m)
    BY <1>5 DEF Sequentialize
  <2> HIDE DEF m
  <2>4. m \notin Orders
    BY <2>2 DEF Orders, CheckpointMsg
  <2>5. NoCheckpointTraffic
    BY <1>1, <1>3, <2>2, <2>3, <2>4, BroadcastElse DEF NoCheckpointTraffic
  <2>6. UNCHANGED <<send_count, is_checkpoint_block>> /\ spc = "pop"
    BY <1>5 DEF Sequentialize, cpVars
  <2>7. is_checkpoint_block # 1
    BY <1>1, <2>6 DEF AwaitedCounted
  <2>q. QED
    BY <1>1, <1>4, <2>5, <2>6, <2>7, BarrierKept DEF BarrierInv
<1>6. CASE CommitPrimary \/ CheckpointPrimary \/ EndCheckpoint
  <2>1. UNCHANGED <<toPeer, send_count, is_checkpoint_block>>
    BY <1>6 DEF CommitPrimary, CheckpointPrimary, EndCheckpoint, cpVars, netVars
  <2>2. spc' \in {"checkpoint", "wait"} \/ is_checkpoint_block # 1
    BY <1>1, <1>6 DEF CommitPrimary, CheckpointPrimary, EndCheckpoint, AwaitedCounted
  <2>3. NoCheckpointTraffic
    BY <1>3, <2>1, AlikeSame DEF NoCheckpointTraffic
  <2>q. QED
    BY <1>1, <1>4, <2>1, <2>2, <2>3, BarrierKept DEF BarrierInv
<1>7. CASE CheckLogLimit
  <2>1. spc = "check" /\ is_checkpoint_block # 1 /\ Awaited = {}
    BY <1>1, <1>7 DEF CheckLogLimit, AwaitedCounted
  <2>2. CASE spc' = "pop" /\ UNCHANGED <<send_count, is_checkpoint_block, toPeer>>
    <3>1. NoCheckpointTraffic
      BY <1>3, <2>2, AlikeSame DEF NoCheckpointTraffic
    <3>q. QED
      BY <1>1, <1>4, <2>1, <2>2, <3>1, BarrierKept DEF BarrierInv
  <2>3. CASE spc' # "pop"
    <3> DEFINE m == [kind |-> "+CHECKPOINT", requestor_id |-> None, seq_num |-> None,
                     glbl_seq_num |-> glbl_seq_num, data |-> None]
    <3>1. /\ spc' = "checkpoint" /\ send_count' = Cardinality(Peers) /\ is_checkpoint_block' = 1
          /\ Broadcast(m)
      BY <1>7, <2>3 DEF CheckLogLimit
    <3>2. m \in Orders /\ m \in ToPeerMsg
      BY <1>1 DEF Orders, CheckpointMsg, ToPeerMsg, TypeSequencer
    <3> HIDE DEF m
    <3>3. ASSUME NEW q \in Peers
          PROVE  Asked(q)' /\ ~Answered(q)' /\ Single(toPeer'[q], Orders) /\ Single(toPrimary'[q], Answers)
      <4>1. ~Asked(q) /\ ~Answered(q)
        BY <2>1 DEF Awaited
      <4>2. toPeer'[q] = Append(toPeer[q], m) /\ toPeer[q] \in Seq(ToPeerMsg)
        BY <1>1, <3>1 DEF Broadcast, TypeChannels
      <4>3. Within(toPeer'[q], Orders) /\ Single(toPeer'[q], Orders)
        BY <1>1, <3>2, <4>1, <4>2, AfterSend DEF OneCheckpointEach, Asked
      <4>q. QED
        BY <1>1, <1>2, <4>1, <4>3 DEF OneCheckpointEach, Asked, Answered
    <3>4. Awaited' = Peers
      BY <3>3 DEF Awaited
    <3>q. QED
      BY <1>4, <3>1, <3>3, <3>4 DEF BarrierInv, OneCheckpointEach, AwaitedCounted
  <2>q. QED
    BY <1>7, <2>2, <2>3 DEF CheckLogLimit
<1>q. QED
  BY <1>5, <1>6, <1>7 DEF SequencerStep

(* A replica that takes a checkpoint is awaited for its answer instead.    *)
LEMMA BarrierReplica ==
  ASSUME TypeOK, BarrierInv, NEW p \in Peers, ReplicaListenerStep(p)
  PROVE  BarrierInv'
<1>1. TypeChannels /\ OneCheckpointEach /\ AwaitedCounted /\ CpAckWhole
  BY DEF TypeOK, BarrierInv
<1>2. /\ UNCHANGED <<send_count, is_checkpoint_block, spc, lpc>>
      /\ toPeer[p] # <<>> /\ toPeer' = [toPeer EXCEPT ![p] = Tail(@)]
      /\ toPeer[p] \in Seq(ToPeerMsg) /\ toPrimary[p] \in Seq(ToPrimaryMsg)
  BY <1>1 DEF ReplicaListenerStep, RecvCommit, RecvOK, RecvCheckpoint, Incoming, queueVars,
              ackVars, cpVars, TypeChannels
<1>3. CpAckWhole'
  BY <1>1, <1>2 DEF CpAckWhole
<1>4. CASE RecvOK(p) \/ RecvCommit(p)
  <2>1. Head(toPeer[p]).kind # "+CHECKPOINT"
    BY <1>4 DEF RecvOK, RecvCommit, Incoming
  <2>2. \A q \in Peers : Alike(toPeer[q], toPeer'[q], Orders)
    BY <1>1, <1>2, <2>1, ToPeerTaken
  <2>3. \A q \in Peers : Alike(toPrimary[q], toPrimary'[q], Answers)
    <3>1. CASE RecvOK(p)
      BY <3>1, AlikeSame DEF RecvOK
    <3>2. CASE RecvCommit(p)
      <4> DEFINE a == [Head(toPeer[p]) EXCEPT !.kind = "+ACK", !.data = None]
      <4>1. Head(toPeer[p]) \in CommitMsg
        BY <1>1, <3>2, CommitMessage DEF RecvCommit
      <4>2. a \in ToPrimaryMsg /\ a.kind = "+ACK"
        BY <4>1 DEF CommitMsg, ToPrimaryMsg, AnswerMsg
      <4>3. toPrimary' = [toPrimary EXCEPT ![p] = Append(@, a)]
        BY <3>2 DEF RecvCommit, Reply
      <4> HIDE DEF a
      <4>q. QED
        BY <1>1, <4>2, <4>3, ToPrimarySent
    <3>q. QED
      BY <1>4, <3>1, <3>2
  <2>q. QED
    BY <1>1, <1>2, <1>3, <2>2, <2>3, BarrierKept DEF BarrierInv, NoCheckpointTraffic
<1>5. CASE RecvCheckpoint(p)
  <2> DEFINE m == Head(toPeer[p])
             a == [m EXCEPT !.kind = "+CP_ACK", !.data = None]
  <2>1. m \in Orders
    <3>1. m \in ToPeerMsg /\ m.kind = "+CHECKPOINT"
      BY <1>1, <1>5 DEF RecvCheckpoint, Incoming, TypeChannels
    <3>q. QED
      BY <3>1 DEF Orders, ToPeerMsg, CommitMsg, AnswerMsg, CheckpointMsg
  <2>2. a \in Answers /\ a \in ToPrimaryMsg
    BY <2>1 DEF Orders, Answers, CheckpointMsg, ToPrimaryMsg
  <2>3. toPrimary' = [toPrimary EXCEPT ![p] = Append(@, a)]
    BY <1>5 DEF RecvCheckpoint, Reply
  <2>4. toPrimary'[p] = Append(toPrimary[p], a) /\ toPeer'[p] = Tail(toPeer[p])
    BY <1>1, <1>2, <2>3 DEF TypeChannels
  <2> HIDE DEF a
  <2>5. Asked(p) /\ ~Asked(p)' /\ Single(toPeer'[p], Orders)
    BY <1>1, <1>2, <2>1, <2>4, AfterTake DEF Asked, OneCheckpointEach
  <2> HIDE DEF m
  <2>6. ~Answered(p) /\ Answered(p)' /\ Single(toPrimary'[p], Answers)
    BY <1>1, <1>2, <2>2, <2>4, <2>5, AfterSend DEF Answered, OneCheckpointEach
  <2>7. \A q \in Peers \ {p} : toPeer'[q] = toPeer[q] /\ toPrimary'[q] = toPrimary[q]
    BY <1>1, <1>2, <2>3 DEF TypeChannels
  <2>8. OneCheckpointEach'
    <3>1. ASSUME NEW q \in Peers \ {p}
          PROVE  ~(Asked(q)' /\ Answered(q)') /\ Single(toPeer'[q], Orders) /\ Single(toPrimary'[q], Answers)
      BY <1>1, <2>7 DEF OneCheckpointEach, Asked, Answered
    <3>q. QED
      BY <2>5, <2>6, <3>1 DEF OneCheckpointEach
  <2>9. Awaited' = Awaited
    <3>1. ASSUME NEW q \in Peers
          PROVE  (Asked(q)' \/ Answered(q)') <=> (Asked(q) \/ Answered(q))
      <4>1. CASE q = p
        BY <2>5, <2>6, <4>1
      <4>2. CASE q # p
        BY <2>7, <4>2 DEF Asked, Answered
      <4>q. QED
        BY <4>1, <4>2
    <3>q. QED
      BY <3>1 DEF Awaited
  <2>q. QED
    BY <1>1, <1>2, <1>3, <2>8, <2>9 DEF BarrierInv, AwaitedCounted
<1>q. QED
  BY <1>4, <1>5 DEF ReplicaListenerStep

(* The primary counts an answer down when it handles it, and the last one  *)
(* clears the flag.                                                        *)
LEMMA BarrierPrimary ==
  ASSUME TypeOK, BarrierInv, "cp_ack" \notin Races, NEW p \in Peers, PrimaryListenerStep(p)
  PROVE  BarrierInv'
<1>1. /\ TypeChannels /\ OneCheckpointEach /\ AwaitedCounted /\ CpAckWhole
      /\ is_checkpoint_block \in {0, 1} /\ lpc \in [Peers -> {"recv", "ack_store", "ack_act",
                                                       "cp_store", "cp_test", "cp_clear"}]
  BY DEF TypeOK, BarrierInv, TypeCounters
<1>2. CASE RecvCpAck(p)
  <2>1. /\ toPrimary[p] # <<>> /\ toPrimary[p] \in Seq(ToPrimaryMsg)
        /\ toPrimary' = [toPrimary EXCEPT ![p] = Tail(@)]
        /\ send_count' = send_count - 1
        /\ is_checkpoint_block' = IF send_count' = 0 THEN 0 ELSE is_checkpoint_block
        /\ UNCHANGED <<spc, lpc, toPeer>>
    BY <1>1, <1>2 DEF RecvCpAck, Incoming, Consume, TypeChannels, queueVars, ackVars
  <2>2. Head(toPrimary[p]) \in Answers
    <3>1. Head(toPrimary[p]) \in ToPrimaryMsg /\ Head(toPrimary[p]).kind = "+CP_ACK"
      BY <1>1, <1>2 DEF RecvCpAck, Incoming, TypeChannels
    <3>q. QED
      BY <3>1 DEF Answers, ToPrimaryMsg, RequestMsg, AnswerMsg, CheckpointMsg
  <2>3. toPrimary'[p] = Tail(toPrimary[p]) /\ \A q \in Peers \ {p} : toPrimary'[q] = toPrimary[q]
    BY <1>1, <2>1 DEF TypeChannels
  <2>4. Answered(p) /\ ~Answered(p)' /\ Single(toPrimary'[p], Answers)
    BY <1>1, <2>1, <2>2, <2>3, AfterTake DEF Answered, OneCheckpointEach
  <2>5. ~Asked(p)' /\ \A q \in Peers : Asked(q)' = Asked(q)
    BY <1>1, <2>1, <2>4 DEF OneCheckpointEach, Asked
  <2>6. \A q \in Peers \ {p} : Answered(q)' = Answered(q)
    BY <2>3 DEF Answered
  <2>7. p \in Awaited /\ Awaited' = Awaited \ {p}
    BY <2>4, <2>5, <2>6 DEF Awaited
  <2>8. is_checkpoint_block = 1 /\ spc \in {"checkpoint", "wait"} /\ send_count = Cardinality(Awaited)
    BY <1>1, <2>7 DEF AwaitedCounted
  <2>9. IsFiniteSet(Awaited) /\ IsFiniteSet(Awaited') /\ Cardinality(Awaited') = send_count'
    <3>1. IsFiniteSet(Awaited)
      BY FS_Subset DEF Awaited, Peers
    <3>2. Cardinality(Awaited) \in Nat
      BY <3>1, FS_CardinalityType
    <3>q. QED
      BY <2>1, <2>7, <2>8, <3>1, <3>2, FS_RemoveElement
  <2>10. send_count' = 0 => Awaited' = {}
    BY <2>9, FS_EmptySet
  <2>11. AwaitedCounted'
    BY <2>1, <2>8, <2>9, <2>10 DEF AwaitedCounted
  <2>12. OneCheckpointEach'
    <3>1. ASSUME NEW q \in Peers \ {p}
          PROVE  ~(Asked(q)' /\ Answered(q)') /\ Single(toPeer'[q], Orders) /\ Single(toPrimary'[q], Answers)
      BY <1>1, <2>1, <2>3, <2>5, <2>6 DEF OneCheckpointEach
    <3>q. QED
      BY <1>1, <2>1, <2>4, <3>1 DEF OneCheckpointEach
  <2>q. QED
    BY <1>1, <2>1, <2>11, <2>12 DEF BarrierInv, CpAckWhole
<1>3. CASE RecvRequest(p) \/ RecvAck(p) \/ AckLoad(p) \/ AckStore(p) \/ AckAct(p)
  <2>1. UNCHANGED <<send_count, is_checkpoint_block, spc>>
    BY <1>3 DEF RecvRequest, RecvAck, AckLoad, AckStore, AckAct, queueVars, cpVars
  <2>2. CpAckWhole'
    BY <1>1, <1>3 DEF RecvRequest, RecvAck, AckLoad, AckStore, AckAct, ackVars, CpAckWhole
  <2>3. \A q \in Peers : Alike(toPrimary[q], toPrimary'[q], Answers)
    <3>1. CASE UNCHANGED toPrimary
      BY <3>1, AlikeSame
    <3>2. CASE Consume(p)
      <4>1. toPrimary[p] # <<>> /\ Head(toPrimary[p]).kind # "+CP_ACK"
        BY <1>3 DEF RecvRequest, RecvAck, AckLoad, AckStore, AckAct, Incoming
      <4>q. QED
        BY <1>1, <3>2, <4>1, ToPrimaryTaken
    <3>q. QED
      BY <1>3, <3>1, <3>2 DEF RecvRequest, RecvAck, AckLoad, AckStore, AckAct, netVars
  <2>4. \A q \in Peers : Alike(toPeer[q], toPeer'[q], Orders)
    <3>1. CASE UNCHANGED toPeer
      BY <3>1, AlikeSame
    <3>2. CASE (RecvAck(p) \/ AckAct(p)) /\ toPeer' # toPeer
      <4>1. Head(toPrimary[p]) \in AnswerMsg("+ACK") /\ ReleaseRequestor(Head(toPrimary[p]))
        BY <1>1, <3>2, AckMessage DEF RecvAck, AckAct
      <4>q. QED
        BY <1>1, <4>1, ReleaseSends
    <3>q. QED
      BY <1>3, <3>1, <3>2 DEF RecvRequest, AckLoad, AckStore, netVars
  <2>q. QED
    BY <1>1, <2>1, <2>2, <2>3, <2>4, BarrierKept DEF BarrierInv, NoCheckpointTraffic
<1>4. ~(CpAckLoad(p) \/ CpAckStore(p) \/ CpAckTest(p) \/ CpAckClear(p))
  BY <1>1 DEF CpAckLoad, CpAckStore, CpAckTest, CpAckClear, CpAckWhole
<1>q. QED
  BY <1>2, <1>3, <1>4 DEF PrimaryListenerStep

(* While the sequencer takes requests nobody is awaited, so every ordered  *)
(* checkpoint has been taken.                                              *)
LEMMA BarrierFollows == CheckpointInv /\ BarrierInv => CheckpointBarrier
<1> SUFFICES ASSUME CheckpointInv, BarrierInv, spc = "pop", NEW s \in Servers
             PROVE  checkpoint[s].version = checkpoint[Primary].version
  BY DEF CheckpointBarrier
<1>1. /\ TypeChannels /\ TypeStores /\ is_checkpoint_block \in {0, 1} /\ CutInv
  BY DEF CheckpointInv, Cuts, OrderInv, TypeOK, TypeCounters
<1>2. Awaited = {}
  BY <1>1 DEF BarrierInv, AwaitedCounted
<1>3. CASE s \in Peers
  <2>1. PICK cut : CutContents(cut) /\ CutMessages(cut)
    BY <1>1 DEF CutInv
  <2>2. Ordered = checkpoint[Primary].version /\ Ordered \in Nat
    BY <1>1 DEF Ordered, TypeStores
  <2>3. checkpoint[s].version \in 0 .. Ordered
    BY <2>1 DEF CutContents
  <2>4. ASSUME checkpoint[s].version # Ordered PROVE FALSE
    <3>1. Ordered \in checkpoint[s].version + 1 .. Ordered
      BY <2>2, <2>3, <2>4
    <3>2. PICK i \in DOMAIN toPeer[s] : toPeer[s][i].kind = "+CHECKPOINT"
      BY <1>3, <2>1, <3>1 DEF CutMessages
    <3>3. toPeer[s][i] \in Orders
      <4>1. toPeer[s][i] \in ToPeerMsg
        BY <1>1, <1>3, StampType
      <4>q. QED
        BY <3>2, <4>1 DEF Orders, ToPeerMsg, CommitMsg, AnswerMsg, CheckpointMsg
    <3>q. QED
      BY <1>2, <1>3, <3>3 DEF Awaited, Asked, Within
  <2>q. QED
    BY <2>2, <2>4
<1>4. CASE s = Primary
  BY <1>4
<1>q. QED
  BY <1>3, <1>4 DEF Peers

(* The barrier: unless two listeners interleave in the handler of          *)
(* "+CP_ACK", every server has taken every ordered checkpoint whenever the *)
(* sequencer takes new requests (while(is_checkpoint_block == 1) of        *)
(* primary_sequentialize).                                                 *)
THEOREM CheckpointBarrierAlways ==
  ASSUME "cp_ack" \notin Races
  PROVE  Spec => []CheckpointBarrier
<1>1. Init => BarrierInv
  BY DEF Init, BarrierInv, OneCheckpointEach, AwaitedCounted, CpAckWhole, Awaited, Asked, Answered,
         Within, Single
<1>2. TypeOK /\ BarrierInv /\ [Next]_vars => BarrierInv'
  <2> SUFFICES ASSUME TypeOK, BarrierInv, [Next]_vars PROVE BarrierInv'
    OBVIOUS
  <2>1. CASE UNCHANGED vars
    <3>1. NoCheckpointTraffic
      BY <2>1, AlikeSame DEF vars, netVars, NoCheckpointTraffic
    <3>q. QED
      BY <2>1, <3>1, BarrierKept DEF vars, queueVars, ackVars, cpVars, BarrierInv, CpAckWhole
  <2>2. CASE SequencerStep
    BY <2>2, BarrierSequencer
  <2>3. ASSUME NEW c \in Clients, ClientStep(c) PROVE BarrierInv'
    BY <2>3, BarrierClient
  <2>4. ASSUME NEW p \in Peers, ReplicaListenerStep(p) PROVE BarrierInv'
    BY <2>4, BarrierReplica
  <2>5. ASSUME NEW p \in Peers, PrimaryListenerStep(p) PROVE BarrierInv'
    BY <2>5, BarrierPrimary
  <2>q. QED
    BY <2>1, <2>2, <2>3, <2>4, <2>5 DEF Next
<1>3. Spec => []CheckpointInv
  BY CheckpointInit, CheckpointNext, PTL DEF Spec
<1>q. QED
  BY <1>1, <1>2, <1>3, TypeCorrect, BarrierFollows, PTL DEF Spec

-----------------------------------------------------------------------------
(* The acknowledgements.                                                   *)

\* At most one connection is open to a server, so that the number within
\* the sending system is a number within the connection.
OneConnection == \A c, d \in Clients : Home[c] = Home[d] => c = d

\* The numbers by which messages name a write.
Key(w) == <<Requestor[w], w[2] - 1>>
KeyOf(m) == <<m.requestor_id, m.seq_num>>

CommitsOf(w) == {m \in ToPeerMsg : m.kind = "commit" /\ KeyOf(m) = Key(w)}
AcksOf(w) == {m \in ToPrimaryMsg : m.kind = "+ACK" /\ KeyOf(m) = Key(w)}
Oks == {m \in ToPeerMsg : m.kind = "+OK"}

Sending(p, w) == Within(toPeer[p], CommitsOf(w))
Acked(p, w) == Within(toPrimary[p], AcksOf(w))
Told(p) == Within(toPeer[p], Oks)

\* The replicas that still owe the primary an acknowledgement of w.
Owing(w) == {p \in Peers : Sending(p, w) \/ Acked(p, w)}

\* No replica owes one any more.
Done(w) == order[w] >= 0 /\ Key(w) \notin DOMAIN acktrack

MisnumberedCommits ==
  {m \in ToPeerMsg : m.kind = "commit" /\ m.seq_num # m.data[2] - 1}

MisnumberedRequests ==
  {m \in ToPrimaryMsg : m.kind = "request" /\ m.seq_num # m.data[2] - 1}

StrayAcks ==
  {m \in ToPrimaryMsg :
     m.kind = "+ACK" /\ \A w \in Writes : order[w] >= 0 => KeyOf(m) # Key(w)}

Numbering ==
  /\ \A c \in Clients :
       issued[c] = node_seq_num[Home[c]] + (IF pc[c] = "idle" THEN 0 ELSE 1)
  /\ \A i \in DOMAIN hold_queue : hold_queue[i].seq_num = hold_queue[i].data[2] - 1
  /\ \A p \in Peers : ~Within(toPrimary[p], MisnumberedRequests)
  /\ \A p \in Peers : ~Within(toPeer[p], MisnumberedCommits)

KeysNumbered ==
  /\ \A key \in DOMAIN acktrack : \E w \in Writes : order[w] >= 0 /\ key = Key(w)
  /\ \A p \in Peers : ~Within(toPrimary[p], StrayAcks)

OneAckEach ==
  \A p \in Peers : \A w \in Writes :
    /\ ~(Sending(p, w) /\ Acked(p, w))
    /\ Single(toPeer[p], CommitsOf(w)) /\ Single(toPrimary[p], AcksOf(w))

Counted ==
  \A w \in Writes :
    /\ Key(w) \in DOMAIN acktrack => acktrack[Key(w)] = Cardinality(Owing(w))
    /\ Key(w) \notin DOMAIN acktrack => Owing(w) = {}

\* The thread of c is not held back by block_flag.
Free(c) ==
  pc[c] \in {"idle", "released"} \/ (pc[c] = "waiting" /\ block_flag[Home[c]] = 0)

\* What the thread of a replica's connection may rely on.
ReleasedDone ==
  \A c \in Clients : Home[c] # Primary =>
    /\ \A k \in 1 .. issued[c] - 1 : Done(<<c, k>>)
    /\ Free(c) => ~Told(Home[c]) /\ (issued[c] > 0 => Done(<<c, issued[c]>>))
    /\ issued[c] > 0 /\ ~Done(<<c, issued[c]>>) => ~Told(Home[c])

OneOkEach == \A p \in Peers : Single(toPeer[p], Oks)

\* No listener is between the steps of the handler of "+ACK".
AckWhole == \A p \in Peers : lpc[p] \notin {"ack_store", "ack_act"}

Accounts == KeysNumbered /\ OneAckEach /\ Counted

Releases == ReleasedDone /\ OneOkEach

\* The inductive invariant behind AckAccounting and ReleasedMeansReplicated,
\* on top of OrderInv.
AckInv == Numbering /\ Accounts /\ Releases /\ AckWhole

(* Two writes do not share a key.                                          *)
LEMMA KeyDistinct ==
  ASSUME OneConnection, NEW v \in Writes, NEW w \in Writes, Key(v) = Key(w)
  PROVE  v = w
<1>1. /\ v = <<v[1], v[2]>> /\ v[1] \in Clients /\ v[2] \in Nat
      /\ w = <<w[1], w[2]>> /\ w[1] \in Clients /\ w[2] \in Nat
  BY DEF Writes
<1>2. Requestor[v] = Home[v[1]] /\ Requestor[w] = Home[w[1]]
  BY DEF Requestor
<1>3. Home[v[1]] = Home[w[1]] /\ v[2] - 1 = w[2] - 1
  BY <1>2 DEF Key
<1>4. v[1] = w[1]
  BY <1>1, <1>3 DEF OneConnection
<1>5. v[2] = w[2]
  BY <1>1, <1>3
<1>q. QED
  BY <1>1, <1>4, <1>5

(* A queued write, not numbered yet, has no message and no counter.        *)
LEMMA NotCountedYet ==
  ASSUME OneConnection, OrderInv, Numbering, KeysNumbered, NEW w \in Writes, order[w] = -1
  PROVE  /\ Key(w) \notin DOMAIN acktrack
         /\ \A p \in Peers : ~Sending(p, w) /\ ~Acked(p, w)
<1>1. Key(w) \notin DOMAIN acktrack
  BY KeyDistinct DEF KeysNumbered
<1>2. ASSUME NEW p \in Peers, Sending(p, w) PROVE FALSE
  <2>1. PICK i \in DOMAIN toPeer[p] : toPeer[p][i] \in CommitsOf(w)
    BY <1>2 DEF Sending, Within
  <2> DEFINE m == toPeer[p][i]
  <2>2. m \in ToPeerMsg /\ m.kind = "commit" /\ KeyOf(m) = Key(w)
    BY <2>1 DEF CommitsOf
  <2>3. m.data \in Writes
    BY <2>2 DEF ToPeerMsg, CommitMsg, AnswerMsg, CheckpointMsg
  <2>4. m.requestor_id = Requestor[m.data] /\ order[m.data] >= 0
    BY <2>2 DEF OrderInv, CommitsInFlight
  <2>5. m.seq_num = m.data[2] - 1
    BY <2>2 DEF Numbering, Within, MisnumberedCommits
  <2> HIDE DEF m
  <2>6. Key(m.data) = Key(w)
    BY <2>2, <2>4, <2>5 DEF Key, KeyOf
  <2>q. QED
    BY <2>3, <2>4, <2>6, KeyDistinct
<1>3. ASSUME NEW p \in Peers, Acked(p, w) PROVE FALSE
  <2>1. PICK i \in DOMAIN toPrimary[p] : toPrimary[p][i] \in AcksOf(w)
    BY <1>3 DEF Acked, Within
  <2>2. PICK v \in Writes : order[v] >= 0 /\ KeyOf(toPrimary[p][i]) = Key(v)
    BY <2>1 DEF KeysNumbered, Within, StrayAcks, AcksOf
  <2>q. QED
    BY <2>1, <2>2, KeyDistinct DEF AcksOf
<1>q. QED
  BY <1>1, <1>2, <1>3

(* The messages of one kind are as before.                                 *)
Keeps(a, b, kind) == \A K : (\A m \in K : m.kind = kind) => Alike(a, b, K)

(* They are when a message of another kind is sent.                        *)
LEMMA SendOther ==
  ASSUME NEW S, NEW chan \in [Peers -> Seq(S)], NEW p \in Peers, NEW m \in S, NEW kind,
         m.kind # kind, NEW q \in Peers
  PROVE  Keeps(chan[q], [chan EXCEPT ![p] = Append(@, m)][q], kind)
<1> SUFFICES ASSUME NEW K, \A x \in K : x.kind = kind
             PROVE  Alike(chan[q], [chan EXCEPT ![p] = Append(@, m)][q], K)
  BY DEF Keeps
<1>1. m \notin K
  OBVIOUS
<1>q. QED
  BY <1>1, SendElse

(* The same for a broadcast.                                               *)
LEMMA BroadcastOther ==
  ASSUME TypeChannels, NEW m \in ToPeerMsg, NEW kind, m.kind # kind, Broadcast(m), NEW q \in Peers
  PROVE  Keeps(toPeer[q], toPeer'[q], kind)
<1> SUFFICES ASSUME NEW K, \A x \in K : x.kind = kind
             PROVE  Alike(toPeer[q], toPeer'[q], K)
  BY DEF Keeps
<1>1. m \notin K
  OBVIOUS
<1>q. QED
  BY <1>1, BroadcastElse

(* The same when a message of another kind is taken.                       *)
LEMMA TakeOther ==
  ASSUME NEW S, NEW chan \in [Peers -> Seq(S)], NEW p \in Peers, chan[p] # <<>>, NEW kind,
         Head(chan[p]).kind # kind, NEW q \in Peers
  PROVE  Keeps(chan[q], [chan EXCEPT ![p] = Tail(@)][q], kind)
<1> SUFFICES ASSUME NEW K, \A x \in K : x.kind = kind
             PROVE  Alike(chan[q], [chan EXCEPT ![p] = Tail(@)][q], K)
  BY DEF Keeps
<1>1. Head(chan[p]) \notin K
  OBVIOUS
<1>q. QED
  BY <1>1, TakeElse

(* The same when nothing is sent or taken.                                 *)
LEMMA SameKept == \A chan, kind : Keeps(chan, chan, kind)
  BY AlikeSame DEF Keeps

(* A step that leaves the commits and the acknowledgements alone keeps the *)
(* accounts.                                                               *)
LEMMA AccountsKept ==
  ASSUME Accounts, UNCHANGED <<acktrack, order>>,
         \A q \in Peers : Keeps(toPeer[q], toPeer'[q], "commit"),
         \A q \in Peers : Keeps(toPrimary[q], toPrimary'[q], "+ACK")
  PROVE  Accounts'
<1>1. ASSUME NEW q \in Peers, NEW w \in Writes
      PROVE  Alike(toPeer[q], toPeer'[q], CommitsOf(w)) /\ Alike(toPrimary[q], toPrimary'[q], AcksOf(w))
  BY DEF Keeps, CommitsOf, AcksOf
<1>2. \A q \in Peers : Alike(toPrimary[q], toPrimary'[q], StrayAcks) /\ StrayAcks' = StrayAcks
  BY DEF Keeps, StrayAcks
<1>3. \A q \in Peers, w \in Writes : (Sending(q, w)' <=> Sending(q, w)) /\ (Acked(q, w)' <=> Acked(q, w))
  BY <1>1 DEF Alike, Sending, Acked
<1>4. \A w \in Writes : Owing(w)' = Owing(w)
  BY <1>3 DEF Owing
<1>5. KeysNumbered'
  BY <1>2 DEF Accounts, KeysNumbered, Alike
<1>6. OneAckEach'
  BY <1>1, <1>3 DEF Accounts, OneAckEach, Alike
<1>7. Counted'
  BY <1>4 DEF Accounts, Counted
<1>q. QED
  BY <1>5, <1>6, <1>7 DEF Accounts

(* A step that releases nobody and undoes no acknowledgement keeps what    *)
(* the threads rely on.                                                    *)
LEMMA ReleasesKept ==
  ASSUME Releases, UNCHANGED <<pc, issued>>,
         \A c \in Clients : Home[c] # Primary => block_flag'[Home[c]] = block_flag[Home[c]],
         \A w \in Writes : Done(w) => Done(w)',
         \A c \in Clients : issued[c] \in 0 .. MaxWrites,
         \A q \in Peers : Keeps(toPeer[q], toPeer'[q], "+OK")
  PROVE  Releases'
<1>1. \A q \in Peers : Alike(toPeer[q], toPeer'[q], Oks)
  BY DEF Keeps, Oks
<1>2. \A q \in Peers : Told(q)' <=> Told(q)
  BY <1>1 DEF Alike, Told
<1>3. OneOkEach'
  BY <1>1 DEF Alike, Releases, OneOkEach
<1>4. ASSUME NEW c \in Clients, Home[c] # Primary
      PROVE  /\ \A k \in 1 .. issued[c] - 1 : Done(<<c, k>>)'
             /\ Free(c)' => ~Told(Home[c])' /\ (issued[c] > 0 => Done(<<c, issued[c]>>)')
             /\ issued[c] > 0 /\ ~Done(<<c, issued[c]>>)' => ~Told(Home[c])'
  <2>1. Home[c] \in Peers /\ (Told(Home[c])' <=> Told(Home[c]))
    BY <1>2, <1>4 DEF Peers
  <2>2. Free(c)' <=> Free(c)
    BY <1>4 DEF Free
  <2>3. \A k \in 1 .. issued[c] : <<c, k>> \in Writes
    BY DEF Writes
  <2>4. \A k \in 1 .. issued[c] : Done(<<c, k>>) => Done(<<c, k>>)'
    BY <2>3
  <2>5. issued[c] > 0 => issued[c] \in 1 .. issued[c]
    OBVIOUS
  <2>6. \A k \in 1 .. issued[c] - 1 : k \in 1 .. issued[c]
    OBVIOUS
  <2>q. QED
    BY <1>4, <2>1, <2>2, <2>4, <2>5, <2>6 DEF Releases, ReleasedDone
<1>5. ReleasedDone'
  BY <1>4 DEF ReleasedDone
<1>q. QED
  BY <1>3, <1>5 DEF Releases

(* The client threads number a request by their completed writes, and ask  *)
(* only when they are through with the last one.                           *)
LEMMA AckClient ==
  ASSUME OneConnection, TypeOK, AckInv, NEW c \in Clients, ClientStep(c)
  PROVE  AckInv'
<1>1. /\ TypeChannels /\ TypeClients /\ hold_queue \in Seq(RequestMsg)
      /\ Numbering /\ Accounts /\ Releases /\ AckWhole
  BY DEF TypeOK, TypeSequencer, AckInv
<1>2. /\ UNCHANGED <<toPeer, acktrack, order, lpc>>
      /\ \A d \in Clients : d # c => pc'[d] = pc[d] /\ issued'[d] = issued[d]
      /\ \A d \in Clients : d # c => /\ block_flag'[Home[d]] = block_flag[Home[d]]
                                     /\ node_seq_num'[Home[d]] = node_seq_num[Home[d]]
  BY <1>1 DEF ClientStep, RequestRemote, RequestLocal, Block, Wake, Proceed, EnterWait, queueVars,
              ackVars, cpVars, netVars, TypeClients, OneConnection
<1>3. AckWhole'
  BY <1>1, <1>2 DEF AckWhole
<1>4. /\ \A q \in Peers : Keeps(toPrimary[q], toPrimary'[q], "+ACK")
      /\ \A q \in Peers : ~Within(toPrimary'[q], MisnumberedRequests)
  <2>1. CASE RequestRemote(c)
    <3> DEFINE m == Request(c)
    <3>1. m \in ToPrimaryMsg /\ m.kind = "request"
      BY <1>1, <2>1, RequestType DEF RequestRemote, ToPrimaryMsg, Request
    <3>2. m.seq_num = m.data[2] - 1
      BY <1>1, <2>1 DEF RequestRemote, Request, Numbering, TypeClients
    <3>3. Home[c] \in Peers /\ toPrimary' = [toPrimary EXCEPT ![Home[c]] = Append(@, m)]
      BY <2>1 DEF RequestRemote, Peers
    <3> HIDE DEF m
    <3>4. m \notin MisnumberedRequests
      BY <3>2 DEF MisnumberedRequests
    <3>5. \A q \in Peers : Keeps(toPrimary[q], toPrimary'[q], "+ACK")
      BY <1>1, <3>1, <3>3, SendOther DEF TypeChannels
    <3>6. \A q \in Peers : Alike(toPrimary[q], toPrimary'[q], MisnumberedRequests)
      BY <1>1, <3>1, <3>3, <3>4, SendElse DEF TypeChannels
    <3>q. QED
      BY <1>1, <3>5, <3>6 DEF Alike, Numbering
  <2>2. CASE UNCHANGED toPrimary
    BY <1>1, <2>2, SameKept DEF Numbering
  <2>q. QED
    BY <2>1, <2>2 DEF ClientStep, RequestLocal, Block, Wake, Proceed, netVars
<1>5. Accounts'
  BY <1>1, <1>2, <1>4, SameKept, AccountsKept
<1>6. \A i \in DOMAIN hold_queue' : hold_queue'[i].seq_num = hold_queue'[i].data[2] - 1
  <2>1. CASE RequestLocal(c)
    <3> DEFINE m == Request(c)
    <3>1. m.seq_num = m.data[2] - 1
      BY <1>1, <2>1 DEF RequestLocal, Request, Numbering, TypeClients
    <3>2. m \in RequestMsg /\ hold_queue' = Append(hold_queue, m)
      BY <1>1, <2>1, RequestType DEF RequestLocal
    <3> HIDE DEF m
    <3>q. QED
      BY <1>1, <3>1, <3>2 DEF Numbering
  <2>2. CASE UNCHANGED hold_queue
    BY <1>1, <2>2 DEF Numbering
  <2>q. QED
    BY <2>1, <2>2 DEF ClientStep, RequestRemote, Block, Wake, Proceed, queueVars
<1>7. \A d \in Clients :
        issued'[d] = node_seq_num'[Home[d]] + (IF pc'[d] = "idle" THEN 0 ELSE 1)
  <2>1. issued[c] \in Nat /\ node_seq_num[Home[c]] \in Nat
    BY <1>1 DEF TypeClients
  <2>2. issued'[c] = node_seq_num'[Home[c]] + (IF pc'[c] = "idle" THEN 0 ELSE 1)
    <3>1. CASE RequestRemote(c) \/ RequestLocal(c)
      BY <1>1, <2>1, <3>1 DEF RequestRemote, RequestLocal, EnterWait, Numbering, TypeClients
    <3>2. CASE Block(c) \/ Wake(c)
      BY <1>1, <2>1, <3>2 DEF Block, Wake, Numbering, TypeClients
    <3>3. CASE Proceed(c)
      <4>1. /\ pc[c] = "released" /\ pc'[c] = "idle" /\ issued' = issued
            /\ node_seq_num'[Home[c]] = node_seq_num[Home[c]] + 1
        BY <1>1, <3>3 DEF Proceed, TypeClients
      <4>2. issued[c] = node_seq_num[Home[c]] + 1
        BY <1>1, <4>1 DEF Numbering
      <4>q. QED
        BY <2>1, <4>1, <4>2
    <3>q. QED
      BY <3>1, <3>2, <3>3 DEF ClientStep
  <2>q. QED
    BY <1>1, <1>2, <2>2 DEF Numbering
<1>8. Numbering'
  BY <1>1, <1>2, <1>4, <1>6, <1>7 DEF Numbering
<1>9. /\ \A w : Done(w)' <=> Done(w)
      /\ \A q \in Peers : Told(q)' <=> Told(q)
  BY <1>2 DEF Done, Told
<1>10. ASSUME NEW d \in Clients, Home[d] # Primary
       PROVE  /\ \A k \in 1 .. issued'[d] - 1 : Done(<<d, k>>)
              /\ Free(d)' => ~Told(Home[d]) /\ (issued'[d] > 0 => Done(<<d, issued'[d]>>))
              /\ issued'[d] > 0 /\ ~Done(<<d, issued'[d]>>) => ~Told(Home[d])
  <2>1. /\ \A k \in 1 .. issued[d] - 1 : Done(<<d, k>>)
        /\ Free(d) => ~Told(Home[d]) /\ (issued[d] > 0 => Done(<<d, issued[d]>>))
        /\ issued[d] > 0 /\ ~Done(<<d, issued[d]>>) => ~Told(Home[d])
    BY <1>1, <1>10 DEF Releases, ReleasedDone
  <2>2. CASE d # c
    BY <1>2, <2>1, <2>2 DEF Free
  <2>3. CASE d = c /\ RequestRemote(c)
    <3>1. issued'[d] = issued[d] + 1 /\ issued[d] \in Nat
      BY <1>1, <2>3 DEF RequestRemote, TypeClients
    <3>2. Free(d) /\ ~Free(d)'
      BY <1>1, <2>3 DEF RequestRemote, EnterWait, Free, TypeClients
    <3>3. ASSUME NEW k \in 1 .. issued'[d] - 1 PROVE Done(<<d, k>>)
      <4>1. k \in 1 .. issued[d] - 1 \/ (k = issued[d] /\ issued[d] > 0)
        BY <3>1
      <4>q. QED
        BY <2>1, <3>2, <4>1
    <3>q. QED
      BY <2>1, <3>2, <3>3
  <2>4. CASE d = c /\ (Block(c) \/ Wake(c) \/ Proceed(c))
    <3>1. issued'[d] = issued[d]
      BY <2>4 DEF Block, Wake, Proceed
    <3>2. Free(d)' => Free(d)
      BY <1>1, <2>4 DEF Block, Wake, Proceed, Free, TypeClients
    <3>q. QED
      BY <2>1, <3>1, <3>2
  <2>5. ~(d = c /\ RequestLocal(c))
    BY <1>10 DEF RequestLocal
  <2>q. QED
    BY <2>2, <2>3, <2>4, <2>5 DEF ClientStep
<1>11. ReleasedDone'
  <2>1. \A d \in Clients : Home[d] # Primary => Home[d] \in Peers
    BY DEF Peers
  <2>q. QED
    BY <1>9, <1>10, <2>1 DEF ReleasedDone
<1>12. OneOkEach'
  BY <1>1, <1>2 DEF Releases, OneOkEach
<1>q. QED
  BY <1>3, <1>5, <1>8, <1>11, <1>12 DEF AckInv, Releases

(* A request is popped: every replica owes an acknowledgement of a write   *)
(* that none owed before, and is counted once.                             *)
LEMMA AckSequentialize ==
  ASSUME OneConnection, OrderInv, AckInv, Sequentialize
  PROVE  AckInv'
<1> DEFINE m == Head(hold_queue)
           sent == [m EXCEPT !.kind = "commit", !.glbl_seq_num = glbl_seq_num]
<1>1. /\ TypeChannels /\ TypeClients /\ hold_queue \in Seq(RequestMsg) /\ hold_queue # <<>>
      /\ glbl_seq_num \in Nat /\ order \in [Writes -> Nat \union {-1}]
      /\ Numbering /\ Accounts /\ Releases /\ AckWhole
      /\ KeysNumbered /\ OneAckEach /\ Counted
  BY DEF OrderInv, TypeOK, TypeSequencer, AckInv, Accounts, Sequentialize
<1>2. m \in RequestMsg /\ 1 \in DOMAIN hold_queue /\ hold_queue[1] = m
  BY <1>1
<1>3. PICK w \in Writes : /\ w = m.data /\ m.requestor_id = Requestor[w] /\ order[w] = -1
                        /\ m.seq_num = w[2] - 1
  BY <1>1, <1>2 DEF OrderInv, PendingRequests, Pending, Numbering, RequestMsg
<1>4. sent \in ToPeerMsg /\ sent.kind = "commit" /\ sent.seq_num = sent.data[2] - 1 /\ KeyOf(sent) = Key(w)
  BY <1>1, <1>2, <1>3 DEF ToPeerMsg, CommitMsg, RequestMsg, KeyOf, Key
<1>5. /\ Broadcast(sent) /\ TrackAcks(Key(w)) /\ order' = [order EXCEPT ![w] = glbl_seq_num]
      /\ hold_queue' = Tail(hold_queue)
      /\ UNCHANGED <<pc, issued, node_seq_num, block_flag, lpc, toPrimary>>
  BY <1>3 DEF Sequentialize, clientVars, Key
<1>6. Key(w) \notin DOMAIN acktrack /\ \A q \in Peers : ~Sending(q, w) /\ ~Acked(q, w)
  BY <1>1, <1>3, NotCountedYet
<1>7. \A i \in DOMAIN hold_queue' : hold_queue'[i].seq_num = hold_queue'[i].data[2] - 1
  <2>1. \A i \in DOMAIN hold_queue' : i + 1 \in DOMAIN hold_queue /\ hold_queue'[i] = hold_queue[i + 1]
    BY <1>1, <1>5
  <2>q. QED
    BY <1>1, <2>1 DEF Numbering
<1> HIDE DEF m, sent
<1>8. ASSUME NEW v \in Writes, v # w PROVE Key(v) # Key(w)
  BY <1>3, <1>8, KeyDistinct
<1>9. /\ DOMAIN acktrack' = DOMAIN acktrack \union {Key(w)}
      /\ acktrack'[Key(w)] = Cardinality(Peers)
      /\ \A key \in DOMAIN acktrack : acktrack'[key] = acktrack[key]
  BY <1>5, <1>6 DEF TrackAcks
<1>10. /\ order'[w] = glbl_seq_num
       /\ \A v \in Writes : v # w => order'[v] = order[v]
       /\ \A v \in Writes : order[v] >= 0 => order'[v] >= 0
  BY <1>1, <1>3, <1>5
<1>11. ASSUME NEW q \in Peers
       PROVE  /\ Sending(q, w)' /\ ~Acked(q, w)'
              /\ Single(toPeer'[q], CommitsOf(w))
              /\ Single(toPrimary'[q], AcksOf(w))
  <2>1. toPeer'[q] = Append(toPeer[q], sent) /\ toPeer[q] \in Seq(ToPeerMsg)
    BY <1>1, <1>5 DEF Broadcast, TypeChannels
  <2>2. sent \in CommitsOf(w)
    BY <1>4 DEF CommitsOf
  <2>3. Within(toPeer'[q], CommitsOf(w)) /\ Single(toPeer'[q], CommitsOf(w))
    BY <1>1, <1>3, <1>4, <1>6, <2>1, <2>2, AfterSend DEF Sending, OneAckEach
  <2>q. QED
    BY <1>1, <1>3, <1>5, <1>6, <2>3 DEF Sending, Acked, OneAckEach
<1>12. ASSUME NEW q \in Peers, NEW v \in Writes, v # w
       PROVE  /\ Sending(q, v)' <=> Sending(q, v)
              /\ Acked(q, v)' <=> Acked(q, v)
              /\ Single(toPeer'[q], CommitsOf(v))
              /\ Single(toPrimary'[q], AcksOf(v))
  <2>1. sent \notin CommitsOf(v)
    BY <1>4, <1>8, <1>12 DEF CommitsOf
  <2>2. Alike(toPeer[q], toPeer'[q], CommitsOf(v))
    BY <1>1, <1>4, <1>5, <2>1, BroadcastElse
  <2>q. QED
    BY <1>1, <1>5, <2>2 DEF Alike, Sending, Acked, OneAckEach
<1>13. OneAckEach'
  BY <1>1, <1>11, <1>12 DEF OneAckEach
<1>14. Counted'
  <2>1. Owing(w)' = Peers
    BY <1>11 DEF Owing
  <2>2. \A v \in Writes : v # w => Owing(v)' = Owing(v)
    BY <1>12 DEF Owing
  <2>q. QED
    BY <1>1, <1>8, <1>9, <2>1, <2>2 DEF Counted
<1>15. KeysNumbered'
  <2>1. \A key \in DOMAIN acktrack' : \E v \in Writes : order'[v] >= 0 /\ key = Key(v)
    BY <1>1, <1>3, <1>9, <1>10 DEF KeysNumbered
  <2>2. StrayAcks' \subseteq StrayAcks
    BY <1>10 DEF StrayAcks
  <2>3. \A q \in Peers : ~Within(toPrimary'[q], StrayAcks')
    BY <1>1, <1>5, <2>2 DEF KeysNumbered, Within
  <2>q. QED
    BY <2>1, <2>3 DEF KeysNumbered
<1>16. Numbering'
  <2>1. sent \notin MisnumberedCommits
    BY <1>4 DEF MisnumberedCommits
  <2>2. \A q \in Peers : Alike(toPeer[q], toPeer'[q], MisnumberedCommits)
    BY <1>1, <1>4, <1>5, <2>1, BroadcastElse
  <2>q. QED
    BY <1>1, <1>5, <1>7, <2>2 DEF Numbering, Alike
<1>17. Releases'
  <2>1. \A v \in Writes : Done(v) => Done(v)'
    BY <1>3, <1>8, <1>9, <1>10 DEF Done
  <2>2. \A q \in Peers : Keeps(toPeer[q], toPeer'[q], "+OK")
    BY <1>1, <1>4, <1>5, BroadcastOther
  <2>q. QED
    BY <1>1, <1>5, <2>1, <2>2, ReleasesKept DEF TypeClients
<1>18. AckWhole'
  BY <1>1, <1>5 DEF AckWhole
<1>q. QED
  BY <1>13, <1>14, <1>15, <1>16, <1>17, <1>18 DEF AckInv, Accounts

(* The other steps of the sequencer send no commit and release no replica. *)
LEMMA AckSequencer ==
  ASSUME OneConnection, OrderInv, AckInv, SequencerStep
  PROVE  AckInv'
<1>1. /\ TypeChannels /\ TypeClients /\ TypeSequencer
      /\ Numbering /\ Accounts /\ Releases /\ AckWhole
  BY DEF OrderInv, TypeOK, AckInv
<1>2. CASE Sequentialize
  BY <1>2, AckSequentialize
<1>3. CASE CommitPrimary \/ CheckLogLimit \/ CheckpointPrimary \/ EndCheckpoint
  <2>1. UNCHANGED <<pc, issued, node_seq_num, hold_queue, order, acktrack, lpc, toPrimary>>
    BY <1>3 DEF CommitPrimary, CheckLogLimit, CheckpointPrimary, EndCheckpoint, clientVars, ackVars,
                netVars
  <2>2. \A c \in Clients : Home[c] # Primary => block_flag'[Home[c]] = block_flag[Home[c]]
    BY <1>1, <1>3 DEF CommitPrimary, CheckLogLimit, CheckpointPrimary, EndCheckpoint, TypeClients
  <2>3. \A q \in Peers : /\ Keeps(toPeer[q], toPeer'[q], "commit")
                         /\ Keeps(toPeer[q], toPeer'[q], "+OK")
    <3>1. CASE UNCHANGED toPeer
      BY <3>1, SameKept
    <3>2. CASE CheckLogLimit /\ toPeer' # toPeer
      <4> DEFINE m == [kind |-> "+CHECKPOINT", requestor_id |-> None, seq_num |-> None,
                       glbl_seq_num |-> glbl_seq_num, data |-> None]
      <4>1. Broadcast(m)
        BY <3>2 DEF CheckLogLimit
      <4>2. m \in ToPeerMsg /\ m.kind = "+CHECKPOINT"
        BY <1>1 DEF CheckpointMsg, ToPeerMsg, TypeSequencer
      <4> HIDE DEF m
      <4>3. m.kind # "commit" /\ m.kind # "+OK"
        BY <4>2
      <4>q. QED
        BY <1>1, <4>1, <4>2, <4>3, BroadcastOther
    <3>q. QED
      BY <1>3, <3>1, <3>2 DEF CommitPrimary, CheckpointPrimary, EndCheckpoint, netVars
  <2>4. Accounts'
    BY <1>1, <2>1, <2>3, SameKept, AccountsKept
  <2>5. Releases'
    <3>1. \A v \in Writes : Done(v) => Done(v)'
      BY <2>1 DEF Done
    <3>q. QED
      BY <1>1, <2>1, <2>2, <2>3, <3>1, ReleasesKept DEF TypeClients
  <2>6. Numbering'
    <3>1. \A q \in Peers : Alike(toPeer[q], toPeer'[q], MisnumberedCommits)
      BY <2>3 DEF Keeps, MisnumberedCommits
    <3>q. QED
      BY <1>1, <2>1, <3>1 DEF Numbering, Alike
  <2>7. AckWhole'
    BY <1>1, <2>1 DEF AckWhole
  <2>q. QED
    BY <2>4, <2>5, <2>6, <2>7 DEF AckInv
<1>q. QED
  BY <1>2, <1>3 DEF SequencerStep

(* A replica that takes a commit owes the acknowledgement it sends.        *)
LEMMA AckReplica ==
  ASSUME OneConnection, OrderInv, AckInv, NEW p \in Peers, ReplicaListenerStep(p)
  PROVE  AckInv'
<1>1. /\ TypeChannels /\ TypeClients /\ OneAckEach /\ Counted /\ KeysNumbered /\ OneOkEach
      /\ Numbering /\ Accounts /\ Releases /\ AckWhole
  BY DEF OrderInv, TypeOK, AckInv, Accounts, Releases
<1>2. /\ UNCHANGED <<pc, issued, node_seq_num, hold_queue, order, acktrack, lpc>>
      /\ toPeer[p] # <<>> /\ toPeer' = [toPeer EXCEPT ![p] = Tail(@)]
      /\ toPeer[p] \in Seq(ToPeerMsg) /\ toPrimary[p] \in Seq(ToPrimaryMsg)
  BY <1>1 DEF ReplicaListenerStep, RecvCommit, RecvOK, RecvCheckpoint, Incoming, clientVars,
              queueVars, ackVars, TypeChannels
<1>3. AckWhole'
  BY <1>1, <1>2 DEF AckWhole
<1>4. \A v \in Writes : Done(v) => Done(v)'
  BY <1>2 DEF Done
<1>5. \A q \in Peers : ~Within(toPeer'[q], MisnumberedCommits)
  <2>1. toPeer'[p] = Tail(toPeer[p]) /\ \A q \in Peers \ {p} : toPeer'[q] = toPeer[q]
    BY <1>1, <1>2 DEF TypeChannels
  <2>2. ~Within(toPeer'[p], MisnumberedCommits)
    BY <1>1, <1>2, <2>1, AfterTake DEF Numbering
  <2>q. QED
    BY <1>1, <2>1, <2>2 DEF Numbering
<1>6. ASSUME NEW m \in ToPrimaryMsg, m.kind # "request",
             toPrimary' = [toPrimary EXCEPT ![p] = Append(@, m)]
      PROVE  Numbering'
  <2>1. \A q \in Peers : Keeps(toPrimary[q], toPrimary'[q], "request")
    BY <1>1, <1>6, SendOther DEF TypeChannels
  <2>2. \A q \in Peers : Alike(toPrimary[q], toPrimary'[q], MisnumberedRequests)
    BY <2>1 DEF Keeps, MisnumberedRequests
  <2>q. QED
    BY <1>1, <1>2, <1>5, <2>2 DEF Numbering, Alike
<1>7. CASE RecvCheckpoint(p)
  <2> DEFINE m == Head(toPeer[p])
             a == [m EXCEPT !.kind = "+CP_ACK", !.data = None]
  <2>1. m \in Orders /\ m.kind = "+CHECKPOINT"
    <3>1. m \in ToPeerMsg /\ m.kind = "+CHECKPOINT"
      BY <1>1, <1>7 DEF RecvCheckpoint, Incoming, TypeChannels
    <3>q. QED
      BY <3>1 DEF Orders, ToPeerMsg, CommitMsg, AnswerMsg, CheckpointMsg
  <2>2. a \in ToPrimaryMsg /\ a.kind = "+CP_ACK"
    BY <2>1 DEF Orders, CheckpointMsg, ToPrimaryMsg
  <2>3. toPrimary' = [toPrimary EXCEPT ![p] = Append(@, a)]
    BY <1>7 DEF RecvCheckpoint, Reply
  <2> HIDE DEF a
  <2>4. a.kind # "+ACK" /\ a.kind # "request" /\ m.kind # "commit" /\ m.kind # "+OK"
    BY <2>1, <2>2
  <2>5. \A q \in Peers : Keeps(toPrimary[q], toPrimary'[q], "+ACK")
    BY <1>1, <2>2, <2>3, <2>4, SendOther DEF TypeChannels
  <2>6. \A q \in Peers : /\ Keeps(toPeer[q], toPeer'[q], "commit")
                         /\ Keeps(toPeer[q], toPeer'[q], "+OK")
    BY <1>1, <1>2, <2>4, TakeOther DEF TypeChannels
  <2>7. Accounts'
    BY <1>1, <1>2, <2>5, <2>6, AccountsKept
  <2>8. UNCHANGED block_flag
    BY <1>7 DEF RecvCheckpoint
  <2>9. Releases'
    BY <1>1, <1>2, <1>4, <2>6, <2>8, ReleasesKept DEF TypeClients
  <2>10. Numbering'
    BY <1>6, <2>2, <2>3, <2>4
  <2>q. QED
    BY <1>3, <2>7, <2>9, <2>10 DEF AckInv
<1>8. CASE RecvOK(p)
  <2>1. /\ Head(toPeer[p]) \in Oks /\ Head(toPeer[p]).kind # "commit"
        /\ block_flag' = [block_flag EXCEPT ![p] = 0] /\ UNCHANGED toPrimary
    BY <1>1, <1>2, <1>8 DEF RecvOK, Incoming, Oks
  <2>2. Accounts'
    <3>1. \A q \in Peers : Keeps(toPeer[q], toPeer'[q], "commit")
      BY <1>1, <1>2, <2>1, TakeOther DEF TypeChannels
    <3>q. QED
      BY <1>1, <1>2, <2>1, <3>1, SameKept, AccountsKept
  <2>3. Numbering'
    BY <1>1, <1>2, <1>5, <2>1 DEF Numbering
  <2>4. toPeer'[p] = Tail(toPeer[p]) /\ \A q \in Peers \ {p} : toPeer'[q] = toPeer[q]
    BY <1>1, <1>2 DEF TypeChannels
  <2>5. Told(p) /\ ~Told(p)' /\ Single(toPeer'[p], Oks)
    BY <1>1, <1>2, <2>1, <2>4, AfterTake DEF Told, OneOkEach
  <2>6. OneOkEach'
    BY <1>1, <2>4, <2>5 DEF OneOkEach
  <2>7. ASSUME NEW c \in Clients, Home[c] # Primary
        PROVE  /\ \A k \in 1 .. issued[c] - 1 : Done(<<c, k>>)
               /\ Free(c)' => ~Told(Home[c])' /\ (issued[c] > 0 => Done(<<c, issued[c]>>))
               /\ issued[c] > 0 /\ ~Done(<<c, issued[c]>>) => ~Told(Home[c])'
    <3>1. /\ \A k \in 1 .. issued[c] - 1 : Done(<<c, k>>)
          /\ Free(c) => ~Told(Home[c]) /\ (issued[c] > 0 => Done(<<c, issued[c]>>))
          /\ issued[c] > 0 /\ ~Done(<<c, issued[c]>>) => ~Told(Home[c])
      BY <1>1, <2>7 DEF Releases, ReleasedDone
    <3>2. CASE Home[c] = p
      BY <2>5, <3>1, <3>2
    <3>3. CASE Home[c] # p
      <4>1. Home[c] \in Peers \ {p} /\ Home[c] \in Servers
        BY <2>7, <3>3 DEF Peers
      <4>2. block_flag'[Home[c]] = block_flag[Home[c]] /\ (Told(Home[c])' <=> Told(Home[c]))
        BY <1>1, <2>1, <2>4, <3>3, <4>1 DEF TypeClients, Told
      <4>q. QED
        BY <1>2, <3>1, <4>2 DEF Free
    <3>q. QED
      BY <3>2, <3>3
  <2>8. \A v : Done(v)' <=> Done(v)
    BY <1>2 DEF Done
  <2>9. ReleasedDone'
    BY <1>2, <2>7, <2>8 DEF ReleasedDone
  <2>q. QED
    BY <1>3, <2>2, <2>3, <2>6, <2>9 DEF AckInv, Releases
<1>9. CASE RecvCommit(p)
  <2> DEFINE m == Head(toPeer[p])
             a == [m EXCEPT !.kind = "+ACK", !.data = None]
  <2>1. m \in CommitMsg /\ 1 \in DOMAIN toPeer[p] /\ toPeer[p][1] = m
    BY <1>1, <1>2, <1>9, CommitMessage DEF RecvCommit
  <2>2. PICK w \in Writes : order[w] >= 0 /\ KeyOf(m) = Key(w)
    <3>1. m.data \in Writes /\ m \in ToPeerMsg /\ m.kind = "commit"
      BY <2>1 DEF CommitMsg, ToPeerMsg
    <3>2. order[m.data] >= 0 /\ m.requestor_id = Requestor[m.data]
      BY <2>1, <3>1 DEF OrderInv, CommitsInFlight
    <3>3. m.seq_num = m.data[2] - 1
      BY <1>1, <2>1, <3>1 DEF Numbering, Within, MisnumberedCommits
    <3>q. QED
      BY <3>1, <3>2, <3>3 DEF KeyOf, Key
  <2>3. a \in ToPrimaryMsg /\ a.kind = "+ACK" /\ KeyOf(a) = Key(w)
    BY <2>1, <2>2 DEF CommitMsg, ToPrimaryMsg, AnswerMsg, KeyOf
  <2>4. toPrimary' = [toPrimary EXCEPT ![p] = Append(@, a)] /\ UNCHANGED block_flag
    BY <1>9 DEF RecvCommit, Reply
  <2>5. m \in ToPeerMsg /\ m.kind = "commit"
    BY <2>1 DEF CommitMsg, ToPeerMsg
  <2>6. /\ toPeer'[p] = Tail(toPeer[p]) /\ toPrimary'[p] = Append(toPrimary[p], a)
        /\ \A q \in Peers \ {p} : toPeer'[q] = toPeer[q] /\ toPrimary'[q] = toPrimary[q]
    BY <1>1, <1>2, <2>4 DEF TypeChannels
  <2> HIDE DEF a
  <2>7. Numbering'
    <3>1. a.kind # "request"
      BY <2>3
    <3>q. QED
      BY <1>6, <2>3, <2>4, <3>1
  <2>8. Releases'
    <3>1. m.kind # "+OK"
      BY <2>5
    <3>2. \A q \in Peers : Keeps(toPeer[q], toPeer'[q], "+OK")
      BY <1>1, <1>2, <3>1, TakeOther DEF TypeChannels
    <3>q. QED
      BY <1>1, <1>2, <1>4, <2>4, <3>2, ReleasesKept DEF TypeClients
  <2>9. /\ Sending(p, w) /\ ~Sending(p, w)' /\ Single(toPeer'[p], CommitsOf(w))
        /\ Acked(p, w)' /\ Single(toPrimary'[p], AcksOf(w))
    <3>1. m \in CommitsOf(w) /\ a \in AcksOf(w)
      BY <2>2, <2>3, <2>5 DEF CommitsOf, AcksOf
    <3> HIDE DEF m
    <3>2. Sending(p, w) /\ ~Sending(p, w)' /\ Single(toPeer'[p], CommitsOf(w))
      BY <1>1, <1>2, <2>6, <3>1, AfterTake DEF Sending, OneAckEach, m
    <3>3. ~Acked(p, w)
      BY <1>1, <3>2 DEF OneAckEach
    <3>4. Acked(p, w)' /\ Single(toPrimary'[p], AcksOf(w))
      BY <1>1, <1>2, <2>3, <2>6, <3>1, <3>3, AfterSend DEF Acked, OneAckEach
    <3>q. QED
      BY <3>2, <3>4
  <2>10. ASSUME NEW v \in Writes, v # w
         PROVE  /\ Sending(p, v)' <=> Sending(p, v)
                /\ Acked(p, v)' <=> Acked(p, v)
                /\ Single(toPeer'[p], CommitsOf(v)) /\ Single(toPrimary'[p], AcksOf(v))
    <3>1. Key(v) # Key(w)
      BY <2>10, KeyDistinct
    <3>2. m \notin CommitsOf(v) /\ a \notin AcksOf(v)
      BY <2>2, <2>3, <3>1 DEF CommitsOf, AcksOf
    <3> HIDE DEF m
    <3>3. (Sending(p, v)' <=> Sending(p, v)) /\ Single(toPeer'[p], CommitsOf(v))
      BY <1>1, <1>2, <2>6, <3>2, AfterTake DEF Sending, OneAckEach, m
    <3>4. (Acked(p, v)' <=> Acked(p, v)) /\ Single(toPrimary'[p], AcksOf(v))
      BY <1>1, <1>2, <2>3, <2>6, <3>2, AfterSend DEF Acked, OneAckEach
    <3>q. QED
      BY <3>3, <3>4
  <2> HIDE DEF m
  <2>11. OneAckEach'
    <3>1. ASSUME NEW q \in Peers, NEW v \in Writes
          PROVE  /\ ~(Sending(q, v)' /\ Acked(q, v)')
                 /\ Single(toPeer'[q], CommitsOf(v)) /\ Single(toPrimary'[q], AcksOf(v))
      <4>1. CASE q = p /\ v = w
        BY <2>9, <4>1
      <4>2. CASE q = p /\ v # w
        BY <1>1, <2>10, <4>2 DEF OneAckEach
      <4>3. CASE q # p
        BY <1>1, <2>6, <4>3 DEF OneAckEach, Sending, Acked
      <4>q. QED
        BY <4>1, <4>2, <4>3
    <3>q. QED
      BY <3>1 DEF OneAckEach
  <2>12. \A v \in Writes : Owing(v)' = Owing(v)
    <3>1. ASSUME NEW q \in Peers, NEW v \in Writes
          PROVE  (Sending(q, v)' \/ Acked(q, v)') <=> (Sending(q, v) \/ Acked(q, v))
      <4>1. CASE q = p /\ v = w
        BY <2>9, <4>1
      <4>2. CASE q = p /\ v # w
        BY <2>10, <4>2
      <4>3. CASE q # p
        BY <2>6, <4>3 DEF Sending, Acked
      <4>q. QED
        BY <4>1, <4>2, <4>3
    <3>q. QED
      BY <3>1 DEF Owing
  <2>13. Counted'
    BY <1>1, <1>2, <2>12 DEF Counted
  <2>14. KeysNumbered'
    <3>1. StrayAcks' = StrayAcks /\ a \notin StrayAcks
      BY <1>2, <2>2, <2>3 DEF StrayAcks
    <3>2. \A q \in Peers : Alike(toPrimary[q], toPrimary'[q], StrayAcks)
      BY <1>1, <2>3, <2>4, <3>1, SendElse DEF TypeChannels
    <3>q. QED
      BY <1>1, <1>2, <3>1, <3>2 DEF KeysNumbered, Alike
  <2>q. QED
    BY <1>3, <2>7, <2>8, <2>11, <2>13, <2>14 DEF AckInv, Accounts
<1>q. QED
  BY <1>7, <1>8, <1>9 DEF ReplicaListenerStep

(* The handler of "+ACK" finds the counter of the write, counts the        *)
(* replica out, and the last one releases the requestor, which waits for   *)
(* this write and no other.                                                *)
LEMMA AckCounted ==
  ASSUME OneConnection, OrderInv, AckInv, NEW p \in Peers, RecvAck(p)
  PROVE  Accounts' /\ Releases'
<1> DEFINE m == Head(toPrimary[p])
<1>1. /\ TypeChannels /\ TypeClients /\ OneAckEach /\ Counted /\ KeysNumbered /\ OneOkEach
      /\ Numbering /\ Accounts /\ Releases /\ AckWhole
      /\ \A w \in Writes : order[w] >= 0 => w[2] <= issued[w[1]]
  BY DEF OrderInv, TypeOK, AckInv, Accounts, Releases, NumberedBelow
<1>2. /\ m \in AnswerMsg("+ACK") /\ m \in ToPrimaryMsg /\ m.kind = "+ACK"
      /\ toPrimary[p] # <<>> /\ toPrimary[p] \in Seq(ToPrimaryMsg)
      /\ 1 \in DOMAIN toPrimary[p] /\ toPrimary[p][1] = m
      /\ toPrimary' = [toPrimary EXCEPT ![p] = Tail(@)]
      /\ UNCHANGED <<pc, issued, order>>
  BY <1>1, AckMessage DEF RecvAck, Incoming, Consume, TypeChannels, clientVars, queueVars
<1>3. PICK w \in Writes : order[w] >= 0 /\ KeyOf(m) = Key(w)
  BY <1>1, <1>2 DEF KeysNumbered, Within, StrayAcks
<1>4. AckKey(p) = Key(w) /\ m.requestor_id = Requestor[w]
  BY <1>3 DEF AckKey, KeyOf, Key
<1>5. ASSUME NEW v \in Writes, v # w PROVE Key(v) # Key(w)
  BY <1>5, KeyDistinct
<1>6. toPrimary'[p] = Tail(toPrimary[p]) /\ \A q \in Peers \ {p} : toPrimary'[q] = toPrimary[q]
  BY <1>1, <1>2 DEF TypeChannels
<1>7. m \in AcksOf(w) /\ \A v \in Writes : v # w => m \notin AcksOf(v)
  BY <1>2, <1>3, <1>5 DEF AcksOf
<1>8. \A q \in Peers : ~Within(toPrimary'[q], StrayAcks)
  <2>1. ~Within(toPrimary'[p], StrayAcks)
    BY <1>1, <1>2, <1>6, AfterTake DEF KeysNumbered
  <2>q. QED
    BY <1>1, <1>6, <2>1 DEF KeysNumbered
<1> HIDE DEF m
<1>9. Acked(p, w) /\ ~Acked(p, w)' /\ ~Sending(p, w) /\ Single(toPrimary'[p], AcksOf(w))
  BY <1>1, <1>2, <1>6, <1>7, AfterTake DEF Acked, OneAckEach, m
<1>10. ASSUME NEW q \in Peers, NEW v \in Writes, q # p \/ v # w
       PROVE  (Acked(q, v)' <=> Acked(q, v)) /\ Single(toPrimary'[q], AcksOf(v))
  <2>1. CASE q # p
    BY <1>1, <1>6, <2>1 DEF Acked, OneAckEach
  <2>2. CASE q = p /\ v # w
    BY <1>1, <1>2, <1>6, <1>7, <2>2, AfterTake DEF Acked, OneAckEach, m
  <2>q. QED
    BY <1>10, <2>1, <2>2
<1>11. p \in Owing(w) /\ Key(w) \in DOMAIN acktrack
  BY <1>1, <1>9 DEF Owing, Counted
<1>12. /\ IsFiniteSet(Owing(w)) /\ IsFiniteSet(Owing(w) \ {p})
       /\ acktrack[Key(w)] = Cardinality(Owing(w)) /\ acktrack[Key(w)] \in Nat
       /\ Cardinality(Owing(w) \ {p}) = acktrack[Key(w)] - 1
  <2>1. IsFiniteSet(Owing(w))
    BY FS_Subset DEF Owing, Peers
  <2>2. acktrack[Key(w)] = Cardinality(Owing(w))
    BY <1>1, <1>11 DEF Counted
  <2>q. QED
    BY <1>11, <2>1, <2>2, FS_CardinalityType, FS_RemoveElement
\* What holds of the connections and the counters in both cases.
<1>13. ASSUME \A q \in Peers : Keeps(toPeer[q], toPeer'[q], "commit"),
              DOMAIN acktrack' \subseteq DOMAIN acktrack,
              \A v \in Writes : v # w =>
                 /\ Key(v) \in DOMAIN acktrack' <=> Key(v) \in DOMAIN acktrack
                 /\ Key(v) \in DOMAIN acktrack' => acktrack'[Key(v)] = acktrack[Key(v)],
              IF Key(w) \in DOMAIN acktrack' THEN acktrack'[Key(w)] = acktrack[Key(w)] - 1
                                             ELSE acktrack[Key(w)] = 1
       PROVE  Accounts'
  <2>1. \A q \in Peers, v \in Writes : Alike(toPeer[q], toPeer'[q], CommitsOf(v))
    BY <1>13 DEF Keeps, CommitsOf
  <2>2. \A q \in Peers, v \in Writes : Sending(q, v)' <=> Sending(q, v)
    BY <2>1 DEF Alike, Sending
  <2>3. OneAckEach'
    <3>1. ASSUME NEW q \in Peers, NEW v \in Writes
          PROVE  /\ ~(Sending(q, v)' /\ Acked(q, v)')
                 /\ Single(toPeer'[q], CommitsOf(v)) /\ Single(toPrimary'[q], AcksOf(v))
      <4>1. CASE q = p /\ v = w
        BY <1>1, <1>9, <2>1, <4>1 DEF OneAckEach, Alike
      <4>2. CASE q # p \/ v # w
        BY <1>1, <1>10, <2>1, <2>2, <4>2 DEF OneAckEach, Alike
      <4>q. QED
        BY <4>1, <4>2
    <3>q. QED
      BY <3>1 DEF OneAckEach
  <2>4. Owing(w)' = Owing(w) \ {p}
    BY <1>9, <1>10, <2>2 DEF Owing
  <2>5. \A v \in Writes : v # w => Owing(v)' = Owing(v)
    BY <1>10, <2>2 DEF Owing
  <2>6. Key(w) \notin DOMAIN acktrack' => Owing(w)' = {}
    BY <1>12, <1>13, <2>4, FS_EmptySet
  <2>7. Counted'
    <3>1. /\ Key(w) \in DOMAIN acktrack' => acktrack'[Key(w)] = Cardinality(Owing(w)')
          /\ Key(w) \notin DOMAIN acktrack' => Owing(w)' = {}
      BY <1>12, <1>13, <2>4, <2>6
    <3>2. ASSUME NEW v \in Writes, v # w
          PROVE  /\ Key(v) \in DOMAIN acktrack' => acktrack'[Key(v)] = Cardinality(Owing(v)')
                 /\ Key(v) \notin DOMAIN acktrack' => Owing(v)' = {}
      BY <1>1, <1>13, <2>5, <3>2 DEF Counted
    <3>q. QED
      BY <3>1, <3>2 DEF Counted
  <2>8. KeysNumbered'
    <3>1. StrayAcks' = StrayAcks
      BY <1>2 DEF StrayAcks
    <3>q. QED
      BY <1>1, <1>2, <1>8, <1>13, <3>1 DEF KeysNumbered
  <2>q. QED
    BY <2>3, <2>7, <2>8 DEF Accounts
<1>14. CASE acktrack[Key(w)] # 1
  <2>1. /\ acktrack' = [acktrack EXCEPT ![Key(w)] = @ - 1]
        /\ UNCHANGED <<toPeer, block_flag>>
    BY <1>4, <1>11, <1>14 DEF RecvAck
  <2>2. DOMAIN acktrack' = DOMAIN acktrack /\ acktrack'[Key(w)] = acktrack[Key(w)] - 1
    BY <1>11, <2>1
  <2>3. \A v \in Writes : v # w => (Key(v) \in DOMAIN acktrack => acktrack'[Key(v)] = acktrack[Key(v)])
    BY <1>5, <2>1
  <2>4. Accounts'
    BY <1>11, <1>13, <2>1, <2>2, <2>3, SameKept
  <2>5. \A v \in Writes : Done(v) => Done(v)'
    BY <1>2, <2>2 DEF Done
  <2>6. Releases'
    BY <1>1, <1>2, <2>1, <2>5, SameKept, ReleasesKept DEF TypeClients
  <2>q. QED
    BY <2>4, <2>6
<1>15. CASE acktrack[Key(w)] = 1
  <2>1. Erase(Key(w)) /\ ReleaseRequestor(m)
    BY <1>4, <1>11, <1>15 DEF RecvAck, m
  <2>2. /\ DOMAIN acktrack' = DOMAIN acktrack \ {Key(w)}
        /\ \A key \in DOMAIN acktrack' : acktrack'[key] = acktrack[key]
    BY <2>1 DEF Erase
  <2>3. \A v \in Writes : v # w =>
           /\ Key(v) \in DOMAIN acktrack' <=> Key(v) \in DOMAIN acktrack
           /\ Key(v) \in DOMAIN acktrack' => acktrack'[Key(v)] = acktrack[Key(v)]
    BY <1>5, <2>2
  <2>4. /\ \A v \in Writes : Done(v) => Done(v)'
        /\ Done(w)' /\ ~Done(w)
    BY <1>2, <1>3, <1>11, <2>2 DEF Done
  <2>5. CASE Requestor[w] = Primary
    <3>1. block_flag' = [block_flag EXCEPT ![Primary] = 0] /\ UNCHANGED toPeer
      BY <1>4, <2>1, <2>5 DEF ReleaseRequestor
    <3>2. Accounts'
      BY <1>13, <1>15, <2>2, <2>3, <3>1, SameKept
    <3>3. \A c \in Clients : Home[c] # Primary => block_flag'[Home[c]] = block_flag[Home[c]]
      BY <1>1, <3>1 DEF TypeClients
    <3>q. QED
      BY <1>1, <1>2, <2>4, <3>1, <3>2, <3>3, SameKept, ReleasesKept DEF TypeClients
  <2>6. CASE Requestor[w] # Primary
    <3> DEFINE ok == [m EXCEPT !.kind = "+OK"]
    <3>1. PICK c \in Clients, k \in Nat : w = <<c, k>> /\ k \in 1 .. MaxWrites
      BY DEF Writes
    <3>2. Requestor[w] = Home[c] /\ Home[c] # Primary /\ Home[c] \in Peers
      BY <2>6, <3>1 DEF Requestor, Peers
    <3>3. ok \in ToPeerMsg /\ ok.kind = "+OK"
      BY <1>2 DEF AnswerMsg, ToPeerMsg
    <3>4. toPeer' = [toPeer EXCEPT ![Home[c]] = Append(@, ok)] /\ UNCHANGED block_flag
      BY <1>4, <2>1, <2>6, <3>2 DEF ReleaseRequestor
    <3> HIDE DEF ok
    <3>5. Accounts'
      <4>1. ok.kind # "commit"
        BY <3>3
      <4>2. \A q \in Peers : Keeps(toPeer[q], toPeer'[q], "commit")
        BY <1>1, <3>2, <3>3, <3>4, <4>1, SendOther DEF TypeChannels
      <4>q. QED
        BY <1>13, <1>15, <2>2, <2>3, <4>2
    <3>6. /\ \A j \in 1 .. issued[c] - 1 : Done(<<c, j>>)
          /\ Free(c) => ~Told(Home[c]) /\ (issued[c] > 0 => Done(<<c, issued[c]>>))
          /\ issued[c] > 0 /\ ~Done(<<c, issued[c]>>) => ~Told(Home[c])
      BY <1>1, <3>2 DEF Releases, ReleasedDone
    <3>7. w = <<c, issued[c]>> /\ issued[c] > 0
      <4>1. k <= issued[c] /\ k > 0 /\ issued[c] \in Nat
        BY <1>1, <1>3, <3>1 DEF TypeClients
      <4>2. k \notin 1 .. issued[c] - 1
        BY <2>4, <3>1, <3>6
      <4>3. k = issued[c]
        BY <4>1, <4>2
      <4>q. QED
        BY <3>1, <4>1, <4>3
    <3>8. ~Free(c) /\ ~Told(Home[c])
      BY <2>4, <3>6, <3>7
    <3>9. /\ toPeer'[Home[c]] = Append(toPeer[Home[c]], ok)
          /\ toPeer[Home[c]] \in Seq(ToPeerMsg)
          /\ \A q \in Peers : q # Home[c] => toPeer'[q] = toPeer[q]
      BY <1>1, <3>2, <3>4 DEF TypeChannels
    <3>10. OneOkEach'
      <4>1. Single(toPeer'[Home[c]], Oks)
        BY <1>1, <3>2, <3>3, <3>8, <3>9, AfterSend DEF OneOkEach, Told
      <4>q. QED
        BY <1>1, <3>9, <4>1 DEF OneOkEach
    <3>11. ASSUME NEW d \in Clients, Home[d] # Primary
           PROVE  /\ \A j \in 1 .. issued[d] - 1 : Done(<<d, j>>)'
                  /\ Free(d)' => ~Told(Home[d])' /\ (issued[d] > 0 => Done(<<d, issued[d]>>)')
                  /\ issued[d] > 0 /\ ~Done(<<d, issued[d]>>)' => ~Told(Home[d])'
      <4>1. /\ \A j \in 1 .. issued[d] - 1 : Done(<<d, j>>)
            /\ Free(d) => ~Told(Home[d]) /\ (issued[d] > 0 => Done(<<d, issued[d]>>))
            /\ issued[d] > 0 /\ ~Done(<<d, issued[d]>>) => ~Told(Home[d])
        BY <1>1, <3>11 DEF Releases, ReleasedDone
      <4>2. Free(d)' <=> Free(d)
        BY <1>2, <3>4 DEF Free
      <4>3. issued[d] \in 0 .. MaxWrites
        BY <1>1 DEF TypeClients
      <4>4. \A j \in 1 .. issued[d] : Done(<<d, j>>) => Done(<<d, j>>)'
        <5>1. \A j \in 1 .. issued[d] : <<d, j>> \in Writes
          BY <4>3 DEF Writes
        <5>q. QED
          BY <2>4, <5>1
      <4>5. \A j \in 1 .. issued[d] - 1 : Done(<<d, j>>)'
        <5>1. \A j \in 1 .. issued[d] - 1 : j \in 1 .. issued[d]
          BY <4>3
        <5>q. QED
          BY <4>1, <4>4, <5>1
      <4>6. issued[d] > 0 /\ Done(<<d, issued[d]>>) => Done(<<d, issued[d]>>)'
        <5>1. issued[d] > 0 => issued[d] \in 1 .. issued[d]
          BY <4>3
        <5>q. QED
          BY <1>2, <4>4, <5>1
      <4>7. CASE d = c
        <5>1. ~Free(d)' /\ Done(<<d, issued[d]>>)'
          BY <1>2, <2>4, <3>7, <3>8, <4>2, <4>7
        <5>q. QED
          BY <4>5, <5>1
      <4>8. CASE d # c
        <5>1. Home[d] \in Peers /\ Home[d] # Home[c]
          BY <3>11, <4>8 DEF OneConnection, Peers
        <5>2. Told(Home[d])' <=> Told(Home[d])
          BY <3>9, <5>1 DEF Told
        <5>q. QED
          BY <4>1, <4>2, <4>5, <4>6, <5>2
      <4>q. QED
        BY <4>7, <4>8
    <3>12. ReleasedDone'
      BY <1>2, <3>11 DEF ReleasedDone
    <3>q. QED
      BY <3>5, <3>10, <3>12 DEF Releases
  <2>q. QED
    BY <2>5, <2>6
<1>q. QED
  BY <1>14, <1>15

(* The other handlers of the primary take a request, which they queue, or  *)
(* an answer about a checkpoint.                                           *)
LEMMA AckPrimary ==
  ASSUME OneConnection, OrderInv, AckInv, "ack" \notin Races, NEW p \in Peers,
         PrimaryListenerStep(p)
  PROVE  AckInv'
<1>1. /\ TypeChannels /\ TypeClients /\ hold_queue \in Seq(RequestMsg)
      /\ lpc \in [Peers -> {"recv", "ack_store", "ack_act", "cp_store", "cp_test", "cp_clear"}]
      /\ Numbering /\ Accounts /\ Releases /\ AckWhole
  BY DEF OrderInv, TypeOK, TypeSequencer, TypeCounters, AckInv
<1>2. ~(AckLoad(p) \/ AckStore(p) \/ AckAct(p))
  BY <1>1 DEF AckLoad, AckStore, AckAct, AckWhole
<1>3. AckWhole'
  BY <1>1, <1>2 DEF PrimaryListenerStep, RecvRequest, RecvAck, RecvCpAck, CpAckLoad, CpAckStore,
                    CpAckTest, CpAckClear, ackVars, AckWhole
<1>4. UNCHANGED <<pc, issued, node_seq_num, order>>
  BY <1>2 DEF PrimaryListenerStep, RecvRequest, RecvAck, RecvCpAck, CpAckLoad, CpAckStore,
              CpAckTest, CpAckClear, clientVars, queueVars
<1>5. \A q \in Peers : ~Within(toPrimary'[q], MisnumberedRequests)
  <2>1. CASE UNCHANGED toPrimary
    BY <1>1, <2>1 DEF Numbering
  <2>2. CASE toPrimary[p] # <<>> /\ Consume(p)
    <3>1. /\ toPrimary'[p] = Tail(toPrimary[p]) /\ toPrimary[p] \in Seq(ToPrimaryMsg)
          /\ \A q \in Peers \ {p} : toPrimary'[q] = toPrimary[q]
      BY <1>1, <2>2 DEF TypeChannels, Consume
    <3>2. ~Within(toPrimary'[p], MisnumberedRequests)
      BY <1>1, <2>2, <3>1, AfterTake DEF Numbering
    <3>q. QED
      BY <1>1, <3>1, <3>2 DEF Numbering
  <2>q. QED
    BY <1>2, <2>1, <2>2 DEF PrimaryListenerStep, RecvRequest, RecvAck, RecvCpAck, CpAckLoad,
                            CpAckStore, CpAckTest, CpAckClear, netVars, Incoming
<1>6. CASE RecvAck(p)
  <2>1. Accounts' /\ Releases'
    BY <1>6, AckCounted
  <2>2. UNCHANGED hold_queue
    BY <1>6 DEF RecvAck, queueVars
  <2>3. \A q \in Peers : ~Within(toPeer'[q], MisnumberedCommits)
    <3>1. CASE UNCHANGED toPeer
      BY <1>1, <3>1 DEF Numbering
    <3>2. CASE toPeer' # toPeer
      <4> DEFINE m == Head(toPrimary[p])
                 ok == [m EXCEPT !.kind = "+OK"]
      <4>1. m \in AnswerMsg("+ACK") /\ ReleaseRequestor(m)
        BY <1>1, <1>6, <3>2, AckMessage DEF RecvAck
      <4> HIDE DEF m
      <4>2. /\ m.requestor_id \in Peers /\ ok \in ToPeerMsg /\ ok.kind = "+OK"
            /\ toPeer' = [toPeer EXCEPT ![m.requestor_id] = Append(@, ok)]
        BY <3>2, <4>1 DEF ReleaseRequestor, AnswerMsg, ToPeerMsg, Peers
      <4> HIDE DEF ok
      <4>3. ok \notin MisnumberedCommits
        BY <4>2 DEF MisnumberedCommits
      <4>4. \A q \in Peers : Alike(toPeer[q], toPeer'[q], MisnumberedCommits)
        BY <1>1, <4>2, <4>3, SendElse DEF TypeChannels
      <4>q. QED
        BY <1>1, <4>4 DEF Numbering, Alike
    <3>q. QED
      BY <3>1, <3>2
  <2>4. Numbering'
    BY <1>1, <1>4, <1>5, <2>2, <2>3 DEF Numbering
  <2>q. QED
    BY <1>3, <2>1, <2>4 DEF AckInv
<1>7. CASE ~RecvAck(p)
  <2>1. UNCHANGED <<block_flag, acktrack, toPeer>>
    BY <1>2, <1>7 DEF PrimaryListenerStep, RecvRequest, RecvCpAck, CpAckLoad, CpAckStore,
                      CpAckTest, CpAckClear, ackVars, netVars
  <2>2. \A q \in Peers : Keeps(toPrimary[q], toPrimary'[q], "+ACK")
    <3>1. CASE UNCHANGED toPrimary
      BY <3>1, SameKept
    <3>2. CASE toPrimary[p] # <<>> /\ Head(toPrimary[p]).kind # "+ACK" /\ Consume(p)
      BY <1>1, <3>2, TakeOther DEF TypeChannels, Consume
    <3>q. QED
      BY <1>2, <1>7, <3>1, <3>2 DEF PrimaryListenerStep, RecvRequest, RecvCpAck, CpAckLoad,
                                    CpAckStore, CpAckTest, CpAckClear, netVars, Incoming
  <2>3. Accounts'
    BY <1>1, <1>4, <2>1, <2>2, SameKept, AccountsKept
  <2>4. Releases'
    <3>1. \A v \in Writes : Done(v) => Done(v)'
      BY <1>4, <2>1 DEF Done
    <3>q. QED
      BY <1>1, <1>4, <2>1, <3>1, SameKept, ReleasesKept DEF TypeClients
  <2>5. \A i \in DOMAIN hold_queue' : hold_queue'[i].seq_num = hold_queue'[i].data[2] - 1
    <3>1. CASE UNCHANGED hold_queue
      BY <1>1, <3>1 DEF Numbering
    <3>2. CASE RecvRequest(p)
      <4> DEFINE m == Head(toPrimary[p])
      <4>1. /\ m \in ToPrimaryMsg /\ m.kind = "request"
            /\ 1 \in DOMAIN toPrimary[p] /\ toPrimary[p][1] = m
            /\ hold_queue' = Append(hold_queue, m)
        BY <1>1, <3>2 DEF RecvRequest, Incoming, TypeChannels
      <4>2. m.seq_num = m.data[2] - 1
        BY <1>1, <4>1 DEF Numbering, Within, MisnumberedRequests
      <4>3. m \in RequestMsg
        BY <4>1 DEF ToPrimaryMsg, RequestMsg, AnswerMsg, CheckpointMsg
      <4> HIDE DEF m
      <4>q. QED
        BY <1>1, <4>1, <4>2, <4>3 DEF Numbering
    <3>q. QED
      BY <1>2, <1>7, <3>1, <3>2 DEF PrimaryListenerStep, RecvCpAck, CpAckLoad, CpAckStore,
                                    CpAckTest, CpAckClear, queueVars
  <2>6. Numbering'
    BY <1>1, <1>4, <1>5, <2>1, <2>5 DEF Numbering
  <2>q. QED
    BY <1>3, <2>3, <2>4, <2>6 DEF AckInv
<1>q. QED
  BY <1>6, <1>7

(* At the start no write is numbered and nothing is under way.             *)
LEMMA AckInit == Init => AckInv
<1> SUFFICES ASSUME Init PROVE AckInv
  OBVIOUS
<1>1. \A p \in Peers : \A K : /\ ~Within(toPeer[p], K) /\ ~Within(toPrimary[p], K)
                             /\ Single(toPeer[p], K) /\ Single(toPrimary[p], K)
  BY DEF Init, Within, Single
<1>2. Numbering
  BY <1>1 DEF Init, Numbering
<1>3. Accounts
  <2>1. \A w : Owing(w) = {}
    BY <1>1 DEF Owing, Sending, Acked
  <2>2. DOMAIN acktrack = {}
    BY DEF Init
  <2>q. QED
    BY <1>1, <2>1, <2>2 DEF Accounts, KeysNumbered, OneAckEach, Counted, Sending
<1>4. Releases
  <2>1. \A c \in Clients : Home[c] # Primary => ~Told(Home[c])
    BY <1>1 DEF Told, Peers
  <2>2. \A c \in Clients : issued[c] = 0
    BY DEF Init
  <2>q. QED
    BY <1>1, <2>1, <2>2 DEF Releases, ReleasedDone, OneOkEach
<1>5. AckWhole
  BY DEF Init, AckWhole
<1>q. QED
  BY <1>2, <1>3, <1>4, <1>5 DEF AckInv

(* Every step keeps AckInv, unless two listeners interleave in the handler *)
(* of "+ACK" or two connections are open to one server.                    *)
LEMMA AckNext ==
  ASSUME OneConnection, "ack" \notin Races
  PROVE  OrderInv /\ AckInv /\ [Next]_vars => AckInv'
<1> SUFFICES ASSUME OrderInv, AckInv, [Next]_vars PROVE AckInv'
  OBVIOUS
<1>1. ASSUME NEW c \in Clients, ClientStep(c) PROVE AckInv'
  BY <1>1, AckClient DEF OrderInv
<1>2. CASE SequencerStep
  BY <1>2, AckSequencer
<1>3. ASSUME NEW p \in Peers, ReplicaListenerStep(p) PROVE AckInv'
  BY <1>3, AckReplica
<1>4. ASSUME NEW p \in Peers, PrimaryListenerStep(p) PROVE AckInv'
  BY <1>4, AckPrimary
<1>5. CASE UNCHANGED vars
  BY <1>5 DEF vars, clientVars, queueVars, ackVars, netVars, AckInv, Numbering, Accounts,
              KeysNumbered, OneAckEach, Counted, Releases, ReleasedDone, OneOkEach, AckWhole,
              StrayAcks, Sending, Acked, Told, Owing, Done, Free
<1>q. QED
  BY <1>1, <1>2, <1>3, <1>4, <1>5 DEF Next

(* The replicas that owe an acknowledgement are those AckAccounting counts. *)
LEMMA OwingIs ==
  ASSUME TypeChannels, NEW w \in Writes
  PROVE  Unacknowledged(Key(w)) = Owing(w)
<1>1. ASSUME NEW p \in Peers
      PROVE  /\ Carries(toPeer[p], "commit", Key(w)) <=> Sending(p, w)
             /\ Carries(toPrimary[p], "+ACK", Key(w)) <=> Acked(p, w)
  <2>1. /\ \A i \in DOMAIN toPeer[p] : toPeer[p][i] \in ToPeerMsg
        /\ \A i \in DOMAIN toPrimary[p] : toPrimary[p][i] \in ToPrimaryMsg
    BY DEF TypeChannels
  <2>q. QED
    BY <2>1 DEF Carries, Sending, Acked, Within, CommitsOf, AcksOf, KeyOf
<1>q. QED
  BY <1>1 DEF Unacknowledged, Owing

(* A released thread of a replica has a write nobody owes any more, and a  *)
(* server that owes nothing of a numbered write has executed it.           *)
LEMMA AckFollows == OrderInv /\ AckInv => AckAccounting /\ ReleasedMeansReplicated
<1> SUFFICES ASSUME OrderInv, AckInv PROVE AckAccounting /\ ReleasedMeansReplicated
  OBVIOUS
<1>1. /\ TypeChannels /\ TypeClients /\ KeysNumbered /\ Counted /\ Numbering /\ ReleasedDone
      /\ PeersCovered /\ CommitsInFlight
  BY DEF OrderInv, TypeOK, AckInv, Accounts, Releases
<1>2. ASSUME NEW key \in DOMAIN acktrack
      PROVE  acktrack[key] = Cardinality(Unacknowledged(key))
  <2>1. PICK w \in Writes : key = Key(w)
    BY <1>1 DEF KeysNumbered
  <2>q. QED
    BY <1>1, <2>1, OwingIs DEF Counted
<1>3. ASSUME NEW p \in Peers, NEW i \in DOMAIN toPrimary[p], toPrimary[p][i].kind = "+ACK"
      PROVE  KeyOf(toPrimary[p][i]) \in DOMAIN acktrack
  <2>1. toPrimary[p][i] \in ToPrimaryMsg
    BY <1>1 DEF TypeChannels
  <2>2. PICK w \in Writes : KeyOf(toPrimary[p][i]) = Key(w)
    BY <1>1, <1>3, <2>1 DEF KeysNumbered, Within, StrayAcks
  <2>3. Acked(p, w)
    BY <1>3, <2>1, <2>2 DEF Acked, Within, AcksOf
  <2>q. QED
    BY <1>1, <2>2, <2>3 DEF Counted, Owing
<1>4. AckAccounting
  BY <1>2, <1>3 DEF AckAccounting, KeyOf
<1>5. ASSUME NEW c \in Clients, Home[c] # Primary, pc[c] = "released",
             NEW p \in Peers \ {Home[c]}, <<c, issued[c]>> \notin Executed(p)
      PROVE  FALSE
  <2> DEFINE w == <<c, issued[c]>>
  <2>1. issued[c] \in 1 .. MaxWrites
    BY <1>1, <1>5 DEF TypeClients
  <2>2. w \in Writes /\ Requestor[w] = Home[c]
    BY <2>1 DEF Writes, Requestor
  <2>3. order[w] >= 0 /\ Owing(w) = {}
    <3>1. Done(w)
      BY <1>1, <1>5, <2>1 DEF ReleasedDone, Free
    <3>q. QED
      BY <1>1, <2>2, <3>1 DEF Done, Counted
  <2> HIDE DEF w
  <2>4. PICK i \in DOMAIN toPeer[p] : toPeer[p][i].kind = "commit" /\ toPeer[p][i].data = w
    BY <1>1, <1>5, <2>2, <2>3 DEF PeersCovered, w
  <2>5. toPeer[p][i] \in ToPeerMsg
    BY <1>1 DEF TypeChannels
  <2>6. toPeer[p][i].requestor_id = Requestor[w] /\ toPeer[p][i].seq_num = w[2] - 1
    BY <1>1, <2>4, <2>5 DEF CommitsInFlight, Numbering, Within, MisnumberedCommits
  <2>7. Sending(p, w)
    BY <2>4, <2>5, <2>6 DEF Sending, Within, CommitsOf, KeyOf, Key
  <2>q. QED
    BY <2>3, <2>7 DEF Owing
<1>6. ReleasedMeansReplicated
  BY <1>5 DEF ReleasedMeansReplicated
<1>q. QED
  BY <1>4, <1>6

(* The acknowledgements: with one connection open to a server, and unless  *)
(* two listeners interleave in the handler of "+ACK", acktrack counts      *)
(* exactly the replicas whose commit or acknowledgement is still under     *)
(* way, and an acknowledgement always finds its counter (acktrack of       *)
(* primary_sequentialize and listen_peer).                                 *)
THEOREM AckAccountingAlways ==
  ASSUME OneConnection, "ack" \notin Races
  PROVE  Spec => []AckAccounting
<1>1. OrderInv /\ AckInv /\ [Next]_vars => (OrderInv /\ AckInv)'
  BY OrderNext, AckNext
<1>2. Init => OrderInv /\ AckInv
  BY OrderInit, AckInit
<1>3. OrderInv /\ AckInv => AckAccounting
  BY AckFollows
<1>q. QED
  BY <1>1, <1>2, <1>3, PTL DEF Spec

(* The answer to the client: under the same conditions a replica's thread  *)
(* is past its polling loop only when every other replica has the write in *)
(* its log (the "+OK" of listen_peer, block_flag of ensure_consistency).   *)
THEOREM ReleasedMeansReplicatedAlways ==
  ASSUME OneConnection, "ack" \notin Races
  PROVE  Spec => []ReleasedMeansReplicated
<1>1. OrderInv /\ AckInv /\ [Next]_vars => (OrderInv /\ AckInv)'
  BY OrderNext, AckNext
<1>2. Init => OrderInv /\ AckInv
  BY OrderInit, AckInit
<1>3. OrderInv /\ AckInv => ReleasedMeansReplicated
  BY AckFollows
<1>q. QED
  BY <1>1, <1>2, <1>3, PTL DEF Spec
=============================================================================
