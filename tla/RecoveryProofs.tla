---------------------------- MODULE RecoveryProofs ----------------------------
(***************************************************************************)
(* Proofs about Recovery.                                                  *)
(*                                                                         *)
(* Whatever the admin and the clients do, types are kept.  With clients    *)
(* that pause while the admin acts, and commands whose entries are sent,   *)
(* servers that are disabled and restarted come back with the tablet and   *)
(* the log of the primary, and the group implements ReplicatedStore.       *)
(***************************************************************************)
EXTENDS Recovery, TLAPS, FiniteSetTheorems

\* The clients pause while the admin acts, who leaves a server that is up alone.
Careful == Careless = {}

\* Every command is one whose entry a replay applies and a transfer sends.
Reproduced ==
  \A w \in Writes : /\ Type[w] \in SentAdditions \union SentDeletions
                    /\ Type[w] \notin {"DELETE_FILE", "DELETE_USER"}

-----------------------------------------------------------------------------
(* The inductive invariant.                                                *)

WriteRequests == [kind : {"write"}, data : Writes]
TransferRequests == [kind : {"-TRANSFER"}, requestor_id : Replicas, glbl_seq_num : Nat]
Commits == [kind : {"commit"}, data : Writes]
Entries == [kind : {"5555"}, data : Writes, garbled : BOOLEAN]
Requests == WriteRequests \union TransferRequests
Items == Commits \union Entries

LogTypes == log \in [Servers -> Seq(Writes)] /\ tablet \in [Servers -> Seq(Writes)]
ChanTypes == chan \in [Replicas -> Seq(Items)]

Types ==
  /\ hold_queue \in Seq(Requests)
  /\ ChanTypes
  /\ spc \in {"pop", "transfer_log"} /\ i \in Nat
  /\ requestor_id \in Servers /\ (spc = "transfer_log" => requestor_id \in Replicas)
  /\ LogTypes
  /\ disabled_flag \in [Servers -> {0, 1}]
  /\ apc \in [Servers -> {"up", "cleared", "disabled", "replay", "ask"}]
  /\ ctr \in [Servers -> Nat] /\ sequence_no \in [Servers -> Nat]
  /\ master_sockfd \in [Servers -> BOOLEAN] /\ commands \in Nat

\* The replay stays within the log file.
Replays == \A s \in Servers : ctr[s] <= sequence_no[s] /\ sequence_no[s] <= Len(log[s])

\* A write waits for the sequencer or is on its way to a replica.
Writing ==
  \/ hold_queue # <<>> /\ hold_queue[1].kind = "write"
  \/ \E r \in Replicas : \E k \in 1 .. Len(chan[r]) : chan[r][k].kind = "commit"

\* Replica r has asked for entries, and the loop of transfer_log is not over.
Asked(r) == hold_queue # <<>> /\ hold_queue[1].kind = "-TRANSFER" /\ hold_queue[1].requestor_id = r
Served(r) == spc = "transfer_log" /\ requestor_id = r

\* Transferred entries are asked for, sent or on their way to replica r.
Transferring(r) ==
  Asked(r) \/ Served(r) \/ (chan[r] # <<>> /\ chan[r][1].kind = "5555")

\* One thing at a time: a single write, or the transfer to a single replica.
OneRequest ==
  /\ Len(hold_queue) <= 1
  /\ hold_queue # <<>> => spc = "pop" /\ \A r \in Replicas : chan[r] = <<>>
  /\ \A r \in Replicas : \A k \in 1 .. Len(chan[r]) : chan[r][k].kind = "commit" =>
       spc = "pop" /\ Len(chan[r]) = 1

\* While a write is on its way nobody restarts, and the primary is up.
WritePhase ==
  Writing => apc[Primary] = "up" /\ \A s \in Servers : apc[s] \in {"up", "disabled"}

\* While a replica gets its entries it is up, nobody restarts and nothing
\* else is on its way.
TransferPhase ==
  \A r \in Replicas : Transferring(r) =>
    /\ apc[r] = "up"
    /\ \A s \in Servers : apc[s] \notin {"replay", "ask"}
    /\ \A t \in Replicas \ {r} : chan[t] = <<>>
    /\ ~ Writing

\* One server restarts at a time, while nothing is on its way.
RestartPhase ==
  \A s \in Servers : apc[s] \in {"replay", "ask"} =>
    Quiet /\ \A t \in Servers : apc[t] \in {"replay", "ask"} => t = s

Flags == \A s \in Servers : disabled_flag[s] = IF apc[s] \in {"disabled", "replay"} THEN 1 ELSE 0

\* What a server has in its tablet.
Tablets ==
  \A s \in Servers :
    /\ apc[s] \in {"up", "ask"} => tablet[s] = log[s]
    /\ apc[s] \in {"cleared", "disabled"} => tablet[s] = <<>>
    /\ apc[s] = "replay" =>
         /\ sequence_no[s] = Len(log[s]) /\ Len(tablet[s]) = ctr[s]
         /\ \A k \in 1 .. ctr[s] : tablet[s][k] = log[s][k]

\* Every log is a prefix of the primary's.
LogPrefixes ==
  \A s \in Servers :
    /\ Len(log[s]) <= Len(log[Primary])
    /\ \A k \in 1 .. Len(log[s]) : log[s][k] = log[Primary][k]

\* What is on its way to a replica continues its log, and reaches as far as
\* the sequencer has come.
Continues ==
  \A r \in Replicas :
    /\ apc[r] = "cleared" => Len(log[r]) = Len(log[Primary])
    /\ apc[r] = "up" =>
         /\ Len(log[r]) + Len(chan[r]) =
              IF Served(r) THEN i
              ELSE IF Asked(r) THEN hold_queue[1].glbl_seq_num
              ELSE Len(log[Primary])
         /\ \A k \in 1 .. Len(chan[r]) : chan[r][k].data = log[Primary][Len(log[r]) + k]
         /\ \A k \in 1 .. Len(chan[r]) : chan[r][k].kind = "5555" => ~ chan[r][k].garbled
    /\ Served(r) => i <= Len(log[Primary])

Phases == OneRequest /\ WritePhase /\ TransferPhase /\ RestartPhase
Contents == Flags /\ Tablets /\ LogPrefixes /\ Continues

RecoveryInv == Types /\ Replays /\ Phases /\ Contents

-----------------------------------------------------------------------------
(* Types.                                                                  *)

(* The primary is a server, and only servers are commanded. *)
LEMMA Constants ==
  /\ Primary \in Servers /\ Handled \subseteq Servers /\ Replicas \subseteq Servers
  /\ Primary \notin Replicas /\ \A s \in Servers : s # Primary => s \in Replicas
BY RecoveryAssumption DEF Replicas

(* Appending to a queue or a log. *)
LEMMA Appended ==
  ASSUME NEW S, NEW q \in Seq(S), NEW e \in S
  PROVE  /\ Append(q, e) \in Seq(S) /\ Append(q, e) # <<>>
         /\ Len(q) \in Nat /\ Len(Append(q, e)) = Len(q) + 1
         /\ \A k \in 1 .. Len(q) : Append(q, e)[k] = q[k]
         /\ Append(q, e)[Len(q) + 1] = e
OBVIOUS

(* Taking the first element of a queue. *)
LEMMA Popped ==
  ASSUME NEW S, NEW q \in Seq(S), q # <<>>
  PROVE  /\ Tail(q) \in Seq(S) /\ Head(q) = q[1] /\ q[1] \in S
         /\ Len(q) \in Nat /\ Len(q) >= 1 /\ Len(Tail(q)) = Len(q) - 1
         /\ \A k \in 1 .. Len(q) - 1 : Tail(q)[k] = q[k + 1]
OBVIOUS

(* What a server has in its log and its tablet after a command. *)
LEMMA Processed ==
  ASSUME LogTypes, NEW s \in Servers, NEW w \in Writes, process_command(s, w)
  PROVE  /\ LogTypes'
         /\ log'[s] = Append(log[s], w) /\ tablet'[s] = Append(tablet[s], w)
         /\ \A t \in Servers : t # s => log'[t] = log[t] /\ tablet'[t] = tablet[t]
         /\ Len(log'[s]) = Len(log[s]) + 1
         /\ \A k \in 1 .. Len(log[s]) : log'[s][k] = log[s][k]
         /\ log'[s][Len(log[s]) + 1] = w
         /\ \A t \in Servers : Len(log[t]) \in Nat /\ Len(log'[t]) \in Nat /\ Len(log[t]) <= Len(log'[t])
<1>1. /\ LogTypes'
      /\ log'[s] = Append(log[s], w) /\ tablet'[s] = Append(tablet[s], w)
      /\ \A t \in Servers : t # s => log'[t] = log[t] /\ tablet'[t] = tablet[t]
  BY DEF LogTypes, process_command
<1>2. log[s] \in Seq(Writes) /\ \A t \in Servers : Len(log[t]) \in Nat
  BY DEF LogTypes
<1>q. QED
  BY <1>1, <1>2, Appended

(* What waits for the sequencer. *)
LEMMA Queued ==
  ASSUME Types, hold_queue # <<>>
  PROVE  /\ Head(hold_queue) = hold_queue[1] /\ Len(hold_queue) \in Nat /\ Len(hold_queue) >= 1
         /\ Tail(hold_queue) \in Seq(Requests)
         /\ Len(Tail(hold_queue)) = Len(hold_queue) - 1
         /\ hold_queue[1].kind \in {"write", "-TRANSFER"}
         /\ hold_queue[1].kind = "write" => hold_queue[1].data \in Writes
         /\ hold_queue[1].kind = "-TRANSFER" =>
              hold_queue[1].requestor_id \in Replicas /\ hold_queue[1].glbl_seq_num \in Nat
<1>1. hold_queue \in Seq(Requests)
  BY DEF Types
<1>2. hold_queue[1] \in Requests
  BY <1>1
<1>q. QED
  BY <1>1, <1>2 DEF Requests, WriteRequests, TransferRequests

(* What is on its way to a replica. *)
LEMMA Sent ==
  ASSUME Types, NEW r \in Replicas, chan[r] # <<>>
  PROVE  /\ Head(chan[r]) = chan[r][1] /\ Len(chan[r]) \in Nat /\ Len(chan[r]) >= 1
         /\ Tail(chan[r]) \in Seq(Items)
         /\ Len(Tail(chan[r])) = Len(chan[r]) - 1
         /\ \A k \in 1 .. Len(chan[r]) - 1 : Tail(chan[r])[k] = chan[r][k + 1]
         /\ \A k \in 1 .. Len(chan[r]) : /\ chan[r][k].kind \in {"commit", "5555"}
                                         /\ chan[r][k].data \in Writes
<1>1. chan[r] \in Seq(Items)
  BY DEF Types, ChanTypes
<1>2. \A k \in 1 .. Len(chan[r]) : chan[r][k] \in Items
  BY <1>1
<1>3. \A e \in Items : e.kind \in {"commit", "5555"} /\ e.data \in Writes
  BY DEF Items, Commits, Entries
<1>q. QED
  BY <1>1, <1>2, <1>3

(* Commits and entries as the sequencer makes them. *)
LEMMA Made ==
  ASSUME NEW w \in Writes
  PROVE  /\ [kind |-> "commit", data |-> w] \in Items
         /\ Message(w) \in Items
         /\ [kind |-> "write", data |-> w] \in Requests
BY DEF Items, Commits, Entries, Message, Requests, WriteRequests

(* The system starts with its types. *)
LEMMA TypesInit == Init => Types /\ Replays
BY Constants DEF Init, Types, LogTypes, ChanTypes, Replays

(* A queue without elements. *)
LEMMA EmptySeq ==
  ASSUME NEW S, NEW q \in Seq(S), Len(q) = 0
  PROVE  q = <<>>
OBVIOUS

(* Two logs with the same entries. *)
LEMMA SameSeq ==
  ASSUME NEW S, NEW p \in Seq(S), NEW q \in Seq(S), Len(p) = Len(q),
         \A k \in 1 .. Len(q) : p[k] = q[k]
  PROVE  p = q
OBVIOUS

(* Taking the only element of a queue. *)
LEMMA LastPopped ==
  ASSUME NEW S, NEW q \in Seq(S), Len(q) = 1
  PROVE  Tail(q) = <<>> /\ Len(Tail(q)) = 0
<1>1. q # <<>>
  OBVIOUS
<1>2. Tail(q) \in Seq(S) /\ Len(Tail(q)) = 0
  BY <1>1, Popped
<1>q. QED
  BY <1>2, EmptySeq

(* Commands leave the replays within the log files. *)
LEMMA ReplaysKept ==
  ASSUME Types, Replays, UNCHANGED <<ctr, sequence_no>>,
         \A s \in Servers : Len(log[s]) \in Nat /\ Len(log'[s]) \in Nat /\ Len(log[s]) <= Len(log'[s])
  PROVE  Replays'
<1> SUFFICES ASSUME NEW s \in Servers
             PROVE  ctr[s] <= sequence_no[s] /\ sequence_no[s] <= Len(log'[s])
  BY DEF Replays
<1>1. sequence_no[s] \in Nat
  BY DEF Types
<1>2. ctr[s] <= sequence_no[s] /\ sequence_no[s] <= Len(log[s])
  BY DEF Replays
<1>q. QED
  BY <1>1, <1>2

(* Steps of the sequencer. *)
LEMMA TypesSequencer ==
  ASSUME Types, Replays, Sequencer
  PROVE  Types' /\ Replays'
<1>1. CASE Commit
  <2> DEFINE w == Head(hold_queue).data
  <2>1. w \in Writes /\ Tail(hold_queue) \in Seq(Requests)
    BY <1>1, Queued DEF Commit
  <2> HIDE DEF w
  <2> DEFINE m == [kind |-> "commit", data |-> w]
  <2>2. process_command(Primary, w) /\ chan' = [r \in Replicas |-> Append(chan[r], m)]
    BY <1>1 DEF Commit, w
  <2>3. m \in Items
    BY <2>1, Made
  <2> HIDE DEF m
  <2>5. ChanTypes'
    BY <2>2, <2>3 DEF Types, ChanTypes
  <2>4. /\ LogTypes'
        /\ \A s \in Servers : Len(log[s]) \in Nat /\ Len(log'[s]) \in Nat /\ Len(log[s]) <= Len(log'[s])
    BY <2>1, <2>2, Processed, Constants DEF Types
  <2>6. /\ hold_queue' \in Seq(Requests)
        /\ UNCHANGED <<spc, requestor_id, i, disabled_flag, apc, ctr, sequence_no, master_sockfd, commands>>
    BY <1>1, <2>1 DEF Commit, loopVars, adminVars
  <2>7. Types'
    BY <2>4, <2>5, <2>6 DEF Types
  <2>8. Replays'
    BY <2>4, <2>6, ReplaysKept
  <2>q. QED
    BY <2>7, <2>8
<1>2. CASE Transfer
  BY <1>2, Queued, Constants DEF Transfer, adminVars, storeVars, Types, Replays, LogTypes, ChanTypes
<1>3. CASE TransferEntry
  <2> DEFINE w == log[Primary][i + 1]
  <2>1. w \in Writes
    BY <1>3, Constants DEF TransferEntry, Types, LogTypes
  <2>2. chan' = chan \/ chan' = [chan EXCEPT ![requestor_id] = Append(@, Message(w))]
    BY <1>3 DEF TransferEntry
  <2> HIDE DEF w
  <2>3. Message(w) \in Items /\ requestor_id \in Replicas
    BY <1>3, <2>1, Made DEF Types, TransferEntry
  <2> DEFINE m == Message(w)
  <2>5. m \in Items /\ (chan' = chan \/ chan' = [chan EXCEPT ![requestor_id] = Append(@, m)])
    BY <2>2, <2>3
  <2> HIDE DEF m
  <2>6. chan \in [Replicas -> Seq(Items)] /\ chan[requestor_id] \in Seq(Items)
    BY <2>3 DEF Types, ChanTypes
  <2>7. Append(chan[requestor_id], m) \in Seq(Items)
    BY <2>5, <2>6
  <2>4. ChanTypes'
    BY <2>3, <2>5, <2>6, <2>7 DEF ChanTypes
  <2>8. /\ i' = i + 1
        /\ UNCHANGED <<hold_queue, spc, requestor_id, log, tablet, disabled_flag, apc, ctr, sequence_no,
                       master_sockfd, commands>>
    BY <1>3 DEF TransferEntry, adminVars, storeVars
  <2>9. Types'
    BY <2>4, <2>8 DEF Types, LogTypes
  <2>10. Replays'
    BY <2>8 DEF Replays
  <2>q. QED
    BY <2>9, <2>10
<1>4. CASE TransferEnd
  BY <1>4 DEF TransferEnd, adminVars, storeVars, Types, Replays, LogTypes, ChanTypes
<1>q. QED
  BY <1>1, <1>2, <1>3, <1>4 DEF Sequencer, transfer_log

(* Steps of the listeners. *)
LEMMA TypesListener ==
  ASSUME Types, Replays, NEW r \in Replicas, Listener(r)
  PROVE  Types' /\ Replays'
<1>1. /\ chan[r] # <<>> /\ chan' = [chan EXCEPT ![r] = Tail(@)]
      /\ process_command(r, Head(chan[r]).data) \/ UNCHANGED storeVars
      /\ UNCHANGED <<hold_queue, loopVars, disabled_flag, adminVars>>
  BY DEF Listener, RecvCommit, RecvTransfer
<1> DEFINE w == Head(chan[r]).data
<1>2. w \in Writes /\ ChanTypes'
  <2>1. Len(chan[r]) >= 1 /\ w \in Writes /\ Tail(chan[r]) \in Seq(Items)
    BY <1>1, Sent
  <2>q. QED
    BY <1>1, <2>1 DEF Types, ChanTypes
<1> HIDE DEF w
<1>3. /\ LogTypes'
      /\ \A s \in Servers : Len(log[s]) \in Nat /\ Len(log'[s]) \in Nat /\ Len(log[s]) <= Len(log'[s])
  <2>1. CASE process_command(r, w)
    BY <1>2, <2>1, Processed, Constants DEF Types
  <2>2. CASE UNCHANGED storeVars
    BY <2>2 DEF storeVars, Types, LogTypes
  <2>q. QED
    BY <1>1, <2>1, <2>2 DEF w
<1>4. UNCHANGED <<hold_queue, spc, requestor_id, i, disabled_flag, apc, ctr, sequence_no, master_sockfd, commands>>
  BY <1>1 DEF loopVars, adminVars
<1>5. Types'
  BY <1>2, <1>3, <1>4 DEF Types
<1>6. Replays'
  BY <1>3, <1>4, ReplaysKept
<1>q. QED
  BY <1>5, <1>6

(* Steps of the admin thread. *)
LEMMA TypesAdmin ==
  ASSUME Types, Replays, NEW s \in Handled,
         Disable(s) \/ Restart(s) \/ Server(s)
  PROVE  Types' /\ Replays'
<1>0. s \in Servers /\ (s # Primary => s \in Replicas) /\ Primary \in Servers
  BY Constants
<1>2. CASE Disable(s)
  <2>1. /\ tablet' = [tablet EXCEPT ![s] = <<>>] /\ commands' = commands + 1
        /\ apc' = [apc EXCEPT ![s] = "cleared"]
        /\ UNCHANGED <<hold_queue, spc, requestor_id, i, chan, log, disabled_flag, ctr, sequence_no,
                       master_sockfd>>
    BY <1>2 DEF Disable, loopVars
  <2>2. LogTypes' /\ ChanTypes'
    BY <1>0, <2>1 DEF Types, LogTypes, ChanTypes
  <2>3. apc' \in [Servers -> {"up", "cleared", "disabled", "replay", "ask"}] /\ commands' \in Nat
    BY <1>0, <2>1 DEF Types
  <2>4. Types'
    BY <2>1, <2>2, <2>3 DEF Types
  <2>5. Replays'
    BY <2>1 DEF Replays
  <2>q. QED
    BY <2>4, <2>5
<1>3. CASE DisableFlag(s)
  BY <1>0, <1>3 DEF DisableFlag, loopVars, storeVars, Types, Replays, LogTypes, ChanTypes
<1>4. CASE Restart(s)
  <2>1. /\ sequence_no' = [sequence_no EXCEPT ![s] = Len(log[s])] /\ ctr' = [ctr EXCEPT ![s] = 0]
        /\ commands' = commands + 1 /\ apc' = [apc EXCEPT ![s] = "replay"]
        /\ UNCHANGED <<hold_queue, spc, requestor_id, i, chan, log, tablet, disabled_flag, master_sockfd>>
    BY <1>4 DEF Restart, loopVars, storeVars
  <2>2. LogTypes' /\ ChanTypes'
    BY <2>1 DEF Types, LogTypes, ChanTypes
  <2>3. Len(log[s]) \in Nat
    BY <1>0 DEF Types, LogTypes
  <2>4. /\ apc' \in [Servers -> {"up", "cleared", "disabled", "replay", "ask"}] /\ commands' \in Nat
        /\ ctr' \in [Servers -> Nat] /\ sequence_no' \in [Servers -> Nat]
    BY <1>0, <2>1, <2>3 DEF Types
  <2>5. Types'
    BY <2>1, <2>2, <2>4 DEF Types
  <2>6. Replays'
    <3> SUFFICES ASSUME NEW t \in Servers
                 PROVE  ctr'[t] <= sequence_no'[t] /\ sequence_no'[t] <= Len(log[t])
      BY <2>1 DEF Replays
    <3>1. CASE t = s
      <4>1. ctr'[s] = 0 /\ sequence_no'[s] = Len(log[s])
        BY <1>0, <2>1 DEF Types
      <4>q. QED
        BY <2>3, <3>1, <4>1
    <3>2. CASE t # s
      <4>1. ctr'[t] = ctr[t] /\ sequence_no'[t] = sequence_no[t]
        BY <2>1, <3>2 DEF Types
      <4>q. QED
        BY <4>1 DEF Replays
    <3>q. QED
      BY <3>1, <3>2
  <2>q. QED
    BY <2>5, <2>6
<1>5. CASE ReplayEntry(s)
  <2>1. log[s][ctr[s] + 1] \in Writes
    BY <1>0, <1>5 DEF ReplayEntry, Types, Replays, LogTypes, ChanTypes
  <2> DEFINE w == log[s][ctr[s] + 1]
  <2>3. \/ tablet' = [tablet EXCEPT ![s] = Append(@, w)]
        \/ tablet' = [tablet EXCEPT ![s] = @]
    BY <1>5 DEF ReplayEntry
  <2> HIDE DEF w
  <2>2. tablet' \in [Servers -> Seq(Writes)]
    <3>1. w \in Writes
      BY <2>1 DEF w
    <3>2. tablet \in [Servers -> Seq(Writes)] /\ tablet[s] \in Seq(Writes)
      BY <1>0 DEF Types, LogTypes
    <3>3. Append(tablet[s], w) \in Seq(Writes)
      BY <3>1, <3>2
    <3>q. QED
      BY <1>0, <2>3, <3>2, <3>3
  <2>4. /\ ctr' = [ctr EXCEPT ![s] = @ + 1] /\ ctr[s] < sequence_no[s]
        /\ UNCHANGED <<hold_queue, spc, requestor_id, i, chan, log, disabled_flag, apc, sequence_no, master_sockfd, commands>>
    BY <1>5 DEF ReplayEntry, loopVars
  <2>7. LogTypes' /\ ChanTypes' /\ ctr' \in [Servers -> Nat]
    <3>1. LogTypes' /\ ChanTypes'
      BY <2>2, <2>4 DEF Types, LogTypes, ChanTypes
    <3>2. ctr \in [Servers -> Nat] /\ ctr[s] + 1 \in Nat
      BY <1>0 DEF Types
    <3>3. ctr' \in [Servers -> Nat]
      BY <1>0, <2>4, <3>2
    <3>q. QED
      BY <3>1, <3>3
  <2>5. Types'
    BY <2>4, <2>7 DEF Types
  <2>6. Replays'
    <3> SUFFICES ASSUME NEW t \in Servers
                 PROVE  ctr'[t] <= sequence_no[t] /\ sequence_no[t] <= Len(log[t])
      BY <2>4 DEF Replays
    <3>1. ctr[t] \in Nat /\ sequence_no[t] \in Nat /\ (t # s => ctr'[t] = ctr[t]) /\ ctr'[s] = ctr[s] + 1
      BY <1>0, <2>4 DEF Types
    <3>2. ctr[t] <= sequence_no[t] /\ sequence_no[t] <= Len(log[t])
      BY DEF Replays
    <3>q. QED
      BY <2>4, <3>1, <3>2
  <2>q. QED
    BY <2>5, <2>6
<1>6. CASE Enable(s)
  BY <1>0, <1>6 DEF Enable, create_socket_for_master, loopVars, storeVars, Types, Replays, LogTypes, ChanTypes
<1>7. CASE AskTransfer(s)
  <2>1. hold_queue' \in Seq(Requests)
    <3> DEFINE m == [kind |-> "-TRANSFER", requestor_id |-> s, glbl_seq_num |-> Len(log[s])]
    <3>1. Len(log[s]) \in Nat
      BY <1>0 DEF Types, LogTypes
    <3>2. s # Primary => m \in Requests
      BY <1>0, <3>1 DEF Requests, TransferRequests
    <3>3. hold_queue' = IF s = Primary THEN hold_queue ELSE Append(hold_queue, m)
      BY <1>7 DEF AskTransfer
    <3> HIDE DEF m
    <3>q. QED
      BY <3>2, <3>3 DEF Types
  <2>q. QED
    BY <1>0, <1>7, <2>1 DEF AskTransfer, loopVars, storeVars, Types, Replays, LogTypes, ChanTypes
<1>q. QED
  BY <1>2, <1>3, <1>4, <1>5, <1>6, <1>7 DEF Server

(* Every step keeps the types, and the replays within the log files. *)
LEMMA TypesNext == Types /\ Replays /\ [Next]_vars => Types' /\ Replays'
<1> SUFFICES ASSUME Types, Replays, [Next]_vars PROVE Types' /\ Replays'
  OBVIOUS
<1>1. ASSUME NEW w \in Writes, Request(w) PROVE Types' /\ Replays'
  <2> DEFINE m == [kind |-> "write", data |-> w]
  <2>0. m \in Requests
    BY Made
  <2>1. hold_queue' = Append(hold_queue, m)
    BY <1>1 DEF Request
  <2> HIDE DEF m
  <2>2. hold_queue' \in Seq(Requests)
    BY <2>0, <2>1 DEF Types
  <2>q. QED
    BY <1>1, <2>2 DEF Request, loopVars, storeVars, adminVars, Types, Replays, LogTypes, ChanTypes
<1>2. CASE UNCHANGED vars
  BY <1>2 DEF vars, loopVars, storeVars, adminVars, Types, Replays, LogTypes, ChanTypes
<1>q. QED
  BY <1>1, <1>2, TypesSequencer, TypesListener, TypesAdmin DEF Next

(* Types are kept, and a replay stays within the log file of its server,   *)
(* whatever clients and admin do meanwhile (replay_log, transfer_log).     *)
THEOREM TypeCorrect == Spec => []TypeOK
<1>1. Types /\ Replays => TypeOK
  BY DEF Types, LogTypes, Replays, TypeOK
<1>q. QED
  BY <1>1, TypesInit, TypesNext, PTL DEF Spec

-----------------------------------------------------------------------------
(* The careful regime.                                                     *)

(* The lengths that the invariant speaks of. *)
LEMMA Lengths ==
  ASSUME Types
  PROVE  /\ \A s \in Servers : Len(log[s]) \in Nat /\ Len(tablet[s]) \in Nat
         /\ \A r \in Replicas : /\ Len(chan[r]) \in Nat /\ (chan[r] = <<>> <=> Len(chan[r]) = 0)
                              /\ chan[r] # <<>> => chan[r][1].kind \in {"commit", "5555"}
         /\ Len(hold_queue) \in Nat /\ (hold_queue = <<>> <=> Len(hold_queue) = 0)
         /\ hold_queue # <<>> => hold_queue[1].kind \in {"write", "-TRANSFER"}
<1>1. \A s \in Servers : Len(log[s]) \in Nat /\ Len(tablet[s]) \in Nat
  BY DEF Types, LogTypes
<1>2. \A r \in Replicas : Len(chan[r]) \in Nat /\ (chan[r] = <<>> <=> Len(chan[r]) = 0)
  BY DEF Types, ChanTypes
<1>3. \A r \in Replicas : chan[r] # <<>> => chan[r][1].kind \in {"commit", "5555"}
  BY Sent
<1>4. Len(hold_queue) \in Nat /\ (hold_queue = <<>> <=> Len(hold_queue) = 0)
  BY DEF Types
<1>5. hold_queue # <<>> => hold_queue[1].kind \in {"write", "-TRANSFER"}
  BY Queued
<1>q. QED
  BY <1>1, <1>2, <1>3, <1>4, <1>5

(* When nothing is on its way. *)
LEMMA QuietFacts ==
  ASSUME Types, Quiet
  PROVE  /\ ~ Writing /\ hold_queue = <<>> /\ Len(hold_queue) = 0 /\ spc = "pop"
         /\ \A r \in Replicas : /\ ~ Asked(r) /\ ~ Served(r) /\ ~ Transferring(r)
                              /\ chan[r] = <<>> /\ Len(chan[r]) = 0
BY Lengths DEF Quiet, Writing, Asked, Served, Transferring

(* A new request is the only thing on its way. *)
LEMMA FirstRequest ==
  ASSUME NEW e, hold_queue = <<>>, hold_queue' = Append(hold_queue, e)
  PROVE  hold_queue' # <<>> /\ Len(hold_queue') = 1 /\ hold_queue'[1] = e
OBVIOUS

(* A client that pauses writes only when nothing is on its way. *)
LEMMA InvRequest ==
  ASSUME RecoveryInv, Careful, NEW w \in Writes, Request(w)
  PROVE  Phases' /\ Contents'
<1> DEFINE m == [kind |-> "write", data |-> w]
<1>0. Types /\ Phases /\ Contents
  BY DEF RecoveryInv
<1>1. /\ Quiet /\ \A s \in Servers : apc[s] \in {"up", "disabled"}
      /\ apc[Primary] = "up"
      /\ hold_queue' = Append(hold_queue, m) /\ m.kind = "write"
      /\ UNCHANGED <<spc, requestor_id, i, chan, log, tablet, disabled_flag, apc, ctr, sequence_no>>
  BY Constants DEF Request, Careful, loopVars, storeVars, adminVars
<1> HIDE DEF m
<1>2. /\ ~ Writing /\ hold_queue = <<>> /\ Len(hold_queue) = 0 /\ spc = "pop"
      /\ \A r \in Replicas : /\ ~ Asked(r) /\ ~ Served(r) /\ ~ Transferring(r)
                           /\ chan[r] = <<>> /\ Len(chan[r]) = 0
  BY <1>0, <1>1, QuietFacts
<1>3. hold_queue' # <<>> /\ Len(hold_queue') = 1 /\ hold_queue'[1] = m
  BY <1>1, <1>2, FirstRequest
<1>4. \A r \in Replicas : ~ Asked(r)' /\ ~ Served(r)' /\ ~ Transferring(r)'
  BY <1>1, <1>2, <1>3 DEF Asked, Served, Transferring
<1>5. OneRequest'
  BY <1>1, <1>2, <1>3 DEF OneRequest
<1>6. WritePhase' /\ TransferPhase' /\ RestartPhase'
  BY <1>1, <1>4, Constants DEF WritePhase, TransferPhase, RestartPhase
<1>7. Flags' /\ Tablets' /\ LogPrefixes'
  BY <1>0, <1>1 DEF Contents, Flags, Tablets, LogPrefixes
<1>8. Continues'
  BY <1>0, <1>1, <1>2, <1>4 DEF Contents, Continues
<1>q. QED
  BY <1>5, <1>6, <1>7, <1>8 DEF Phases, Contents

(* The admin disables a server when nothing is on its way: it has all.     *)
LEMMA InvDisable ==
  ASSUME RecoveryInv, Careful, NEW s \in Servers, Disable(s) \/ DisableFlag(s)
  PROVE  Phases' /\ Contents'
<1>0. Types /\ Phases /\ Contents
  BY DEF RecoveryInv
<1>1. CASE Disable(s)
  <2>1. /\ Quiet /\ apc[s] = "up"
        /\ UNCHANGED <<hold_queue, spc, requestor_id, i, chan, log, disabled_flag, ctr, sequence_no>>
    BY <1>1 DEF Disable, Careful, loopVars
  <2>2. /\ apc'[s] = "cleared" /\ tablet'[s] = <<>>
        /\ \A t \in Servers : t # s => apc'[t] = apc[t] /\ tablet'[t] = tablet[t]
    BY <1>0, <1>1 DEF Disable, Types, LogTypes
  <2>3. /\ ~ Writing /\ ~ Writing' /\ Quiet'
        /\ \A r \in Replicas : /\ ~ Asked(r) /\ ~ Served(r) /\ ~ Transferring(r)'
                             /\ ~ Asked(r)' /\ ~ Served(r)'
                             /\ chan[r] = <<>> /\ Len(chan[r]) = 0
    BY <1>0, <2>1, QuietFacts DEF Writing, Asked, Served, Transferring, Quiet
  <2>4. OneRequest' /\ WritePhase' /\ TransferPhase'
    BY <1>0, <2>1, <2>3 DEF Phases, OneRequest, WritePhase, TransferPhase
  <2>5. RestartPhase'
    BY <1>0, <2>2, <2>3 DEF Phases, RestartPhase
  <2>6. Flags' /\ Tablets' /\ LogPrefixes'
    BY <1>0, <2>1, <2>2 DEF Contents, Flags, Tablets, LogPrefixes
  <2>8. \A r \in Replicas : Len(log[r]) \in Nat /\ Len(log[Primary]) \in Nat
    BY <1>0, Lengths, Constants
  <2>9. \A r \in Replicas : apc[r] = "up" => Len(log[r]) = Len(log[Primary])
    <3> SUFFICES ASSUME NEW r \in Replicas, apc[r] = "up" PROVE Len(log[r]) = Len(log[Primary])
      OBVIOUS
    <3>1. Len(log[r]) + Len(chan[r]) = Len(log[Primary])
      BY <1>0, <2>3 DEF Contents, Continues
    <3>2. Len(chan[r]) = 0 /\ Len(log[r]) \in Nat /\ Len(log[Primary]) \in Nat
      BY <2>3, <2>8
    <3>q. QED
      BY <3>1, <3>2
  <2>7. Continues'
    BY <1>0, <2>1, <2>2, <2>3, <2>8, <2>9, Constants DEF Contents, Continues
  <2>q. QED
    BY <2>4, <2>5, <2>6, <2>7 DEF Phases, Contents
<1>2. CASE DisableFlag(s)
  <2>1. /\ apc[s] = "cleared"
        /\ UNCHANGED <<hold_queue, spc, requestor_id, i, chan, log, tablet, ctr, sequence_no>>
    BY <1>2 DEF DisableFlag, loopVars, storeVars
  <2>2. /\ apc'[s] = "disabled" /\ disabled_flag'[s] = 1
        /\ \A t \in Servers : t # s => apc'[t] = apc[t] /\ disabled_flag'[t] = disabled_flag[t]
    BY <1>0, <1>2 DEF DisableFlag, Types
  <2>3. /\ Writing' = Writing /\ Quiet' = Quiet
        /\ \A r \in Replicas : /\ Asked(r)' = Asked(r) /\ Served(r)' = Served(r)
                             /\ Transferring(r)' = Transferring(r)
    BY <2>1 DEF Writing, Quiet, Asked, Served, Transferring
  <2>4. OneRequest' /\ WritePhase' /\ TransferPhase' /\ RestartPhase'
    BY <1>0, <2>1, <2>2, <2>3, Constants DEF Phases, OneRequest, WritePhase, TransferPhase, RestartPhase
  <2>6. Flags' /\ Tablets' /\ LogPrefixes'
    BY <1>0, <2>1, <2>2 DEF Contents, Flags, Tablets, LogPrefixes
  <2>7. Continues'
    BY <1>0, <2>1, <2>2, <2>3, Constants DEF Contents, Continues
  <2>q. QED
    BY <2>4, <2>6, <2>7 DEF Phases, Contents
<1>q. QED
  BY <1>1, <1>2

(* A replica whose connection is empty and that asked for nothing has all. *)
LEMMA HasAll ==
  ASSUME Types, Contents, NEW r \in Replicas, apc[r] = "up", Len(chan[r]) = 0,
         ~ Asked(r), ~ Served(r)
  PROVE  Len(log[r]) = Len(log[Primary])
<1>1. Len(log[r]) + Len(chan[r]) = Len(log[Primary])
  BY DEF Contents, Continues
<1>2. Len(log[r]) \in Nat /\ Len(log[Primary]) \in Nat
  BY Lengths, Constants
<1>q. QED
  BY <1>1, <1>2

(* The sequencer commits the write that waits: its commits are all that is *)
(* on its way.                                                             *)
LEMMA InvCommit ==
  ASSUME RecoveryInv, Commit
  PROVE  Phases' /\ Contents'
<1> DEFINE w == hold_queue[1].data
           m == [kind |-> "commit", data |-> w]
<1>0. Types /\ Phases /\ Contents
  BY DEF RecoveryInv
<1>1. /\ spc = "pop" /\ hold_queue # <<>> /\ hold_queue[1].kind = "write" /\ w \in Writes
      /\ hold_queue' = Tail(hold_queue) /\ process_command(Primary, w)
      /\ chan' = [r \in Replicas |-> Append(chan[r], m)] /\ m.kind = "commit" /\ m.data = w
      /\ UNCHANGED <<spc, requestor_id, i, disabled_flag, apc, ctr, sequence_no>>
  BY <1>0, Queued DEF Commit, loopVars, adminVars
<1> HIDE DEF w, m
<1>2. /\ hold_queue' = <<>> /\ Len(hold_queue') = 0
      /\ \A r \in Replicas : chan[r] = <<>>
  <2>1. Len(hold_queue) = 1 /\ \A r \in Replicas : chan[r] = <<>>
    BY <1>0, <1>1, Queued DEF Phases, OneRequest
  <2>2. hold_queue \in Seq(Requests)
    BY <1>0 DEF Types
  <2>q. QED
    BY <1>1, <2>1, <2>2
<1>3. \A r \in Replicas : chan'[r] # <<>> /\ Len(chan'[r]) = 1 /\ chan'[r][1] = m
  BY <1>1, <1>2
<1>4. Writing /\ apc[Primary] = "up" /\ \A s \in Servers : apc[s] \in {"up", "disabled"}
  BY <1>0, <1>1 DEF Writing, Phases, WritePhase
<1>5. \A r \in Replicas : /\ ~ Asked(r) /\ ~ Served(r)
                       /\ ~ Asked(r)' /\ ~ Served(r)' /\ ~ Transferring(r)'
  BY <1>1, <1>2, <1>3 DEF Asked, Served, Transferring
<1>6. Phases'
  <2>1. OneRequest'
    <3>1. \A r \in Replicas : \A k \in 1 .. Len(chan'[r]) :
            chan'[r][k].kind = "commit" => spc' = "pop" /\ Len(chan'[r]) = 1
      BY <1>1, <1>3
    <3>2. Len(hold_queue') <= 1
      BY <1>2
    <3>q. QED
      BY <1>2, <3>1, <3>2 DEF OneRequest
  <2>2. WritePhase' /\ TransferPhase' /\ RestartPhase'
    BY <1>1, <1>4, <1>5 DEF WritePhase, TransferPhase, RestartPhase
  <2>q. QED
    BY <2>1, <2>2 DEF Phases
<1>7. /\ log'[Primary] = Append(log[Primary], w) /\ tablet'[Primary] = Append(tablet[Primary], w)
      /\ \A t \in Servers : t # Primary => log'[t] = log[t] /\ tablet'[t] = tablet[t]
      /\ Len(log'[Primary]) = Len(log[Primary]) + 1
      /\ \A k \in 1 .. Len(log[Primary]) : log'[Primary][k] = log[Primary][k]
      /\ log'[Primary][Len(log[Primary]) + 1] = w
  BY <1>0, <1>1, Processed, Constants DEF Types
<1>8. \A s \in Servers : Len(log[s]) \in Nat
  BY <1>0, Lengths
<1>9. Flags'
  BY <1>0, <1>1 DEF Contents, Flags
<1>10. Tablets'
  <2> SUFFICES ASSUME NEW s \in Servers
               PROVE  /\ apc[s] \in {"up", "ask"} => tablet'[s] = log'[s]
                      /\ apc[s] \in {"cleared", "disabled"} => tablet'[s] = <<>>
    BY <1>1, <1>4 DEF Tablets
  <2>q. QED
    BY <1>0, <1>4, <1>7 DEF Contents, Tablets
<1>11. LogPrefixes'
  <2> SUFFICES ASSUME NEW s \in Servers
               PROVE  /\ Len(log'[s]) <= Len(log'[Primary])
                      /\ \A k \in 1 .. Len(log'[s]) : log'[s][k] = log'[Primary][k]
    BY DEF LogPrefixes
  <2>1. CASE s = Primary
    BY <1>7, <1>8, <2>1, Constants
  <2>2. CASE s # Primary
    <3>1. /\ log'[s] = log[s] /\ Len(log[s]) <= Len(log[Primary])
          /\ \A k \in 1 .. Len(log[s]) : log[s][k] = log[Primary][k]
      BY <1>0, <1>7, <2>2 DEF Contents, LogPrefixes
    <3>q. QED
      BY <1>7, <1>8, <3>1, Constants
  <2>q. QED
    BY <2>1, <2>2
<1>12. Continues'
  <2> SUFFICES ASSUME NEW r \in Replicas, apc[r] = "up"
               PROVE  /\ Len(log'[r]) + Len(chan'[r]) = Len(log'[Primary])
                      /\ \A k \in 1 .. Len(chan'[r]) :
                           /\ chan'[r][k].data = log'[Primary][Len(log'[r]) + k]
                           /\ chan'[r][k].kind # "5555"
    BY <1>1, <1>4, <1>5, Constants DEF Continues
  <2>1. Len(log[r]) = Len(log[Primary]) /\ log'[r] = log[r] /\ Len(log[r]) \in Nat
    <3>1. Len(chan[r]) = 0
      BY <1>2
    <3>q. QED
      BY <1>0, <1>5, <1>7, <1>8, <3>1, HasAll, Constants
  <2>2. ASSUME NEW k \in 1 .. Len(chan'[r]) PROVE k = 1
    <3>1. Len(chan'[r]) = 1
      BY <1>3
    <3>q. QED
      BY <3>1
  <2>3. chan'[r][1].data = w /\ chan'[r][1].kind = "commit" /\ Len(chan'[r]) = 1
    BY <1>1, <1>3
  <2>4. /\ Len(log'[Primary]) = Len(log'[r]) + 1 /\ Len(log'[r]) + 1 = Len(log[Primary]) + 1
        /\ log'[Primary][Len(log'[r]) + 1] = w
    BY <1>7, <2>1
  <2>q. QED
    BY <2>2, <2>3, <2>4
<1>q. QED
  BY <1>6, <1>9, <1>10, <1>11, <1>12 DEF Contents

(* The sequencer starts to transfer what a replica asked for.              *)
LEMMA InvTransfer ==
  ASSUME RecoveryInv, Transfer
  PROVE  Phases' /\ Contents'
<1> DEFINE q == hold_queue[1].requestor_id
<1>0. Types /\ Phases /\ Contents
  BY DEF RecoveryInv
<1>1. /\ spc = "pop" /\ hold_queue # <<>> /\ hold_queue[1].kind = "-TRANSFER" /\ q \in Replicas
      /\ hold_queue' = Tail(hold_queue)
      /\ spc' = "transfer_log" /\ requestor_id' = q /\ i' = hold_queue[1].glbl_seq_num
      /\ UNCHANGED <<chan, log, tablet, disabled_flag, apc, ctr, sequence_no>>
  BY <1>0, Queued DEF Transfer, storeVars, adminVars
<1>2. /\ hold_queue' = <<>> /\ Len(hold_queue') = 0
      /\ \A r \in Replicas : chan[r] = <<>>
  <2>1. Len(hold_queue) = 1 /\ \A r \in Replicas : chan[r] = <<>>
    BY <1>0, <1>1, Queued DEF Phases, OneRequest
  <2>2. hold_queue \in Seq(Requests)
    BY <1>0 DEF Types
  <2>q. QED
    BY <1>1, <2>1, <2>2
<1> HIDE DEF q
<1>3. /\ Asked(q) /\ \A r \in Replicas : (Asked(r) <=> r = q) /\ ~ Served(r)
      /\ \A r \in Replicas : (Served(r)' <=> r = q) /\ ~ Asked(r)' /\ (Transferring(r)' <=> r = q)
  BY <1>1, <1>2 DEF Asked, Served, Transferring, q
<1>4. /\ apc[q] = "up" /\ \A s \in Servers : apc[s] \notin {"replay", "ask"}
      /\ ~ Writing'
  BY <1>0, <1>1, <1>2, <1>3 DEF Phases, TransferPhase, Transferring, Writing
<1>5. Phases'
  <2>1. OneRequest'
    <3>1. \A r \in Replicas : chan'[r] = <<>>
      BY <1>1, <1>2
    <3>2. Len(hold_queue') <= 1
      BY <1>2
    <3>q. QED
      BY <1>2, <3>1, <3>2 DEF OneRequest
  <2>2. WritePhase' /\ TransferPhase' /\ RestartPhase'
    BY <1>1, <1>2, <1>3, <1>4 DEF WritePhase, TransferPhase, RestartPhase
  <2>q. QED
    BY <2>1, <2>2 DEF Phases
<1>6. Flags' /\ Tablets' /\ LogPrefixes'
  BY <1>0, <1>1 DEF Contents, Flags, Tablets, LogPrefixes
<1>7. Continues'
  <2>1. i' <= Len(log[Primary])
    <3>1. Len(log[q]) + Len(chan[q]) = i' /\ Len(log[q]) <= Len(log[Primary])
      BY <1>0, <1>1, <1>3, <1>4, Constants DEF Contents, Continues, LogPrefixes
    <3>2. Len(chan[q]) = 0 /\ Len(log[q]) \in Nat /\ Len(log[Primary]) \in Nat
      BY <1>0, <1>1, <1>2, Lengths, Constants
    <3>q. QED
      BY <3>1, <3>2
  <2>q. QED
    BY <1>0, <1>1, <1>3, <2>1 DEF Contents, Continues
<1>q. QED
  BY <1>5, <1>6, <1>7 DEF Contents

(* The sequencer sends the next entry.                                     *)
LEMMA InvTransferEntry ==
  ASSUME RecoveryInv, Reproduced, TransferEntry
  PROVE  Phases' /\ Contents'
<1> DEFINE q == requestor_id
           w == log[Primary][i + 1]
           m == Message(w)
<1>0. Types /\ Phases /\ Contents
  BY DEF RecoveryInv
<1>1. /\ spc = "transfer_log" /\ i < Len(log[Primary]) /\ i' = i + 1 /\ q \in Replicas /\ i \in Nat
      /\ UNCHANGED <<hold_queue, spc, requestor_id, log, tablet, disabled_flag, apc, ctr, sequence_no>>
  BY <1>0 DEF TransferEntry, Types, storeVars, adminVars
<1>2. /\ w \in Writes /\ chan' = [chan EXCEPT ![q] = Append(@, m)]
      /\ m.kind = "5555" /\ m.data = w /\ ~ m.garbled
  <2>1. w \in Writes
    BY <1>0, <1>1, Constants DEF Types, LogTypes
  <2>q. QED
    BY <2>1 DEF TransferEntry, Reproduced, Message
<1> HIDE DEF w, m
<1>3. m \in Items
  BY <1>2, Made DEF m
<1>4. /\ chan'[q] = Append(chan[q], m) /\ \A r \in Replicas : r # q => chan'[r] = chan[r]
      /\ chan[q] \in Seq(Items)
  BY <1>0, <1>1, <1>2 DEF Types, ChanTypes
<1>5. /\ chan'[q] # <<>> /\ Len(chan[q]) \in Nat /\ Len(chan'[q]) = Len(chan[q]) + 1
      /\ \A k \in 1 .. Len(chan[q]) : chan'[q][k] = chan[q][k]
      /\ chan'[q][Len(chan[q]) + 1] = m
      /\ (chan[q] = <<>> <=> Len(chan[q]) = 0)
  BY <1>3, <1>4, Appended
<1>6. /\ Served(q) /\ \A r \in Replicas : Served(r)' = Served(r) /\ (Served(r) <=> r = q)
      /\ hold_queue = <<>> /\ \A r \in Replicas : ~ Asked(r) /\ ~ Asked(r)'
  BY <1>0, <1>1 DEF Served, Asked, Phases, OneRequest
<1>7. /\ apc[q] = "up" /\ \A s \in Servers : apc[s] \notin {"replay", "ask"}
      /\ \A t \in Replicas \ {q} : chan[t] = <<>>
      /\ ~ Writing
  BY <1>0, <1>1, <1>6 DEF Phases, TransferPhase, Transferring
<1>8. \A k \in 1 .. Len(chan'[q]) : chan'[q][k].kind # "commit"
  <2> SUFFICES ASSUME NEW k \in 1 .. Len(chan'[q]) PROVE chan'[q][k].kind # "commit"
    OBVIOUS
  <2>1. CASE k = Len(chan[q]) + 1
    BY <1>2, <1>5, <2>1
  <2>2. CASE k # Len(chan[q]) + 1
    <3>1. k \in 1 .. Len(chan[q])
      BY <1>5, <2>2
    <3>q. QED
      BY <1>1, <1>5, <1>7, <3>1 DEF Writing
  <2>q. QED
    BY <2>1, <2>2
<1>9. ~ Writing' /\ \A r \in Replicas : Transferring(r)' => r = q
  <2>1. \A t \in Replicas : t # q => chan'[t] = <<>> /\ Len(chan'[t]) = 0
    BY <1>4, <1>7
  <2>2. ~ Writing'
    BY <1>1, <1>6, <1>8, <2>1 DEF Writing
  <2>q. QED
    BY <1>6, <2>1, <2>2 DEF Transferring
<1>10. Phases'
  <2>1. OneRequest'
    <3>1. \A r \in Replicas : \A k \in 1 .. Len(chan'[r]) : chan'[r][k].kind # "commit"
      BY <1>9 DEF Writing
    <3>2. hold_queue' = <<>> /\ Len(hold_queue') <= 1
      BY <1>0, <1>1, <1>6 DEF Phases, OneRequest
    <3>q. QED
      BY <3>1, <3>2 DEF OneRequest
  <2>2. WritePhase' /\ TransferPhase' /\ RestartPhase'
    BY <1>1, <1>4, <1>7, <1>9 DEF WritePhase, TransferPhase, RestartPhase
  <2>q. QED
    BY <2>1, <2>2 DEF Phases
<1>11. Flags' /\ Tablets' /\ LogPrefixes'
  BY <1>0, <1>1 DEF Contents, Flags, Tablets, LogPrefixes
<1>12. Continues'
  <2>1. /\ Len(log[q]) + Len(chan[q]) = i
        /\ \A k \in 1 .. Len(chan[q]) : chan[q][k].data = log[Primary][Len(log[q]) + k]
        /\ \A k \in 1 .. Len(chan[q]) : chan[q][k].kind = "5555" => ~ chan[q][k].garbled
    BY <1>0, <1>1, <1>6, <1>7 DEF Contents, Continues
  <2>2. Len(log[q]) \in Nat /\ Len(log[Primary]) \in Nat
    BY <1>0, <1>1, Lengths, Constants
  <2>6. /\ i \in Nat /\ i' = i + 1 /\ i < Len(log[Primary])
        /\ Len(chan[q]) \in Nat /\ Len(chan'[q]) = Len(chan[q]) + 1
    BY <1>1, <1>5
  <2> DEFINE a == Len(log[q])
             b == Len(chan[q])
             c == Len(log[Primary])
  <2>7. a \in Nat /\ b \in Nat /\ c \in Nat /\ i \in Nat /\ a + b = i /\ i < c
    BY <2>1, <2>2, <2>6
  <2> HIDE DEF a, b, c
  <2>8. a + (b + 1) = i + 1 /\ i + 1 <= c
    BY <2>7
  <2>3. Len(log[q]) + Len(chan'[q]) = i'
    BY <2>6, <2>8 DEF a, b
  <2>4. ASSUME NEW k \in 1 .. Len(chan'[q])
        PROVE  /\ chan'[q][k].data = log[Primary][Len(log[q]) + k]
               /\ chan'[q][k].kind = "5555" => ~ chan'[q][k].garbled
    <3>1. CASE k = Len(chan[q]) + 1
      <4>1. Len(log[q]) + k = i + 1
        BY <2>8, <3>1 DEF a, b
      <4>q. QED
        BY <1>2, <1>5, <3>1, <4>1 DEF w
    <3>2. CASE k # Len(chan[q]) + 1
      <4>1. k \in 1 .. Len(chan[q])
        BY <1>5, <3>2
      <4>q. QED
        BY <1>5, <2>1, <4>1
    <3>q. QED
      BY <3>1, <3>2
  <2>5. i' <= Len(log[Primary])
    BY <2>6, <2>8 DEF c
  <2>q. QED
    <3> DEFINE Goes(r) ==
            /\ apc[r] = "cleared" => Len(log[r]) = Len(log[Primary])
            /\ apc[r] = "up" =>
                 /\ Len(log[r]) + Len(chan'[r]) =
                      IF Served(r)' THEN i'
                      ELSE IF Asked(r)' THEN hold_queue'[1].glbl_seq_num
                      ELSE Len(log[Primary])
                 /\ \A k \in 1 .. Len(chan'[r]) : chan'[r][k].data = log[Primary][Len(log[r]) + k]
                 /\ \A k \in 1 .. Len(chan'[r]) : chan'[r][k].kind = "5555" => ~ chan'[r][k].garbled
            /\ Served(r)' => i' <= Len(log[Primary])
    <3>1. ASSUME NEW r \in Replicas, r = q PROVE Goes(r)
      <4>1. Served(r)' /\ apc[r] = "up"
        BY <1>6, <1>7, <3>1
      <4>q. QED
        BY <2>3, <2>4, <2>5, <3>1, <4>1
    <3>2. ASSUME NEW r \in Replicas, r # q PROVE Goes(r)
      <4>1. chan'[r] = chan[r] /\ ~ Served(r)' /\ ~ Served(r) /\ ~ Asked(r) /\ ~ Asked(r)'
        BY <1>4, <1>6, <3>2
      <4>q. QED
        BY <1>0, <4>1 DEF Contents, Continues
    <3>3. \A r \in Replicas : Goes(r)
      BY <3>1, <3>2
    <3>q. QED
      BY <1>1, <3>3 DEF Continues
<1>q. QED
  BY <1>10, <1>11, <1>12 DEF Contents

(* The loop of transfer_log ends when the last entry is sent.              *)
LEMMA InvTransferEnd ==
  ASSUME RecoveryInv, TransferEnd
  PROVE  Phases' /\ Contents'
<1> DEFINE q == requestor_id
<1>0. Types /\ Phases /\ Contents
  BY DEF RecoveryInv
<1>1. /\ spc = "transfer_log" /\ spc' = "pop" /\ i >= Len(log[Primary]) /\ q \in Replicas /\ i \in Nat
      /\ UNCHANGED <<hold_queue, requestor_id, i, chan, log, tablet, disabled_flag, apc, ctr, sequence_no>>
  BY <1>0 DEF TransferEnd, Types, storeVars, adminVars
<1>2. /\ Served(q) /\ \A r \in Replicas : ~ Served(r)' /\ (Served(r) <=> r = q)
      /\ hold_queue = <<>> /\ \A r \in Replicas : ~ Asked(r) /\ ~ Asked(r)'
  BY <1>0, <1>1 DEF Served, Asked, Phases, OneRequest
<1>3. /\ apc[q] = "up" /\ \A s \in Servers : apc[s] \notin {"replay", "ask"}
      /\ \A t \in Replicas \ {q} : chan[t] = <<>>
      /\ ~ Writing
  BY <1>0, <1>1, <1>2 DEF Phases, TransferPhase, Transferring
<1>4. ~ Writing' /\ \A r \in Replicas : Transferring(r)' => r = q
  BY <1>1, <1>2, <1>3 DEF Writing, Transferring
<1>5. Phases'
  <2>1. OneRequest'
    BY <1>0, <1>1, <1>2 DEF Phases, OneRequest
  <2>2. WritePhase' /\ TransferPhase' /\ RestartPhase'
    BY <1>1, <1>3, <1>4 DEF WritePhase, TransferPhase, RestartPhase
  <2>q. QED
    BY <2>1, <2>2 DEF Phases
<1>6. Flags' /\ Tablets' /\ LogPrefixes'
  BY <1>0, <1>1 DEF Contents, Flags, Tablets, LogPrefixes
<1>7. Continues'
  <2>1. Len(log[q]) + Len(chan[q]) = i /\ i <= Len(log[Primary])
    BY <1>0, <1>1, <1>2, <1>3 DEF Contents, Continues
  <2>2. Len(log[Primary]) \in Nat
    BY <1>0, Lengths, Constants
  <2>4. i >= Len(log[Primary]) /\ i \in Nat
    BY <1>1
  <2>5. i = Len(log[Primary])
    BY <2>1, <2>2, <2>4
  <2>3. Len(log[q]) + Len(chan[q]) = Len(log[Primary])
    BY <2>1, <2>5
  <2>q. QED
    BY <1>0, <1>1, <1>2, <2>3 DEF Contents, Continues
<1>q. QED
  BY <1>5, <1>6, <1>7 DEF Contents

(* A replica that is up applies the write it gets next; one that is        *)
(* disabled drops the commit.                                              *)
LEMMA InvRecvCommit ==
  ASSUME RecoveryInv, NEW r \in Replicas, RecvCommit(r)
  PROVE  Phases' /\ Contents'
<1> DEFINE w == chan[r][1].data
<1>0. Types /\ Phases /\ Contents /\ r \in Servers /\ r # Primary
  BY Constants DEF RecoveryInv
<1>1. /\ chan[r] # <<>> /\ chan[r][1].kind = "commit" /\ w \in Writes
      /\ chan' = [chan EXCEPT ![r] = Tail(@)]
      /\ IF disabled_flag[r] = 0 THEN process_command(r, w) ELSE UNCHANGED <<log, tablet>>
      /\ UNCHANGED <<hold_queue, spc, requestor_id, i, disabled_flag, apc, ctr, sequence_no>>
  <2>1. chan[r] # <<>>
    BY DEF RecvCommit
  <2>q. QED
    BY <1>0, <2>1, Sent DEF RecvCommit, loopVars, storeVars, adminVars
<1> HIDE DEF w
<1>2. Writing /\ spc = "pop" /\ Len(chan[r]) = 1 /\ hold_queue = <<>>
  <2>1. 1 \in 1 .. Len(chan[r])
    BY <1>0, <1>1, Sent
  <2>q. QED
    BY <1>0, <1>1, <2>1 DEF Writing, Phases, OneRequest
<1>3. /\ apc[Primary] = "up" /\ \A s \in Servers : apc[s] \in {"up", "disabled"}
      /\ \A t \in Replicas : ~ Transferring(t)
  BY <1>0, <1>2 DEF Phases, WritePhase, TransferPhase
<1>4. /\ chan'[r] = <<>> /\ Len(chan'[r]) = 0 /\ \A t \in Replicas : t # r => chan'[t] = chan[t]
  <2>1. chan[r] \in Seq(Items)
    BY <1>0 DEF Types, ChanTypes
  <2>2. Len(chan[r]) = 1
    BY <1>2
  <2>3. Tail(chan[r]) = <<>> /\ Len(Tail(chan[r])) = 0
    BY <2>1, <2>2, LastPopped
  <2>q. QED
    BY <1>0, <1>1, <2>3 DEF Types, ChanTypes
<1>5. /\ \A t \in Replicas : /\ ~ Asked(t) /\ ~ Served(t) /\ ~ Asked(t)' /\ ~ Served(t)'
                            /\ ~ Transferring(t)'
  BY <1>1, <1>3, <1>4 DEF Transferring, Asked, Served
<1>6. Phases'
  <2>1. OneRequest'
    BY <1>0, <1>1, <1>2, <1>4 DEF Phases, OneRequest
  <2>2. WritePhase' /\ TransferPhase' /\ RestartPhase'
    BY <1>1, <1>3, <1>5 DEF WritePhase, TransferPhase, RestartPhase
  <2>q. QED
    BY <2>1, <2>2 DEF Phases
<1>7. Flags'
  BY <1>0, <1>1 DEF Contents, Flags
<1>8. CASE apc[r] = "up"
  <2>1. process_command(r, w)
    BY <1>0, <1>1, <1>8 DEF Contents, Flags
  <2>2. /\ log'[r] = Append(log[r], w) /\ tablet'[r] = Append(tablet[r], w)
        /\ \A t \in Servers : t # r => log'[t] = log[t] /\ tablet'[t] = tablet[t]
        /\ Len(log'[r]) = Len(log[r]) + 1
        /\ \A k \in 1 .. Len(log[r]) : log'[r][k] = log[r][k]
        /\ log'[r][Len(log[r]) + 1] = w
    BY <1>0, <1>1, <2>1, Processed DEF Types
  <2>3. Len(log[r]) \in Nat /\ Len(log[Primary]) \in Nat
    BY <1>0, Lengths, Constants
  <2>4. Len(log[r]) + 1 = Len(log[Primary]) /\ log[Primary][Len(log[r]) + 1] = w
    <3>1. /\ Len(log[r]) + Len(chan[r]) = Len(log[Primary])
          /\ \A k \in 1 .. Len(chan[r]) : chan[r][k].data = log[Primary][Len(log[r]) + k]
      BY <1>0, <1>5, <1>8 DEF Contents, Continues
    <3>q. QED
      BY <1>2, <2>3, <3>1 DEF w
  <2>5. Tablets'
    <3> SUFFICES ASSUME NEW s \in Servers
                 PROVE  /\ apc[s] = "up" => tablet'[s] = log'[s]
                        /\ apc[s] = "disabled" => tablet'[s] = <<>>
      BY <1>1, <1>3 DEF Tablets
    <3>q. QED
      BY <1>0, <1>8, <2>2 DEF Contents, Tablets
  <2>6. LogPrefixes'
    <3> SUFFICES ASSUME NEW s \in Servers
                 PROVE  /\ Len(log'[s]) <= Len(log'[Primary])
                        /\ \A k \in 1 .. Len(log'[s]) : log'[s][k] = log'[Primary][k]
      BY DEF LogPrefixes
    <3>0. log'[Primary] = log[Primary]
      BY <1>0, <2>2, Constants
    <3>1. CASE s = r
      <4>1. \A k \in 1 .. Len(log[r]) : log[r][k] = log[Primary][k]
        BY <1>0 DEF Contents, LogPrefixes
      <4>2. ASSUME NEW k \in 1 .. Len(log'[r]) PROVE log'[r][k] = log[Primary][k]
        <5>1. CASE k = Len(log[r]) + 1
          BY <2>2, <2>4, <5>1
        <5>2. CASE k # Len(log[r]) + 1
          <6>1. k \in 1 .. Len(log[r])
            BY <2>2, <2>3, <5>2
          <6>q. QED
            BY <2>2, <4>1, <6>1
        <5>q. QED
          BY <5>1, <5>2
      <4>q. QED
        BY <2>2, <2>3, <2>4, <3>0, <3>1, <4>2
    <3>2. CASE s # r
      BY <1>0, <2>2, <3>0, <3>2 DEF Contents, LogPrefixes
    <3>q. QED
      BY <3>1, <3>2
  <2>7. Continues'
    <3> SUFFICES ASSUME NEW t \in Replicas, apc[t] = "up"
                 PROVE  /\ Len(log'[t]) + Len(chan'[t]) = Len(log'[Primary])
                        /\ \A k \in 1 .. Len(chan'[t]) :
                             /\ chan'[t][k].data = log'[Primary][Len(log'[t]) + k]
                             /\ chan'[t][k].kind = "5555" => ~ chan'[t][k].garbled
      BY <1>1, <1>3, <1>5, Constants DEF Continues
    <3>1. log'[Primary] = log[Primary]
      BY <1>0, <2>2, Constants
    <3>2. CASE t = r
      <4>1. Len(log'[r]) = Len(log[Primary]) /\ Len(log[Primary]) \in Nat /\ Len(chan'[r]) = 0
        BY <1>4, <2>2, <2>3, <2>4
      <4>q. QED
        BY <3>1, <3>2, <4>1
    <3>3. CASE t # r
      <4>1. log'[t] = log[t] /\ chan'[t] = chan[t]
        BY <1>4, <2>2, <3>3, Constants
      <4>q. QED
        BY <1>0, <1>5, <3>1, <4>1 DEF Contents, Continues
    <3>q. QED
      BY <3>2, <3>3
  <2>q. QED
    BY <1>6, <1>7, <2>5, <2>6, <2>7 DEF Contents
<1>9. CASE apc[r] = "disabled"
  <2>1. UNCHANGED <<log, tablet>>
    BY <1>0, <1>1, <1>9 DEF Contents, Flags
  <2>2. Tablets' /\ LogPrefixes'
    BY <1>0, <1>1, <2>1 DEF Contents, Tablets, LogPrefixes
  <2>3. Continues'
    <3> SUFFICES ASSUME NEW t \in Replicas, apc[t] = "up"
                 PROVE  /\ Len(log[t]) + Len(chan'[t]) = Len(log[Primary])
                        /\ \A k \in 1 .. Len(chan'[t]) :
                             /\ chan'[t][k].data = log[Primary][Len(log[t]) + k]
                             /\ chan'[t][k].kind = "5555" => ~ chan'[t][k].garbled
      <4>1. \A t \in Replicas : apc[t] # "cleared" /\ ~ Asked(t)' /\ ~ Served(t)'
        BY <1>3, <1>5, Constants
      <4>q. QED
        BY <1>1, <2>1, <4>1 DEF Continues
    <3>1. chan'[t] = chan[t]
      BY <1>4, <1>9
    <3>q. QED
      BY <1>0, <1>5, <3>1 DEF Contents, Continues
  <2>q. QED
    BY <1>6, <1>7, <2>2, <2>3 DEF Contents
<1>q. QED
  BY <1>0, <1>3, <1>8, <1>9

(* A replica applies the next entry that was transferred to it.            *)
LEMMA InvRecvTransfer ==
  ASSUME RecoveryInv, NEW r \in Replicas, RecvTransfer(r)
  PROVE  Phases' /\ Contents'
<1> DEFINE w == chan[r][1].data
<1>0. Types /\ Phases /\ Contents /\ r \in Servers /\ r # Primary
  BY Constants DEF RecoveryInv
<1>1. /\ chan[r] # <<>> /\ chan[r][1].kind = "5555" /\ w \in Writes
      /\ chan' = [chan EXCEPT ![r] = Tail(@)]
      /\ IF disabled_flag[r] = 0 /\ ~ chan[r][1].garbled
           THEN process_command(r, w) ELSE UNCHANGED <<log, tablet>>
      /\ UNCHANGED <<hold_queue, spc, requestor_id, i, disabled_flag, apc, ctr, sequence_no>>
  <2>1. chan[r] # <<>>
    BY DEF RecvTransfer
  <2>q. QED
    BY <1>0, <2>1, Sent DEF RecvTransfer, loopVars, storeVars, adminVars
<1>2. /\ Transferring(r) /\ apc[r] = "up" /\ \A s \in Servers : apc[s] \notin {"replay", "ask"}
      /\ \A t \in Replicas \ {r} : chan[t] = <<>>
      /\ ~ Writing /\ hold_queue = <<>>
  BY <1>0, <1>1 DEF Transferring, Phases, OneRequest, TransferPhase
<1>3. /\ Len(chan[r]) \in Nat /\ Len(chan[r]) >= 1 /\ Len(chan'[r]) = Len(chan[r]) - 1
      /\ \A k \in 1 .. Len(chan[r]) - 1 : chan'[r][k] = chan[r][k + 1]
      /\ \A t \in Replicas : t # r => chan'[t] = chan[t]
      /\ \A k \in 1 .. Len(chan[r]) : chan[r][k].kind \in {"commit", "5555"}
  <2>1. chan'[r] = Tail(chan[r]) /\ \A t \in Replicas : t # r => chan'[t] = chan[t]
    BY <1>0, <1>1 DEF Types, ChanTypes
  <2>2. chan[r] # <<>>
    BY <1>1
  <2>3. /\ Len(chan[r]) \in Nat /\ Len(chan[r]) >= 1 /\ Len(Tail(chan[r])) = Len(chan[r]) - 1
        /\ \A k \in 1 .. Len(chan[r]) - 1 : Tail(chan[r])[k] = chan[r][k + 1]
        /\ \A k \in 1 .. Len(chan[r]) : chan[r][k].kind \in {"commit", "5555"}
    BY <1>0, <2>2, Sent
  <2>q. QED
    BY <2>1, <2>3
<1>4. \A t \in Replicas : ~ Asked(t) /\ ~ Asked(t)' /\ Served(t)' = Served(t) /\ (Served(t) => t = r)
  <2>1. \A t \in Replicas : Served(t) => t = r
    BY <1>0, <1>1, <1>2 DEF Transferring, Phases, TransferPhase
  <2>q. QED
    BY <1>1, <1>2, <2>1 DEF Asked, Served
<1>5. Transferring(r) /\ ~ Writing' /\ \A t \in Replicas : Transferring(t)' => t = r
  <2>1. \A k \in 1 .. Len(chan'[r]) : chan'[r][k].kind # "commit"
    <3>1. \A k \in 1 .. Len(chan[r]) : chan[r][k].kind # "commit"
      BY <1>2 DEF Writing
    <3>2. ASSUME NEW k \in 1 .. Len(chan'[r]) PROVE chan'[r][k].kind # "commit"
      <4>1. k \in 1 .. Len(chan[r]) - 1 /\ k + 1 \in 1 .. Len(chan[r])
        BY <1>3
      <4>q. QED
        BY <1>3, <3>1, <4>1
    <3>q. QED
      BY <3>2
  <2>2. \A t \in Replicas : t # r => chan'[t] = <<>> /\ Len(chan'[t]) = 0
    BY <1>2, <1>3
  <2>3. ~ Writing'
    BY <1>1, <1>2, <2>1, <2>2 DEF Writing
  <2>q. QED
    BY <1>2, <1>4, <2>2, <2>3 DEF Transferring
<1>6. Phases'
  <2>1. OneRequest'
    BY <1>1, <1>2, <1>5 DEF OneRequest, Writing
  <2>2. WritePhase' /\ TransferPhase' /\ RestartPhase'
    BY <1>1, <1>2, <1>3, <1>5 DEF WritePhase, TransferPhase, RestartPhase
  <2>q. QED
    BY <2>1, <2>2 DEF Phases
<1>7. Flags'
  BY <1>0, <1>1 DEF Contents, Flags
<1>8. /\ \A k \in 1 .. Len(chan[r]) : chan[r][k].data = log[Primary][Len(log[r]) + k]
      /\ \A k \in 1 .. Len(chan[r]) : chan[r][k].kind = "5555" => ~ chan[r][k].garbled
  BY <1>0, <1>2 DEF Contents, Continues
<1>9. process_command(r, w)
  <2>1. 1 \in 1 .. Len(chan[r])
    BY <1>3
  <2>2. ~ chan[r][1].garbled
    BY <1>1, <1>8, <2>1
  <2>q. QED
    BY <1>0, <1>1, <1>2, <2>2 DEF Contents, Flags
<1>10. /\ log'[r] = Append(log[r], w) /\ tablet'[r] = Append(tablet[r], w)
       /\ \A t \in Servers : t # r => log'[t] = log[t] /\ tablet'[t] = tablet[t]
       /\ Len(log'[r]) = Len(log[r]) + 1
       /\ \A k \in 1 .. Len(log[r]) : log'[r][k] = log[r][k]
       /\ log'[r][Len(log[r]) + 1] = w
  BY <1>0, <1>1, <1>9, Processed DEF Types
<1> DEFINE a == Len(log[r])
           b == Len(chan[r])
           c == Len(log[Primary])
           n == IF Served(r) THEN i ELSE c
<1>11. a \in Nat /\ b \in Nat /\ c \in Nat /\ b >= 1
  BY <1>0, <1>3, Lengths, Constants
<1>12. a + b = n /\ n <= c
  <2>1. a + b = n
    BY <1>0, <1>2, <1>4 DEF Contents, Continues
  <2>2. Served(r) => i <= c
    BY <1>0 DEF Contents, Continues
  <2> HIDE DEF a, b, c
  <2>q. QED
    BY <1>11, <2>1, <2>2
<1>13. n' = n /\ c' = c /\ log'[Primary] = log[Primary]
  BY <1>0, <1>1, <1>4, <1>10, Constants
<1>14. w = log[Primary][a + 1]
  BY <1>8, <1>11
<1>15. Len(log'[r]) = a + 1 /\ Len(chan'[r]) = b - 1
  BY <1>3, <1>10
<1>16. a + 1 <= c /\ (a + 1) + (b - 1) = n
  <2> HIDE DEF a, b, c, n
  <2>1. n \in Int
    BY <1>11, <1>12
  <2>q. QED
    BY <1>11, <1>12, <2>1
<1>17. Tablets'
  <2> SUFFICES ASSUME NEW s \in Servers
               PROVE  /\ apc[s] \in {"up", "ask"} => tablet'[s] = log'[s]
                      /\ apc[s] \in {"cleared", "disabled"} => tablet'[s] = <<>>
    BY <1>1, <1>2 DEF Tablets
  <2>q. QED
    BY <1>0, <1>2, <1>10 DEF Contents, Tablets
<1>18. LogPrefixes'
  <2> SUFFICES ASSUME NEW s \in Servers
               PROVE  /\ Len(log'[s]) <= Len(log[Primary])
                      /\ \A k \in 1 .. Len(log'[s]) : log'[s][k] = log[Primary][k]
    BY <1>13 DEF LogPrefixes
  <2>1. CASE s = r
    <3>1. \A k \in 1 .. a : log[r][k] = log[Primary][k]
      BY <1>0 DEF Contents, LogPrefixes
    <3>2. ASSUME NEW k \in 1 .. a + 1 PROVE log'[r][k] = log[Primary][k]
      <4>1. CASE k = a + 1
        BY <1>10, <1>14, <4>1
      <4>2. CASE k # a + 1
        <5>1. k \in 1 .. a
          BY <1>11, <4>2
        <5>q. QED
          BY <1>10, <3>1, <5>1
      <4>q. QED
        BY <4>1, <4>2
    <3>q. QED
      BY <1>15, <1>16, <2>1, <3>2
  <2>2. CASE s # r
    BY <1>0, <1>10, <2>2 DEF Contents, LogPrefixes
  <2>q. QED
    BY <2>1, <2>2
<1>19. Continues'
  <2>1. Len(log'[r]) + Len(chan'[r]) = n
    BY <1>15, <1>16
  <2>2. ASSUME NEW k \in 1 .. Len(chan'[r])
        PROVE  /\ chan'[r][k].data = log[Primary][Len(log'[r]) + k]
               /\ chan'[r][k].kind = "5555" => ~ chan'[r][k].garbled
    <3>0. k \in 1 .. b - 1
      BY <1>15
    <3> HIDE DEF a, b
    <3>1. k + 1 \in 1 .. b /\ k \in Nat
      BY <1>11, <3>0
    <3>2. a + (k + 1) = (a + 1) + k
      BY <1>11, <3>1
    <3>3. chan'[r][k] = chan[r][k + 1]
      BY <1>3, <3>0 DEF b
    <3>4. /\ chan[r][k + 1].data = log[Primary][a + (k + 1)]
          /\ chan[r][k + 1].kind = "5555" => ~ chan[r][k + 1].garbled
      BY <1>8, <3>1 DEF a, b
    <3>q. QED
      BY <1>15, <3>2, <3>3, <3>4
  <2>3. \A t \in Replicas : t # r => /\ log'[t] = log[t] /\ chan'[t] = chan[t] /\ ~ Served(t) /\ ~ Served(t)'
    BY <1>3, <1>4, <1>10, Constants
  <2>4. Served(r) => i <= Len(log[Primary])
    BY <1>0 DEF Contents, Continues
  <2> DEFINE Goes(t) ==
          /\ apc[t] = "cleared" => Len(log'[t]) = Len(log[Primary])
          /\ apc[t] = "up" =>
               /\ Len(log'[t]) + Len(chan'[t]) =
                    IF Served(t)' THEN i ELSE IF Asked(t)' THEN hold_queue'[1].glbl_seq_num ELSE Len(log[Primary])
               /\ \A k \in 1 .. Len(chan'[t]) : chan'[t][k].data = log[Primary][Len(log'[t]) + k]
               /\ \A k \in 1 .. Len(chan'[t]) : chan'[t][k].kind = "5555" => ~ chan'[t][k].garbled
          /\ Served(t)' => i <= Len(log[Primary])
  <2>5. Goes(r)
    <3>1. ~ Asked(r)' /\ Served(r)' = Served(r) /\ apc[r] = "up"
      BY <1>2, <1>4
    <3>q. QED
      BY <2>1, <2>2, <2>4, <3>1
  <2>6. ASSUME NEW t \in Replicas, t # r PROVE Goes(t)
    <3>1. log'[t] = log[t] /\ chan'[t] = chan[t] /\ ~ Served(t) /\ ~ Served(t)' /\ ~ Asked(t) /\ ~ Asked(t)'
      BY <1>4, <2>3, <2>6
    <3>2. /\ apc[t] = "cleared" => Len(log[t]) = Len(log[Primary])
          /\ apc[t] = "up" =>
               /\ Len(log[t]) + Len(chan[t]) = Len(log[Primary])
               /\ \A k \in 1 .. Len(chan[t]) : chan[t][k].data = log[Primary][Len(log[t]) + k]
               /\ \A k \in 1 .. Len(chan[t]) : chan[t][k].kind = "5555" => ~ chan[t][k].garbled
      BY <1>0, <3>1 DEF Contents, Continues
    <3>q. QED
      BY <3>1, <3>2
  <2>7. \A t \in Replicas : Goes(t)
    BY <2>5, <2>6
  <2>8. i' = i /\ apc' = apc /\ log'[Primary] = log[Primary]
    BY <1>1, <1>13
  <2>q. QED
    BY <2>7, <2>8 DEF Continues
<1>q. QED
  BY <1>6, <1>7, <1>17, <1>18, <1>19 DEF Contents

(* Steps that leave what is on its way alone keep it in its phase.         *)
LEMMA PhasesKept ==
  ASSUME Phases, NEW s \in Servers,
         UNCHANGED <<hold_queue, spc, requestor_id, i, chan>>,
         apc[s] \in {"replay", "ask"}, apc'[s] \in {"replay", "ask"},
         \A t \in Servers : t # s => apc'[t] = apc[t]
  PROVE  Phases' /\ Quiet
<1>1. Quiet /\ \A t \in Servers : apc[t] \in {"replay", "ask"} => t = s
  BY DEF Phases, RestartPhase
<1>2. /\ Writing' = Writing /\ Quiet' = Quiet
      /\ \A r \in Replicas : Transferring(r)' = Transferring(r)
  BY DEF Writing, Quiet, Asked, Served, Transferring
<1>3. ~ Writing /\ \A r \in Replicas : ~ Transferring(r)
  BY Constants DEF Phases, WritePhase, TransferPhase
<1>4. OneRequest' /\ WritePhase' /\ TransferPhase'
  BY <1>2, <1>3 DEF Phases, OneRequest, WritePhase, TransferPhase
<1>5. RestartPhase'
  BY <1>1, <1>2 DEF RestartPhase
<1>q. QED
  BY <1>1, <1>4, <1>5 DEF Phases

(* The admin restarts a disabled server when nothing is on its way.        *)
LEMMA InvRestart ==
  ASSUME RecoveryInv, Careful, NEW s \in Servers, Restart(s)
  PROVE  Phases' /\ Contents'
<1>0. Types /\ Phases /\ Contents
  BY DEF RecoveryInv
<1>1. /\ Quiet /\ apc[s] = "disabled" /\ \A r \in Servers : apc[r] \in {"up", "disabled"}
      /\ UNCHANGED <<hold_queue, spc, requestor_id, i, chan, log, tablet, disabled_flag>>
  BY DEF Restart, Careful, loopVars, storeVars
<1>2. /\ apc'[s] = "replay" /\ sequence_no'[s] = Len(log[s]) /\ ctr'[s] = 0
      /\ \A t \in Servers : t # s => /\ apc'[t] = apc[t] /\ sequence_no'[t] = sequence_no[t]
                                    /\ ctr'[t] = ctr[t]
  BY <1>0 DEF Restart, Types
<1>3. /\ ~ Writing' /\ Quiet'
      /\ \A r \in Replicas : ~ Transferring(r)' /\ Asked(r)' = Asked(r) /\ Served(r)' = Served(r)
  BY <1>0, <1>1, QuietFacts DEF Writing, Asked, Served, Transferring, Quiet
<1>4. Phases'
  <2>1. OneRequest' /\ WritePhase' /\ TransferPhase'
    BY <1>0, <1>1, <1>3 DEF Phases, OneRequest, WritePhase, TransferPhase
  <2>2. RestartPhase'
    BY <1>1, <1>2, <1>3 DEF RestartPhase
  <2>q. QED
    BY <2>1, <2>2 DEF Phases
<1>5. Flags' /\ LogPrefixes'
  BY <1>0, <1>1, <1>2 DEF Contents, Flags, LogPrefixes
<1>6. Tablets'
  <2>1. tablet[s] = <<>> /\ Len(tablet[s]) = 0
    <3>1. tablet[s] = <<>>
      BY <1>0, <1>1 DEF Contents, Tablets
    <3>q. QED
      BY <3>1
  <2> SUFFICES ASSUME NEW t \in Servers
               PROVE  /\ apc'[t] \in {"up", "ask"} => tablet[t] = log[t]
                      /\ apc'[t] \in {"cleared", "disabled"} => tablet[t] = <<>>
                      /\ apc'[t] = "replay" =>
                           /\ sequence_no'[t] = Len(log[t]) /\ Len(tablet[t]) = ctr'[t]
                           /\ \A k \in 1 .. ctr'[t] : tablet[t][k] = log[t][k]
    BY <1>1 DEF Tablets
  <2>q. QED
    BY <1>0, <1>2, <2>1 DEF Contents, Tablets
<1>7. Continues'
  BY <1>0, <1>1, <1>2, <1>3, Constants DEF Contents, Continues
<1>q. QED
  BY <1>4, <1>5, <1>6, <1>7 DEF Contents

(* A replay applies the entries of the log file one by one.                *)
LEMMA InvReplayEntry ==
  ASSUME RecoveryInv, Reproduced, NEW s \in Servers, ReplayEntry(s)
  PROVE  Phases' /\ Contents'
<1> DEFINE n == ctr[s]
           w == log[s][n + 1]
<1>0. Types /\ Replays /\ Phases /\ Contents
  BY DEF RecoveryInv
<1>1. /\ apc[s] = "replay" /\ n < sequence_no[s] /\ n \in Nat
      /\ UNCHANGED <<hold_queue, spc, requestor_id, i, chan, log, disabled_flag, apc, sequence_no>>
  BY <1>0 DEF ReplayEntry, loopVars, Types
<1>2. sequence_no[s] = Len(log[s]) /\ Len(tablet[s]) = n /\ \A k \in 1 .. n : tablet[s][k] = log[s][k]
  BY <1>0, <1>1 DEF Contents, Tablets
<1>3. w \in Writes
  <2>1. n + 1 \in 1 .. Len(log[s]) /\ log[s] \in Seq(Writes)
    BY <1>0, <1>1, <1>2 DEF Types, LogTypes
  <2>q. QED
    BY <2>1
<1>4. /\ tablet'[s] = Append(tablet[s], w) /\ ctr'[s] = n + 1
      /\ \A t \in Servers : t # s => tablet'[t] = tablet[t] /\ ctr'[t] = ctr[t]
  <2>1. tablet' = [tablet EXCEPT ![s] = Append(@, w)] /\ ctr' = [ctr EXCEPT ![s] = @ + 1]
    BY <1>3 DEF ReplayEntry, Reproduced
  <2>q. QED
    BY <1>0, <2>1 DEF Types, LogTypes
<1> HIDE DEF w
<1>5. /\ Len(tablet'[s]) = n + 1 /\ tablet'[s][n + 1] = w
      /\ \A k \in 1 .. n : tablet'[s][k] = tablet[s][k]
  <2>1. tablet[s] \in Seq(Writes)
    BY <1>0 DEF Types, LogTypes
  <2>q. QED
    BY <1>2, <1>3, <1>4, <2>1, Appended
<1>6. Phases'
  BY <1>0, <1>1, PhasesKept
<1>7. Flags' /\ LogPrefixes'
  BY <1>0, <1>1 DEF Contents, Flags, LogPrefixes
<1>8. Tablets'
  <2> SUFFICES ASSUME NEW t \in Servers
               PROVE  /\ apc[t] \in {"up", "ask"} => tablet'[t] = log[t]
                      /\ apc[t] \in {"cleared", "disabled"} => tablet'[t] = <<>>
                      /\ apc[t] = "replay" =>
                           /\ sequence_no[t] = Len(log[t]) /\ Len(tablet'[t]) = ctr'[t]
                           /\ \A k \in 1 .. ctr'[t] : tablet'[t][k] = log[t][k]
    BY <1>1 DEF Tablets
  <2>1. CASE t = s
    <3>1. ASSUME NEW k \in 1 .. n + 1 PROVE tablet'[s][k] = log[s][k]
      <4>1. CASE k = n + 1
        BY <1>5, <4>1 DEF w
      <4>2. CASE k # n + 1
        <5>1. k \in 1 .. n
          BY <1>1, <4>2
        <5>q. QED
          BY <1>2, <1>5, <5>1
      <4>q. QED
        BY <4>1, <4>2
    <3>q. QED
      BY <1>1, <1>2, <1>4, <1>5, <2>1, <3>1
  <2>2. CASE t # s
    BY <1>0, <1>4, <2>2 DEF Contents, Tablets
  <2>q. QED
    BY <2>1, <2>2
<1>9. Continues'
  <2>1. \A r \in Replicas : Asked(r)' = Asked(r) /\ Served(r)' = Served(r)
    BY <1>1 DEF Asked, Served
  <2>q. QED
    BY <1>0, <1>1, <2>1 DEF Contents, Continues
<1>q. QED
  BY <1>6, <1>7, <1>8, <1>9 DEF Contents

(* When the replay is over the tablet is what the log file says.           *)
LEMMA InvEnable ==
  ASSUME RecoveryInv, NEW s \in Servers, Enable(s)
  PROVE  Phases' /\ Contents'
<1>0. Types /\ Phases /\ Contents
  BY DEF RecoveryInv
<1>1. /\ apc[s] = "replay" /\ ctr[s] = sequence_no[s]
      /\ UNCHANGED <<hold_queue, spc, requestor_id, i, chan, log, tablet, ctr, sequence_no>>
  BY DEF Enable, loopVars, storeVars
<1>2. /\ apc'[s] = "ask" /\ disabled_flag'[s] = 0
      /\ \A t \in Servers : t # s => apc'[t] = apc[t] /\ disabled_flag'[t] = disabled_flag[t]
  BY <1>0 DEF Enable, Types
<1>3. tablet[s] = log[s]
  <2>1. Len(tablet[s]) = Len(log[s]) /\ \A k \in 1 .. Len(log[s]) : tablet[s][k] = log[s][k]
    BY <1>0, <1>1 DEF Contents, Tablets
  <2>2. tablet[s] \in Seq(Writes) /\ log[s] \in Seq(Writes)
    BY <1>0 DEF Types, LogTypes
  <2>q. QED
    BY <2>1, <2>2, SameSeq
<1>4. Phases'
  BY <1>0, <1>1, <1>2, PhasesKept
<1>5. Flags' /\ Tablets' /\ LogPrefixes'
  BY <1>0, <1>1, <1>2, <1>3 DEF Contents, Flags, Tablets, LogPrefixes
<1>6. Continues'
  <2>1. \A r \in Replicas : (Asked(r)' <=> Asked(r)) /\ (Served(r)' <=> Served(r))
    BY <1>1 DEF Asked, Served
  <2>2. UNCHANGED <<i, log, chan, hold_queue>>
    BY <1>1
  <2>3. \A r \in Replicas : apc'[r] \in {"cleared", "up"} => apc[r] = apc'[r]
    BY <1>2, Constants
  <2>q. QED
    BY <1>0, <2>1, <2>2, <2>3 DEF Contents, Continues
<1>q. QED
  BY <1>4, <1>5, <1>6 DEF Contents

(* The request for the missing entries is the only thing on its way.       *)
LEMMA InvAskTransfer ==
  ASSUME RecoveryInv, NEW s \in Servers, AskTransfer(s)
  PROVE  Phases' /\ Contents'
<1> DEFINE m == [kind |-> "-TRANSFER", requestor_id |-> s, glbl_seq_num |-> Len(log[s])]
<1>0. Types /\ Phases /\ Contents
  BY DEF RecoveryInv
<1>1. /\ apc[s] = "ask" /\ hold_queue' = IF s = Primary THEN hold_queue ELSE Append(hold_queue, m)
      /\ m.kind = "-TRANSFER" /\ m.requestor_id = s /\ m.glbl_seq_num = Len(log[s])
      /\ UNCHANGED <<spc, requestor_id, i, chan, log, tablet, disabled_flag, ctr, sequence_no>>
  BY DEF AskTransfer, loopVars, storeVars
<1> HIDE DEF m
<1>2. apc'[s] = "up" /\ \A t \in Servers : t # s => apc'[t] = apc[t]
  BY <1>0 DEF AskTransfer, Types
<1>3. Quiet /\ \A t \in Servers : apc'[t] \notin {"replay", "ask"}
  BY <1>0, <1>1, <1>2 DEF Phases, RestartPhase
<1>4. /\ ~ Writing /\ hold_queue = <<>> /\ Len(hold_queue) = 0 /\ spc = "pop"
      /\ \A r \in Replicas : /\ ~ Asked(r) /\ ~ Served(r) /\ ~ Transferring(r)
                           /\ chan[r] = <<>> /\ Len(chan[r]) = 0
  BY <1>0, <1>3, QuietFacts
<1>5. Flags' /\ Tablets' /\ LogPrefixes'
  BY <1>0, <1>1, <1>2 DEF Contents, Flags, Tablets, LogPrefixes
<1>6. RestartPhase'
  BY <1>3 DEF RestartPhase
<1>7. CASE s = Primary
  <2>1. /\ hold_queue' = hold_queue /\ ~ Writing'
        /\ \A r \in Replicas : ~ Asked(r)' /\ ~ Served(r)' /\ ~ Transferring(r)'
    BY <1>1, <1>4, <1>7 DEF Writing, Asked, Served, Transferring
  <2>2. OneRequest' /\ WritePhase' /\ TransferPhase'
    BY <1>0, <1>1, <2>1 DEF Phases, OneRequest, WritePhase, TransferPhase
  <2>4. UNCHANGED <<i, log, chan, hold_queue>>
    BY <1>1, <2>1
  <2>5. \A r \in Replicas : apc'[r] = apc[r]
    BY <1>2, <1>7, Constants
  <2>3. Continues'
    BY <1>0, <1>4, <2>1, <2>4, <2>5 DEF Contents, Continues
  <2>q. QED
    BY <1>5, <1>6, <2>2, <2>3 DEF Phases, Contents
<1>8. CASE s # Primary
  <2>0. s \in Replicas
    BY <1>8, Constants
  <2>1. hold_queue' # <<>> /\ Len(hold_queue') = 1 /\ hold_queue'[1] = m
    BY <1>1, <1>4, <1>8, FirstRequest
  <2>2. /\ ~ Writing'
        /\ \A r \in Replicas : ~ Served(r)' /\ (Asked(r)' <=> r = s) /\ (Transferring(r)' <=> r = s)
    BY <1>1, <1>4, <2>1 DEF Writing, Asked, Served, Transferring
  <2>3. OneRequest'
    <3>1. Len(hold_queue') <= 1
      BY <2>1
    <3>2. \A r \in Replicas : \A k \in 1 .. Len(chan'[r]) : chan'[r][k].kind # "commit"
      BY <2>2 DEF Writing
    <3>q. QED
      BY <1>1, <1>4, <3>1, <3>2 DEF OneRequest
  <2>4. WritePhase' /\ TransferPhase'
    BY <1>1, <1>2, <1>3, <1>4, <2>2 DEF WritePhase, TransferPhase
  <2>5. Continues'
    <3> DEFINE Goes(r) ==
            /\ apc'[r] = "cleared" => Len(log[r]) = Len(log[Primary])
            /\ apc'[r] = "up" =>
                 /\ Len(log[r]) + Len(chan[r]) =
                      IF Served(r)' THEN i
                      ELSE IF Asked(r)' THEN hold_queue'[1].glbl_seq_num
                      ELSE Len(log[Primary])
                 /\ \A k \in 1 .. Len(chan[r]) : chan[r][k].data = log[Primary][Len(log[r]) + k]
                 /\ \A k \in 1 .. Len(chan[r]) : chan[r][k].kind = "5555" => ~ chan[r][k].garbled
            /\ Served(r)' => i <= Len(log[Primary])
    <3>1. Goes(s)
      <4>1. Len(chan[s]) = 0 /\ Len(log[s]) \in Nat
        BY <1>0, <1>4, <2>0, Lengths
      <4>2. Len(log[s]) + Len(chan[s]) = Len(log[s]) /\ \A k \in 1 .. Len(chan[s]) : FALSE
        BY <4>1
      <4>3. ~ Served(s)' /\ Asked(s)' /\ hold_queue'[1].glbl_seq_num = Len(log[s])
        BY <1>1, <2>0, <2>1, <2>2
      <4>q. QED
        BY <1>2, <4>2, <4>3
    <3>2. ASSUME NEW r \in Replicas, r # s PROVE Goes(r)
      <4>1. /\ ~ Served(r)' /\ ~ Asked(r)' /\ ~ Served(r) /\ ~ Asked(r) /\ apc'[r] = apc[r]
        BY <1>2, <1>4, <2>2, <3>2, Constants
      <4>q. QED
        BY <1>0, <4>1 DEF Contents, Continues
    <3>3. \A r \in Replicas : Goes(r)
      BY <3>1, <3>2
    <3>q. QED
      BY <1>1, <3>3 DEF Continues
  <2>q. QED
    BY <1>5, <1>6, <2>3, <2>4, <2>5 DEF Phases, Contents
<1>q. QED
  BY <1>7, <1>8

(* The system starts with everything empty and every server up.            *)
LEMMA InvInit == Init => RecoveryInv
<1> SUFFICES ASSUME Init PROVE RecoveryInv
  OBVIOUS
<1>1. Types /\ Replays
  BY TypesInit
<1>2. Quiet /\ \A s \in Servers : apc[s] = "up"
  BY DEF Init, Quiet
<1>3. /\ ~ Writing /\ hold_queue = <<>> /\ Len(hold_queue) = 0 /\ spc = "pop"
      /\ \A r \in Replicas : /\ ~ Asked(r) /\ ~ Served(r) /\ ~ Transferring(r)
                           /\ chan[r] = <<>> /\ Len(chan[r]) = 0
  BY <1>1, <1>2, QuietFacts
<1>4. Phases
  BY <1>2, <1>3, Constants DEF Phases, OneRequest, WritePhase, TransferPhase, RestartPhase
<1>5. \A s \in Servers : /\ log[s] = <<>> /\ tablet[s] = <<>> /\ disabled_flag[s] = 0
                        /\ Len(log[s]) = 0
  BY DEF Init
<1>6. Flags /\ Tablets /\ LogPrefixes
  <2>1. Flags /\ Tablets
    BY <1>2, <1>5 DEF Flags, Tablets
  <2>2. LogPrefixes
    BY <1>5, Constants DEF LogPrefixes
  <2>q. QED
    BY <2>1, <2>2
<1>7. Continues
  <2> SUFFICES ASSUME NEW r \in Replicas
               PROVE  /\ Len(log[r]) + Len(chan[r]) = Len(log[Primary])
                      /\ \A k \in 1 .. Len(chan[r]) : FALSE
    BY <1>2, <1>3, Constants DEF Continues
  <2>1. Len(log[r]) = 0 /\ Len(log[Primary]) = 0 /\ Len(chan[r]) = 0
    BY <1>3, <1>5, Constants
  <2>q. QED
    BY <2>1
<1>q. QED
  BY <1>1, <1>4, <1>6, <1>7 DEF RecoveryInv, Contents

(* Every step of a careful group keeps the invariant.                      *)
LEMMA InvNext ==
  ASSUME Careful, Reproduced
  PROVE  RecoveryInv /\ [Next]_vars => RecoveryInv'
<1> SUFFICES ASSUME RecoveryInv, [Next]_vars PROVE RecoveryInv'
  OBVIOUS
<1>1. Types' /\ Replays'
  BY TypesNext DEF RecoveryInv
<1>2. Phases' /\ Contents'
  <2>1. ASSUME NEW w \in Writes, Request(w) PROVE Phases' /\ Contents'
    BY <2>1, InvRequest
  <2>2. CASE Sequencer
    BY <2>2, InvCommit, InvTransfer, InvTransferEntry, InvTransferEnd DEF Sequencer, transfer_log
  <2>3. ASSUME NEW r \in Replicas, Listener(r) PROVE Phases' /\ Contents'
    BY <2>3, InvRecvCommit, InvRecvTransfer DEF Listener
  <2>4. ASSUME NEW s \in Handled, Disable(s) \/ Restart(s) \/ Server(s) PROVE Phases' /\ Contents'
    <3>1. s \in Servers
      BY Constants
    <3>q. QED
      BY <2>4, <3>1, InvDisable, InvRestart, InvReplayEntry, InvEnable, InvAskTransfer DEF Server
  <2>5. CASE UNCHANGED vars
    <3>1. Phases' = Phases /\ Contents' = Contents
      BY <2>5 DEF vars, loopVars, storeVars, adminVars, Phases, Contents, OneRequest, WritePhase, TransferPhase,
                 RestartPhase, Flags, Tablets, LogPrefixes, Continues, Writing, Quiet, Transferring,
                 Asked, Served
    <3>q. QED
      BY <3>1 DEF RecoveryInv
  <2>q. QED
    BY <2>1, <2>2, <2>3, <2>4, <2>5 DEF Next
<1>q. QED
  BY <1>1, <1>2 DEF RecoveryInv

(* When nothing is on its way, a server that is up has everything.         *)
LEMMA InvRecovered == RecoveryInv => Recovered
<1> SUFFICES ASSUME RecoveryInv, Quiet, NEW s \in Servers, apc[s] = "up"
             PROVE  tablet[s] = log[Primary] /\ log[s] = log[Primary]
  BY DEF Recovered
<1>0. Types /\ Phases /\ Contents
  BY DEF RecoveryInv
<1>1. tablet[s] = log[s]
  BY <1>0 DEF Contents, Tablets
<1>2. Len(log[s]) = Len(log[Primary])
  <2>1. CASE s = Primary
    BY <2>1
  <2>2. CASE s # Primary
    BY <1>0, <2>2, QuietFacts, HasAll, Constants
  <2>q. QED
    BY <2>1, <2>2
<1>3. \A k \in 1 .. Len(log[s]) : log[s][k] = log[Primary][k]
  BY <1>0 DEF Contents, LogPrefixes
<1>4. log[s] \in Seq(Writes) /\ log[Primary] \in Seq(Writes)
  BY <1>0, Constants DEF Types, LogTypes
<1>q. QED
  BY <1>1, <1>2, <1>3, <1>4, SameSeq

(* What a disabled server missed is transferred to it and what it had is   *)
(* replayed, once each and in order: when nothing is on its way, every     *)
(* server that is up has the tablet and the log of the primary, however    *)
(* often servers were disabled and restarted (read_admin_commands,         *)
(* replay_log, transfer_log).                                              *)
THEOREM RecoveredAlways ==
  ASSUME Careful, Reproduced
  PROVE  Spec => []Recovered
<1>1. RecoveryInv /\ [Next]_vars => RecoveryInv'
  BY InvNext
<1>q. QED
  BY <1>1, InvInit, InvRecovered, PTL DEF Spec

-----------------------------------------------------------------------------
(* Refinement.                                                             *)

\* Write w waits for the sequencer.
Waits(w) == hold_queue # <<>> /\ hold_queue[1].kind = "write" /\ hold_queue[1].data = w

Logged == ToSet(log[Primary])

\* No write is logged twice, or requested again.
DistinctWrites ==
  /\ \A j, k \in 1 .. Len(log[Primary]) : log[Primary][j] = log[Primary][k] => j = k
  /\ \A w \in Writes : Waits(w) => w \notin Logged

StoreInv == RecoveryInv /\ DistinctWrites

\* Where the mapping puts the writes.
Placed ==
  /\ \A k \in 1 .. Len(log[Primary]) : Place(log[Primary][k]) = k
  /\ \A w \in Writes : w \notin Logged => Place(w) = IF Waits(w) THEN Len(log[Primary]) + 1 ELSE -1

(* What the primary has logged. *)
LEMMA LoggedFacts ==
  Types => /\ log[Primary] \in Seq(Writes) /\ Len(log[Primary]) \in Nat
           /\ \A w : w \in Logged <=> \E k \in 1 .. Len(log[Primary]) : log[Primary][k] = w
<1> SUFFICES ASSUME Types
             PROVE  /\ log[Primary] \in Seq(Writes) /\ Len(log[Primary]) \in Nat
                    /\ \A w : w \in Logged <=> \E k \in 1 .. Len(log[Primary]) : log[Primary][k] = w
  OBVIOUS
<1>1. log[Primary] \in Seq(Writes)
  BY Constants DEF Types, LogTypes
<1>2. Len(log[Primary]) \in Nat /\ DOMAIN log[Primary] = 1 .. Len(log[Primary])
  BY <1>1
<1>q. QED
  BY <1>1, <1>2 DEF Logged, ToSet

(* Where the mapping puts the writes, while one request waits at most. *)
LEMMA PlacedAlways == StoreInv => Placed
<1> SUFFICES ASSUME StoreInv PROVE Placed
  OBVIOUS
<1>0. Types /\ OneRequest /\ DistinctWrites
  BY DEF StoreInv, RecoveryInv, Phases
<1>1. /\ Len(log[Primary]) \in Nat /\ DOMAIN log[Primary] = 1 .. Len(log[Primary])
      /\ \A w : w \in Logged <=> \E k \in 1 .. Len(log[Primary]) : log[Primary][k] = w
  BY <1>0, LoggedFacts
<1>2. ASSUME NEW k \in 1 .. Len(log[Primary]) PROVE Place(log[Primary][k]) = k
  <2>1. log[Primary][k] \in ToSet(log[Primary])
    BY <1>1 DEF Logged
  <2>2. Place(log[Primary][k]) =
          CHOOSE j \in DOMAIN log[Primary] : log[Primary][j] = log[Primary][k]
    BY <2>1 DEF Place
  <2>3. \A j \in DOMAIN log[Primary] : log[Primary][j] = log[Primary][k] <=> j = k
    BY <1>0, <1>1 DEF DistinctWrites
  <2>q. QED
    BY <1>1, <2>2, <2>3
<1>3. ASSUME NEW w \in Writes, w \notin Logged
      PROVE  Place(w) = IF Waits(w) THEN Len(log[Primary]) + 1 ELSE -1
  <2>1. DOMAIN hold_queue = 1 .. Len(hold_queue) /\ Len(hold_queue) \in {0, 1}
    <3>1. hold_queue \in Seq(Requests)
      BY <1>0 DEF Types
    <3>2. DOMAIN hold_queue = 1 .. Len(hold_queue) /\ Len(hold_queue) \in Nat
      BY <3>1
    <3>3. Len(hold_queue) <= 1
      BY <1>0 DEF OneRequest
    <3>q. QED
      BY <3>2, <3>3
  <2>2. Len(hold_queue) = 1 <=> hold_queue # <<>>
    BY <1>0, <2>1, Lengths
  <2>3. \A k \in Waiting : k = 1
    BY <2>1 DEF Waiting
  <2>4. CASE Waits(w)
    <3>1. Waiting = {1} /\ hold_queue[1].data = w
      BY <2>1, <2>2, <2>3, <2>4 DEF Waiting, Waits
    <3>2. w \in Requested
      BY <3>1 DEF Requested
    <3>3. {k \in Waiting : \E j \in Waiting : hold_queue[j].data = w /\ k <= j} = {1}
      BY <3>1
    <3>4. Cardinality({1}) = 1
      BY FS_Singleton
    <3>q. QED
      BY <1>3, <2>4, <3>2, <3>3, <3>4 DEF Place, Logged
  <2>5. CASE ~ Waits(w)
    <3>1. w \notin Requested
      BY <1>3, <2>1, <2>2, <2>3, <2>5 DEF Requested, Waiting, Waits, Logged
    <3>q. QED
      BY <1>3, <2>5, <3>1 DEF Place, Logged
  <2>q. QED
    BY <2>4, <2>5
<1>q. QED
  BY <1>2, <1>3 DEF Placed

(* No write is logged or requested at first. *)
LEMMA DistinctInit == Init => DistinctWrites
<1> SUFFICES ASSUME Init PROVE DistinctWrites
  OBVIOUS
<1>1. log[Primary] = <<>> /\ hold_queue = <<>>
  BY Constants DEF Init
<1>q. QED
  BY <1>1 DEF DistinctWrites, Waits, Logged

(* The writes of a log that grows. *)
LEMMA Grows ==
  ASSUME NEW p \in Seq(Writes), NEW w \in Writes, NEW q, q = Append(p, w)
  PROVE  ToSet(q) = ToSet(p) \union {w}
<1>1. /\ DOMAIN p = 1 .. Len(p) /\ Len(p) \in Nat /\ DOMAIN q = 1 .. Len(p) + 1
      /\ \A k \in 1 .. Len(p) : q[k] = p[k]
      /\ q[Len(p) + 1] = w
  OBVIOUS
<1>q. QED
  BY <1>1 DEF ToSet

(* The steps that leave the logs and the write that waits alone.           *)
LEMMA BesideSteps ==
  ASSUME Types, OneRequest,
         \/ Transfer \/ transfer_log \/ UNCHANGED vars
         \/ \E s \in Handled : Disable(s) \/ Restart(s) \/ Server(s)
  PROVE  log' = log /\ \A w \in Writes : Waits(w)' <=> Waits(w)
<1>1. CASE Transfer
  <2>1. /\ hold_queue # <<>> /\ hold_queue[1].kind = "-TRANSFER"
        /\ hold_queue' = Tail(hold_queue) /\ log' = log
    BY <1>1, Queued DEF Transfer, storeVars
  <2>2. hold_queue \in Seq(Requests) /\ Len(hold_queue) <= 1
    BY DEF Types, OneRequest
  <2>3. hold_queue' = <<>>
    BY <2>1, <2>2
  <2>q. QED
    BY <2>1, <2>3 DEF Waits
<1>2. CASE transfer_log \/ UNCHANGED vars
  <2>1. log' = log /\ hold_queue' = hold_queue
    BY <1>2 DEF transfer_log, TransferEntry, TransferEnd, storeVars, vars
  <2>q. QED
    BY <2>1 DEF Waits
<1>3. ASSUME NEW s \in Handled, Disable(s) \/ Restart(s) \/ Server(s)
      PROVE  log' = log /\ \A w \in Writes : Waits(w)' <=> Waits(w)
  <2>1. CASE AskTransfer(s) /\ s # Primary
    <3> DEFINE m == [kind |-> "-TRANSFER", requestor_id |-> s, glbl_seq_num |-> Len(log[s])]
    <3>1. log' = log /\ hold_queue' = Append(hold_queue, m) /\ m.kind = "-TRANSFER"
      BY <2>1 DEF AskTransfer, storeVars
    <3> HIDE DEF m
    <3>2. hold_queue \in Seq(Requests)
      BY DEF Types
    <3>3. CASE hold_queue = <<>>
      <4>1. hold_queue'[1] = m
        BY <3>1, <3>3
      <4>q. QED
        BY <3>1, <3>3, <4>1 DEF Waits
    <3>4. CASE hold_queue # <<>>
      <4>1. hold_queue' # <<>> /\ hold_queue'[1] = hold_queue[1]
        BY <3>1, <3>2, <3>4
      <4>q. QED
        BY <3>1, <3>4, <4>1 DEF Waits
    <3>q. QED
      BY <3>3, <3>4
  <2>2. CASE ~ (AskTransfer(s) /\ s # Primary)
    <3>1. log' = log /\ hold_queue' = hold_queue
      BY <1>3, <2>2 DEF Disable, Restart, Server, DisableFlag, ReplayEntry, Enable, AskTransfer, storeVars
    <3>q. QED
      BY <3>1 DEF Waits
  <2>q. QED
    BY <2>1, <2>2
<1>q. QED
  BY <1>1, <1>2, <1>3

(* A replica logs the entry of the primary that comes next, or nothing.    *)
LEMMA ListenerSteps ==
  ASSUME RecoveryInv, NEW r \in Replicas, Listener(r)
  PROVE  /\ hold_queue' = hold_queue
         /\ \/ log' = log
            \/ /\ Len(log[r]) + 1 \in 1 .. Len(log[Primary])
               /\ log' = [log EXCEPT ![r] = Append(@, log[Primary][Len(log[r]) + 1])]
<1>0. Types /\ Phases /\ Contents
  BY DEF RecoveryInv
<1>1. /\ hold_queue' = hold_queue /\ chan[r] # <<>>
      /\ \/ log' = log
         \/ /\ disabled_flag[r] = 0 /\ process_command(r, Head(chan[r]).data)
  BY DEF Listener, RecvCommit, RecvTransfer, storeVars
<1>2. CASE disabled_flag[r] = 0 /\ process_command(r, Head(chan[r]).data)
  <2>1. apc[r] = "up"
    <3>1. apc[r] \notin {"disabled", "replay"}
      BY <1>0, <1>2, Constants DEF Contents, Flags
    <3>2. chan[r][1].kind \in {"commit", "5555"} /\ 1 \in 1 .. Len(chan[r])
      BY <1>0, <1>1, Lengths, Sent
    <3>3. CASE chan[r][1].kind = "commit"
      <4>1. Writing
        BY <3>2, <3>3 DEF Writing
      <4>2. apc[r] \in {"up", "disabled"}
        BY <1>0, <4>1, Constants DEF Phases, WritePhase
      <4>q. QED
        BY <3>1, <4>2
    <3>4. CASE chan[r][1].kind = "5555"
      BY <1>0, <1>1, <3>4 DEF Phases, TransferPhase, Transferring
    <3>q. QED
      BY <3>2, <3>3, <3>4
  <2>2. /\ Len(chan[r]) \in Nat /\ Len(chan[r]) >= 1 /\ Head(chan[r]) = chan[r][1]
        /\ Len(log[r]) \in Nat /\ Len(log[Primary]) \in Nat
    BY <1>0, <1>1, Sent, Lengths, Constants
  <2>3. Head(chan[r]).data = log[Primary][Len(log[r]) + 1]
    <3>1. \A k \in 1 .. Len(chan[r]) : chan[r][k].data = log[Primary][Len(log[r]) + k]
      BY <1>0, <2>1 DEF Contents, Continues
    <3>2. 1 \in 1 .. Len(chan[r])
      BY <2>2
    <3>3. chan[r][1].data = log[Primary][Len(log[r]) + 1]
      BY <3>1, <3>2
    <3>q. QED
      BY <2>2, <3>3
  <2>4. Len(log[r]) + Len(chan[r]) <= Len(log[Primary])
    <3>1. ~ Asked(r)
      BY <1>0, <1>1 DEF Phases, OneRequest, Asked
    <3>2. /\ Len(log[r]) + Len(chan[r]) = IF Served(r) THEN i ELSE Len(log[Primary])
          /\ Served(r) => i <= Len(log[Primary])
      BY <1>0, <2>1, <3>1 DEF Contents, Continues
    <3> DEFINE a == Len(log[r])
               b == Len(chan[r])
               c == Len(log[Primary])
    <3>3. a + b = i \/ a + b = c
      BY <3>2
    <3>4. a + b = i => i <= c \/ a + b = c
      BY <3>2
    <3>5. a \in Nat /\ b \in Nat /\ c \in Nat /\ i \in Nat
      BY <1>0, <2>2 DEF Types
    <3> HIDE DEF a, b, c
    <3>6. a + b <= c
      BY <3>3, <3>4, <3>5
    <3>q. QED
      BY <3>6 DEF a, b, c
  <2>5. Len(log[r]) + 1 \in 1 .. Len(log[Primary])
    <3> DEFINE a == Len(log[r])
               b == Len(chan[r])
               c == Len(log[Primary])
    <3>1. a \in Nat /\ b \in Nat /\ c \in Nat /\ b >= 1 /\ a + b <= c
      BY <2>2, <2>4
    <3> HIDE DEF a, b, c
    <3>2. a + 1 \in 1 .. c
      BY <3>1
    <3>q. QED
      BY <3>2 DEF a, c
  <2>6. log' = [log EXCEPT ![r] = Append(@, Head(chan[r]).data)]
    BY <1>2 DEF process_command
  <2>q. QED
    BY <1>1, <2>3, <2>5, <2>6
<1>q. QED
  BY <1>1, <1>2

(* No step logs a write twice, or requests one again.                      *)
LEMMA DistinctNext ==
  ASSUME RecoveryInv, DistinctWrites, [Next]_vars
  PROVE  DistinctWrites'
<1>0. Types /\ OneRequest
  BY DEF RecoveryInv, Phases
<1>1. ASSUME NEW w \in Writes, Request(w) PROVE DistinctWrites'
  <2> DEFINE m == [kind |-> "write", data |-> w]
  <2>1. /\ w \notin Requested /\ hold_queue' = Append(hold_queue, m) /\ m.kind = "write" /\ m.data = w
        /\ log' = log
    BY <1>1 DEF Request, storeVars
  <2> HIDE DEF m
  <2>2. w \notin Logged
    BY <2>1 DEF Requested, Logged
  <2>3. \A v \in Writes : Waits(v)' => Waits(v) \/ v = w
    <3>1. hold_queue \in Seq(Requests)
      BY <1>0 DEF Types
    <3>2. hold_queue # <<>> => hold_queue'[1] = hold_queue[1]
      BY <2>1, <3>1
    <3>3. hold_queue = <<>> => hold_queue'[1] = m
      BY <2>1
    <3>q. QED
      BY <2>1, <3>2, <3>3 DEF Waits
  <2>q. QED
    BY <2>1, <2>2, <2>3 DEF DistinctWrites, Logged
<1>2. CASE Commit
  <2> DEFINE w == hold_queue[1].data
  <2>1. w \in Writes /\ Waits(w) /\ hold_queue' = Tail(hold_queue) /\ process_command(Primary, w)
    BY <1>0, <1>2, Queued DEF Commit, Waits
  <2> HIDE DEF w
  <2>2. w \notin Logged
    BY <2>1 DEF DistinctWrites
  <2>3. \A v \in Writes : ~ Waits(v)'
    <3>1. hold_queue \in Seq(Requests) /\ Len(hold_queue) <= 1 /\ hold_queue # <<>>
      BY <1>0, <2>1 DEF Types, OneRequest, Waits
    <3>2. hold_queue' = <<>>
      BY <2>1, <3>1
    <3>q. QED
      BY <3>2 DEF Waits
  <2>4. /\ Len(log[Primary]) \in Nat /\ Len(log'[Primary]) = Len(log[Primary]) + 1
        /\ \A k \in 1 .. Len(log[Primary]) : log'[Primary][k] = log[Primary][k]
        /\ log'[Primary][Len(log[Primary]) + 1] = w
    BY <1>0, <2>1, Processed, Constants DEF Types
  <2>5. \A k \in 1 .. Len(log[Primary]) : log[Primary][k] # w
    BY <1>0, <2>2, LoggedFacts
  <2>6. \A j, k \in 1 .. Len(log'[Primary]) : log'[Primary][j] = log'[Primary][k] => j = k
    BY <2>4, <2>5 DEF DistinctWrites
  <2>q. QED
    BY <2>3, <2>6 DEF DistinctWrites
<1>3. CASE log'[Primary] = log[Primary] /\ \A w \in Writes : Waits(w)' <=> Waits(w)
  BY <1>3 DEF DistinctWrites, Logged
<1>4. ASSUME NEW r \in Replicas, Listener(r)
      PROVE  log'[Primary] = log[Primary] /\ \A w \in Writes : Waits(w)' <=> Waits(w)
  <2>1. hold_queue' = hold_queue /\ log'[Primary] = log[Primary]
    BY <1>0, <1>4, ListenerSteps, Constants DEF Types, LogTypes
  <2>q. QED
    BY <2>1 DEF Waits
<1>5. CASE \/ Transfer \/ transfer_log \/ UNCHANGED vars
           \/ \E s \in Handled : Disable(s) \/ Restart(s) \/ Server(s)
  BY <1>0, <1>3, <1>5, BesideSteps
<1>q. QED
  BY <1>1, <1>2, <1>3, <1>4, <1>5 DEF Next, Sequencer

(* The mapping after a step that leaves the log of the primary and the     *)
(* write that waits alone.                                                 *)
LEMMA PlaceKept ==
  ASSUME Types, Placed, Placed', log'[Primary] = log[Primary],
         \A w \in Writes : Waits(w)' <=> Waits(w)
  PROVE  \A w \in Writes : Place(w)' = Place(w)
<1> SUFFICES ASSUME NEW w \in Writes PROVE Place(w)' = Place(w)
  OBVIOUS
<1>1. Logged' = Logged
  BY DEF Logged
<1>2. CASE w \in Logged
  <2>1. PICK k \in 1 .. Len(log[Primary]) : log[Primary][k] = w
    BY <1>2, LoggedFacts
  <2>2. Place(w) = k
    BY <2>1 DEF Placed
  <2>3. Place(w)' = k
    BY <2>1 DEF Placed
  <2>q. QED
    BY <2>2, <2>3
<1>3. CASE w \notin Logged
  BY <1>1, <1>3 DEF Placed
<1>q. QED
  BY <1>2, <1>3

(* A group without writes is a store without writes.                       *)
LEMMA RefineInit == Init /\ Placed => Store!Init
<1> SUFFICES ASSUME Init, Placed PROVE Store!Init
  OBVIOUS
<1>1. log[Primary] = <<>> /\ hold_queue = <<>> /\ Types
  BY TypesInit, Constants DEF Init
<1>2. Logged = {} /\ \A w \in Writes : ~ Waits(w)
  BY <1>1 DEF Logged, ToSet, Waits
<1>3. \A w \in Writes : Place(w) = -1
  BY <1>2 DEF Placed
<1>q. QED
  BY <1>3 DEF Store!Init, Init

(* A write that a client sends gets the next place.                        *)
LEMMA RefineRequest ==
  ASSUME StoreInv, Placed, Placed', NEW w \in Writes, Request(w), Careful
  PROVE  Store!Sequence(w)
<1>0. Types /\ DistinctWrites
  BY DEF StoreInv, RecoveryInv
<1> DEFINE m == [kind |-> "write", data |-> w]
<1>1. /\ hold_queue = <<>> /\ hold_queue' = Append(hold_queue, m) /\ m.kind = "write" /\ m.data = w
      /\ log' = log /\ w \notin Requested
  BY DEF Request, Careful, Quiet, storeVars
<1> HIDE DEF m
<1>2. w \notin Logged /\ Logged' = Logged
  BY <1>1 DEF Requested, Logged
<1>3. /\ \A v \in Writes : ~ Waits(v)
      /\ \A v \in Writes : Waits(v)' <=> v = w
  <2>1. hold_queue' # <<>> /\ hold_queue'[1] = m
    BY <1>1, FirstRequest
  <2>q. QED
    BY <1>1, <2>1 DEF Waits
<1> DEFINE n == Len(log[Primary])
<1>4. n \in Nat
  BY <1>0, LoggedFacts
<1>5. Place(w) = -1 /\ Place(w)' = n + 1
  BY <1>1, <1>2, <1>3 DEF Placed
<1>6. ASSUME NEW v \in Writes, v # w
      PROVE  Place(v)' = Place(v) /\ (Place(v) = -1 \/ Place(v) \in 1 .. n)
  <2>1. CASE v \in Logged
    <3>1. PICK k \in 1 .. n : log[Primary][k] = v
      BY <1>0, <2>1, LoggedFacts
    <3>2. Place(v) = k
      BY <3>1 DEF Placed
    <3>3. Place(v)' = k
      BY <1>1, <3>1 DEF Placed
    <3>q. QED
      BY <3>2, <3>3
  <2>2. CASE v \notin Logged
    BY <1>1, <1>2, <1>3, <1>6, <2>2 DEF Placed
  <2>q. QED
    BY <2>1, <2>2
<1> HIDE DEF n
<1>7. \A v \in Writes : Place(v) >= 0 => Place(v) < Place(w)'
  BY <1>4, <1>5, <1>6
<1>8. [v \in Writes |-> Place(v)'] = [[v \in Writes |-> Place(v)] EXCEPT ![w] = Place(w)']
  BY <1>6
<1>9. Place(w)' \in Nat
  BY <1>4, <1>5
<1>q. QED
  BY <1>1, <1>5, <1>7, <1>8, <1>9 DEF Store!Sequence, Store!Ordered

(* The next entry of the order is the next the server executes.            *)
LEMMA RefineExecute ==
  ASSUME Types, DistinctWrites, Contents, Placed, NEW s \in Servers, NEW w \in Writes,
         Place(w) = Len(log[s]) + 1,
         log' = [log EXCEPT ![s] = Append(@, w)],
         \A v \in Writes : Place(v)' = Place(v)
  PROVE  Store!ExecuteRemote(s, w)
<1>1. /\ Len(log[s]) \in Nat /\ DOMAIN log[s] = 1 .. Len(log[s])
      /\ Len(log[Primary]) \in Nat /\ Len(log[s]) <= Len(log[Primary])
      /\ \A k \in 1 .. Len(log[s]) : log[s][k] = log[Primary][k]
  <2>1. log[s] \in Seq(Writes)
    BY DEF Types, LogTypes
  <2>q. QED
    BY <2>1, Lengths, Constants DEF Contents, LogPrefixes
<1>2. \A k \in 1 .. Len(log[s]) : Place(log[s][k]) = k
  BY <1>1 DEF Placed
<1>3. w \notin Store!Executed(s)
  BY <1>1, <1>2 DEF Store!Executed
<1>4. ASSUME NEW v \in Writes, Place(v) >= 0, Place(v) < Len(log[s]) + 1
      PROVE  v \in Store!Executed(s)
  <2>1. v \in Logged
    BY <1>1, <1>4 DEF Placed
  <2>2. PICK k \in 1 .. Len(log[Primary]) : log[Primary][k] = v
    BY <2>1, LoggedFacts
  <2>3. Place(v) = k
    BY <2>2 DEF Placed
  <2>4. k \in 1 .. Len(log[s])
    BY <1>1, <1>4, <2>2, <2>3
  <2>5. log[s][k] = v
    BY <1>1, <2>2, <2>4
  <2>q. QED
    BY <1>1, <2>4, <2>5 DEF Store!Executed
<1>5. s # "another server"
  BY RecoveryAssumption
<1>6. w \in Store!Remote(s) /\ \A v \in Store!Remote(s) : v \in Writes /\ Place(v) >= 0
  <2>1. \A v \in Writes : [u \in Writes |-> Place(u)][v] = Place(v)
    OBVIOUS
  <2>2. \A v \in Writes : [u \in Writes |-> "another server"][v] # s
    BY <1>5
  <2>3. Place(w) >= 0
    BY <1>1
  <2>q. QED
    BY <2>1, <2>2, <2>3 DEF Store!Remote, Store!Ordered
<1>7. [v \in Writes |-> Place(v)'] = [v \in Writes |-> Place(v)]
  OBVIOUS
<1>8. \A v \in Store!Remote(s) :
        [u \in Writes |-> Place(u)][v] < [u \in Writes |-> Place(u)][w] => v \in Store!Executed(s)
  BY <1>4, <1>6
<1>q. QED
  BY <1>3, <1>6, <1>7, <1>8 DEF Store!ExecuteRemote

(* The commit of the write that waits.                                     *)
LEMMA RefineCommit ==
  ASSUME StoreInv, Placed, Placed', Commit
  PROVE  Store!Next
<1> DEFINE n == Len(log[Primary])
<1>0. Types /\ OneRequest /\ DistinctWrites /\ Contents
  BY DEF StoreInv, RecoveryInv, Phases
<1>1. PICK w \in Writes :
        Waits(w) /\ hold_queue' = Tail(hold_queue) /\ process_command(Primary, w)
  BY <1>0, Queued DEF Commit, Waits
<1>2. \A v \in Writes : Waits(v) => v = w
  BY <1>1 DEF Waits
<1>3. \A v \in Writes : ~ Waits(v)'
  <2>1. hold_queue \in Seq(Requests) /\ Len(hold_queue) <= 1 /\ hold_queue # <<>>
    BY <1>0, <1>1 DEF Types, OneRequest, Waits
  <2>2. hold_queue' = <<>>
    BY <1>1, <2>1
  <2>q. QED
    BY <2>2 DEF Waits
<1>4. /\ n \in Nat /\ Len(log'[Primary]) = n + 1
      /\ \A k \in 1 .. n : log'[Primary][k] = log[Primary][k]
      /\ log'[Primary][n + 1] = w
  BY <1>0, <1>1, Processed, Constants DEF Types
<1>5. /\ log[Primary] \in Seq(Writes)
      /\ log' = [log EXCEPT ![Primary] = Append(@, w)] /\ log'[Primary] = Append(log[Primary], w)
  BY <1>0, <1>1, Constants DEF process_command, Types, LogTypes
<1>6. Logged' = Logged \union {w}
  BY <1>1, <1>5, Grows DEF Logged
<1>7. w \notin Logged /\ Place(w) = n + 1 /\ Place(w)' = n + 1
  <2>1. w \notin Logged
    BY <1>0, <1>1 DEF DistinctWrites
  <2>2. Place(w) = n + 1
    BY <1>1, <2>1 DEF Placed
  <2>3. n + 1 \in 1 .. Len(log'[Primary])
    BY <1>4
  <2>4. Place(w)' = n + 1
    BY <1>4, <2>3 DEF Placed
  <2>q. QED
    BY <2>1, <2>2, <2>4
<1>8. \A v \in Writes : Place(v)' = Place(v)
  <2> SUFFICES ASSUME NEW v \in Writes, v # w PROVE Place(v)' = Place(v)
    BY <1>7
  <2>1. CASE v \in Logged
    <3>1. PICK k \in 1 .. n : log[Primary][k] = v
      BY <1>0, <2>1, LoggedFacts
    <3>2. k \in 1 .. Len(log'[Primary]) /\ log'[Primary][k] = v
      BY <1>4, <3>1
    <3>3. Place(v) = k
      BY <3>1 DEF Placed
    <3>4. Place(v)' = k
      BY <3>2 DEF Placed
    <3>q. QED
      BY <3>3, <3>4
  <2>2. CASE v \notin Logged
    BY <1>2, <1>3, <1>6, <2>2 DEF Placed
  <2>q. QED
    BY <2>1, <2>2
<1>9. Store!ExecuteRemote(Primary, w)
  BY <1>0, <1>1, <1>5, <1>7, <1>8, RefineExecute, Constants
<1>q. QED
  BY <1>1, <1>9, Constants DEF Store!Next

(* Every step of a careful group is a step of the store, or none of its.   *)
LEMMA RefineNext ==
  ASSUME Careful, StoreInv, Placed, Placed', [Next]_vars
  PROVE  [Store!Next]_(Store!vars)
<1>0. Types /\ OneRequest /\ RecoveryInv /\ DistinctWrites /\ Contents
  BY DEF StoreInv, RecoveryInv, Phases
<1>1. ASSUME log' = log, \A w \in Writes : Waits(w)' <=> Waits(w)
      PROVE  UNCHANGED Store!vars
  <2>1. \A w \in Writes : Place(w)' = Place(w)
    BY <1>0, <1>1, PlaceKept
  <2>2. [w \in Writes |-> Place(w)'] = [w \in Writes |-> Place(w)]
    BY <2>1
  <2>q. QED
    BY <1>1, <2>2 DEF Store!vars
<1>2. ASSUME NEW w \in Writes, Request(w) PROVE Store!Next
  BY <1>2, RefineRequest DEF Store!Next
<1>3. CASE Commit
  BY <1>3, RefineCommit
<1>4. ASSUME NEW r \in Replicas, Listener(r) PROVE [Store!Next]_(Store!vars)
  <2> DEFINE n == Len(log[r])
             next == log[Primary][n + 1]
  <2>1. /\ hold_queue' = hold_queue
        /\ \/ log' = log
           \/ n + 1 \in 1 .. Len(log[Primary]) /\ log' = [log EXCEPT ![r] = Append(@, next)]
    BY <1>0, <1>4, ListenerSteps
  <2>2. \A v \in Writes : Waits(v)' <=> Waits(v)
    BY <2>1 DEF Waits
  <2>3. CASE log' = log
    BY <1>1, <2>2, <2>3
  <2>4. CASE n + 1 \in 1 .. Len(log[Primary]) /\ log' = [log EXCEPT ![r] = Append(@, next)]
    <3>1. PICK w \in Writes : w = next /\ Place(w) = n + 1
      <4>1. Place(next) = n + 1
        BY <2>4 DEF Placed
      <4>2. next \in Writes
        BY <1>0, <2>4, LoggedFacts
      <4>q. QED
        BY <4>1, <4>2
    <3>2. log'[Primary] = log[Primary] /\ r \in Servers
      BY <1>0, <2>4, Constants DEF Types, LogTypes
    <3>3. \A v \in Writes : Place(v)' = Place(v)
      BY <1>0, <2>2, <3>2, PlaceKept
    <3>4. log' = [log EXCEPT ![r] = Append(@, w)]
      BY <2>4, <3>1
    <3> HIDE DEF next
    <3>5. Store!ExecuteRemote(r, w)
      BY <1>0, <3>1, <3>2, <3>3, <3>4, RefineExecute
    <3>q. QED
      BY <3>2, <3>5 DEF Store!Next
  <2>q. QED
    BY <2>1, <2>3, <2>4
<1>5. CASE \/ Transfer \/ transfer_log \/ UNCHANGED vars
           \/ \E s \in Handled : Disable(s) \/ Restart(s) \/ Server(s)
  BY <1>0, <1>1, <1>5, BesideSteps
<1>q. QED
  BY <1>2, <1>3, <1>4, <1>5 DEF Next, Sequencer

(* Servers that are disabled, restarted and brought up to date log every   *)
(* write of the clients once, in the order of the primary and without a    *)
(* gap: the group implements the replicated store (seq_consistency.cc,     *)
(* transfer_log).                                                          *)
THEOREM Refinement ==
  ASSUME Careful, Reproduced
  PROVE  Spec => Implements
<1>1. Init => StoreInv
  BY InvInit, DistinctInit DEF StoreInv
<1>2. StoreInv /\ [Next]_vars => StoreInv'
  BY InvNext, DistinctNext DEF StoreInv
<1>3. StoreInv /\ Placed /\ Placed' /\ [Next]_vars => [Store!Next]_(Store!vars)
  BY RefineNext
<1>q. QED
  BY <1>1, <1>2, <1>3, PlacedAlways, RefineInit, PTL DEF Spec, Implements, Store!Spec
=============================================================================
