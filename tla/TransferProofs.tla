---------------------------- MODULE TransferProofs ----------------------------
(***************************************************************************)
(* Proofs about the two ways in which data travels piece by piece: a mail, *)
(* line by line through Smtp, and a file, chunk by chunk through           *)
(* FileTransfer.  The modules share no state.                              *)
(*                                                                         *)
(* Smtp.  Every step of a thread changes the locals of its own connection  *)
(* only, and Effect says how they stay in step with what the client was    *)
(* answered: Heard (the sender and the recipient are answered ones) and,   *)
(* for the first mail, Kept (the buffer has the lines sent so far).  A     *)
(* mail that is handed over keeps this (Handed): with its thread, on the   *)
(* connection to the storage server, in a box.                             *)
(*                                                                         *)
(* FileTransfer.  Progress: at every place of the upload, how much is      *)
(* stored and how long the request on the way is.  For a file of one chunk *)
(* OneUpload and OneDownload say what is stored, on the way and received.  *)
(***************************************************************************)
EXTENDS Smtp, FileTransfer, TLAPS, WellFoundedInduction

\* A set of numbers that is not empty has a smallest one.
LEMMA Smallest ==
  ASSUME NEW T \in SUBSET Nat, T # {}
  PROVE  \E k \in T : \A i \in T : k <= i
<1>1. IsWellFoundedOn(OpToRel(<, Nat), Nat)
  BY NatLessThanWellFounded
<1>2. PICK k \in T : \A i \in T : ~(<<i, k>> \in OpToRel(<, Nat))
  <2> HIDE DEF OpToRel
  <2> QED
    BY <1>1, WFMin
<1>3. \A i \in T : ~(i < k)
  BY <1>2 DEF OpToRel
<1> QED
  BY <1>3

-----------------------------------------------------------------------------
(* The SMTP server.                                                        *)

Words == Texts \union {Blank}
Names == {None} \union {l.user : l \in Commands}
Cells == [kind : {"zero", "text", "from"}, of : {None} \union Words \union Names]

Dialogue == [cur_state : {"INVALID", "SESSION", "FROM", "RECV", "DATA"},
             is_data : BOOLEAN, first_time : BOOLEAN,
             from_msg : Names, from_user : Names, rcpt_user : Names,
             file_msg : Seq(Cells), bytes_written : Nat]
Mails == [n : Nat, from : Names, rcpts : SUBSET Names, text : Seq(Words)]
Requests == {Goodbye} \union
            [op : {"putmail"}, id : Clients \X Nat, from : Names, to : Names, text : Seq(Cells)]

\* What send_email would send for connection c.
Mail(c) == [op |-> "putmail", id |-> <<c, tx[c].n - 1>>,
            from |-> s[c].from_user, to |-> s[c].rcpt_user,
            text |-> StringIn(s[c].file_msg)]

\* The types the argument needs.
Types ==
  /\ pc \in [Clients -> {"none", "loop", "mail", "await", "done"}]
  /\ line \in [Clients -> Commands \union {NoLine, Dot} \union {Text(t) : t \in Words}]
  /\ s \in [Clients -> Dialogue]
  /\ tx \in [Clients -> Mails]
  /\ toStore \in Seq(Requests)

\* is_data is DATA, and a mail that is handed over has been answered.
Places ==
  \A c \in Clients :
    /\ s[c].is_data <=> s[c].cur_state = "DATA"
    /\ tx[c].n >= 1
    /\ pc[c] \in {"mail", "await"} => tx[c].n > 1 /\ ~s[c].is_data

\* The mails on their way to the storage server: handed over, sent or stored.
Handed ==
  {Mail(c) : c \in {d \in Clients : pc[d] = "mail"}}
    \union {toStore[i] : i \in {j \in DOMAIN toStore : toStore[j].op = "putmail"}}
    \union stored

\* The sender and the recipient that the thread has are those it has
\* answered 250 for.
Heard(l, t) ==
  /\ l.cur_state \in {"FROM", "RECV", "DATA"} => l.from_user = t.from
  /\ l.cur_state \in {"RECV", "DATA"} => l.rcpt_user \in t.rcpts

Said(ts) == {i \in DOMAIN ts : ts[i] # Blank}
Lines(ts) == [i \in DOMAIN ts |-> Cell("text", ts[i])]

\* In the first mail of a connection the buffer has what was sent so far.
Kept(l, t) ==
  t.n = 1 =>
    /\ l.bytes_written = Len(l.file_msg) /\ l.from_msg = l.from_user
    /\ l.file_msg = AsSent(t.text, l.from_msg)
    /\ l.first_time <=> Said(t.text) # {}
    /\ ~l.is_data => t.text = <<>>
    /\ \A i \in DOMAIN l.file_msg : l.file_msg[i] # Zero

\* The command lines whose answers say what the thread does: mail for this
\* host, from an address.
LocalOnly ==
  \A l \in Commands : /\ l.op = "RCPT TO" => l.domain = "localhost"
                      /\ l.op = "MAIL FROM" => l.domain # None

\* What a line does to the locals and the mail of its connection.
Effect(c) ==
  \E l \in Dialogue, t \in Mails :
    /\ s' = [s EXCEPT ![c] = l] /\ tx' = [tx EXCEPT ![c] = t]
    /\ t.n = tx[c].n /\ (l.is_data <=> l.cur_state = "DATA")
    /\ Kept(s[c], tx[c]) => Kept(l, t)
    /\ LocalOnly /\ Heard(s[c], tx[c]) => Heard(l, t)

-----------------------------------------------------------------------------
(* What the commands do.                                                   *)

\* The zero cell and the cells of a line and of a sender.
LEMMA CellTypes ==
  /\ Zero \in Cells
  /\ \A t \in Words : Cell("text", t) \in Cells /\ Cell("text", t) # Zero
  /\ \A u \in Names : From(u) \in Cells /\ From(u) # Zero
BY DEF Zero, Cell, From, Cells

\* The domain of a line of text is a word, of a command a name.
LEMMA LineTypes ==
  ASSUME Types, NEW c \in Clients
  PROVE  /\ line[c].op = "text" => line[c].user \in Words
         /\ line[c].op \in {"MAIL FROM", "RCPT TO"} => line[c] \in Commands /\ line[c].user \in Names
<1>1. CASE line[c] \in Commands
  BY <1>1, SmtpAssumption DEF Names, Ops
<1>2. CASE line[c] \in {NoLine, Dot}
  <2>1. NoLine.op = "none" /\ Dot.op = "."
    BY DEF NoLine, Dot, Command
  <2> QED
    BY <1>2, <2>1
<1>3. CASE \E t \in Words : line[c] = Text(t)
  BY <1>3 DEF Text, Command
<1> QED
  BY <1>1, <1>2, <1>3 DEF Types

\* memcpy appends while bytes_written is the length.
LEMMA PutTypes ==
  ASSUME NEW l \in Dialogue, NEW x \in Cells
  PROVE  /\ Put(l, x) \in Dialogue
         /\ Put(l, x).bytes_written = l.bytes_written + 1
         /\ l.bytes_written = Len(l.file_msg) => Put(l, x).file_msg = Append(l.file_msg, x)
         /\ Put(l, x).cur_state = l.cur_state /\ Put(l, x).is_data = l.is_data
         /\ Put(l, x).first_time = l.first_time /\ Put(l, x).from_msg = l.from_msg
         /\ Put(l, x).from_user = l.from_user /\ Put(l, x).rcpt_user = l.rcpt_user
<1>1. PICK f : f = IF l.bytes_written < Len(l.file_msg)
                     THEN [l.file_msg EXCEPT ![l.bytes_written + 1] = x]
                     ELSE Append(l.file_msg, x)
  OBVIOUS
<1>2. Put(l, x) = [l EXCEPT !.file_msg = f, !.bytes_written = l.bytes_written + 1]
  BY <1>1 DEF Put
<1>3. f \in Seq(Cells)
  BY <1>1 DEF Dialogue
<1>4. /\ Put(l, x).file_msg = f /\ Put(l, x).bytes_written = l.bytes_written + 1
      /\ Put(l, x).cur_state = l.cur_state /\ Put(l, x).is_data = l.is_data
      /\ Put(l, x).first_time = l.first_time /\ Put(l, x).from_msg = l.from_msg
      /\ Put(l, x).from_user = l.from_user /\ Put(l, x).rcpt_user = l.rcpt_user
  BY <1>2 DEF Dialogue
<1>5. Put(l, x) \in Dialogue
  <2>1. PICK n \in Nat : n = l.bytes_written + 1
    BY DEF Dialogue
  <2>2. Put(l, x) = [l EXCEPT !.file_msg = f, !.bytes_written = n]
    BY <1>2, <2>1
  <2> QED
    BY <1>3, <2>2 DEF Dialogue
<1>6. l.bytes_written = Len(l.file_msg) => f = Append(l.file_msg, x)
  BY <1>1 DEF Dialogue
<1> QED
  BY <1>4, <1>5, <1>6

\* A line of text changes the buffer, its counter and first_time, nothing else;
\* while bytes_written is the length it appends.
LEMMA PutTextTypes ==
  ASSUME NEW l \in Dialogue, NEW t \in Words
  PROVE  /\ PutText(l, t) \in Dialogue
         /\ PutText(l, t).first_time <=> l.first_time \/ t # Blank
         /\ PutText(l, t).cur_state = l.cur_state /\ PutText(l, t).is_data = l.is_data
         /\ PutText(l, t).from_msg = l.from_msg
         /\ PutText(l, t).from_user = l.from_user /\ PutText(l, t).rcpt_user = l.rcpt_user
         /\ l.bytes_written = Len(l.file_msg) =>
              /\ PutText(l, t).bytes_written = Len(PutText(l, t).file_msg)
              /\ PutText(l, t).file_msg =
                   IF t = Blank \/ l.first_time THEN Append(l.file_msg, Cell("text", t))
                     ELSE Append(Append(l.file_msg, From(l.from_msg)), Cell("text", t))
<1> DEFINE x == Cell("text", t)
           h == From(l.from_msg)
<1>1. x \in Cells /\ h \in Cells
  BY CellTypes DEF Dialogue
<1> HIDE DEF x, h
<1>2. CASE t = Blank \/ l.first_time
  <2>1. PutText(l, t) = Put(l, x)
    BY <1>2 DEF PutText, x
  <2>2. l.bytes_written = Len(l.file_msg) => Len(Append(l.file_msg, x)) = l.bytes_written + 1
    BY <1>1 DEF Dialogue
  <2>3. PICK k : k = Put(l, x)
    OBVIOUS
  <2>4. /\ k \in Dialogue /\ k.bytes_written = l.bytes_written + 1
        /\ l.bytes_written = Len(l.file_msg) => k.file_msg = Append(l.file_msg, x)
        /\ k.cur_state = l.cur_state /\ k.is_data = l.is_data /\ k.from_msg = l.from_msg
        /\ k.first_time = l.first_time
        /\ k.from_user = l.from_user /\ k.rcpt_user = l.rcpt_user
    BY <1>1, <2>3, PutTypes
  <2>5. PutText(l, t) = k /\ (k.first_time <=> l.first_time \/ t # Blank)
    BY <1>2, <2>1, <2>3, <2>4
  <2> QED
    BY <1>2, <2>2, <2>4, <2>5 DEF x
<1>3. CASE ~(t = Blank \/ l.first_time)
  <2>1. PICK k : k = Put(l, h)
    OBVIOUS
  <2>2. /\ k \in Dialogue /\ k.bytes_written = l.bytes_written + 1
        /\ l.bytes_written = Len(l.file_msg) => k.file_msg = Append(l.file_msg, h)
        /\ k.cur_state = l.cur_state /\ k.is_data = l.is_data /\ k.from_msg = l.from_msg
        /\ k.from_user = l.from_user /\ k.rcpt_user = l.rcpt_user
    BY <1>1, <2>1, PutTypes
  <2>3. PICK m : m = [k EXCEPT !.first_time = TRUE]
    OBVIOUS
  <2>4. /\ m \in Dialogue /\ m.first_time = TRUE /\ m.file_msg = k.file_msg
        /\ m.bytes_written = k.bytes_written
        /\ m.cur_state = k.cur_state /\ m.is_data = k.is_data /\ m.from_msg = k.from_msg
        /\ m.from_user = k.from_user /\ m.rcpt_user = k.rcpt_user
    BY <2>2, <2>3 DEF Dialogue
  <2>5. PutText(l, t) = Put(m, x)
    BY <1>3, <2>1, <2>3 DEF PutText, x, h
  <2>6. /\ Put(m, x) \in Dialogue /\ Put(m, x).bytes_written = m.bytes_written + 1
        /\ m.bytes_written = Len(m.file_msg) => Put(m, x).file_msg = Append(m.file_msg, x)
        /\ Put(m, x).cur_state = m.cur_state /\ Put(m, x).is_data = m.is_data
        /\ Put(m, x).first_time = m.first_time /\ Put(m, x).from_msg = m.from_msg
        /\ Put(m, x).from_user = m.from_user /\ Put(m, x).rcpt_user = m.rcpt_user
    BY <1>1, <2>4, PutTypes
  <2>7. ASSUME l.bytes_written = Len(l.file_msg)
        PROVE  /\ m.bytes_written = Len(m.file_msg)
               /\ Put(m, x).bytes_written = Len(Put(m, x).file_msg)
               /\ Put(m, x).file_msg = Append(Append(l.file_msg, h), x)
    <3>1. m.file_msg = Append(l.file_msg, h) /\ m.bytes_written = Len(l.file_msg) + 1
      BY <2>2, <2>4, <2>7
    <3>2. Len(m.file_msg) = Len(l.file_msg) + 1
      BY <1>1, <3>1 DEF Dialogue
    <3>3. Put(m, x).file_msg = Append(m.file_msg, x)
      BY <2>6, <3>1, <3>2
    <3>4. Len(Append(m.file_msg, x)) = Len(m.file_msg) + 1
      BY <1>1, <2>4 DEF Dialogue
    <3> QED
      BY <2>6, <3>1, <3>2, <3>3, <3>4
  <2>8. /\ Put(m, x).first_time = TRUE /\ Put(m, x).cur_state = l.cur_state
        /\ Put(m, x).is_data = l.is_data /\ Put(m, x).from_msg = l.from_msg
        /\ Put(m, x).from_user = l.from_user /\ Put(m, x).rcpt_user = l.rcpt_user
    BY <2>2, <2>4, <2>6
  <2> QED
    BY <1>3, <2>5, <2>6, <2>7, <2>8 DEF x, h
<1> QED
  BY <1>2, <1>3

-----------------------------------------------------------------------------
(* A mail as it was sent.                                                  *)

\* What AsSent is in the two cases.
LEMMA AsSentCases ==
  ASSUME NEW ts, NEW user
  PROVE  /\ Said(ts) = {} => AsSent(ts, user) = Lines(ts)
         /\ Said(ts) # {} => AsSent(ts, user) = InsertAt(Lines(ts), Min(Said(ts)), From(user))
BY DEF AsSent, Said, Lines

\* The first line that is not blank.
LEMMA MinOfSaid ==
  ASSUME NEW ts \in Seq(Words), NEW k \in Said(ts), \A i \in Said(ts) : k <= i
  PROVE  Min(Said(ts)) = k
<1>1. \A i \in Said(ts) : i \in Nat
  BY DEF Said
<1>2. \A x \in Said(ts) : (\A y \in Said(ts) : x <= y) => x = k
  BY <1>1
<1> QED
  BY <1>2 DEF Min

\* A set of lines that is not empty has a first one.
LEMMA FirstSaid ==
  ASSUME NEW ts \in Seq(Words), Said(ts) # {}
  PROVE  Min(Said(ts)) \in Said(ts) /\ \A i \in Said(ts) : Min(Said(ts)) <= i
<1>1. Said(ts) \in SUBSET Nat
  BY DEF Said
<1>2. \E k \in Said(ts) : \A i \in Said(ts) : k <= i
  BY <1>1, Smallest
<1> QED
  BY <1>2 DEF Min

\* A cell put in before the end and one put at the end do not meet.
LEMMA InsertAppend ==
  ASSUME NEW q \in Seq(Cells), NEW x \in Cells, NEW y \in Cells, NEW k \in 1..Len(q)
  PROVE  InsertAt(Append(q, y), k, x) = Append(InsertAt(q, k, x), y)
<1> DEFINE a == SubSeq(q, 1, k - 1)
           b == SubSeq(q, k, Len(q))
           c == SubSeq(Append(q, y), k, Len(q) + 1)
<1>1. a \in Seq(Cells) /\ b \in Seq(Cells) /\ Append(q, y) \in Seq(Cells) /\ Len(Append(q, y)) = Len(q) + 1
  OBVIOUS
<1>2. SubSeq(Append(q, y), 1, k - 1) = a
  OBVIOUS
<1>3. c = Append(b, y)
  OBVIOUS
<1> HIDE DEF a, b, c
<1>4. (a \o <<x>>) \o Append(b, y) = Append((a \o <<x>>) \o b, y)
  <2> DEFINE d == a \o <<x>>
  <2>1. d \in Seq(Cells)
    BY <1>1
  <2> HIDE DEF d
  <2>2. d \o Append(b, y) = Append(d \o b, y)
    BY <1>1, <2>1
  <2> QED
    BY <2>2 DEF d
<1>5. InsertAt(Append(q, y), k, x) = (a \o <<x>>) \o c
  BY <1>1, <1>2 DEF InsertAt, c
<1>6. InsertAt(q, k, x) = (a \o <<x>>) \o b
  BY DEF InsertAt, a, b
<1> QED
  BY <1>3, <1>4, <1>5, <1>6

\* Two cells at the end are one, and one put in before it.
LEMMA InsertLast ==
  ASSUME NEW q \in Seq(Cells), NEW x \in Cells, NEW y \in Cells
  PROVE  InsertAt(Append(q, y), Len(q) + 1, x) = Append(Append(q, x), y)
<1>1. SubSeq(Append(q, y), 1, Len(q)) = q
  OBVIOUS
<1>0. SubSeq(Append(q, y), Len(q) + 1, Len(q) + 1) = <<y>>
  <2> DEFINE a == SubSeq(Append(q, y), Len(q) + 1, Len(q) + 1)
  <2>1. a \in Seq(Cells) /\ Len(a) = 1 /\ a[1] = y
    OBVIOUS
  <2> HIDE DEF a
  <2>2. a = <<y>>
    BY <2>1
  <2> QED
    BY <2>2 DEF a
<1>2. Len(Append(q, y)) = Len(q) + 1 /\ (Len(q) + 1) - 1 = Len(q)
  OBVIOUS
<1>3. q \o <<x>> = Append(q, x)
  OBVIOUS
<1>4. Append(q, x) \o <<y>> = Append(Append(q, x), y)
  <2> DEFINE d == Append(q, x)
  <2>1. d \in Seq(Cells)
    OBVIOUS
  <2> HIDE DEF d
  <2>2. d \o <<y>> = Append(d, y)
    BY <2>1
  <2> QED
    BY <2>2 DEF d
<1> QED
  BY <1>0, <1>1, <1>2, <1>3, <1>4 DEF InsertAt

\* What one more line does to a mail as it is stored.
LEMMA AsSentAppend ==
  ASSUME NEW ts \in Seq(Words), NEW t \in Words, NEW user \in Names
  PROVE  /\ AsSent(ts, user) \in Seq(Cells)
         /\ AsSent(Append(ts, t), user) =
              IF t = Blank \/ Said(ts) # {} THEN Append(AsSent(ts, user), Cell("text", t))
                ELSE Append(Append(AsSent(ts, user), From(user)), Cell("text", t))
         /\ Said(Append(ts, t)) # {} <=> Said(ts) # {} \/ t # Blank
<1> DEFINE u == Append(ts, t)
           n == Len(ts) + 1
           x == Cell("text", t)
           h == From(user)
<1>1. /\ u \in Seq(Words) /\ Len(u) = n /\ DOMAIN u = DOMAIN ts \union {n} /\ n \notin DOMAIN ts
      /\ u[n] = t /\ \A i \in DOMAIN ts : u[i] = ts[i]
  OBVIOUS
<1>2. x \in Cells /\ h \in Cells
  BY CellTypes
<1>3. Lines(ts) \in Seq(Cells) /\ Len(Lines(ts)) = Len(ts)
  <2>1. Lines(ts) \in [1..Len(ts) -> Cells]
    BY CellTypes DEF Lines
  <2> QED
    BY <2>1
<1>4. Lines(u) = Append(Lines(ts), x)
  <2>1. Lines(u) \in [1..n -> Cells]
    BY <1>1, CellTypes DEF Lines
  <2>2. Lines(u)[n] = x /\ \A i \in DOMAIN ts : Lines(u)[i] = Lines(ts)[i]
    BY <1>1 DEF Lines
  <2> HIDE DEF u, x
  <2>3. PICK p \in Seq(Cells) : p = Lines(ts) /\ Len(p) = Len(ts)
    BY <1>3
  <2>4. PICK q \in Seq(Cells) : q = Lines(u) /\ Len(q) = Len(p) + 1
    BY <2>1, <2>3
  <2>5. q[Len(p) + 1] = x /\ \A i \in 1..Len(p) : q[i] = p[i]
    BY <2>2, <2>3, <2>4
  <2>6. q = Append(p, x)
    BY <1>2, <2>4, <2>5
  <2> QED
    BY <2>3, <2>4, <2>6
<1>5. Said(u) = IF t = Blank THEN Said(ts) ELSE Said(ts) \union {n}
  BY <1>1 DEF Said
<1>6. Said(ts) \in SUBSET (1..Len(ts)) /\ n \notin Said(ts)
  BY DEF Said
<1> HIDE DEF u, x, h, n
<1>7. AsSent(ts, user) \in Seq(Cells)
  <2>1. CASE Said(ts) = {}
    BY <1>3, <2>1, AsSentCases
  <2>2. CASE Said(ts) # {}
    <3>1. Min(Said(ts)) \in 1..Len(ts)
      BY <1>6, <2>2, FirstSaid
    <3>2. PICK k \in 1..Len(ts) : k = Min(Said(ts))
      BY <3>1
    <3>3. AsSent(ts, user) = InsertAt(Lines(ts), k, h)
      BY <2>2, <3>2, AsSentCases DEF h
    <3>4. InsertAt(Lines(ts), k, h) \in Seq(Cells)
      BY <1>2, <1>3 DEF InsertAt
    <3> QED
      BY <3>3, <3>4
  <2> QED
    BY <2>1, <2>2
<1>8. CASE Said(u) = {}
  <2>1. t = Blank /\ Said(ts) = {}
    BY <1>5, <1>8
  <2>2. AsSent(u, user) = Lines(u) /\ AsSent(ts, user) = Lines(ts)
    BY <1>8, <2>1, AsSentCases
  <2> QED
    BY <1>4, <1>5, <1>7, <1>8, <2>1, <2>2 DEF u, x
<1>9. CASE Said(ts) # {}
  <2>1. Said(u) # {}
    BY <1>5, <1>9
  <2>2. PICK k \in Said(ts) : k = Min(Said(ts)) /\ \A i \in Said(ts) : k <= i
    BY <1>9, FirstSaid
  <2>3. Min(Said(u)) = k
    <3>1. k \in Said(u) /\ \A i \in Said(u) : k <= i
      BY <1>5, <1>6, <2>2 DEF n
    <3> QED
      BY <1>1, <3>1, MinOfSaid
  <2>4. AsSent(u, user) = InsertAt(Lines(u), k, h) /\ AsSent(ts, user) = InsertAt(Lines(ts), k, h)
    BY <1>9, <2>1, <2>2, <2>3, AsSentCases DEF h
  <2>5. k \in 1..Len(Lines(ts))
    BY <1>3, <1>6, <2>2
  <2>6. InsertAt(Append(Lines(ts), x), k, h) = Append(InsertAt(Lines(ts), k, h), x)
    BY <1>2, <1>3, <2>5, InsertAppend
  <2> QED
    BY <1>4, <1>7, <1>9, <2>1, <2>4, <2>6 DEF u, x
<1>10. CASE Said(u) # {} /\ Said(ts) = {}
  <2>1. t # Blank /\ Said(u) = {n}
    BY <1>5, <1>10
  <2>2. n \in Said(u) /\ \A i \in Said(u) : n <= i
    BY <1>1, <2>1 DEF n
  <2>3. Min(Said(u)) = n
    BY <1>1, <2>2, MinOfSaid
  <2>4. AsSent(u, user) = InsertAt(Lines(u), n, h) /\ AsSent(ts, user) = Lines(ts)
    BY <1>10, <2>3, AsSentCases DEF h
  <2>5. InsertAt(Append(Lines(ts), x), n, h) = Append(Append(Lines(ts), h), x)
    BY <1>2, <1>3, InsertLast DEF n
  <2> QED
    BY <1>4, <1>7, <1>10, <2>1, <2>4, <2>5 DEF u, x, h
<1> QED
  BY <1>8, <1>9, <1>10

-----------------------------------------------------------------------------
(* The commands, one by one.                                               *)

\* Nothing changes: NOOP, an unknown command, QUIT.
LEMMA SameEffect ==
  ASSUME Types, Places, NEW c \in Clients,
         s' = [s EXCEPT ![c] = s[c]], tx' = [tx EXCEPT ![c] = tx[c]]
  PROVE  Effect(c)
<1>1. PICK l \in Dialogue : l = s[c]
  BY DEF Types
<1>2. PICK t \in Mails : t = tx[c]
  BY DEF Types
<1>3. s' = [s EXCEPT ![c] = l] /\ tx' = [tx EXCEPT ![c] = t]
  BY <1>1, <1>2
<1> QED
  BY <1>1, <1>2, <1>3 DEF Effect, Places

\* HELO opens a session.
LEMMA HELOEffect ==
  ASSUME Types, Places, NEW c \in Clients, HELO(c)
  PROVE  Effect(c)
<1>1. PICK t \in Mails : t = tx[c]
  BY DEF Types
<1>2. PICK k \in Dialogue : k = s[c]
  BY DEF Types
<1>3. tx' = [tx EXCEPT ![c] = t]
  BY <1>1 DEF HELO, Answered, Line
<1>4. CASE k.cur_state = "INVALID" /\ line[c].domain # None
  <2>1. PICK l : l = [k EXCEPT !.cur_state = "SESSION"]
    OBVIOUS
  <2>2. s' = [s EXCEPT ![c] = l] /\ ~k.is_data
    BY <1>2, <1>4, <2>1 DEF HELO, Answered, Line
  <2>3. /\ l \in Dialogue /\ l.cur_state = "SESSION" /\ l.is_data = k.is_data
        /\ l.first_time = k.first_time /\ l.from_msg = k.from_msg /\ l.from_user = k.from_user
        /\ l.file_msg = k.file_msg /\ l.bytes_written = k.bytes_written
    BY <2>1 DEF Dialogue
  <2>4. Kept(k, t) => Kept(l, t)
    BY <2>3 DEF Kept
  <2>5. Heard(l, t)
    BY <2>3 DEF Heard
  <2> QED
    BY <1>1, <1>2, <1>3, <2>2, <2>3, <2>4, <2>5 DEF Effect
<1>5. CASE ~(k.cur_state = "INVALID" /\ line[c].domain # None)
  <2>1. s' = [s EXCEPT ![c] = s[c]]
    BY <1>2, <1>5 DEF HELO, Answered, Line
  <2> QED
    BY <1>1, <1>3, <2>1, SameEffect
<1> QED
  BY <1>4, <1>5

\* The mail of no lines is empty.
LEMMA AsSentNothing == \A user : AsSent(<<>>, user) = <<>> /\ Said(<<>>) = {}
<1> TAKE user
<1>1. Said(<<>>) = {}
  BY DEF Said
<1>2. Lines(<<>>) = <<>>
  BY DEF Lines
<1> QED
  BY <1>1, <1>2, AsSentCases

\* MAIL FROM starts a mail, whether it has an address or not.
LEMMA MAIL_FROMEffect ==
  ASSUME Types, Places, NEW c \in Clients, MAIL_FROM(c)
  PROVE  Effect(c)
<1>1. PICK k \in Dialogue : k = s[c]
  BY DEF Types
<1>2. PICK q \in Mails : q = tx[c]
  BY DEF Types
<1>3. line[c].op = "MAIL FROM" /\ line[c] \in Commands /\ line[c].user \in Names
  BY LineTypes DEF MAIL_FROM, Answered, Line
<1>4. CASE k.cur_state # "SESSION"
  <2>1. s' = [s EXCEPT ![c] = s[c]] /\ tx' = [tx EXCEPT ![c] = tx[c]]
    BY <1>1, <1>4 DEF MAIL_FROM, Answered, Line
  <2> QED
    BY <2>1, SameEffect
<1>5. CASE k.cur_state = "SESSION"
  <2>1. PICK u \in Names : u = IF line[c].domain # None THEN line[c].user ELSE k.from_user
    BY <1>3 DEF Dialogue
  <2>2. PICK m \in Names : m = IF line[c].domain # None THEN line[c].user ELSE k.from_msg
    BY <1>3 DEF Dialogue
  <2>3. PICK f \in Names : f = IF line[c].domain # None THEN line[c].user ELSE None
    BY <1>3 DEF Names
  <2>4. PICK l : l = [k EXCEPT !.cur_state = "FROM", !.from_user = u, !.from_msg = m]
    OBVIOUS
  <2>5. PICK t : t = [NewMail(q.n) EXCEPT !.from = f]
    OBVIOUS
  <2>6. /\ l \in Dialogue /\ l.cur_state = "FROM" /\ l.is_data = k.is_data
        /\ l.first_time = k.first_time /\ l.from_msg = m /\ l.from_user = u
        /\ l.file_msg = k.file_msg /\ l.bytes_written = k.bytes_written
    BY <2>4 DEF Dialogue
  <2>7. <<>> \in Seq(Words) /\ {} \in SUBSET Names
    OBVIOUS
  <2>8. t \in Mails /\ t.n = q.n /\ t.from = f /\ t.text = <<>>
    BY <2>5, <2>7 DEF NewMail, Mails
  <2>9. /\ ~k.is_data
        /\ s' = [s EXCEPT ![c] = [k EXCEPT !.cur_state = "FROM",
                                            !.from_user = IF line[c].domain # None THEN line[c].user ELSE @,
                                            !.from_msg = IF line[c].domain # None THEN line[c].user ELSE @]]
        /\ tx' = [tx EXCEPT ![c] = [NewMail(q.n) EXCEPT !.from = IF line[c].domain # None THEN line[c].user ELSE None]]
    BY <1>1, <1>2, <1>5 DEF MAIL_FROM, Answered, Line
  <2>10. s' = [s EXCEPT ![c] = l]
    BY <2>1, <2>2, <2>4, <2>9
  <2>11. tx' = [tx EXCEPT ![c] = t]
    BY <2>3, <2>5, <2>9
  <2>12. ASSUME Kept(k, q) PROVE Kept(l, t)
    <3> SUFFICES ASSUME t.n = 1
                 PROVE  /\ l.bytes_written = Len(l.file_msg) /\ l.from_msg = l.from_user
                        /\ l.file_msg = AsSent(t.text, l.from_msg)
                        /\ l.first_time <=> Said(t.text) # {}
                        /\ \A i \in DOMAIN l.file_msg : l.file_msg[i] # Zero
      BY <2>8 DEF Kept
    <3>1. /\ k.bytes_written = Len(k.file_msg) /\ k.from_msg = k.from_user
          /\ k.file_msg = AsSent(q.text, k.from_msg)
          /\ k.first_time <=> Said(q.text) # {}
          /\ q.text = <<>>
          /\ \A i \in DOMAIN k.file_msg : k.file_msg[i] # Zero
      BY <2>8, <2>9, <2>12 DEF Kept
    <3>2. k.file_msg = <<>> /\ Said(q.text) = {}
      BY <3>1, AsSentNothing
    <3>3. u = m
      BY <2>1, <2>2, <3>1
    <3>4. AsSent(t.text, l.from_msg) = <<>> /\ Said(t.text) = {}
      BY <2>8, AsSentNothing
    <3> QED
      BY <2>6, <3>1, <3>2, <3>3, <3>4
  <2>13. ASSUME LocalOnly PROVE Heard(l, t)
    <3>1. line[c].domain # None
      BY <1>3, <2>13 DEF LocalOnly
    <3> QED
      BY <2>1, <2>3, <2>6, <2>8, <3>1 DEF Heard
  <2>14. l.is_data <=> l.cur_state = "DATA"
    BY <2>6, <2>9
  <2> QED
    BY <1>1, <1>2, <2>6, <2>8, <2>10, <2>11, <2>12, <2>13, <2>14 DEF Effect
<1> QED
  BY <1>4, <1>5

\* RCPT TO: with mail for this host only, the recipient is the one answered for.
LEMMA RCPT_TOEffect ==
  ASSUME Types, Places, NEW c \in Clients, RCPT_TO(c)
  PROVE  Effect(c)
<1>1. PICK k \in Dialogue : k = s[c]
  BY DEF Types
<1>2. PICK q \in Mails : q = tx[c]
  BY DEF Types
<1>3. line[c].op = "RCPT TO" /\ line[c] \in Commands /\ line[c].user \in Names
  BY LineTypes DEF RCPT_TO, Answered, Line
<1>4. CASE k.cur_state \notin {"FROM", "RECV"}
  <2>1. s' = [s EXCEPT ![c] = s[c]] /\ tx' = [tx EXCEPT ![c] = [tx[c] EXCEPT !.rcpts = @]]
    BY <1>1, <1>4 DEF RCPT_TO, Answered, Line
  <2>2. [q EXCEPT !.rcpts = @] = q
    BY DEF Mails
  <2> QED
    BY <1>2, <2>1, <2>2, SameEffect
<1>5. CASE k.cur_state \in {"FROM", "RECV"}
  <2>1. PICK u \in Names : u = IF line[c].domain # None THEN line[c].user ELSE k.rcpt_user
    BY <1>3 DEF Dialogue
  <2>2. PICK r \in SUBSET Names : r = IF line[c].domain = "localhost" THEN q.rcpts \union {line[c].user} ELSE q.rcpts
    BY <1>3 DEF Mails
  <2>3. PICK l : l = [k EXCEPT !.cur_state = "RECV", !.rcpt_user = u]
    OBVIOUS
  <2>4. PICK t : t = [q EXCEPT !.rcpts = r]
    OBVIOUS
  <2>5. /\ l \in Dialogue /\ l.cur_state = "RECV" /\ l.is_data = k.is_data
        /\ l.first_time = k.first_time /\ l.from_msg = k.from_msg /\ l.from_user = k.from_user
        /\ l.file_msg = k.file_msg /\ l.bytes_written = k.bytes_written /\ l.rcpt_user = u
    BY <2>3 DEF Dialogue
  <2>6. t \in Mails /\ t.n = q.n /\ t.from = q.from /\ t.text = q.text /\ t.rcpts = r
    BY <2>4 DEF Mails
  <2>7. /\ ~k.is_data
        /\ s' = [s EXCEPT ![c] = [k EXCEPT !.cur_state = "RECV",
                                            !.rcpt_user = IF line[c].domain # None THEN line[c].user ELSE @]]
        /\ tx' = [tx EXCEPT ![c] = [q EXCEPT !.rcpts = IF line[c].domain = "localhost"
                                                        THEN @ \union {line[c].user} ELSE @]]
    BY <1>1, <1>2, <1>5 DEF RCPT_TO, Answered, Line
  <2>8. s' = [s EXCEPT ![c] = l]
    BY <2>1, <2>3, <2>7
  <2>9. tx' = [tx EXCEPT ![c] = t]
    BY <2>2, <2>4, <2>7
  <2>10. Kept(k, q) => Kept(l, t)
    BY <2>5, <2>6 DEF Kept
  <2>11. ASSUME LocalOnly, Heard(k, q) PROVE Heard(l, t)
    <3>1. line[c].domain = "localhost"
      BY <1>3, <2>11 DEF LocalOnly
    <3>2. "localhost" # None
      BY DEF None
    <3>3. u \in r
      BY <2>1, <2>2, <3>1, <3>2
    <3>4. l.from_user = t.from
      BY <1>5, <2>5, <2>6, <2>11 DEF Heard
    <3> QED
      BY <2>5, <2>6, <3>3, <3>4 DEF Heard
  <2>12. l.is_data <=> l.cur_state = "DATA"
    BY <2>5, <2>7
  <2> QED
    BY <1>1, <1>2, <2>5, <2>6, <2>8, <2>9, <2>10, <2>11, <2>12 DEF Effect
<1> QED
  BY <1>4, <1>5

\* DATA asks for the lines: none of them is there yet.
LEMMA DATAEffect ==
  ASSUME Types, Places, NEW c \in Clients, DATA(c)
  PROVE  Effect(c)
<1>1. PICK k \in Dialogue : k = s[c]
  BY DEF Types
<1>2. PICK q \in Mails : q = tx[c]
  BY DEF Types
<1>3. CASE k.cur_state # "RECV"
  <2>1. s' = [s EXCEPT ![c] = s[c]] /\ tx' = [tx EXCEPT ![c] = tx[c]]
    BY <1>1, <1>3 DEF DATA, Answered, Line
  <2> QED
    BY <2>1, SameEffect
<1>4. CASE k.cur_state = "RECV"
  <2>1. PICK l : l = [k EXCEPT !.cur_state = "DATA", !.is_data = TRUE]
    OBVIOUS
  <2>2. PICK t : t = [q EXCEPT !.text = <<>>]
    OBVIOUS
  <2>3. /\ l \in Dialogue /\ l.cur_state = "DATA" /\ l.is_data
        /\ l.first_time = k.first_time /\ l.from_msg = k.from_msg /\ l.from_user = k.from_user
        /\ l.file_msg = k.file_msg /\ l.bytes_written = k.bytes_written /\ l.rcpt_user = k.rcpt_user
    BY <2>1 DEF Dialogue
  <2>4. <<>> \in Seq(Words)
    OBVIOUS
  <2>5. t \in Mails /\ t.n = q.n /\ t.from = q.from /\ t.text = <<>> /\ t.rcpts = q.rcpts
    BY <2>2, <2>4 DEF Mails
  <2>6. s' = [s EXCEPT ![c] = l] /\ ~k.is_data
    BY <1>1, <1>4, <2>1 DEF DATA, Answered, Line
  <2>7. tx' = [tx EXCEPT ![c] = t]
    BY <1>1, <1>2, <1>4, <2>2 DEF DATA, Answered, Line
  <2>8. Kept(k, q) => Kept(l, t)
    BY <2>3, <2>5, <2>6 DEF Kept
  <2>9. Heard(k, q) => Heard(l, t)
    BY <1>4, <2>3, <2>5 DEF Heard
  <2> QED
    BY <1>1, <1>2, <2>3, <2>5, <2>6, <2>7, <2>8, <2>9 DEF Effect
<1> QED
  BY <1>3, <1>4

\* A line of text is kept as it was sent.
LEMMA TextEffect ==
  ASSUME Types, Places, NEW c \in Clients, TextLine(c)
  PROVE  Effect(c)
<1>1. PICK k \in Dialogue : k = s[c]
  BY DEF Types
<1>2. PICK q \in Mails : q = tx[c]
  BY DEF Types
<1>3. PICK w \in Words : w = line[c].user
  BY LineTypes DEF TextLine, Line
<1>4. PICK l : l = PutText(k, w)
  OBVIOUS
<1>5. PICK u \in Seq(Words) : u = Append(q.text, w)
  <2>1. q.text \in Seq(Words)
    BY DEF Mails
  <2>2. Append(q.text, w) \in Seq(Words)
    BY <2>1
  <2> QED
    BY <2>2
<1>6. PICK t : t = [q EXCEPT !.text = u]
  OBVIOUS
<1>7. /\ l \in Dialogue /\ (l.first_time <=> k.first_time \/ w # Blank)
      /\ l.cur_state = k.cur_state /\ l.is_data = k.is_data /\ l.from_msg = k.from_msg
      /\ l.from_user = k.from_user /\ l.rcpt_user = k.rcpt_user
      /\ k.bytes_written = Len(k.file_msg) =>
           /\ l.bytes_written = Len(l.file_msg)
           /\ l.file_msg = IF w = Blank \/ k.first_time THEN Append(k.file_msg, Cell("text", w))
                           ELSE Append(Append(k.file_msg, From(k.from_msg)), Cell("text", w))
  BY <1>4, PutTextTypes
<1>8. t \in Mails /\ t.n = q.n /\ t.from = q.from /\ t.text = u /\ t.rcpts = q.rcpts
  BY <1>5, <1>6 DEF Mails
<1>9. k.is_data /\ s' = [s EXCEPT ![c] = l]
  BY <1>1, <1>3, <1>4 DEF TextLine, Line
<1>10. tx' = [tx EXCEPT ![c] = t]
  BY <1>2, <1>3, <1>5, <1>6 DEF TextLine, Line
<1>11. ASSUME Kept(k, q), t.n = 1
       PROVE  /\ l.bytes_written = Len(l.file_msg) /\ l.from_msg = l.from_user
              /\ l.file_msg = AsSent(t.text, l.from_msg)
              /\ l.first_time <=> Said(t.text) # {}
              /\ \A i \in DOMAIN l.file_msg : l.file_msg[i] # Zero
  <2>1. /\ k.bytes_written = Len(k.file_msg) /\ k.from_msg = k.from_user
        /\ k.file_msg = AsSent(q.text, k.from_msg)
        /\ k.first_time <=> Said(q.text) # {}
        /\ \A i \in DOMAIN k.file_msg : k.file_msg[i] # Zero
    BY <1>8, <1>11 DEF Kept
  <2>2. /\ AsSent(u, k.from_msg) =
             IF w = Blank \/ Said(q.text) # {} THEN Append(AsSent(q.text, k.from_msg), Cell("text", w))
               ELSE Append(Append(AsSent(q.text, k.from_msg), From(k.from_msg)), Cell("text", w))
        /\ Said(u) # {} <=> Said(q.text) # {} \/ w # Blank
    <3>1. q.text \in Seq(Words) /\ k.from_msg \in Names
      BY DEF Mails, Dialogue
    <3> QED
      BY <1>5, <3>1, AsSentAppend
  <2>3. l.file_msg = AsSent(t.text, l.from_msg)
    BY <1>7, <1>8, <2>1, <2>2
  <2>4. l.first_time <=> Said(t.text) # {}
    BY <1>7, <1>8, <2>1, <2>2
  <2>5. \A i \in DOMAIN l.file_msg : l.file_msg[i] # Zero
    <3>1. PICK x : x = Cell("text", w) /\ x \in Cells /\ x # Zero
      BY CellTypes
    <3>2. PICK h : h = From(k.from_msg) /\ h \in Cells /\ h # Zero
      BY CellTypes DEF Dialogue
    <3>3. PICK g \in Seq(Cells) : g = k.file_msg
      BY DEF Dialogue
    <3>4. l.file_msg = Append(g, x) \/ l.file_msg = Append(Append(g, h), x)
      BY <1>7, <2>1, <3>1, <3>2, <3>3
    <3>5. \A i \in DOMAIN Append(g, x) : Append(g, x)[i] # Zero
      BY <2>1, <3>1, <3>3
    <3>6. \A i \in DOMAIN Append(Append(g, h), x) : Append(Append(g, h), x)[i] # Zero
      BY <2>1, <3>1, <3>2, <3>3
    <3> QED
      BY <3>4, <3>5, <3>6
  <2> QED
    BY <1>7, <2>1, <2>3, <2>4, <2>5
<1>12. Kept(k, q) => Kept(l, t)
  BY <1>7, <1>9, <1>11 DEF Kept
<1>13. Heard(k, q) => Heard(l, t)
  BY <1>7, <1>8 DEF Heard
<1>14. l.is_data <=> l.cur_state = "DATA"
  BY <1>1, <1>7 DEF Places
<1> QED
  BY <1>1, <1>2, <1>7, <1>8, <1>9, <1>10, <1>12, <1>13, <1>14 DEF Effect

-----------------------------------------------------------------------------
(* What a step does to the mails that are handed over.                     *)

\* The requests on the way are requests.
LEMMA MailTypes ==
  ASSUME Types, Places, NEW c \in Clients
  PROVE  Mail(c) \in Requests
<1>1. PICK k \in Dialogue : k = s[c]
  BY DEF Types
<1>2. tx[c].n \in Nat /\ tx[c].n >= 1
  BY DEF Types, Mails, Places
<1>3. PICK id \in Clients \X Nat : id = <<c, tx[c].n - 1>>
  <2>1. tx[c].n - 1 \in Nat
    BY <1>2
  <2>2. <<c, tx[c].n - 1>> \in Clients \X Nat
    BY <2>1
  <2> QED
    BY <2>2
<1>4. PICK f \in Seq(Cells) : f = k.file_msg
  BY DEF Dialogue
<1>5. PICK x \in Seq(Cells) : x = StringIn(f)
  <2> DEFINE zeros == {i \in DOMAIN f : f[i] = Zero}
  <2>1. CASE zeros = {}
    <3>1. StringIn(f) = f
      BY <2>1 DEF StringIn
    <3> QED
      BY <3>1
  <2>2. CASE zeros # {}
    <3>1. zeros \in SUBSET Nat /\ zeros \in SUBSET (1..Len(f))
      OBVIOUS
    <3>2. Min(zeros) \in zeros
      <4> HIDE DEF zeros
      <4>1. \E i \in zeros : \A j \in zeros : i <= j
        BY <2>2, <3>1, Smallest
      <4> QED
        BY <4>1 DEF Min
    <3>3. SubSeq(f, 1, Min(zeros) - 1) \in Seq(Cells)
      <4> HIDE DEF zeros
      <4>1. PICK m \in 1..Len(f) : m = Min(zeros)
        BY <3>1, <3>2
      <4>2. SubSeq(f, 1, m - 1) \in Seq(Cells)
        OBVIOUS
      <4> QED
        BY <4>1, <4>2
    <3>4. StringIn(f) = SubSeq(f, 1, Min(zeros) - 1)
      BY <2>2 DEF StringIn
    <3> QED
      BY <3>3, <3>4
  <2> QED
    BY <2>1, <2>2
<1>6. Mail(c) = [op |-> "putmail", id |-> id, from |-> k.from_user, to |-> k.rcpt_user, text |-> x]
  BY <1>1, <1>3, <1>4, <1>5 DEF Mail
<1> QED
  BY <1>3, <1>6 DEF Requests, Dialogue

\* A mail stays the same while its connection does not change.
LEMMA MailSame ==
  ASSUME NEW c \in Clients, s'[c] = s[c], tx'[c] = tx[c]
  PROVE  Mail(c)' = Mail(c)
BY DEF Mail

\* The farewell is no mail.
LEMMA GoodbyeIsNoMail == Goodbye.op # "putmail" /\ Goodbye \in Requests
BY DEF Goodbye, Requests

\* The invariant about types and places.
IInv == Types /\ Places

\* Every connection is where Effect leaves it: the invariant is kept.
LEMMA EffectKeeps ==
  ASSUME IInv, NEW c \in Clients, Effect(c),
         line' = [line EXCEPT ![c] = NoLine],
         pc' \in [Clients -> {"none", "loop", "mail", "await", "done"}],
         pc'[c] \notin {"mail", "await"}, \A d \in Clients \ {c} : pc'[d] = pc[d],
         toStore' \in Seq(Requests),
         {toStore'[i] : i \in {j \in DOMAIN toStore' : toStore'[j].op = "putmail"}} \subseteq
           {toStore[i] : i \in {j \in DOMAIN toStore : toStore[j].op = "putmail"}},
         stored' = stored
  PROVE  IInv' /\ Handed' \subseteq Handed
<1>1. PICK l \in Dialogue, t \in Mails :
        /\ s' = [s EXCEPT ![c] = l] /\ tx' = [tx EXCEPT ![c] = t]
        /\ t.n = tx[c].n /\ (l.is_data <=> l.cur_state = "DATA")
  BY DEF Effect
<1>2. /\ s' \in [Clients -> Dialogue] /\ tx' \in [Clients -> Mails]
      /\ s'[c] = l /\ tx'[c] = t
      /\ \A d \in Clients \ {c} : s'[d] = s[d] /\ tx'[d] = tx[d]
  BY <1>1 DEF IInv, Types
<1>3. line' \in [Clients -> Commands \union {NoLine, Dot} \union {Text(w) : w \in Words}]
  BY DEF IInv, Types
<1>4. Types'
  BY <1>2, <1>3 DEF Types
<1>5. Places'
  BY <1>1, <1>2 DEF IInv, Places
<1>6. {Mail(d) : d \in {e \in Clients : pc[e] = "mail"}}' \subseteq
        {Mail(d) : d \in {e \in Clients : pc[e] = "mail"}}
  <2> SUFFICES ASSUME NEW d \in Clients, pc'[d] = "mail"
               PROVE  pc[d] = "mail" /\ Mail(d)' = Mail(d)
    OBVIOUS
  <2> QED
    BY <1>2, MailSame
<1> QED
  BY <1>4, <1>5, <1>6 DEF IInv, Handed

\* The steps that read a line and answer it.
LEMMA AnswerStep ==
  ASSUME IInv, NEW c \in Clients,
         \/ HELO(c) \/ MAIL_FROM(c) \/ RCPT_TO(c) \/ DATA(c) \/ NOOP(c) \/ Unknown(c)
         \/ TextLine(c) \/ QUIT(c)
  PROVE  IInv' /\ Effect(c) /\ acked' = acked /\ Handed' \subseteq Handed
<1> USE DEF IInv
<1>1. Effect(c)
  <2>1. CASE NOOP(c) \/ Unknown(c) \/ QUIT(c)
    <3>1. s' = [s EXCEPT ![c] = s[c]] /\ tx' = [tx EXCEPT ![c] = tx[c]]
      BY <2>1 DEF NOOP, Unknown, QUIT, Answered, Line
    <3> QED
      BY <3>1, SameEffect
  <2> QED
    BY <2>1, HELOEffect, MAIL_FROMEffect, RCPT_TOEffect, DATAEffect, TextEffect
<1>2. /\ line' = [line EXCEPT ![c] = NoLine] /\ pc[c] = "loop" /\ acked' = acked /\ stored' = stored
      /\ \/ UNCHANGED <<pc, toStore>>
         \/ pc' = [pc EXCEPT ![c] = "done"] /\ toStore' = Append(toStore, Goodbye)
  BY DEF HELO, MAIL_FROM, RCPT_TO, DATA, NOOP, Unknown, TextLine, QUIT, Answered, Line, Looping
<1>3. /\ pc' \in [Clients -> {"none", "loop", "mail", "await", "done"}]
      /\ pc'[c] \notin {"mail", "await"} /\ \A d \in Clients \ {c} : pc'[d] = pc[d]
  BY <1>2 DEF Types
<1>4. /\ toStore' \in Seq(Requests)
      /\ {toStore'[i] : i \in {j \in DOMAIN toStore' : toStore'[j].op = "putmail"}} \subseteq
           {toStore[i] : i \in {j \in DOMAIN toStore : toStore[j].op = "putmail"}}
  <2>1. CASE UNCHANGED toStore
    BY <2>1 DEF Types
  <2>2. CASE toStore' = Append(toStore, Goodbye)
    BY <2>2, GoodbyeIsNoMail DEF Types
  <2> QED
    BY <1>2, <2>1, <2>2
<1> QED
  BY <1>1, <1>2, <1>3, <1>4, EffectKeeps

\* The steps of the main thread and of the clients, and those of a thread that
\* read no line.
LEMMA QuietStep ==
  ASSUME IInv,
         \/ StopAccepting \/ Join \/ signal_interrupt
         \/ \E c \in Clients : Accept(c) \/ Send(c) \/ HangUp(c)
         \/ \E c \in Clients : RecvNothing(c) \/ RecvEnd(c) \/ SeeShutdown(c)
  PROVE  IInv' /\ UNCHANGED <<s, tx, acked>> /\ Handed' \subseteq Handed
<1> USE DEF IInv
<1>1. UNCHANGED <<s, tx, acked, toStore, stored>>
  BY DEF StopAccepting, Join, signal_interrupt, Accept, Send, HangUp, RecvNothing, RecvEnd, SeeShutdown,
         connVars, storeVars, clientVars
<1>2. /\ pc' \in [Clients -> {"none", "loop", "mail", "await", "done"}]
      /\ \A d \in Clients : pc'[d] \in {"mail", "await"} => pc'[d] = pc[d]
  BY DEF Types, StopAccepting, Join, signal_interrupt, Accept, Send, HangUp, RecvNothing, RecvEnd,
         SeeShutdown
<1>3. line' \in [Clients -> Commands \union {NoLine, Dot} \union {Text(t) : t \in Words}]
  <2>1. CASE \E c \in Clients : Send(c)
    <3>0. PICK c \in Clients : Send(c)
      BY <2>1
    <3>1. PICK l \in Sendable(c) : line' = [line EXCEPT ![c] = l]
      BY <3>0 DEF Send
    <3>2. l \in Commands \union {NoLine, Dot} \union {Text(t) : t \in Words}
      BY DEF Sendable, Words
    <3> QED
      BY <3>1, <3>2 DEF Types
  <2>2. CASE UNCHANGED line
    BY <2>2 DEF Types
  <2> QED
    BY <2>1, <2>2 DEF StopAccepting, Join, signal_interrupt, Accept, HangUp, RecvNothing, RecvEnd,
                      SeeShutdown, connVars
<1>4. Types' /\ Places'
  BY <1>1, <1>2, <1>3 DEF Types, Places
<1>5. \A d \in Clients : pc'[d] = "mail" => pc[d] = "mail" /\ Mail(d)' = Mail(d)
  BY <1>1, <1>2 DEF Mail
<1> QED
  BY <1>1, <1>4, <1>5 DEF Handed

\* send_email hands the mail to the storage server.
LEMMA SendStep ==
  ASSUME IInv, NEW c \in Clients, send_email(c)
  PROVE  IInv' /\ UNCHANGED <<s, tx, acked>> /\ Handed' \subseteq Handed
<1> USE DEF IInv
<1>1. PICK m \in Requests : m = Mail(c)
  BY MailTypes
<1>2. pc[c] = "mail" /\ toStore' = Append(toStore, m) /\ pc' = [pc EXCEPT ![c] = "await"]
  BY <1>1 DEF send_email, Mail
<1>3. UNCHANGED <<s, tx, acked, stored, line>>
  BY DEF send_email, connVars, clientVars
<1>4. Types'
  BY <1>2, <1>3 DEF Types
<1>5. Places'
  BY <1>2, <1>3 DEF Places, Types
<1>6. \A d \in Clients : pc'[d] = "mail" => pc[d] = "mail" /\ Mail(d)' = Mail(d)
  BY <1>2, <1>3 DEF Mail, Types
<1>7. \A i \in DOMAIN toStore' : toStore'[i] = m \/ (i \in DOMAIN toStore /\ toStore'[i] = toStore[i])
  BY <1>2 DEF Types
<1>8. m \in Handed
  BY <1>1, <1>2 DEF Handed
<1> QED
  BY <1>3, <1>4, <1>5, <1>6, <1>7, <1>8 DEF Handed

\* The storage server takes requests and stores the first one.
LEMMA StoreStep ==
  ASSUME IInv, read_commands
  PROVE  IInv' /\ UNCHANGED <<s, tx, acked>> /\ Handed' \subseteq Handed
<1> USE DEF IInv
<1>1. PICK k \in 1..Len(toStore) : toStore' = SubSeq(toStore, k + 1, Len(toStore))
  BY DEF read_commands, Types
<1>2. UNCHANGED <<s, tx, acked, line, pc>> /\ toStore # <<>>
  BY DEF read_commands, connVars, clientVars
<1>3. /\ toStore' \in Seq(Requests)
      /\ \A i \in DOMAIN toStore' : i + k \in DOMAIN toStore /\ toStore'[i] = toStore[i + k]
  BY <1>1 DEF Types
<1>4. stored' \subseteq stored \union {r \in {Head(toStore)} : r.op = "putmail"}
  BY DEF read_commands
<1>5. 1 \in DOMAIN toStore /\ Head(toStore) = toStore[1]
  BY <1>2 DEF Types
<1>6. Types' /\ Places'
  BY <1>2, <1>3 DEF Types, Places
<1>7. \A d \in Clients : Mail(d)' = Mail(d)
  BY <1>2 DEF Mail
<1>8. {toStore'[i] : i \in {j \in DOMAIN toStore' : toStore'[j].op = "putmail"}} \subseteq Handed
  BY <1>3 DEF Handed
<1>9. stored' \subseteq Handed
  BY <1>4, <1>5 DEF Handed
<1> QED
  BY <1>2, <1>6, <1>7, <1>8, <1>9 DEF Handed

\* The thread that has a reply wipes its buffers: its first mail is over.
LEMMA ReplyStep ==
  ASSUME IInv, NEW c \in Clients, RecvReply(c)
  PROVE  /\ IInv' /\ UNCHANGED <<tx, acked>> /\ Handed' \subseteq Handed
         /\ tx[c].n > 1 /\ \A d \in Clients \ {c} : s'[d] = s[d]
         /\ Heard(s[c], tx[c]) => Heard(s[c], tx[c])'
<1> USE DEF IInv
<1>1. PICK k \in Dialogue : k = s[c]
  BY DEF Types
<1>2. PICK f : f = Cleared(k.file_msg)
  OBVIOUS
<1>3. PICK l : l = [k EXCEPT !.file_msg = f, !.bytes_written = 0]
  OBVIOUS
<1>4. s' = [s EXCEPT ![c] = l]
  BY <1>1, <1>2, <1>3 DEF RecvReply, Types
<1>5. f \in Seq(Cells)
  <2>1. PICK g \in Seq(Cells) : g = k.file_msg
    BY DEF Dialogue
  <2>2. f \in [1..Len(g) -> Cells]
    BY <1>2, <2>1, CellTypes DEF Cleared
  <2> QED
    BY <2>2
<1>6. /\ l \in Dialogue /\ l.cur_state = k.cur_state /\ l.is_data = k.is_data
      /\ l.from_user = k.from_user /\ l.rcpt_user = k.rcpt_user
  BY <1>3, <1>5 DEF Dialogue
<1>7. /\ s' \in [Clients -> Dialogue] /\ s'[c] = l /\ \A d \in Clients \ {c} : s'[d] = s[d]
  BY <1>4, <1>6 DEF Types
<1>8. /\ pc[c] = "await" /\ pc' = [pc EXCEPT ![c] = "loop"]
      /\ UNCHANGED <<tx, acked, line, toStore, stored>>
  BY DEF RecvReply, connVars, clientVars
<1>9. Types'
  BY <1>7, <1>8 DEF Types
<1>10. Places'
  BY <1>1, <1>6, <1>7, <1>8 DEF Places, Types
<1>11. \A d \in Clients : pc'[d] = "mail" => pc[d] = "mail" /\ Mail(d)' = Mail(d)
  <2> SUFFICES ASSUME NEW d \in Clients, pc'[d] = "mail" PROVE pc[d] = "mail" /\ Mail(d)' = Mail(d)
    OBVIOUS
  <2>1. d # c /\ pc[d] = "mail"
    BY <1>8 DEF Types
  <2> QED
    BY <1>7, <1>8, <2>1, MailSame
<1>12. Handed' \subseteq Handed
  BY <1>8, <1>11 DEF Handed
<1>13. Heard(s[c], tx[c]) => Heard(s[c], tx[c])'
  BY <1>1, <1>6, <1>7, <1>8 DEF Heard
<1>14. tx[c].n > 1
  BY <1>8 DEF Places
<1> QED
  BY <1>7, <1>8, <1>9, <1>10, <1>12, <1>13, <1>14

\* The answer to the end of the text: the mail is noted as accepted, and is
\* what send_email will send.
LEMMA EndStep ==
  ASSUME IInv, NEW c \in Clients, EndOfText(c)
  PROVE  \E a \in acked' :
           /\ IInv' /\ acked \subseteq acked' /\ Handed' \subseteq Handed \union {Mail(c)'}
           /\ tx[c].n >= 1 /\ tx'[c].n > 1 /\ s[c].cur_state = "DATA"
           /\ s'[c].cur_state = "SESSION"
           /\ \A d \in Clients \ {c} : s'[d] = s[d] /\ tx'[d] = tx[d]
           /\ Mail(c)'.id = a.n /\ a.n = <<c, tx[c].n>>
           /\ a.from = tx[c].from /\ a.rcpts = tx[c].rcpts /\ a.text = tx[c].text
           /\ Mail(c)'.from = s[c].from_user /\ Mail(c)'.to = s[c].rcpt_user
           /\ Mail(c)'.text = StringIn(s[c].file_msg)
<1> USE DEF IInv
<1>1. PICK k \in Dialogue : k = s[c]
  BY DEF Types
<1>2. PICK q \in Mails : q = tx[c]
  BY DEF Types
<1>3. q.n \in Nat /\ q.n >= 1
  BY <1>2 DEF Places, Mails
<1>4. PICK n \in Nat : n = q.n + 1
  BY <1>3
<1>5. PICK l : l = [k EXCEPT !.is_data = FALSE, !.cur_state = "SESSION"]
  OBVIOUS
<1>6. PICK t : t = [q EXCEPT !.n = n]
  OBVIOUS
<1>7. PICK a : a = [q EXCEPT !.n = <<c, q.n>>]
  OBVIOUS
<1>8. /\ k.is_data /\ s' = [s EXCEPT ![c] = l] /\ line' = [line EXCEPT ![c] = NoLine]
      /\ pc' = [pc EXCEPT ![c] = "mail"] /\ UNCHANGED <<toStore, stored>>
  BY <1>1, <1>5 DEF EndOfText, Line
<1>9. tx' = [tx EXCEPT ![c] = t]
  BY <1>2, <1>4, <1>6 DEF EndOfText, Line
<1>10. acked' = acked \union {a}
  BY <1>2, <1>7 DEF EndOfText
<1>11. /\ l \in Dialogue /\ l.cur_state = "SESSION" /\ ~l.is_data
       /\ l.from_user = k.from_user /\ l.rcpt_user = k.rcpt_user /\ l.file_msg = k.file_msg
  BY <1>5 DEF Dialogue
<1>12. t \in Mails /\ t.n = n
  BY <1>6 DEF Mails
<1>13. a.n = <<c, q.n>> /\ a.from = q.from /\ a.rcpts = q.rcpts /\ a.text = q.text
  BY <1>7 DEF Mails
<1>14. /\ s' \in [Clients -> Dialogue] /\ tx' \in [Clients -> Mails] /\ s'[c] = l /\ tx'[c] = t
       /\ \A d \in Clients \ {c} : s'[d] = s[d] /\ tx'[d] = tx[d]
  BY <1>8, <1>9, <1>11, <1>12 DEF Types
<1>15. line' \in [Clients -> Commands \union {NoLine, Dot} \union {Text(w) : w \in Words}]
  BY <1>8 DEF Types
<1>16. Types'
  BY <1>8, <1>14, <1>15 DEF Types
<1>17. Places'
  <2>1. n > 1
    BY <1>3, <1>4
  <2>2. \A d \in Clients \ {c} : pc'[d] = pc[d]
    BY <1>8
  <2> QED
    BY <1>11, <1>12, <1>14, <2>1, <2>2 DEF Places
<1>18. \A d \in Clients : pc'[d] = "mail" => d = c \/ (pc[d] = "mail" /\ Mail(d)' = Mail(d))
  <2> SUFFICES ASSUME NEW d \in Clients \ {c}, pc'[d] = "mail" PROVE pc[d] = "mail" /\ Mail(d)' = Mail(d)
    OBVIOUS
  <2> QED
    BY <1>8, <1>14, MailSame
<1>19. Handed' \subseteq Handed \union {Mail(c)'}
  BY <1>8, <1>18 DEF Handed
<1>20. /\ Mail(c)'.id = a.n
       /\ Mail(c)'.from = k.from_user /\ Mail(c)'.to = k.rcpt_user /\ Mail(c)'.text = StringIn(k.file_msg)
  <2>1. /\ Mail(c)'.id = <<c, tx'[c].n - 1>> /\ Mail(c)'.from = s'[c].from_user
        /\ Mail(c)'.to = s'[c].rcpt_user /\ Mail(c)'.text = StringIn(s'[c].file_msg)
    BY DEF Mail
  <2>2. tx'[c].n - 1 = q.n
    BY <1>3, <1>4, <1>12, <1>14
  <2> QED
    BY <1>11, <1>13, <1>14, <2>1, <2>2
<1>21. n > 1 /\ k.cur_state = "DATA"
  BY <1>1, <1>3, <1>4, <1>8 DEF Places
<1> QED
  BY <1>1, <1>2, <1>3, <1>10, <1>11, <1>12, <1>13, <1>14, <1>16, <1>17, <1>19, <1>20, <1>21

-----------------------------------------------------------------------------
(* What reaches a box was accepted.                                        *)

Accepted(m) == \E a \in acked : a.n = m.id /\ m.from = a.from /\ m.to \in a.rcpts

AcceptInv ==
  /\ IInv /\ \A c \in Clients : Heard(s[c], tx[c])
  /\ \A m \in Handed : Accepted(m)

\* At first no mail is handed over and the locals are clear.
LEMMA InitIInv ==
  ASSUME Init
  PROVE  IInv /\ Handed = {} /\ \A c \in Clients : Heard(s[c], tx[c]) /\ Kept(s[c], tx[c])
<1>1. <<>> \in Seq(Cells) /\ <<>> \in Seq(Words) /\ <<>> \in Seq(Requests)
  OBVIOUS
<1>2. PICK l : l = Locals
  OBVIOUS
<1>3. /\ l \in Dialogue /\ l.cur_state = "INVALID" /\ ~l.is_data /\ ~l.first_time
      /\ l.from_msg = l.from_user /\ l.file_msg = <<>> /\ l.bytes_written = 0
  BY <1>1, <1>2 DEF Locals, Dialogue, Names
<1>4. PICK t : t = NewMail(1)
  OBVIOUS
<1>5. t \in Mails /\ t.n = 1 /\ t.text = <<>>
  BY <1>1, <1>4 DEF NewMail, Mails, Names
<1>6. \A c \in Clients : s[c] = l /\ tx[c] = t /\ pc[c] = "none"
  BY <1>2, <1>4 DEF Init
<1>7. Types
  BY <1>1, <1>2, <1>3, <1>4, <1>5 DEF Init, Types
<1>8. Places
  BY <1>3, <1>5, <1>6 DEF Places
<1>9. Handed = {}
  BY <1>6 DEF Init, Handed
<1>10. Heard(l, t)
  BY <1>3 DEF Heard
<1>11. Kept(l, t)
  <2>1. Len(l.file_msg) = 0 /\ DOMAIN l.file_msg = {}
    BY <1>3
  <2> QED
    BY <1>3, <1>5, <2>1, AsSentNothing DEF Kept
<1> QED
  BY <1>6, <1>7, <1>8, <1>9, <1>10, <1>11 DEF IInv

\* A step that changes one connection, at most, by what Effect says.
LEMMA AcceptEffect ==
  ASSUME LocalOnly, AcceptInv, NEW c \in Clients, Effect(c), IInv', acked' = acked, Handed' \subseteq Handed
  PROVE  AcceptInv'
<1>1. \A d \in Clients : Heard(s[d], tx[d])'
  <2>1. PICK l \in Dialogue, t \in Mails :
          /\ s' = [s EXCEPT ![c] = l] /\ tx' = [tx EXCEPT ![c] = t]
          /\ LocalOnly /\ Heard(s[c], tx[c]) => Heard(l, t)
    BY DEF Effect
  <2>2. s'[c] = l /\ tx'[c] = t /\ \A d \in Clients \ {c} : s'[d] = s[d] /\ tx'[d] = tx[d]
    BY <2>1 DEF AcceptInv, IInv, Types
  <2>3. Heard(l, t) /\ \A d \in Clients : Heard(s[d], tx[d])
    BY <2>1 DEF AcceptInv
  <2>4. \A d \in Clients : Heard(s'[d], tx'[d])
    BY <2>2, <2>3
  <2> QED
    BY <2>4
<1> QED
  BY <1>1 DEF AcceptInv, Accepted

\* Every step keeps the invariant.
LEMMA AcceptStep ==
  ASSUME LocalOnly, AcceptInv, [Next]_vars
  PROVE  AcceptInv'
<1>0. IInv /\ (\A c \in Clients : Heard(s[c], tx[c])) /\ \A m \in Handed : Accepted(m)
  BY DEF AcceptInv
<1>1. ASSUME IInv', UNCHANGED <<s, tx, acked>>, Handed' \subseteq Handed PROVE AcceptInv'
  BY <1>0, <1>1 DEF AcceptInv, Accepted
<1>2. CASE UNCHANGED vars
  <2>1. UNCHANGED <<pc, line, s, tx, toStore, stored, acked>>
    BY <1>2 DEF vars, connVars, storeVars, clientVars
  <2>2. IInv'
    BY <1>0, <2>1 DEF IInv, Types, Places
  <2>3. Handed' \subseteq Handed
    BY <2>1 DEF Handed, Mail
  <2> QED
    BY <1>1, <2>1, <2>2, <2>3
<1>3. CASE \/ StopAccepting \/ Join \/ signal_interrupt
           \/ \E c \in Clients : Accept(c) \/ Send(c) \/ HangUp(c)
           \/ \E c \in Clients : RecvNothing(c) \/ RecvEnd(c) \/ SeeShutdown(c)
  BY <1>0, <1>1, <1>3, QuietStep
<1>4. CASE read_commands
  BY <1>0, <1>1, <1>4, StoreStep
<1>5. ASSUME NEW c \in Clients, send_email(c) PROVE AcceptInv'
  BY <1>0, <1>1, <1>5, SendStep
<1>6. ASSUME NEW c \in Clients, RecvReply(c) PROVE AcceptInv'
  <2>1. /\ IInv' /\ UNCHANGED <<tx, acked>> /\ Handed' \subseteq Handed
        /\ \A d \in Clients \ {c} : s'[d] = s[d]
        /\ Heard(s[c], tx[c])'
    BY <1>0, <1>6, ReplyStep
  <2>2. \A d \in Clients \ {c} : Heard(s'[d], tx'[d])
    BY <1>0, <2>1
  <2>3. \A d \in Clients : Heard(s[d], tx[d])'
    BY <2>1, <2>2
  <2> QED
    BY <1>0, <2>1, <2>3 DEF AcceptInv, Accepted
<1>7. ASSUME NEW c \in Clients, EndOfText(c) PROVE AcceptInv'
  <2>1. PICK a \in acked' :
          /\ IInv' /\ acked \subseteq acked' /\ Handed' \subseteq Handed \union {Mail(c)'}
          /\ s[c].cur_state = "DATA" /\ s'[c].cur_state = "SESSION"
          /\ \A d \in Clients \ {c} : s'[d] = s[d] /\ tx'[d] = tx[d]
          /\ Mail(c)'.id = a.n /\ a.from = tx[c].from /\ a.rcpts = tx[c].rcpts
          /\ Mail(c)'.from = s[c].from_user /\ Mail(c)'.to = s[c].rcpt_user
    BY <1>0, <1>7, EndStep
  <2>2. s[c].from_user = tx[c].from /\ s[c].rcpt_user \in tx[c].rcpts
    BY <1>0, <2>1 DEF Heard
  <2>3. Heard(s'[c], tx'[c])
    BY <2>1 DEF Heard
  <2>4. \A d \in Clients \ {c} : Heard(s'[d], tx'[d])
    BY <1>0, <2>1
  <2>5. \A d \in Clients : Heard(s[d], tx[d])'
    BY <2>3, <2>4
  <2>6. \A m \in Handed' : Accepted(m)'
    BY <1>0, <2>1, <2>2 DEF Accepted
  <2> QED
    BY <2>1, <2>5, <2>6 DEF AcceptInv
<1>8. ASSUME NEW c \in Clients,
             \/ HELO(c) \/ MAIL_FROM(c) \/ RCPT_TO(c) \/ DATA(c) \/ NOOP(c) \/ Unknown(c)
             \/ TextLine(c) \/ QUIT(c)
      PROVE  AcceptInv'
  <2>1. IInv' /\ Effect(c) /\ acked' = acked /\ Handed' \subseteq Handed
    BY <1>0, <1>8, AnswerStep
  <2> QED
    BY <2>1, AcceptEffect
<1> QED
  BY <1>2, <1>3, <1>4, <1>5, <1>6, <1>7, <1>8 DEF Next, Thread

\* What is in a box was answered 250 line by line, the sender and this
\* recipient, on the connection of the mail: for any number of connections at
\* a time, whatever the storage server takes in one read and however the
\* server is ended, where the commands are for this host and from an address.
THEOREM OnlyAcceptedAlways ==
  ASSUME LocalOnly
  PROVE  Spec => []OnlyAccepted
<1>1. Init => AcceptInv
  BY InitIInv DEF AcceptInv
<1>2. AcceptInv /\ [Next]_vars => AcceptInv'
  BY AcceptStep
<1>3. AcceptInv => OnlyAccepted
  BY DEF AcceptInv, Handed, Accepted, OnlyAccepted
<1> QED
  BY <1>1, <1>2, <1>3, PTL DEF Spec

-----------------------------------------------------------------------------
(* The text of a first mail.                                               *)

Sent(m) == m.id[2] = 1 => \E a \in acked : a.n = m.id /\ m.text = AsSent(a.text, m.from)

TextInv ==
  /\ IInv /\ \A c \in Clients : Kept(s[c], tx[c])
  /\ \A m \in Handed : Sent(m)

\* A step that changes one connection, at most, by what Effect says.
LEMMA KeptEffect ==
  ASSUME TextInv, NEW c \in Clients, Effect(c), IInv', acked' = acked, Handed' \subseteq Handed
  PROVE  TextInv'
<1>1. \A d \in Clients : Kept(s[d], tx[d])'
  <2>1. PICK l \in Dialogue, t \in Mails :
          /\ s' = [s EXCEPT ![c] = l] /\ tx' = [tx EXCEPT ![c] = t]
          /\ Kept(s[c], tx[c]) => Kept(l, t)
    BY DEF Effect
  <2>2. s'[c] = l /\ tx'[c] = t /\ \A d \in Clients \ {c} : s'[d] = s[d] /\ tx'[d] = tx[d]
    BY <2>1 DEF TextInv, IInv, Types
  <2>3. Kept(l, t) /\ \A d \in Clients : Kept(s[d], tx[d])
    BY <2>1 DEF TextInv
  <2>4. \A d \in Clients : Kept(s'[d], tx'[d])
    BY <2>2, <2>3
  <2> QED
    BY <2>4
<1> QED
  BY <1>1 DEF TextInv, Sent

\* Every step keeps the invariant.
LEMMA TextStep ==
  ASSUME TextInv, [Next]_vars
  PROVE  TextInv'
<1>0. IInv /\ (\A c \in Clients : Kept(s[c], tx[c])) /\ \A m \in Handed : Sent(m)
  BY DEF TextInv
<1>1. ASSUME IInv', UNCHANGED <<s, tx, acked>>, Handed' \subseteq Handed PROVE TextInv'
  BY <1>0, <1>1 DEF TextInv, Sent
<1>2. CASE UNCHANGED vars
  <2>1. UNCHANGED <<pc, line, s, tx, toStore, stored, acked>>
    BY <1>2 DEF vars, connVars, storeVars, clientVars
  <2>2. IInv'
    BY <1>0, <2>1 DEF IInv, Types, Places
  <2>3. Handed' \subseteq Handed
    BY <2>1 DEF Handed, Mail
  <2> QED
    BY <1>1, <2>1, <2>2, <2>3
<1>3. CASE \/ StopAccepting \/ Join \/ signal_interrupt
           \/ \E c \in Clients : Accept(c) \/ Send(c) \/ HangUp(c)
           \/ \E c \in Clients : RecvNothing(c) \/ RecvEnd(c) \/ SeeShutdown(c)
  BY <1>0, <1>1, <1>3, QuietStep
<1>4. CASE read_commands
  BY <1>0, <1>1, <1>4, StoreStep
<1>5. ASSUME NEW c \in Clients, send_email(c) PROVE TextInv'
  BY <1>0, <1>1, <1>5, SendStep
<1>6. ASSUME NEW c \in Clients, RecvReply(c) PROVE TextInv'
  <2>1. /\ IInv' /\ UNCHANGED <<tx, acked>> /\ Handed' \subseteq Handed
        /\ tx[c].n > 1 /\ \A d \in Clients \ {c} : s'[d] = s[d]
    BY <1>0, <1>6, ReplyStep
  <2>2. Kept(s'[c], tx'[c])
    BY <2>1 DEF Kept
  <2>3. \A d \in Clients \ {c} : Kept(s'[d], tx'[d])
    BY <1>0, <2>1
  <2>4. \A d \in Clients : Kept(s[d], tx[d])'
    BY <2>2, <2>3
  <2> QED
    BY <1>0, <2>1, <2>4 DEF TextInv, Sent
<1>7. ASSUME NEW c \in Clients, EndOfText(c) PROVE TextInv'
  <2>1. PICK a \in acked' :
          /\ IInv' /\ acked \subseteq acked' /\ Handed' \subseteq Handed \union {Mail(c)'}
          /\ tx'[c].n > 1
          /\ \A d \in Clients \ {c} : s'[d] = s[d] /\ tx'[d] = tx[d]
          /\ Mail(c)'.id = a.n /\ a.n = <<c, tx[c].n>> /\ a.text = tx[c].text
          /\ Mail(c)'.from = s[c].from_user /\ Mail(c)'.text = StringIn(s[c].file_msg)
    BY <1>0, <1>7, EndStep
  <2>2. Kept(s'[c], tx'[c])
    BY <2>1 DEF Kept
  <2>3. \A d \in Clients \ {c} : Kept(s'[d], tx'[d])
    BY <1>0, <2>1
  <2>4. \A d \in Clients : Kept(s[d], tx[d])'
    BY <2>2, <2>3
  <2>5. Sent(Mail(c))'
    <3>1. ASSUME tx[c].n = 1 PROVE Mail(c)'.text = AsSent(a.text, Mail(c)'.from)
      <4>1. /\ s[c].file_msg = AsSent(tx[c].text, s[c].from_user)
            /\ \A i \in DOMAIN s[c].file_msg : s[c].file_msg[i] # Zero
        BY <1>0, <3>1 DEF Kept
      <4>2. StringIn(s[c].file_msg) = s[c].file_msg
        BY <4>1 DEF StringIn
      <4> QED
        BY <2>1, <4>1, <4>2
    <3>2. Mail(c)'.id[2] = tx[c].n
      BY <2>1
    <3> QED
      BY <2>1, <3>1, <3>2 DEF Sent
  <2>6. \A m \in Handed : Sent(m)'
    BY <1>0, <2>1 DEF Sent
  <2>7. \A m \in Handed' : Sent(m)'
    BY <2>1, <2>5, <2>6
  <2> QED
    BY <2>1, <2>4, <2>7 DEF TextInv
<1>8. ASSUME NEW c \in Clients,
             \/ HELO(c) \/ MAIL_FROM(c) \/ RCPT_TO(c) \/ DATA(c) \/ NOOP(c) \/ Unknown(c)
             \/ TextLine(c) \/ QUIT(c)
      PROVE  TextInv'
  <2>1. IInv' /\ Effect(c) /\ acked' = acked /\ Handed' \subseteq Handed
    BY <1>0, <1>8, AnswerStep
  <2> QED
    BY <2>1, KeptEffect
<1> QED
  BY <1>2, <1>3, <1>4, <1>5, <1>6, <1>7, <1>8 DEF Next, Thread

\* The first mail of a connection is stored line for line as it was sent, the
\* line with the sender right before its first line that is not blank: for any
\* commands and lines, any number of connections at a time, and whatever the
\* storage server takes in one read.
THEOREM TextIsSentAlways == Spec => []TextIsSent
<1>1. Init => TextInv
  BY InitIInv DEF TextInv
<1>2. TextInv /\ [Next]_vars => TextInv'
  BY TextStep
<1>3. TextInv => TextIsSent
  BY DEF TextInv, Handed, Sent, TextIsSent
<1> QED
  BY <1>1, <1>2, <1>3, PTL DEF Spec

-----------------------------------------------------------------------------
(* The upload.                                                             *)

Chunks == Seq(Bytes \union {Nul})
Cut == chunk_id * CHUNK_SIZE

\* The types the argument needs.
FileTypes ==
  /\ upc \in {"form", "send", "confirm", "last", "confirmed", "stored", "done"}
  /\ data \in Seq(Bytes) /\ chunk_id \in Nat
  /\ request \in Seq(Seq(Bytes))
  /\ file \in [there : BOOLEAN, file_len : Nat, file_data : Chunks]

\* How much is stored, and how much is on the way.
Progress ==
  /\ ~file.there => file.file_len = 0
  /\ upc = "form" => Cut = 0 /\ ~file.there /\ request = <<>>
  /\ upc = "send" => file.file_len = Cut /\ Cut <= Len(data) /\ request = <<>>
  /\ upc = "confirm" => /\ file.file_len = Cut /\ Cut + CHUNK_SIZE <= Len(data)
                        /\ Len(request) = 1 /\ Len(request[1]) = CHUNK_SIZE
  /\ upc = "last" => /\ file.file_len = Cut
                     /\ Len(request) = 1 /\ Len(request[1]) = Len(data) - Cut
  /\ upc = "confirmed" => /\ file.file_len = Cut + CHUNK_SIZE /\ Cut + CHUNK_SIZE <= Len(data)
                          /\ request = <<>>
  /\ upc \in {"stored", "done"} => file.file_len = Len(data) /\ request = <<>>

UploadInv == FileTypes /\ Progress

\* The lengths of the file transfer are numbers.
LEMMA Cuts ==
  ASSUME FileTypes
  PROVE  /\ CHUNK_SIZE \in Nat /\ CHUNK_SIZE > 0 /\ Cut \in Nat /\ Len(data) \in Nat
         /\ (chunk_id + 1) * CHUNK_SIZE = Cut + CHUNK_SIZE
<1>1. CHUNK_SIZE \in Nat /\ CHUNK_SIZE > 0 /\ chunk_id \in Nat /\ Len(data) \in Nat
  BY FileTransferAssumption DEF FileTypes
<1>2. \A m, n \in Nat : m * n \in Nat /\ (m + 1) * n = m * n + n
  OBVIOUS
<1> QED
  BY <1>1, <1>2 DEF Cut

\* The part of a sequence before a byte.
LEMMA UpToType ==
  ASSUME NEW S, NEW q \in Seq(S), NEW b
  PROVE  UpTo(q, b) \in Seq(S)
<1> DEFINE ends == {i \in DOMAIN q : q[i] = b}
<1>1. CASE ends = {}
  BY <1>1 DEF UpTo
<1>2. CASE ends # {}
  <2>1. ends \in SUBSET Nat /\ ends \in SUBSET (1..Len(q))
    OBVIOUS
  <2>2. UpTo(q, b) = SubSeq(q, 1, Min(ends) - 1)
    BY <1>2 DEF UpTo
  <2> HIDE DEF ends
  <2>3. \E i \in ends : \A j \in ends : i <= j
    BY <1>2, <2>1, Smallest
  <2>4. PICK m \in 1..Len(q) : m = Min(ends)
    BY <2>1, <2>3 DEF Min
  <2>5. SubSeq(q, 1, m - 1) \in Seq(S)
    OBVIOUS
  <2> QED
    BY <2>2, <2>4, <2>5
<1> QED
  BY <1>1, <1>2

\* Where it ends.
LEMMA UpToStop ==
  ASSUME NEW S, NEW q \in Seq(S), NEW b, NEW k \in 0..Len(q),
         \A i \in 1..k : q[i] # b, k < Len(q) => q[k + 1] = b
  PROVE  UpTo(q, b) = SubSeq(q, 1, k)
<1> DEFINE ends == {i \in DOMAIN q : q[i] = b}
<1>1. \A i \in ends : i \in 1..Len(q) /\ k + 1 <= i
  OBVIOUS
<1>2. CASE k = Len(q)
  <2>1. ends = {}
    BY <1>1, <1>2
  <2>2. SubSeq(q, 1, k) = q
    BY <1>2
  <2> QED
    BY <2>1, <2>2 DEF UpTo
<1>3. CASE k < Len(q)
  <2>1. k + 1 \in ends
    BY <1>3
  <2>2. UpTo(q, b) = SubSeq(q, 1, Min(ends) - 1)
    BY <2>1 DEF UpTo
  <2>3. Min(ends) = k + 1
    <3> HIDE DEF ends
    <3>1. \A x \in ends : (\A y \in ends : x <= y) => x = k + 1
      BY <1>1, <2>1
    <3> QED
      BY <1>1, <2>1, <3>1 DEF Min
  <2>4. (k + 1) - 1 = k
    OBVIOUS
  <2> QED
    BY <2>2, <2>3, <2>4
<1> QED
  BY <1>2, <1>3

\* At first nothing is stored.
LEMMA InitUpload == FileInit => UploadInv
<1> SUFFICES ASSUME FileInit PROVE UploadInv
  OBVIOUS
<1>1. <<>> \in Seq(Bytes) /\ <<>> \in Seq(Seq(Bytes)) /\ <<>> \in Chunks
  BY DEF Chunks
<1>2. FileTypes
  BY <1>1 DEF FileInit, NoFile, FileTypes
<1>3. Cut = 0
  BY FileTransferAssumption DEF FileInit, Cut
<1> QED
  BY <1>2, <1>3 DEF FileInit, NoFile, Progress, UploadInv

\* The steps of a download leave the upload alone.
LEMMA DownloadLeaves ==
  ASSUME UploadInv, UNCHANGED <<upVars, file>>
  PROVE  UploadInv'
<1>1. UNCHANGED <<upc, source, data, chunk_id, request, file>>
  BY DEF upVars
<1> QED
  BY <1>1 DEF UploadInv, FileTypes, Progress, Cut

\* The browser's file is read from the form.
LEMMA ReadStep ==
  ASSUME UploadInv, NEW f \in Files, ReadPart(f)
  PROVE  UploadInv'
<1>1. /\ upc = "form" /\ upc' = "send" /\ data' = UpTo(f, "crlf")
      /\ UNCHANGED <<chunk_id, request, file>>
  BY DEF ReadPart
<1>2. data' \in Seq(Bytes)
  BY <1>1, FileTransferAssumption, UpToType
<1>3. FileTypes'
  BY <1>1, <1>2 DEF UploadInv, FileTypes
<1>4. file.file_len = 0 /\ Cut' = 0 /\ request' = <<>>
  BY <1>1 DEF UploadInv, Progress, Cut
<1>5. Cut' <= Len(data')
  BY <1>2, <1>4
<1> QED
  BY <1>1, <1>3, <1>4, <1>5 DEF UploadInv, Progress

\* A chunk is cut.
LEMMA ChunkStep ==
  ASSUME UploadInv, sendChunk
  PROVE  UploadInv'
<1> DEFINE last == IF LastChunk THEN Len(data) ELSE Cut + CHUNK_SIZE
<1>1. /\ CHUNK_SIZE \in Nat /\ CHUNK_SIZE > 0 /\ Cut \in Nat /\ Len(data) \in Nat
      /\ (chunk_id + 1) * CHUNK_SIZE = Cut + CHUNK_SIZE
  BY Cuts DEF UploadInv
<1>2. /\ upc = "send" /\ request' = <<SubSeq(data, Cut + 1, last)>>
      /\ upc' = IF LastChunk THEN "last" ELSE "confirm"
      /\ UNCHANGED <<data, chunk_id, file>>
  BY <1>1 DEF sendChunk, Cut
<1>3. LastChunk <=> Len(data) - Cut <= CHUNK_SIZE
  BY DEF LastChunk, Cut
<1>4. /\ file.file_len = Cut /\ Cut <= Len(data) /\ data \in Seq(Bytes)
      /\ (~file.there => file.file_len = 0)
  BY <1>2 DEF UploadInv, FileTypes, Progress
<1>5. last \in Nat /\ Cut <= last /\ last <= Len(data)
  BY <1>1, <1>3, <1>4
<1>6. PICK r \in Seq(Bytes) : r = SubSeq(data, Cut + 1, last) /\ Len(r) = last - Cut
  <2> HIDE DEF last
  <2>1. SubSeq(data, Cut + 1, last) \in Seq(Bytes) /\ Len(SubSeq(data, Cut + 1, last)) = last - Cut
    BY <1>1, <1>4, <1>5
  <2> QED
    BY <2>1
<1>7. request' = <<r>>
  BY <1>2, <1>6
<1>8. request' \in Seq(Seq(Bytes)) /\ Len(request') = 1 /\ request'[1] = r
  BY <1>7
<1>9. FileTypes'
  BY <1>2, <1>8 DEF UploadInv, FileTypes
<1>10. Cut' = Cut
  BY <1>2 DEF Cut
<1>11. LastChunk => Len(r) = Len(data) - Cut
  BY <1>6
<1>12. ~LastChunk => Len(r) = CHUNK_SIZE /\ Cut + CHUNK_SIZE <= Len(data)
  BY <1>1, <1>3, <1>6
<1> HIDE DEF last
<1> QED
  BY <1>2, <1>4, <1>8, <1>9, <1>10, <1>11, <1>12 DEF UploadInv, Progress

\* What is stored becomes longer by the chunk.
LEMMA StoreFileStep ==
  ASSUME UploadInv, store_file
  PROVE  UploadInv'
<1>1. /\ CHUNK_SIZE \in Nat /\ CHUNK_SIZE > 0 /\ Cut \in Nat /\ Len(data) \in Nat
  BY Cuts DEF UploadInv
<1>2. /\ request # <<>> /\ request' = <<>> /\ upc' = (IF upc = "last" THEN "stored" ELSE "confirmed")
      /\ UNCHANGED <<data, chunk_id>>
  BY DEF store_file
<1>3. upc \in {"confirm", "last"} /\ file.file_len = Cut /\ (~file.there => file.file_len = 0)
  BY <1>2 DEF UploadInv, FileTypes, Progress
<1>4. Len(request) = 1
  BY <1>3 DEF UploadInv, Progress
<1>5. PICK r \in Seq(Bytes) : r = request[1]
  <2>1. 1 \in DOMAIN request
    BY <1>4 DEF UploadInv, FileTypes
  <2>2. request[1] \in Seq(Bytes)
    BY <2>1 DEF UploadInv, FileTypes
  <2> QED
    BY <2>2
<1>6. r \in Chunks /\ Len(r) \in Nat
  BY DEF Chunks
<1>7. /\ file' \in [there : BOOLEAN, file_len : Nat, file_data : Chunks]
      /\ file'.there /\ file'.file_len = file.file_len + Len(r)
  <2>1. CASE file.there
    <3>1. PICK g \in Chunks : g = file.file_data \o r
      <4>1. file.file_data \o r \in Chunks
        BY <1>6 DEF UploadInv, FileTypes, Chunks
      <4> QED
        BY <4>1
    <3>2. PICK d \in Chunks : d = IF g = <<>> THEN <<>> ELSE Append(Front(g), Nul)
      <4>1. <<>> \in Chunks
        BY DEF Chunks
      <4>2. g # <<>> => Front(g) \in Chunks
        BY DEF Chunks, Front
      <4>3. g # <<>> => Append(Front(g), Nul) \in Chunks
        BY <4>2 DEF Chunks
      <4> QED
        BY <4>1, <4>3
    <3>3. PICK n \in Nat : n = file.file_len + Len(r)
      BY <1>6 DEF UploadInv, FileTypes
    <3>4. file' = [file EXCEPT !.file_len = n, !.file_data = d]
      BY <1>5, <2>1, <3>1, <3>2, <3>3 DEF store_file, Appended
    <3> QED
      BY <2>1, <3>3, <3>4 DEF UploadInv, FileTypes
  <2>2. CASE ~file.there
    <3>1. file' = [there |-> TRUE, file_len |-> Len(r), file_data |-> r]
      BY <1>5, <2>2 DEF store_file
    <3>2. Len(r) = file.file_len + Len(r)
      BY <1>3, <1>6, <2>2
    <3> QED
      BY <1>6, <3>1, <3>2
  <2> QED
    BY <2>1, <2>2
<1>8. FileTypes'
  BY <1>2, <1>7 DEF UploadInv, FileTypes
<1>9. Cut' = Cut
  BY <1>2 DEF Cut
<1>10. CASE upc = "confirm"
  <2>1. Len(r) = CHUNK_SIZE /\ Cut + CHUNK_SIZE <= Len(data)
    BY <1>5, <1>10 DEF UploadInv, Progress
  <2> QED
    BY <1>2, <1>3, <1>7, <1>8, <1>9, <1>10, <2>1 DEF UploadInv, Progress
<1>11. CASE upc = "last"
  <2>1. Len(r) = Len(data) - Cut
    BY <1>5, <1>11 DEF UploadInv, Progress
  <2>2. file'.file_len = Len(data)
    BY <1>1, <1>3, <1>7, <2>1
  <2> QED
    BY <1>2, <1>7, <1>8, <1>11, <2>2 DEF UploadInv, Progress
<1> QED
  BY <1>3, <1>10, <1>11

\* The answer to a chunk lets the next one go, or ends the upload.
LEMMA ConfirmStep ==
  ASSUME UploadInv, Confirmed
  PROVE  UploadInv'
<1>1. (chunk_id + 1) * CHUNK_SIZE = Cut + CHUNK_SIZE
  BY Cuts DEF UploadInv
<1>2. UNCHANGED <<data, request, file>>
  BY DEF Confirmed
<1>3. CASE upc = "stored"
  <2>1. upc' = "done" /\ chunk_id' = chunk_id
    BY <1>3 DEF Confirmed
  <2> QED
    BY <1>2, <1>3, <2>1 DEF UploadInv, FileTypes, Progress
<1>4. CASE upc = "confirmed"
  <2>1. upc' = "send" /\ chunk_id' = chunk_id + 1
    BY <1>4 DEF Confirmed
  <2>2. Cut' = Cut + CHUNK_SIZE
    BY <1>1, <2>1 DEF Cut
  <2>3. FileTypes'
    BY <1>2, <2>1 DEF UploadInv, FileTypes
  <2> QED
    BY <1>2, <1>4, <2>1, <2>2, <2>3 DEF UploadInv, Progress
<1> QED
  BY <1>3, <1>4 DEF Confirmed

\* Every step keeps the invariant of the upload.
LEMMA UploadStep ==
  ASSUME UploadInv, [FileNext]_fileVars
  PROVE  UploadInv'
<1>1. CASE \/ request_file_download \/ get_file_data \/ SendResponse \/ EndOfLoop \/ download_file_chunk
           \/ UNCHANGED fileVars
  <2>1. UNCHANGED <<upVars, file>>
    BY <1>1 DEF request_file_download, get_file_data, SendResponse, EndOfLoop, download_file_chunk, fileVars
  <2> QED
    BY <2>1, DownloadLeaves
<1> QED
  BY <1>1, ReadStep, ChunkStep, StoreFileStep, ConfirmStep DEF FileNext

\* An upload that is over has stored as many bytes as it was to send: for any
\* files, any size of a chunk and of the connection's buffer.
THEOREM LengthStoredAlways == FileSpec => []LengthStored
<1>1. UploadInv => LengthStored
  BY DEF UploadInv, Progress, LengthStored
<1>2. UploadInv /\ [FileNext]_fileVars => UploadInv'
  BY UploadStep
<1> QED
  BY <1>1, <1>2, InitUpload, PTL DEF FileSpec

-----------------------------------------------------------------------------
(* The download of a file of one chunk.                                    *)

\* The files that go through the form and the strings as they are.
Plain == \A f \in Files : \A i \in DOMAIN f : f[i] \notin {"crlf", Nul}

\* The upload of a file of one chunk.
OneUpload ==
  /\ upc # "form" => source \in Files /\ data = source
  /\ upc = "form" => source = <<>> /\ data = <<>>
  /\ upc \in {"form", "send"} /\ chunk_id = 0 => ~file.there
  /\ upc = "form" => chunk_id = 0
  /\ OneChunk =>
       /\ upc = "send" => chunk_id = 0
       /\ upc = "last" => ~file.there /\ request = <<source>>
       /\ upc \notin {"confirm", "confirmed"}
       /\ upc \in {"stored", "done"} => file.file_len = Len(source) /\ file.file_data = source

\* No download is under way: get_file_data is back, or sees the end next.
Idle == responses = <<>> /\ ~asked /\ (sending => bytes_sent = file.file_len)

\* The response with the whole file is on the connection.
OnlyResponse ==
  \E r : responses = <<r>> /\ UpTo(r.chunk, Nul) = source /\ r.has_more = FALSE

\* The download is at one of three places: asked for, being sent, sent.
OneDownload ==
  /\ upc # "done" => Idle /\ ~sending /\ dpc = "none"
  /\ dpc \in {"none", "read", "done"}
  /\ OneChunk /\ dpc \in {"none", "done"} => Idle
  /\ OneChunk /\ dpc = "done" => received = source
  /\ OneChunk /\ dpc = "read" =>
       /\ received = <<>>
       /\ \/ responses = <<>> /\ asked /\ (sending => bytes_sent = file.file_len)
          \/ responses = <<>> /\ ~asked /\ sending /\ bytes_sent = 0
          \/ OnlyResponse /\ ~asked /\ (sending => bytes_sent = file.file_len)

RoundInv == UploadInv /\ OneUpload /\ OneDownload

\* At first neither has begun.
LEMMA InitRound == FileInit => RoundInv
<1> SUFFICES ASSUME FileInit PROVE RoundInv
  OBVIOUS
<1>1. ~OneChunk
  BY DEF FileInit, OneChunk
<1>2. OneUpload
  BY <1>1 DEF FileInit, OneUpload, NoFile
<1>3. OneDownload
  BY <1>1 DEF FileInit, OneDownload, Idle
<1> QED
  BY <1>2, <1>3, InitUpload DEF RoundInv

\* A plain file is cut from the form whole.
LEMMA PlainData ==
  ASSUME Plain, NEW f \in Files
  PROVE  UpTo(f, "crlf") = f /\ UpTo(f, Nul) = f
<1>1. f \in Seq(Bytes)
  BY FileTransferAssumption
<1>2. \A i \in 1..Len(f) : f[i] # "crlf" /\ f[i] # Nul
  BY <1>1 DEF Plain
<1> QED
  BY <1>1, <1>2 DEF UpTo

\* The steps of the upload.
LEMMA RoundUpload ==
  ASSUME Plain, RoundInv,
         (\E f \in Files : ReadPart(f)) \/ sendChunk \/ store_file \/ Confirmed
  PROVE  OneUpload' /\ OneDownload'
<1>0. /\ upc # "form" => source \in Files /\ data = source
      /\ upc = "form" => source = <<>> /\ data = <<>>
      /\ upc \in {"form", "send"} /\ chunk_id = 0 => ~file.there
      /\ upc = "form" => chunk_id = 0
  BY DEF RoundInv, OneUpload
<1>1. CASE \E f \in Files : ReadPart(f)
  <2>1. PICK f \in Files : ReadPart(f)
    BY <1>1
  <2>2. /\ upc = "form" /\ upc' = "send" /\ source' = f /\ data' = UpTo(f, "crlf")
        /\ UNCHANGED <<chunk_id, file, downVars>>
    BY <2>1 DEF ReadPart
  <2>3. data' = f
    BY <2>2, PlainData
  <2>4. OneUpload'
    BY <1>0, <2>2, <2>3 DEF OneUpload
  <2>5. Idle /\ ~sending /\ dpc = "none"
    BY <2>2 DEF RoundInv, OneDownload
  <2>6. OneDownload'
    BY <2>2, <2>5 DEF OneDownload, Idle, downVars
  <2> QED
    BY <2>4, <2>6
<1>2. CASE sendChunk
  <2>1. /\ upc = "send" /\ upc' = (IF LastChunk THEN "last" ELSE "confirm")
        /\ request' = <<SubSeq(data, chunk_id * CHUNK_SIZE + 1,
                               IF LastChunk THEN Len(data) ELSE (chunk_id + 1) * CHUNK_SIZE)>>
        /\ UNCHANGED <<source, data, chunk_id, file, downVars>>
    BY <1>2 DEF sendChunk
  <2>2. Idle /\ ~sending /\ dpc = "none"
    BY <2>1 DEF RoundInv, OneDownload
  <2>3. OneDownload'
    BY <2>1, <2>2 DEF OneDownload, Idle, downVars
  <2>4. OneChunk' = OneChunk
    BY <2>1 DEF OneChunk
  <2>5. ASSUME OneChunk PROVE upc' = "last" /\ ~file.there /\ request' = <<source>>
    <3>1. chunk_id = 0 /\ data = source /\ ~file.there
      BY <1>0, <2>1, <2>5 DEF RoundInv, OneUpload
    <3>2. data \in Seq(Bytes) /\ CHUNK_SIZE \in Nat /\ Len(data) <= CHUNK_SIZE
      BY <2>5, <3>1, FileTransferAssumption DEF OneChunk, RoundInv, UploadInv, FileTypes
    <3>3. chunk_id * CHUNK_SIZE = 0
      BY <3>1, <3>2
    <3>4. LastChunk
      BY <3>2, <3>3 DEF LastChunk
    <3>5. SubSeq(data, 1, Len(data)) = data
      BY <3>2
    <3>6. chunk_id * CHUNK_SIZE + 1 = 1
      BY <3>3
    <3>7. request' = <<data>>
      BY <2>1, <3>4, <3>5, <3>6
    <3> QED
      BY <2>1, <3>1, <3>4, <3>7
  <2>6. OneUpload'
    BY <1>0, <2>1, <2>4, <2>5 DEF OneUpload
  <2> QED
    BY <2>3, <2>6
<1>3. CASE store_file
  <2>1. /\ request # <<>> /\ upc' = (IF upc = "last" THEN "stored" ELSE "confirmed")
        /\ UNCHANGED <<source, data, chunk_id, downVars>>
    BY <1>3 DEF store_file
  <2>2. upc \in {"confirm", "last"}
    BY <2>1 DEF RoundInv, UploadInv, FileTypes, Progress
  <2>3. Idle /\ ~sending /\ dpc = "none"
    BY <2>2 DEF RoundInv, OneDownload
  <2>4. OneDownload'
    BY <2>1, <2>3 DEF OneDownload, Idle, downVars
  <2>5. OneChunk' = OneChunk
    BY <2>1 DEF OneChunk
  <2>6. ASSUME OneChunk
        PROVE  upc = "last" /\ file'.file_len = Len(source) /\ file'.file_data = source
    <3>1. upc = "last" /\ ~file.there /\ request = <<source>>
      BY <2>2, <2>6 DEF RoundInv, OneUpload
    <3>2. request[1] = source
      BY <3>1
    <3>3. file' = [there |-> TRUE, file_len |-> Len(source), file_data |-> source]
      BY <1>3, <3>1, <3>2 DEF store_file
    <3> QED
      BY <3>1, <3>3
  <2>7. OneUpload'
    BY <1>0, <2>1, <2>2, <2>5, <2>6 DEF OneUpload
  <2> QED
    BY <2>4, <2>7
<1>4. CASE Confirmed
  <2>1. /\ upc \in {"confirmed", "stored"} /\ upc' = (IF upc = "stored" THEN "done" ELSE "send")
        /\ chunk_id' = (IF upc = "stored" THEN chunk_id ELSE chunk_id + 1)
        /\ UNCHANGED <<source, data, request, file, downVars>>
    BY <1>4 DEF Confirmed
  <2>2. Idle /\ ~sending /\ dpc = "none"
    BY <2>1 DEF RoundInv, OneDownload
  <2>3. Idle' /\ ~sending' /\ dpc' = "none"
    BY <2>1, <2>2 DEF Idle, downVars
  <2>4. OneDownload'
    BY <2>3 DEF OneDownload
  <2>5. OneChunk' = OneChunk
    BY <2>1 DEF OneChunk
  <2>6. OneChunk => upc = "stored" /\ file.file_len = Len(source) /\ file.file_data = source
    BY <2>1 DEF RoundInv, OneUpload
  <2>7. upc = "confirmed" => chunk_id' # 0
    BY <2>1 DEF RoundInv, UploadInv, FileTypes
  <2>8. OneUpload'
    BY <1>0, <2>1, <2>5, <2>6, <2>7 DEF OneUpload
  <2> QED
    BY <2>4, <2>8
<1> QED
  BY <1>1, <1>2, <1>3, <1>4

\* What the response to a request for a whole file has.
LEMMA WholeFile ==
  ASSUME Plain, RoundInv, Undefined = {}, OneChunk, upc = "done", bytes_sent = 0,
         NEW bytes \in Copied(file.file_len)
  PROVE  /\ Left = file.file_len /\ file.file_len \in 1..CHUNK_SIZE /\ file.file_len < Modulus
         /\ UpTo(Response(bytes, FALSE).chunk, Nul) = source
         /\ Response(bytes, FALSE).has_more = FALSE
<1> DEFINE L == Len(source)
<1>1. source \in Files /\ file.file_len = L /\ file.file_data = source
  BY DEF RoundInv, OneUpload
<1>2. source \in Seq(Bytes) /\ L \in Nat /\ L < Modulus /\ CHUNK_SIZE \in Nat /\ Modulus \in Nat
  BY <1>1, FileTransferAssumption
<1>3. 1 <= L /\ L <= CHUNK_SIZE
  BY <1>2 DEF OneChunk
<1>4. Left = L
  <2>1. (L - 0) % Modulus = L
    BY <1>2
  <2> QED
    BY <1>1, <2>1 DEF Left
<1>5. Min({L, L}) = L
  BY <1>2 DEF Min
<1>6. SubSeq(source, 1, L) = source
  BY <1>2
<1>7. UpTo(source, Nul) = source
  BY <1>1, PlainData
<1>8. bytes = [i \in 1..CHUNK_SIZE |-> IF i <= L THEN source[i] ELSE Nul]
  <2>1. UpTo(SubSeq(file.file_data, 1, Min({file.file_len, file.file_len})), Nul) = source
    BY <1>1, <1>5, <1>6, <1>7
  <2>2. PICK r \in {Nul} :
          bytes = [i \in 1..(IF file.file_len > CHUNK_SIZE THEN file.file_len ELSE CHUNK_SIZE) |->
                     IF i <= L THEN source[i] ELSE IF i <= file.file_len THEN Nul ELSE r]
    BY <2>1 DEF Copied
  <2>3. (IF file.file_len > CHUNK_SIZE THEN file.file_len ELSE CHUNK_SIZE) = CHUNK_SIZE
    BY <1>1, <1>2, <1>3
  <2> QED
    BY <1>1, <2>2, <2>3
<1>9. /\ bytes \in Seq(Bytes \union {Nul}) /\ Len(bytes) = CHUNK_SIZE
      /\ \A i \in 1..L : bytes[i] = source[i]
      /\ L < CHUNK_SIZE => bytes[L + 1] = Nul
  <2> HIDE DEF L
  <2>1. \A i \in 1..L : source[i] \in Bytes
    BY <1>2 DEF L
  <2>2. bytes \in [1..CHUNK_SIZE -> Bytes \union {Nul}]
    BY <1>2, <1>8, <2>1
  <2>3. bytes \in Seq(Bytes \union {Nul}) /\ Len(bytes) = CHUNK_SIZE
    BY <1>2, <2>2
  <2> QED
    BY <1>2, <1>3, <1>8, <2>3
<1>10. SubSeq(bytes, 1, CHUNK_SIZE) = bytes
  BY <1>2, <1>9
<1>11. Response(bytes, FALSE).chunk = bytes /\ Response(bytes, FALSE).has_more = FALSE
  BY <1>2, <1>9, <1>10 DEF Response
<1>12. UpTo(bytes, Nul) = source
  <2> HIDE DEF L
  <2>1. \A i \in 1..L : source[i] # Nul
    BY <1>1, <1>2 DEF Plain, L
  <2>2. L \in 0..Len(bytes)
    BY <1>2, <1>3, <1>9
  <2>3. \A i \in 1..L : bytes[i] # Nul
    BY <1>9, <2>1
  <2>4. UpTo(bytes, Nul) = SubSeq(bytes, 1, L)
    BY <1>9, <2>2, <2>3, UpToStop
  <2>5. PICK p \in Seq(Bytes \union {Nul}) : p = source
    BY <1>2
  <2>6. Len(p) = L /\ \A i \in 1..L : bytes[i] = p[i]
    BY <1>9, <2>5 DEF L
  <2>7. SubSeq(bytes, 1, L) = p
    BY <1>9, <2>2, <2>6
  <2> QED
    BY <2>4, <2>5, <2>7
<1>13. file.file_len \in 1..CHUNK_SIZE /\ file.file_len < Modulus /\ Left = file.file_len
  BY <1>1, <1>2, <1>3, <1>4
<1> HIDE DEF L
<1> QED
  BY <1>11, <1>12, <1>13

\* The steps of the download.
LEMMA RoundDownload ==
  ASSUME Plain, Undefined = {}, RoundInv,
         request_file_download \/ get_file_data \/ SendResponse \/ EndOfLoop \/ download_file_chunk
  PROVE  OneUpload' /\ OneDownload'
<1>0. UNCHANGED <<upVars, file>>
  BY DEF request_file_download, get_file_data, SendResponse, EndOfLoop, download_file_chunk
<1>1. UNCHANGED <<upc, source, data, chunk_id, request, file>> /\ OneChunk' = OneChunk
  BY <1>0 DEF upVars, OneChunk
<1>2. OneUpload'
  BY <1>1 DEF RoundInv, OneUpload
<1>3. upc = "done"
  BY DEF RoundInv, OneDownload, Idle, request_file_download, get_file_data, SendResponse, EndOfLoop, download_file_chunk
<1>4. dpc \in {"none", "read", "done"}
  BY DEF RoundInv, OneDownload
<1>5. ASSUME ~OneChunk PROVE OneDownload'
  <2>1. dpc' \in {"none", "read", "done"}
    BY <1>4 DEF request_file_download, get_file_data, SendResponse, EndOfLoop, download_file_chunk
  <2> QED
    BY <1>1, <1>3, <1>5, <2>1 DEF OneDownload
<1>6. ASSUME OneChunk PROVE OneDownload'
  <2>1. file.file_len \in 1..CHUNK_SIZE /\ CHUNK_SIZE \in Nat
    BY <1>3, <1>6, FileTransferAssumption DEF RoundInv, OneUpload, OneChunk
  <2>2. /\ dpc \in {"none", "done"} => Idle
        /\ dpc = "done" => received = source
        /\ dpc = "read" =>
             /\ received = <<>>
             /\ \/ responses = <<>> /\ asked /\ (sending => bytes_sent = file.file_len)
                \/ responses = <<>> /\ ~asked /\ sending /\ bytes_sent = 0
                \/ OnlyResponse /\ ~asked /\ (sending => bytes_sent = file.file_len)
    BY <1>6 DEF RoundInv, OneDownload
  <2>3. CASE request_file_download
    <3>1. /\ dpc' = "read" /\ received' = <<>> /\ asked' = TRUE /\ dpc \in {"none", "done"}
          /\ UNCHANGED <<sending, bytes_sent, responses>>
      BY <2>3 DEF request_file_download
    <3> QED
      BY <1>1, <1>3, <2>2, <3>1 DEF OneDownload, Idle
  <2>4. CASE get_file_data
    <3>1. /\ asked /\ ~sending /\ asked' = FALSE /\ sending' = TRUE /\ bytes_sent' = 0
          /\ UNCHANGED <<dpc, received, responses>>
      BY <2>4 DEF get_file_data
    <3>2. dpc = "read" /\ received = <<>> /\ responses = <<>>
      BY <1>4, <2>2, <3>1 DEF Idle
    <3> QED
      BY <1>1, <1>3, <3>1, <3>2 DEF OneDownload
  <2>5. CASE SendResponse
    <3>1. /\ sending /\ bytes_sent # file.file_len /\ UNCHANGED <<dpc, received, asked, sending>>
      BY <2>5 DEF SendResponse
    <3>2. dpc = "read" /\ received = <<>> /\ responses = <<>> /\ ~asked /\ bytes_sent = 0
      BY <1>4, <2>2, <3>1 DEF Idle
    <3>3. Left = file.file_len
      <4>1. (file.file_len - 0) % Modulus = file.file_len
        <5>1. file.file_len < Modulus /\ Modulus \in Nat
          BY <1>3, <1>6, FileTransferAssumption DEF RoundInv, OneUpload
        <5> QED
          BY <2>1, <5>1
      <4> QED
        BY <3>2, <4>1 DEF Left
    <3>4. ~(Left > CHUNK_SIZE)
      BY <2>1, <3>3
    <3>5. PICK bytes \in Copied(file.file_len) : responses' = Append(responses, Response(bytes, FALSE))
      <4>1. (Left > CHUNK_SIZE) = FALSE
        BY <3>4
      <4>2. PICK bytes \in Copied(IF Left > CHUNK_SIZE THEN CHUNK_SIZE ELSE file.file_len) :
              responses' = Append(responses, Response(bytes, Left > CHUNK_SIZE))
        BY <2>5 DEF SendResponse
      <4>3. (IF Left > CHUNK_SIZE THEN CHUNK_SIZE ELSE file.file_len) = file.file_len
        BY <3>4
      <4>4. Response(bytes, Left > CHUNK_SIZE) = Response(bytes, FALSE)
        BY <4>1 DEF Response
      <4> QED
        BY <4>2, <4>3, <4>4
    <3>6. bytes_sent' = (bytes_sent + file.file_len) % Modulus
      BY <2>5, <3>4 DEF SendResponse
    <3>7. /\ file.file_len < Modulus
          /\ UpTo(Response(bytes, FALSE).chunk, Nul) = source
          /\ Response(bytes, FALSE).has_more = FALSE
      BY <1>3, <1>6, <3>2, WholeFile
    <3>8. bytes_sent' = file.file_len
      <4>1. Modulus \in Nat
        BY FileTransferAssumption
      <4> QED
        BY <2>1, <3>2, <3>6, <3>7, <4>1
    <3>9. PICK r : r = Response(bytes, FALSE)
      OBVIOUS
    <3>10. responses' = <<r>>
      BY <3>2, <3>5, <3>9
    <3>11. OnlyResponse'
      BY <1>1, <3>7, <3>9, <3>10 DEF OnlyResponse
    <3> QED
      BY <1>1, <1>3, <3>1, <3>2, <3>8, <3>11 DEF OneDownload
  <2>6. CASE EndOfLoop
    <3>1. sending' = FALSE /\ bytes_sent = file.file_len /\ UNCHANGED <<dpc, received, asked, bytes_sent, responses>>
      BY <2>6 DEF EndOfLoop
    <3>2. OnlyResponse => OnlyResponse'
      BY <1>1, <3>1 DEF OnlyResponse
    <3>3. Idle => Idle'
      BY <3>1 DEF Idle
    <3>4. bytes_sent # 0
      BY <2>1, <3>1
    <3> QED
      BY <1>1, <1>3, <1>4, <2>2, <3>1, <3>2, <3>3, <3>4 DEF OneDownload
  <2>7. CASE download_file_chunk
    <3>1. /\ dpc = "read" /\ responses # <<>> /\ UNCHANGED <<asked, sending, bytes_sent>>
          /\ received' = received \o UpTo(Head(responses).chunk, Nul)
          /\ dpc' = (IF Head(responses).has_more THEN "read" ELSE "done")
          /\ responses' = Tail(responses)
      BY <2>7 DEF download_file_chunk
    <3>2. OnlyResponse /\ ~asked /\ received = <<>> /\ (sending => bytes_sent = file.file_len)
      BY <2>2, <3>1
    <3>3. PICK r : responses = <<r>> /\ UpTo(r.chunk, Nul) = source /\ r.has_more = FALSE
      BY <3>2 DEF OnlyResponse
    <3>6. Head(<<r>>) = r /\ Tail(<<r>>) = <<>>
      OBVIOUS
    <3>4. <<>> \o source = source
      BY <1>3, FileTransferAssumption DEF RoundInv, OneUpload
    <3>5. received' = source /\ dpc' = "done" /\ responses' = <<>>
      BY <3>1, <3>2, <3>3, <3>4, <3>6
    <3> QED
      BY <1>1, <1>3, <3>1, <3>2, <3>5 DEF OneDownload, Idle
  <2> QED
    BY <2>3, <2>4, <2>5, <2>6, <2>7
<1> QED
  BY <1>2, <1>5, <1>6

\* What a browser has when a download is over is the file that was uploaded,
\* for any plain file that fits one chunk, and however often it is downloaded,
\* where the stack has zeros.
THEOREM RoundTripAlways ==
  ASSUME Plain, Undefined = {}
  PROVE  FileSpec => []RoundTrip
<1>1. RoundInv /\ [FileNext]_fileVars => RoundInv'
  <2> SUFFICES ASSUME RoundInv, [FileNext]_fileVars PROVE RoundInv'
    OBVIOUS
  <2>1. UploadInv'
    BY UploadStep DEF RoundInv
  <2>2. CASE UNCHANGED fileVars
    <3>1. UNCHANGED <<upc, source, data, chunk_id, request, file, dpc, received, asked, sending,
                      bytes_sent, responses>>
      BY <2>2 DEF fileVars, upVars, downVars
    <3>2. OneUpload' /\ OneDownload'
      BY <3>1 DEF RoundInv, OneUpload, OneDownload, OneChunk, OnlyResponse, Idle
    <3> QED
      BY <2>1, <3>2 DEF RoundInv
  <2>3. CASE FileNext
    <3>1. OneUpload' /\ OneDownload'
      BY <2>3, RoundUpload, RoundDownload DEF FileNext
    <3> QED
      BY <2>1, <3>1 DEF RoundInv
  <2> QED
    BY <2>2, <2>3
<1>2. RoundInv => RoundTrip
  BY DEF RoundInv, OneDownload, RoundTrip
<1> QED
  BY <1>1, <1>2, InitRound, PTL DEF FileSpec

=============================================================================
