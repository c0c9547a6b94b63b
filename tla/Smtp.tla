--------------------------------- MODULE Smtp ---------------------------------
(***************************************************************************)
(* The SMTP server: the accept loop of smtp.c and client_handler of        *)
(* smtp_thread.c, one thread per connection, which answers a dialogue line *)
(* by line and hands a finished mail to the storage server over the one    *)
(* connection backend_fd that all threads share.                           *)
(*                                                                         *)
(* Abstractions.  A client sends its next line when the one before has     *)
(* been read, and hears of the answer before.  A line of text fills one    *)
(* cell of file_msg.  Lines, mails and connections stay within the sizes   *)
(* of recv_msg, email_body and circ_buf.                                   *)
(***************************************************************************)
EXTENDS Integers, Sequences, SequencesExt

CONSTANTS
  Clients,          \* connections: a client connects once
  Users,            \* the users with a tablet row
  Commands,         \* the command lines the clients send
  Texts,            \* the lines of text
  Concurrent,       \* may a client connect before the one before has gone?
  Merged,           \* may one read of the storage server take several requests?
  MayHangUp,        \* may a client close its connection without QUIT?
  MAX_CONNECTIONS,
  ClearedCells,     \* the cells of file_msg that sizeof(recv_msg) bytes cover
  MaxText, MaxMails \* bounds: lines of a mail, mails of a connection

None == "none"
Blank == "blank"

\* A cell of file_msg: a line of text, the line with the sender, or zeros.
Cell(kind, of) == [kind |-> kind, of |-> of]
Zero == Cell("zero", None)
From(user) == Cell("from", user)

\* A line of the dialogue.
Command(op, user, domain) == [op |-> op, user |-> user, domain |-> domain]
NoLine == Command("none", None, None)
Dot == Command(".", None, None)
Text(t) == Command("text", t, None)
Ops == {"HELO", "MAIL FROM", "RCPT TO", "DATA", "NOOP", "QUIT", "unknown"}

ASSUME SmtpAssumption ==
  /\ \A c \in Commands : c.op \in Ops
  /\ {Concurrent, Merged, MayHangUp} \subseteq BOOLEAN
  /\ {MAX_CONNECTIONS, ClearedCells, MaxText, MaxMails} \subseteq Nat
  /\ {Blank, None} \intersect (Texts \union Users) = {}

VARIABLES
  mpc, num_connections, is_shutdown_server,  \* the main thread
  pc,                   \* pc[c]: none, loop, mail, await, done
  line, hung, errno,    \* the line on the connection, closed by the client, errno of the thread
  s,                    \* s[c]: the locals of client_handler
  toStore, fromStore,   \* backend_fd: requests on the way, and the number of unread replies
  stored,               \* the mails the storage server has put in a box
  tx, acked             \* what the clients were told: the mail being sent, the mails answered 250

mainVars == <<mpc, num_connections, is_shutdown_server>>
connVars == <<line, hung, errno>>
storeVars == <<toStore, fromStore, stored>>
clientVars == <<tx, acked>>
vars == <<mainVars, pc, connVars, s, storeVars, clientVars>>

\* The locals after the memsets; from_msg has no value yet.
Locals == [cur_state |-> "INVALID", is_data |-> FALSE, first_time |-> FALSE,
           from_msg |-> None, from_user |-> None, rcpt_user |-> None,
           file_msg |-> <<>>, bytes_written |-> 0]
NewMail(n) == [n |-> n, from |-> None, rcpts |-> {}, text |-> <<>>]

\* init_connection does not read the welcome message of the storage server.
Init ==
  /\ mpc = "accept" /\ num_connections = 0 /\ is_shutdown_server = FALSE
  /\ pc = [c \in Clients |-> "none"]
  /\ line = [c \in Clients |-> NoLine]
  /\ hung = [c \in Clients |-> FALSE]
  /\ errno = [c \in Clients |-> "none"]
  /\ s = [c \in Clients |-> Locals]
  /\ toStore = <<>> /\ fromStore = 1 /\ stored = {}
  /\ tx = [c \in Clients |-> NewMail(1)] /\ acked = {}

-----------------------------------------------------------------------------
(* The main thread and the clients.                                        *)

Accept(c) ==
  /\ mpc = "accept" /\ ~is_shutdown_server /\ num_connections < MAX_CONNECTIONS
  /\ pc[c] = "none"
  /\ Concurrent \/ \A d \in Clients : pc[d] \in {"none", "done"}
  /\ num_connections' = num_connections + 1
  /\ pc' = [pc EXCEPT ![c] = "loop"]
  /\ UNCHANGED <<mpc, is_shutdown_server, connVars, s, storeVars, clientVars>>

\* The loop ends; the counter is of all connections so far, not of the open ones.
StopAccepting ==
  /\ mpc = "accept" /\ (is_shutdown_server \/ num_connections = MAX_CONNECTIONS)
  /\ mpc' = "join"
  /\ UNCHANGED <<num_connections, is_shutdown_server, pc, connVars, s, storeVars, clientVars>>

Join ==
  /\ mpc = "join" /\ \A c \in Clients : pc[c] \in {"none", "done"}
  /\ mpc' = "exited"
  /\ UNCHANGED <<num_connections, is_shutdown_server, pc, connVars, s, storeVars, clientVars>>

signal_interrupt ==
  /\ ~is_shutdown_server /\ mpc # "exited"
  /\ is_shutdown_server' = TRUE
  /\ UNCHANGED <<mpc, num_connections, pc, connVars, s, storeVars, clientVars>>

\* What a client may send: text after the answer 354, a command otherwise.
Sendable(c) ==
  IF s[c].is_data
    THEN {Dot} \union {Text(t) : t \in IF Len(tx[c].text) < MaxText THEN Texts \union {Blank} ELSE {}}
    ELSE {l \in Commands : l.op = "MAIL FROM" => tx[c].n <= MaxMails}

Send(c) ==
  /\ pc[c] \notin {"none", "done"} /\ line[c] = NoLine /\ ~hung[c]
  /\ \E l \in Sendable(c) : line' = [line EXCEPT ![c] = l]
  /\ UNCHANGED <<mainVars, pc, hung, errno, s, storeVars, clientVars>>

HangUp(c) ==
  /\ MayHangUp
  /\ pc[c] \notin {"none", "done"} /\ ~hung[c]
  /\ hung' = [hung EXCEPT ![c] = TRUE]
  /\ UNCHANGED <<mainVars, pc, line, errno, s, storeVars, clientVars>>

-----------------------------------------------------------------------------
(* client_handler: the loop.                                               *)

Looping(c) == pc[c] = "loop" /\ ~is_shutdown_server

\* Nothing to read.
RecvNothing(c) ==
  /\ Looping(c) /\ line[c] = NoLine /\ ~hung[c]
  /\ errno' = [errno EXCEPT ![c] = "EAGAIN"]
  /\ UNCHANGED <<mainVars, pc, line, hung, s, storeVars, clientVars>>

\* The connection is closed: recv returns 0 and leaves errno as it was.
RecvEnd(c) ==
  /\ Looping(c) /\ line[c] = NoLine /\ hung[c]
  /\ errno[c] # "EAGAIN"
  /\ pc' = [pc EXCEPT ![c] = "done"]
  /\ UNCHANGED <<mainVars, connVars, s, storeVars, clientVars>>

\* Mutant: the flag is looked at again before a mail is handed over.
SeeShutdownEarly(c) ==
  /\ pc[c] \in {"loop", "mail"} /\ is_shutdown_server
  /\ pc' = [pc EXCEPT ![c] = "done"]
  /\ UNCHANGED <<mainVars, connVars, s, storeVars, clientVars>>

SeeShutdown(c) ==
  /\ pc[c] = "loop" /\ is_shutdown_server
  /\ pc' = [pc EXCEPT ![c] = "done"]
  /\ UNCHANGED <<mainVars, connVars, s, storeVars, clientVars>>

\* A line is read and handled: the locals, and the mail as the client sees it.
Line(c, op, locals, mail) ==
  /\ Looping(c) /\ line[c].op = op
  /\ line' = [line EXCEPT ![c] = NoLine]
  /\ s' = [s EXCEPT ![c] = locals]
  /\ tx' = [tx EXCEPT ![c] = mail]
  /\ UNCHANGED <<mainVars, hung, errno, stored, fromStore>>

Answered(c, op, locals, mail) ==
  /\ ~s[c].is_data
  /\ Line(c, op, locals, mail)
  /\ UNCHANGED <<pc, toStore, acked>>

-----------------------------------------------------------------------------
(* client_handler: the commands.                                           *)

HELO(c) ==
  LET first == s[c].cur_state = "INVALID" /\ line[c].domain # None
  IN  Answered(c, "HELO", IF first THEN [s[c] EXCEPT !.cur_state = "SESSION"] ELSE s[c], tx[c])

\* The state moves on before the address is looked at.
MAIL_FROM(c) ==
  LET ok == line[c].domain # None IN
    Answered(c, "MAIL FROM",
      IF s[c].cur_state # "SESSION" THEN s[c]
        ELSE [s[c] EXCEPT !.cur_state = "FROM",
                          !.from_user = IF ok THEN line[c].user ELSE @,
                          !.from_msg = IF ok THEN line[c].user ELSE @],
      IF s[c].cur_state # "SESSION" THEN tx[c]
        ELSE [NewMail(tx[c].n) EXCEPT !.from = IF ok THEN line[c].user ELSE None])

\* rcpt_user is set for any domain, the test for localhost comes after.
RCPT_TO(c) ==
  LET inOrder == s[c].cur_state \in {"FROM", "RECV"} IN
    Answered(c, "RCPT TO",
      IF inOrder
        THEN [s[c] EXCEPT !.cur_state = "RECV",
                          !.rcpt_user = IF line[c].domain # None THEN line[c].user ELSE @]
        ELSE s[c],
      [tx[c] EXCEPT !.rcpts = IF inOrder /\ line[c].domain = "localhost"
                                THEN @ \union {line[c].user} ELSE @])

\* Mutant: DATA does not ask for a recipient.
DATA_early(c) ==
  LET inOrder == s[c].cur_state \in {"FROM", "RECV"} IN
    Answered(c, "DATA",
      IF inOrder THEN [s[c] EXCEPT !.cur_state = "DATA", !.is_data = TRUE] ELSE s[c],
      IF inOrder THEN [tx[c] EXCEPT !.text = <<>>] ELSE tx[c])

DATA(c) ==
  LET inOrder == s[c].cur_state = "RECV" IN
    Answered(c, "DATA",
      IF inOrder THEN [s[c] EXCEPT !.cur_state = "DATA", !.is_data = TRUE] ELSE s[c],
      IF inOrder THEN [tx[c] EXCEPT !.text = <<>>] ELSE tx[c])

NOOP(c) == Answered(c, "NOOP", s[c], tx[c])

Unknown(c) == Answered(c, "unknown", s[c], tx[c])

Goodbye == [op |-> "221", id |-> <<>>, from |-> None, to |-> None, text |-> <<>>]

\* The farewell is sent to the storage server too.
QUIT(c) ==
  /\ ~s[c].is_data
  /\ Line(c, "QUIT", s[c], tx[c])
  /\ pc' = [pc EXCEPT ![c] = "done"]
  /\ toStore' = Append(toStore, Goodbye)
  /\ UNCHANGED acked

-----------------------------------------------------------------------------
(* client_handler: the text of a mail.                                     *)

\* memcpy to file_msg + bytes_written.
Put(l, x) ==
  [l EXCEPT !.file_msg = IF l.bytes_written < Len(@) THEN [@ EXCEPT ![l.bytes_written + 1] = x]
                                                     ELSE Append(@, x),
            !.bytes_written = @ + 1]

\* Mutant: a blank line is not counted in bytes_written.
PutTextUncounted(l, t) ==
  IF t = Blank THEN [Put(l, Cell("text", t)) EXCEPT !.bytes_written = l.bytes_written]
    ELSE IF l.first_time THEN Put(l, Cell("text", t))
    ELSE Put([Put(l, From(l.from_msg)) EXCEPT !.first_time = TRUE], Cell("text", t))

\* The line with the sender comes before the first line that is not blank.
PutText(l, t) ==
  IF t = Blank \/ l.first_time THEN Put(l, Cell("text", t))
    ELSE Put([Put(l, From(l.from_msg)) EXCEPT !.first_time = TRUE], Cell("text", t))

TextLine(c) ==
  /\ s[c].is_data
  /\ Line(c, "text", PutText(s[c], line[c].user), [tx[c] EXCEPT !.text = Append(@, line[c].user)])
  /\ UNCHANGED <<pc, toStore, acked>>

\* The answer 250 goes out, the mail is not stored yet.
EndOfText(c) ==
  /\ s[c].is_data
  /\ Line(c, ".", [s[c] EXCEPT !.is_data = FALSE, !.cur_state = "SESSION"], [tx[c] EXCEPT !.n = @ + 1])
  /\ acked' = acked \union {[tx[c] EXCEPT !.n = <<c, @>>]}
  /\ pc' = [pc EXCEPT ![c] = "mail"]
  /\ UNCHANGED toStore

\* The string in file_msg ends at the first zero.
StringIn(cells) ==
  LET zeros == {i \in DOMAIN cells : cells[i] = Zero}
  IN  IF zeros = {} THEN cells ELSE SubSeq(cells, 1, Min(zeros) - 1)

\* webserver_core and send_email: the request goes out; id is the modeller's.
send_email(c) ==
  /\ pc[c] = "mail"
  /\ toStore' = Append(toStore, [op |-> "putmail", id |-> <<c, tx[c].n - 1>>,
                                 from |-> s[c].from_user, to |-> s[c].rcpt_user,
                                 text |-> StringIn(s[c].file_msg)])
  /\ pc' = [pc EXCEPT ![c] = "await"]
  /\ UNCHANGED <<mainVars, connVars, s, fromStore, stored, clientVars>>

Cleared(cells) == [i \in DOMAIN cells |-> IF i <= ClearedCells THEN Zero ELSE cells[i]]

\* Some reply is read, whoever it is for, and the buffers are wiped.
RecvReply(c) ==
  /\ pc[c] = "await" /\ fromStore > 0
  /\ \E k \in 1..fromStore : fromStore' = fromStore - k
  /\ s' = [s EXCEPT ![c].file_msg = Cleared(@), ![c].bytes_written = 0]
  /\ pc' = [pc EXCEPT ![c] = "loop"]
  /\ UNCHANGED <<mainVars, connVars, toStore, stored, clientVars>>

-----------------------------------------------------------------------------
(* The storage server at the other end of backend_fd.                      *)

\* Mutant: no reply is written.
read_commands_unanswered ==
  /\ toStore # <<>>
  /\ \E k \in 1..(IF Merged THEN Len(toStore) ELSE 1) :
       toStore' = SubSeq(toStore, k + 1, Len(toStore))
  /\ LET r == Head(toStore) IN
       stored' = IF r.op = "putmail" /\ r.to \in Users THEN stored \union {r} ELSE stored
  /\ UNCHANGED <<mainVars, pc, connVars, s, fromStore, clientVars>>

\* One read takes what has arrived and answers the first request of it.
read_commands ==
  /\ toStore # <<>>
  /\ \E k \in 1..(IF Merged THEN Len(toStore) ELSE 1) :
       toStore' = SubSeq(toStore, k + 1, Len(toStore))
  /\ LET r == Head(toStore) IN
       stored' = IF r.op = "putmail" /\ r.to \in Users THEN stored \union {r} ELSE stored
  /\ fromStore' = fromStore + 1
  /\ UNCHANGED <<mainVars, pc, connVars, s, clientVars>>

-----------------------------------------------------------------------------
Thread(c) ==
  \/ RecvNothing(c) \/ RecvEnd(c) \/ SeeShutdown(c)
  \/ HELO(c) \/ MAIL_FROM(c) \/ RCPT_TO(c) \/ DATA(c) \/ NOOP(c) \/ Unknown(c) \/ QUIT(c)
  \/ TextLine(c) \/ EndOfText(c) \/ send_email(c) \/ RecvReply(c)

Next ==
  \/ StopAccepting \/ Join \/ signal_interrupt \/ read_commands
  \/ \E c \in Clients : Accept(c) \/ Send(c) \/ HangUp(c) \/ Thread(c)

\* The threads and the storage server are scheduled; clients owe nothing.
Spec ==
  /\ Init /\ [][Next]_vars
  /\ WF_vars(StopAccepting) /\ WF_vars(Join) /\ WF_vars(read_commands)
  /\ \A c \in Clients : WF_vars(Thread(c))

-----------------------------------------------------------------------------
(* Properties.                                                             *)

Ids == Clients \X (1..MaxMails)
Tokens == {Zero} \union {Cell("text", t) : t \in Texts \union {Blank}}
                 \union {From(u) : u \in {l.user : l \in Commands}}

\* Type invariant: the dialogue of a connection is in one of its five states
\* and is_data marks the last one; at most the header and MaxText lines are in
\* file_msg.
TypeOK ==
  /\ mpc \in {"accept", "join", "exited"}
  /\ num_connections \in 0..MAX_CONNECTIONS
  /\ pc \in [Clients -> {"none", "loop", "mail", "await", "done"}]
  /\ \A c \in Clients :
       /\ s[c].is_data <=> s[c].cur_state = "DATA"
       /\ s[c].file_msg \in BoundedSeq(Tokens, MaxText + 1)
       /\ s[c].bytes_written \in 0..(MaxText + 1)
  /\ \A m \in stored : m.id \in Ids
  /\ fromStore \in Nat

\* What reaches a box was accepted line by line: the sender and this recipient
\* of the mail were both answered 250 on its connection (smtp_thread.c:215-322).
OnlyAccepted ==
  \A m \in stored : \E a \in acked : a.n = m.id /\ m.from = a.from /\ m.to \in a.rcpts

\* The lines ts as a mail of user has them: the line with the sender comes
\* right before the first line that is not blank.
AsSent(ts, user) ==
  LET lines == [i \in DOMAIN ts |-> Cell("text", ts[i])]
      said == {i \in DOMAIN ts : ts[i] # Blank}
  IN  IF said = {} THEN lines ELSE InsertAt(lines, Min(said), From(user))

\* The text of the first mail of a connection is stored as the client sent it,
\* no line more or less, but for the line with the sender, which comes right
\* before the first line that is not blank (file_msg, smtp_thread.c:95-98,
\* 154-173).
TextIsSent ==
  \A m \in stored : m.id[2] = 1 => \E a \in acked : a.n = m.id /\ m.text = AsSent(a.text, m.from)

\* The answer 250 to the end of the text is a promise: the recipient has the
\* mail in the end, whatever the client does after and even when the server is
\* being shut down, if he is the only one, known, and the storage server takes
\* one request at a time (smtp_thread.c:151-152).
AckedIsStored ==
  \A id \in Ids : \A u \in Users :
    (~Merged /\ \E a \in acked : a.n = id /\ a.rcpts = {u}) ~> (\E m \in stored : m.id = id /\ m.to = u)

\* Ctrl-C ends the server: every thread leaves its loop, none is left waiting
\* for a reply of the storage server, and the parent joins them all
\* (smtp.c:29-33, 222-228).
ShutdownEnds == is_shutdown_server ~> mpc = "exited"

-----------------------------------------------------------------------------
(* Not among the runs: what the source says of the program and the code    *)
(* does not keep; README.md, "Departures", has the setting for each.       *)

\* A mail that has a line that is not blank has one line with the sender, right
\* before that line, and it names the sender of the mail (smtp_thread.c:165-169,
\* 320).
SenderNamed ==
  \A m \in stored :
    LET said == {i \in DOMAIN m.text : m.text[i].of \in Texts}
    IN  said # {} => /\ Min(said) > 1 /\ m.text[Min(said) - 1] = From(m.from)
                     /\ \A i \in DOMAIN m.text : m.text[i] = From(m.from) => i = Min(said) - 1

\* The thread of a client that has closed its connection ends
\* (smtp_thread.c:113-117, 363-366).
ConnectionEnds == \A c \in Clients : hung[c] ~> pc[c] = "done"
===============================================================================
