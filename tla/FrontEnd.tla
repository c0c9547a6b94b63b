------------------------------- MODULE FrontEnd -------------------------------
(***************************************************************************)
(* One front-end server: its web threads (singleconnserverhtml.cc), one    *)
(* per connection of a browser, the relay to the storage servers that they *)
(* share (backendrelay.cc), the mail service (mailservice.c) and the       *)
(* sessions kept by the load balancer (cookierelay.cc).                    *)
(*                                                                         *)
(* A request of a browser becomes the sequence of calls that handleGET or  *)
(* handlePOST makes; the steps of a call are those between which another   *)
(* thread can be seen.  mutex_sock covers a new connection and, around     *)
(* ADD, a whole call; everything else uses the connection without it.      *)
(*                                                                         *)
(* Abstractions.  A request and its answer are one message each.  The      *)
(* master answers with a living server of the user's group (for what it    *)
(* really answers see Master).  The descriptor of a closed connection is   *)
(* taken again by the connection that replaces it.  A cookie request holds *)
(* the relay's mutex until its answer and is one step.  Files fit in one   *)
(* chunk (see FileTransfer).  HEAD and unknown methods are not sent.       *)
(***************************************************************************)
EXTENDS Integers, Sequences, FiniteSets

CONSTANTS
  num_threads,  \* connections of browsers
  Browser,      \* Browser[t]: the browser of a connection
  Users,
  Servers,
  Group,        \* Group[s]: the group of a storage server
  Home,         \* Home[u]: the group the master has for a user
  Kinds,        \* the kinds of requests the browsers send
  FreshAddress, \* TRUE: no server dies while its address is on its way
  MaxRequests,  \* bound: requests
  MaxDeaths     \* bound: servers that die

Threads == 1 .. num_threads
Browsers == {Browser[t] : t \in Threads}
Pages == {"index", "inbox", "mail", "storage", "download", "rmfolder", "rmfile", "missing"}
Forms == {"send", "delete", "addfolder", "upload", "logout"}
NoUser == ""
NoPage == ""  \* redirectTo once it has been followed

ASSUME FrontEndAssumption ==
  /\ num_threads \in Nat \ {0} /\ MaxRequests \in Nat /\ MaxDeaths \in Nat
  /\ NoUser \notin Users
  /\ Kinds \subseteq Pages \union Forms \union {"login", "relogin", "adduser"}
  /\ FreshAddress \in BOOLEAN
  /\ \A u \in Users : \E s \in Servers : Group[s] = Home[u]

VARIABLES
  backendSock,   \* the connection of the relay, an index of conns; 0 for -1
  mutex_sock,    \* the thread that holds the mutex of the relay; 0: nobody
  conns,         \* connections to storage servers: server, state, in, out
  masterIn,      \* what the relay has written to the master
  masterOut,     \* the addresses on their way back
  introduced,    \* the master has read {0, 0}
  up,            \* up[s]: the storage server is alive
  alive,         \* the front end is
  mOpt,          \* the option of the mail service
  cookie2Browser,\* cookie2Browser[c]: the user, NoUser once deleted
  cookieValue, username, redirectTo, sendCookie, \* of each thread; 0 for no cookie
  jar,           \* jar[b]: the cookie that browser b holds
  todo,          \* todo[t]: the calls still to be made for the request
  pc,            \* pc[t]: where the thread is in the first of them
  fd,            \* fd[t]: the connection the thread reads
  got,           \* got[t]: what it has read
  requests,      \* requests sent so far
  overlap        \* two requests have been under way at the same time

relayVars == <<backendSock, mutex_sock>>
masterVars == <<masterIn, masterOut, introduced>>
netVars == <<conns, up>>
sessionVars == <<cookie2Browser, cookieValue, username, redirectTo, sendCookie, jar>>
threadVars == <<todo, pc, fd, got>>
browserVars == <<requests, overlap>>
vars == <<relayVars, masterVars, netVars, alive, mOpt, sessionVars, threadVars, browserVars>>

-----------------------------------------------------------------------------
(* Calls.                                                                  *)

RelayOps == {"ADD", "AUTH", "getfolder"}        \* with reconnection
MailOps == {"getmail", "mailbody", "putmail", "delmail"}
OnceOps == {"mkfolder", "delfolder", "delfile", "putfile", "getfile"}
OKOps == {"ADD", "putmail", "delmail", "mkfolder", "delfolder", "delfile", "putfile"}

\* ok: the server's answer begins with "+OK"; want: the option meant, for
\* mail the thread may execute another.
Call(op, u) == [op |-> op, user |-> u, ok |-> op \in OKOps, want |-> op]
Local(op) == Call(op, NoUser)

retrieveMailHeader(u) == <<Call("getmail", u)>>
downloadEmail(u) == <<Call("mailbody", u)>>
send_email(u) == <<Call("putmail", u)>>
deleteEmail(u) == <<Call("delmail", u)>>
request_file_names(u) == <<Call("getfolder", u)>>
request_file_download(u) == request_file_names(u) \o <<Call("getfile", u)>>
createFolderRequest(u) == <<Call("mkfolder", u)>>
removeFolderRequest(u) == <<Call("delfolder", u)>>
removeFileRequest(u) == <<Call("delfile", u)>>
sendChunk(u) == <<Call("putfile", u)>>

sendHeaders == <<Local("headers")>>
sendStatus == <<Local("status")>>

ListPage(u) == request_file_names(u) \o sendHeaders
InboxPage(u) == retrieveMailHeader(u) \o sendHeaders

\* handleGET for a user who is logged in.
handleGET(p, u) ==
  CASE p = "index" -> sendHeaders
    [] p = "inbox" -> InboxPage(u)
    [] p = "mail" -> downloadEmail(u) \o sendHeaders
    [] p = "storage" -> ListPage(u)
    [] p = "download" -> request_file_download(u) \o sendHeaders
    [] p = "rmfolder" -> removeFolderRequest(u) \o ListPage(u)
    [] p = "rmfile" -> removeFileRequest(u) \o ListPage(u)
    [] p \in {"missing", NoPage} -> sendStatus

\* handlePOST, without login.
handlePOST(f, u) ==
  CASE f = "send" -> send_email(u) \o InboxPage(u)
    [] f = "delete" -> deleteEmail(u) \o InboxPage(u)
    [] f = "addfolder" -> createFolderRequest(u) \o ListPage(u)
    [] f = "upload" -> sendChunk(u) \o ListPage(u)
    [] f = "logout" -> <<Local("DEL")>>

Relocation(u) == <<Call("relocate", u)>>
AddUser(u) == <<Local("lock"), Call("ADD", u), Local("unlock")>> \o sendHeaders
Authenticate(u, right) == <<[Call("AUTH", u) EXCEPT !.ok = right]>>

Nothing == [by |-> 0, op |-> "nothing", ok |-> FALSE]

Init ==
  /\ backendSock = 0 /\ mutex_sock = 0
  /\ conns = <<>>
  /\ masterIn = <<>> /\ masterOut = <<>> /\ introduced = FALSE
  /\ up = [s \in Servers |-> TRUE]
  /\ alive = TRUE
  /\ mOpt = "getmail"
  /\ cookie2Browser = <<>>
  /\ cookieValue = [t \in Threads |-> 0]
  /\ username = [t \in Threads |-> NoUser]
  /\ redirectTo = [t \in Threads |-> "index"]
  /\ sendCookie = [t \in Threads |-> FALSE]
  /\ jar = [b \in Browsers |-> 0]
  /\ todo = [t \in Threads |-> <<>>]
  /\ pc = [t \in Threads |-> "next"]
  /\ fd = [t \in Threads |-> 0]
  /\ got = [t \in Threads |-> Nothing]
  /\ requests = 0 /\ overlap = FALSE

-----------------------------------------------------------------------------
(* Requests: backbone up to the call of handleGET or handlePOST.           *)

Idle(t) == todo[t] = <<>>
MayAsk(t) == alive /\ Idle(t) /\ requests < MaxRequests

\* "login automatically": the session of a cookie on a new connection.
AutoLogin(t) ==
  jar[Browser[t]] # 0 /\ cookieValue[t] = 0 /\ cookie2Browser[jar[Browser[t]]] # NoUser
Cookie(t) == IF AutoLogin(t) THEN jar[Browser[t]] ELSE cookieValue[t]
User(t) == IF AutoLogin(t) THEN cookie2Browser[jar[Browser[t]]] ELSE username[t]
Mismatch(t) == jar[Browser[t]] # 0 /\ cookieValue[t] # 0 /\ jar[Browser[t]] # cookieValue[t]

Ask(t, calls) ==
  /\ todo' = [todo EXCEPT ![t] = IF Mismatch(t) THEN sendStatus ELSE calls]
  /\ cookieValue' = [cookieValue EXCEPT ![t] = Cookie(t)]
  /\ username' = [username EXCEPT ![t] = User(t)]
  /\ requests' = requests + 1
  /\ overlap' = (overlap \/ \E o \in Threads : ~Idle(o))
  /\ UNCHANGED <<relayVars, masterVars, netVars, alive, mOpt, cookie2Browser, sendCookie, jar, pc, fd, got>>

\* Without a session the page is the login form, and the page is kept.
Get(t, p) ==
  /\ MayAsk(t)
  /\ Ask(t, IF Cookie(t) = 0 THEN sendHeaders ELSE handleGET(p, User(t)))
  /\ redirectTo' = [redirectTo EXCEPT ![t] = IF Cookie(t) = 0 /\ ~Mismatch(t) THEN p ELSE @]

\* A form is sent from a page of the session.
Post(t, f) ==
  /\ MayAsk(t) /\ Cookie(t) # 0
  /\ Ask(t, handlePOST(f, User(t)))
  /\ UNCHANGED redirectTo

\* "relogin": the login form sent from a page that the browser still shows.
Login(t, u, right) ==
  /\ MayAsk(t)
  /\ Cookie(t) = 0 \/ "relogin" \in Kinds
  /\ Ask(t, Relocation(u) \o Authenticate(u, right))
  /\ UNCHANGED redirectTo

Register(t, u) ==
  /\ MayAsk(t) /\ Cookie(t) = 0
  /\ Ask(t, Relocation(u) \o AddUser(u))
  /\ UNCHANGED redirectTo

\* The browser opens a new connection, which gets a thread of its own.
NewConnection(t) ==
  /\ MayAsk(t) /\ cookieValue[t] # 0
  /\ cookieValue' = [cookieValue EXCEPT ![t] = 0]
  /\ username' = [username EXCEPT ![t] = NoUser]
  /\ redirectTo' = [redirectTo EXCEPT ![t] = "index"]
  /\ sendCookie' = [sendCookie EXCEPT ![t] = FALSE]
  /\ UNCHANGED <<relayVars, masterVars, netVars, alive, mOpt, cookie2Browser, jar, threadVars, browserVars>>

-----------------------------------------------------------------------------
(* The relay's connection: setNewBackendSock.                              *)

At(t, place) == alive /\ ~Idle(t) /\ pc[t] = place
Current(t) == Head(todo[t])
Goto(t, place) == pc' = [pc EXCEPT ![t] = place]

\* Mutant: a login does not take the mutex.
LockRelayNot(t) ==
  /\ At(t, "reconnect") \/ (At(t, "next") /\ Current(t).op = "relocate")
  /\ Goto(t, "name")
  /\ UNCHANGED <<relayVars, masterVars, netVars, alive, mOpt, sessionVars, todo, fd, got, browserVars>>

LockRelay(t) ==
  /\ At(t, "reconnect") \/ (At(t, "next") /\ Current(t).op = "relocate")
  /\ mutex_sock = 0
  /\ mutex_sock' = t
  /\ Goto(t, "name")
  /\ UNCHANGED <<backendSock, masterVars, netVars, alive, mOpt, sessionVars, todo, fd, got, browserVars>>

SendName(t) ==
  /\ At(t, "name")
  /\ masterIn' = masterIn \o (IF backendSock = 0 THEN <<"pair">> ELSE <<>>) \o <<Current(t).user>>
  /\ Goto(t, "address")
  /\ UNCHANGED <<relayVars, masterOut, introduced, netVars, alive, mOpt, sessionVars, todo, fd, got, browserVars>>

\* The master: the first message introduces a front end, the others are names.
MasterAnswers ==
  /\ masterIn # <<>>
  /\ masterIn' = Tail(masterIn)
  /\ IF ~introduced
       THEN introduced' = TRUE /\ UNCHANGED masterOut
       ELSE /\ \E s \in Servers :
                 /\ up[s]
                 /\ Head(masterIn) \in Users => Group[s] = Home[Head(masterIn)]
                 /\ masterOut' = Append(masterOut, [name |-> Head(masterIn), server |-> s])
            /\ UNCHANGED introduced
  /\ UNCHANGED <<relayVars, netVars, alive, mOpt, sessionVars, threadVars, browserVars>>

Welcome == [by |-> 0, op |-> "welcome", ok |-> TRUE]

\* The address is read and connected to.
ReadAddress(t) ==
  /\ At(t, "address") /\ masterOut # <<>>
  /\ masterOut' = Tail(masterOut)
  /\ LET s == Head(masterOut).server IN
       IF up[s]
         THEN /\ conns' = Append(conns, [server |-> s, name |-> Head(masterOut).name, by |-> t,
                                         state |-> "open", in |-> <<>>, out |-> <<Welcome>>])
              /\ backendSock' = Len(conns) + 1
              /\ fd' = [fd EXCEPT ![t] = Len(conns) + 1]
              /\ UNCHANGED alive
         ELSE alive' = FALSE /\ UNCHANGED <<conns, backendSock, fd>>
  /\ Goto(t, "welcome")
  /\ UNCHANGED <<mutex_sock, masterIn, introduced, up, mOpt, sessionVars, todo, got, browserVars>>

Readable(c) == IF c = 0 THEN TRUE ELSE conns[c].out # <<>> \/ conns[c].state # "open"
Answer(c) == IF c = 0 \/ conns[c].out = <<>> THEN Nothing ELSE Head(conns[c].out)
Taken(c) ==
  IF c = 0 \/ conns[c].out = <<>> THEN conns ELSE [conns EXCEPT ![c].out = Tail(@)]

\* Mutant: the welcome message stays on the connection.
ReadWelcomeNot(t) ==
  /\ At(t, "welcome") /\ Readable(fd[t])
  /\ Goto(t, "release")
  /\ UNCHANGED <<relayVars, masterVars, conns, up, alive, mOpt, sessionVars, todo, fd, got, browserVars>>

ReadWelcome(t) ==
  /\ At(t, "welcome") /\ Readable(fd[t])
  /\ conns' = Taken(fd[t])
  /\ Goto(t, "release")
  /\ UNCHANGED <<relayVars, masterVars, up, alive, mOpt, sessionVars, todo, fd, got, browserVars>>

Release(t) ==
  /\ At(t, "release")
  /\ mutex_sock' = IF mutex_sock = t THEN 0 ELSE mutex_sock
  /\ IF Current(t).op = "relocate"
       THEN todo' = [todo EXCEPT ![t] = Tail(@)] /\ Goto(t, "next")
       ELSE UNCHANGED todo /\ Goto(t, "write")
  /\ UNCHANGED <<backendSock, masterVars, netVars, alive, mOpt, sessionVars, fd, got, browserVars>>

\* The lock and unlock around ADD.
Lock(t) ==
  /\ At(t, "next") /\ Current(t).op = "lock" /\ mutex_sock = 0
  /\ mutex_sock' = t
  /\ todo' = [todo EXCEPT ![t] = Tail(@)]
  /\ UNCHANGED <<backendSock, masterVars, netVars, alive, mOpt, sessionVars, pc, fd, got, browserVars>>

\* Mutant: the mutex is kept after ADD.
UnlockNot(t) ==
  /\ At(t, "next") /\ Current(t).op = "unlock"
  /\ todo' = [todo EXCEPT ![t] = Tail(@)]
  /\ UNCHANGED <<relayVars, masterVars, netVars, alive, mOpt, sessionVars, pc, fd, got, browserVars>>

Unlock(t) ==
  /\ At(t, "next") /\ Current(t).op = "unlock"
  /\ mutex_sock' = 0
  /\ todo' = [todo EXCEPT ![t] = Tail(@)]
  /\ UNCHANGED <<backendSock, masterVars, netVars, alive, mOpt, sessionVars, pc, fd, got, browserVars>>

-----------------------------------------------------------------------------
(* A call: one write and one read on the relay's connection.               *)

Begin(t) ==
  /\ At(t, "next") /\ Current(t).op \in RelayOps \union OnceOps
  /\ Goto(t, "write")
  /\ UNCHANGED <<relayVars, masterVars, netVars, alive, mOpt, sessionVars, todo, fd, got, browserVars>>

\* webserver_core: the option goes through a global.
SetOption(t) ==
  /\ At(t, "next") /\ Current(t).op \in MailOps
  /\ mOpt' = Current(t).op
  /\ Goto(t, "switch")
  /\ UNCHANGED <<relayVars, masterVars, netVars, alive, sessionVars, todo, fd, got, browserVars>>

Switch(t) ==
  /\ At(t, "switch")
  /\ todo' = [todo EXCEPT ![t][1].op = mOpt, ![t][1].ok = mOpt \in OKOps]
  /\ Goto(t, "write")
  /\ UNCHANGED <<relayVars, masterVars, netVars, alive, mOpt, sessionVars, fd, got, browserVars>>

\* A closed peer takes one write and resets the connection; the next write
\* is a SIGPIPE.
Write(t) ==
  /\ At(t, "write")
  /\ LET c == backendSock
         m == [by |-> t, op |-> Current(t).op, user |-> Current(t).user, ok |-> Current(t).ok] IN
       /\ conns' = IF c = 0 \/ conns[c].state = "reset" THEN conns
                   ELSE IF conns[c].state = "open" THEN [conns EXCEPT ![c].in = Append(@, m)]
                   ELSE [conns EXCEPT ![c].state = "reset"]
       /\ alive' = (c = 0 \/ conns[c].state # "reset")
  /\ Goto(t, "read")
  /\ UNCHANGED <<relayVars, masterVars, up, mOpt, sessionVars, todo, fd, got, browserVars>>

\* The descriptor is looked at again for the read.
EnterRead(t) ==
  /\ At(t, "read")
  /\ fd' = [fd EXCEPT ![t] = backendSock]
  /\ Goto(t, "wait")
  /\ UNCHANGED <<relayVars, masterVars, netVars, alive, mOpt, sessionVars, todo, got, browserVars>>

\* sendCommand and sendFolderRequest: "reconnect".
AfterRead(t, c) ==
  IF Answer(c) = Nothing /\ Current(t).op \in RelayOps THEN "reconnect" ELSE "answered"

Read(t) ==
  /\ At(t, "wait") /\ Readable(fd[t])
  /\ got' = [got EXCEPT ![t] = Answer(fd[t])]
  /\ conns' = Taken(fd[t])
  /\ Goto(t, AfterRead(t, fd[t]))
  /\ UNCHANGED <<relayVars, masterVars, up, alive, mOpt, sessionVars, todo, fd, browserVars>>

SaysOK(a) == a # Nothing /\ a.ok

\* What the caller does with the answer.  The inbox option without a
\* response buffer dereferences NULL.
Answered(t) ==
  /\ At(t, "answered")
  /\ LET c == Current(t)
         rest == Tail(todo[t]) IN
       /\ alive' = (c.op = "getmail" => c.want = "getmail")
       /\ \/ /\ c.op = "AUTH"
             /\ IF SaysOK(got[t])
                  THEN /\ username' = [username EXCEPT ![t] = c.user]
                       /\ sendCookie' = [sendCookie EXCEPT ![t] = TRUE]
                       /\ todo' = [todo EXCEPT ![t] = <<Call("GEN", c.user)>>]
                  ELSE /\ todo' = [todo EXCEPT ![t] = sendHeaders]
                       /\ UNCHANGED <<username, sendCookie>>
          \/ /\ c.op # "AUTH"
             /\ \/ todo' = [todo EXCEPT ![t] = rest]
                \/ c.op = "getfolder" /\ Head(rest).op = "getfile" /\ todo' = [todo EXCEPT ![t] = sendStatus]
             /\ UNCHANGED <<username, sendCookie>>
  /\ got' = [got EXCEPT ![t] = Nothing]
  /\ fd' = [fd EXCEPT ![t] = 0]
  /\ Goto(t, "next")
  /\ UNCHANGED <<relayVars, masterVars, netVars, mOpt, cookie2Browser, cookieValue, redirectTo, jar, browserVars>>

-----------------------------------------------------------------------------
(* Sessions and the response.                                              *)

genCookie(t) ==
  /\ At(t, "next") /\ Current(t).op = "GEN"
  /\ cookie2Browser' = Append(cookie2Browser, username[t])
  /\ cookieValue' = [cookieValue EXCEPT ![t] = Len(cookie2Browser) + 1]
  /\ todo' = [todo EXCEPT ![t] = handleGET(redirectTo[t], username[t])]
  /\ redirectTo' = [redirectTo EXCEPT ![t] = NoPage]
  /\ UNCHANGED <<relayVars, masterVars, netVars, alive, mOpt, username, sendCookie, jar, pc, fd, got, browserVars>>

delCookie(t) ==
  /\ At(t, "next") /\ Current(t).op = "DEL"
  /\ cookie2Browser' = [cookie2Browser EXCEPT ![cookieValue[t]] = NoUser]
  /\ cookieValue' = [cookieValue EXCEPT ![t] = 0]
  /\ username' = [username EXCEPT ![t] = NoUser]
  /\ redirectTo' = [redirectTo EXCEPT ![t] = "index"]
  /\ todo' = [todo EXCEPT ![t] = sendHeaders]
  /\ UNCHANGED <<relayVars, masterVars, netVars, alive, mOpt, sendCookie, jar, pc, fd, got, browserVars>>

\* Only sendHeaders sends the cookie.
Respond(t) ==
  /\ At(t, "next") /\ Current(t).op \in {"headers", "status"}
  /\ LET sends == Current(t).op = "headers" /\ sendCookie[t] IN
       /\ jar' = [jar EXCEPT ![Browser[t]] = IF sends THEN cookieValue[t] ELSE @]
       /\ sendCookie' = [sendCookie EXCEPT ![t] = @ /\ ~sends]
  /\ todo' = [todo EXCEPT ![t] = Tail(@)]
  /\ UNCHANGED <<relayVars, masterVars, netVars, alive, mOpt, cookie2Browser, cookieValue, username, redirectTo, pc, fd, got, browserVars>>

-----------------------------------------------------------------------------
(* Storage servers.                                                        *)

Serve(c) ==
  /\ conns[c].state = "open" /\ conns[c].in # <<>>
  /\ LET m == Head(conns[c].in) IN
       conns' = [conns EXCEPT ![c].in = Tail(@), ![c].out = Append(@, [by |-> m.by, op |-> m.op, ok |-> m.ok])]
  /\ UNCHANGED <<relayVars, masterVars, up, alive, mOpt, sessionVars, threadVars, browserVars>>

\* The master learns of it at once.
Die(s) ==
  /\ up[s] /\ Cardinality({o \in Servers : ~up[o]}) < MaxDeaths
  /\ \E o \in Servers \ {s} : up[o] /\ Group[o] = Group[s]
  /\ FreshAddress => masterOut = <<>>
  /\ up' = [up EXCEPT ![s] = FALSE]
  /\ conns' = [c \in DOMAIN conns |->
                 IF conns[c].server = s /\ conns[c].state = "open"
                   THEN [conns[c] EXCEPT !.state = "closed", !.in = <<>>] ELSE conns[c]]
  /\ UNCHANGED <<relayVars, masterVars, alive, mOpt, sessionVars, threadVars, browserVars>>

-----------------------------------------------------------------------------

AnyRequest(t) ==
  \/ \E p \in Pages \intersect Kinds : Get(t, p)
  \/ \E f \in Forms \intersect Kinds : Post(t, f)
  \/ "login" \in Kinds /\ \E u \in Users, right \in BOOLEAN : Login(t, u, right)
  \/ "adduser" \in Kinds /\ \E u \in Users : Register(t, u)
  \/ NewConnection(t)

Step(t) ==
  \/ SendName(t) \/ ReadAddress(t) \/ ReadWelcome(t) \/ Release(t) \/ Unlock(t)
  \/ Begin(t) \/ SetOption(t) \/ Switch(t) \/ Write(t) \/ EnterRead(t) \/ Read(t) \/ Answered(t)
  \/ genCookie(t) \/ delCookie(t) \/ Respond(t)

Next ==
  \/ \E t \in Threads : AnyRequest(t) \/ Step(t) \/ LockRelay(t) \/ Lock(t)
  \/ MasterAnswers
  \/ \E c \in DOMAIN conns : Serve(c)
  \/ \E s \in Servers : Die(s)

\* Threads, master and servers go on; a mutex is got in the end by who waits.
Fairness ==
  /\ \A t \in Threads : WF_vars(Step(t)) /\ SF_vars(LockRelay(t)) /\ SF_vars(Lock(t))
  /\ WF_vars(MasterAnswers)
  /\ WF_vars(\E c \in DOMAIN conns : Serve(c))

Spec == Init /\ [][Next]_vars /\ Fairness

-----------------------------------------------------------------------------
(* Properties.                                                             *)

Sent == {"write", "read", "wait", "answered"}

\* Type invariant: a thread that is between the steps of setNewBackendSock
\* holds mutex_sock (backendrelay.cc).
TypeOK ==
  /\ backendSock \in 0 .. Len(conns)
  /\ mutex_sock \in 0 .. num_threads
  /\ \A t \in Threads :
       /\ pc[t] \in {"next", "reconnect", "name", "address", "welcome", "release", "switch"} \union Sent
       /\ username[t] \in Users \union {NoUser}
       /\ cookieValue[t] \in 0 .. Len(cookie2Browser)
       /\ pc[t] \in {"name", "address", "welcome", "release"} => mutex_sock = t
  /\ mOpt \in MailOps
  /\ \A b \in Browsers : jar[b] \in 0 .. Len(cookie2Browser)

\* What a thread reads on the relay's connection is the answer to what it
\* wrote, unless two requests have overlapped (retrieveMailHeader: "reads all
\* mail headers and sends the data to frontend for populating the inbox page
\* of the user").
OwnAnswer ==
  ~overlap => \A t \in Threads : got[t] # Nothing => got[t].by = t /\ got[t].op = Current(t).op

\* The server a thread connects the relay to is the one that the master
\* answered for its own user: the dialogue with the master, which has no
\* request numbers, is not mixed up by the threads.
OwnAddress ==
  \A t \in Threads : pc[t] = "welcome" =>
    conns[backendSock].by = t /\ conns[backendSock].name = Current(t).user

\* Every request is answered, over the death of a storage server too, unless
\* it overlaps with another one.
RequestEnds == \A t \in Threads : ~Idle(t) ~> (Idle(t) \/ overlap)

-----------------------------------------------------------------------------
(* Not among the runs: what the source says of the program and the code    *)
(* does not keep; README.md, "Departures", has the setting for each.       *)

\* A request reaches a storage server of its user's group.
AtHome ==
  \A c \in DOMAIN conns : \A i \in DOMAIN conns[c].in :
    conns[c].in[i].user \in Users => Group[conns[c].server] = Home[conns[c].in[i].user]

\* The mail service executes the option it was called with.
RightOption == \A t \in Threads : pc[t] \in Sent => Current(t).op = Current(t).want

\* Whoever is logged in has been given the cookie of the session, whatever the
\* first page was (singleconnserverhtml.cc:108 "if cookie needs to be sent").
CookieHeld ==
  \A t \in Threads : Idle(t) /\ cookieValue[t] # 0 => jar[Browser[t]] = cookieValue[t]

\* A connection is served for a user only while the session exists.
SessionLive ==
  \A t \in Threads : cookieValue[t] # 0 => cookie2Browser[cookieValue[t]] = username[t]
=============================================================================
