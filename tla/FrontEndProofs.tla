---------------------------- MODULE FrontEndProofs ----------------------------
(***************************************************************************)
(* The relay of a front end: whose address and whose answer a thread gets. *)
(*                                                                         *)
(* Addresses.  Whoever is in the dialogue of setNewBackendSock holds       *)
(* mutex_sock (Control).  So the master has one question at a time, about  *)
(* the user of the holder (Relay), and the connection made next is for     *)
(* that user.                                                              *)
(*                                                                         *)
(* Answers.  Nothing but time keeps the threads apart on the connection to *)
(* the storage server.  As long as no two requests have overlapped, one    *)
(* thread at most is at work, and the connection carries its request or    *)
(* the answer to it, and nothing once it has ended (Alone), over the death *)
(* of the server and the retry too.                                        *)
(***************************************************************************)
EXTENDS FrontEnd, TLAPS, SequenceTheorems

-----------------------------------------------------------------------------
(* Types.                                                                  *)

Names == Users \union {NoUser}
RemoteOps == RelayOps \union MailOps \union OnceOps
CallOps == RemoteOps \union {"relocate", "GEN", "DEL", "headers", "status", "lock", "unlock"}
AllCalls == [op : CallOps, user : Names, ok : BOOLEAN, want : CallOps]

\* Calls that leave the mutex around ADD alone.
PlainCalls == {c \in AllCalls : c.op \notin {"ADD", "unlock"}}

Ids == 0 .. num_threads
Answers == [by : Ids, op : CallOps \union {"welcome", "nothing"}, ok : BOOLEAN]
Asked == [by : Threads, op : CallOps, user : Names, ok : BOOLEAN]
Words == Names \union {"pair"}
Addresses == [name : Words, server : Servers]
Conns == [server : Servers, name : Words, by : Threads, state : {"open", "closed", "reset"},
          in : Seq(Asked), out : Seq(Answers)]

Dialogue == {"name", "address", "welcome", "release"}
Places == {"next", "reconnect", "switch"} \union Dialogue \union Sent

RelayTypes ==
  /\ backendSock \in 0 .. Len(conns)
  /\ mutex_sock \in Ids
  /\ conns \in Seq(Conns)
  /\ masterIn \in Seq(Words) /\ masterOut \in Seq(Addresses)
  /\ introduced \in BOOLEAN /\ alive \in BOOLEAN
  /\ up \in [Servers -> BOOLEAN]
  /\ mOpt \in MailOps

ThreadTypes ==
  /\ todo \in [Threads -> Seq(AllCalls)]
  /\ pc \in [Threads -> Places]
  /\ fd \in [Threads -> Nat] /\ \A t \in Threads : fd[t] <= Len(conns)
  /\ got \in [Threads -> Answers]

SessionTypes ==
  /\ cookie2Browser \in Seq(Names)
  /\ cookieValue \in [Threads -> Nat]
  /\ \A t \in Threads : cookieValue[t] <= Len(cookie2Browser)
  /\ jar \in [Browsers -> Nat]
  /\ \A b \in Browsers : jar[b] <= Len(cookie2Browser)
  /\ username \in [Threads -> Names]
  /\ redirectTo \in [Threads -> Pages \union {NoPage}]

-----------------------------------------------------------------------------
(* The mutex.                                                              *)

\* ADD comes after lock, unlock after ADD.
Chained(q) ==
  \A i \in 2 .. Len(q) :
    /\ q[i].op = "ADD" => q[i - 1].op = "lock"
    /\ q[i].op = "unlock" => q[i - 1].op = "ADD"

\* Where a thread is says which call it makes.
Placed(q, p) ==
  /\ q = <<>> => p = "next"
  /\ p = "switch" => Head(q).op \in MailOps
  /\ p \in Sent => Head(q).op \in RemoteOps
  /\ p = "reconnect" => Head(q).op \in RelayOps
  /\ p \in Dialogue => Head(q).op \in RelayOps \union {"relocate"}

\* Between the steps of setNewBackendSock, and at ADD, a thread has the mutex;
\* no connection is made at ADD.
Guarded(q, p, holds) ==
  /\ p \in Dialogue => holds /\ Head(q).op # "ADD"
  /\ q # <<>> /\ Head(q).op \in {"ADD", "unlock"} => holds

Control ==
  \A t \in Threads :
    Chained(todo[t]) /\ Placed(todo[t], pc[t]) /\ Guarded(todo[t], pc[t], mutex_sock = t)

-----------------------------------------------------------------------------
(* The dialogue with the master.                                           *)

\* The master knows the front end as soon as the relay has a connection.
AtRest ==
  /\ masterIn = <<>> /\ masterOut = <<>>
  /\ alive => (introduced <=> backendSock # 0)

\* The one question or answer on its way is about user u.
AskedFor(u) ==
  \/ ~introduced /\ masterIn = <<"pair", u>> /\ masterOut = <<>>
  \/ introduced /\ masterIn = <<u>> /\ masterOut = <<>>
  \/ introduced /\ masterIn = <<>> /\ Len(masterOut) = 1 /\ masterOut[1].name = u

OneDialogue ==
  /\ (\A t \in Threads : pc[t] # "address") => AtRest
  /\ \A t \in Threads : pc[t] = "address" => AskedFor(Current(t).user)

\* An address on its way is that of a living server.
AddressesLive == FreshAddress => \A i \in 1 .. Len(masterOut) : up[masterOut[i].server]

Connected ==
  \A t \in Threads : (alive \/ FreshAddress) /\ pc[t] = "welcome" =>
    /\ backendSock # 0 /\ fd[t] = backendSock
    /\ conns[backendSock].by = t /\ conns[backendSock].name = Current(t).user

Relay == OneDialogue /\ AddressesLive /\ Connected

-----------------------------------------------------------------------------
(* One request at a time.                                                  *)

\* A connection that is not open takes nothing to the server.
ClosedEmpty == \A c \in 1 .. Len(conns) : conns[c].state # "open" => conns[c].in = <<>>

\* Only a thread that has an answer to look at has read something.
GotAnswered == \A t \in Threads : got[t] # Nothing => pc[t] = "answered"

Quiet(c) == c # 0 => conns[c].in = <<>> /\ conns[c].out = <<>>

\* At most the request of thread t, or the answer to it, is on connection c.
Own(t, m) == m.by = t /\ m.op = Current(t).op
Pending(t, c) ==
  c # 0 =>
    /\ conns[c].in = <<>> \/ conns[c].out = <<>>
    /\ conns[c].in # <<>> => Len(conns[c].in) = 1 /\ Own(t, conns[c].in[1])
    /\ conns[c].out # <<>> => Len(conns[c].out) = 1 /\ Own(t, conns[c].out[1])

AtMostOne == \A t, o \in Threads : ~Idle(t) /\ ~Idle(o) => t = o

Clean ==
  /\ (\A t \in Threads : pc[t] \notin {"welcome", "read", "wait"}) => Quiet(backendSock)
  /\ \A t \in Threads :
       /\ pc[t] = "welcome" =>
            /\ backendSock # 0 /\ fd[t] = backendSock
            /\ conns[backendSock].in = <<>> /\ Len(conns[backendSock].out) = 1
       /\ pc[t] \in {"read", "wait"} => Pending(t, backendSock)
       /\ pc[t] = "wait" => fd[t] = backendSock

OwnOption == \A t \in Threads : pc[t] = "switch" => mOpt = Current(t).op
OwnGot == \A t \in Threads : got[t] # Nothing => Own(t, got[t])

Alone == ~overlap => AtMostOne /\ (alive => Clean) /\ OwnOption /\ OwnGot

-----------------------------------------------------------------------------
Types == RelayTypes /\ ThreadTypes /\ SessionTypes
FrontInv == Types /\ Control /\ Relay /\ ClosedEmpty /\ GotAnswered /\ Alone

\* What is still to be done after the first call.
LEMMA TailFact ==
  ASSUME NEW S, NEW q \in Seq(S), q # <<>>
  PROVE  /\ Head(q) \in S /\ Head(q) = q[1] /\ Tail(q) \in Seq(S)
         /\ Len(q) \in Nat /\ Len(q) >= 1 /\ Len(Tail(q)) = Len(q) - 1
         /\ \A i \in 1 .. Len(Tail(q)) : Tail(q)[i] = q[i + 1]
BY HeadTailProperties

\* What is left of one element is nothing.
LEMMA OneLeft ==
  ASSUME NEW S, NEW q \in Seq(S), q # <<>>, Len(q) <= 1
  PROVE  Len(q) = 1 /\ Tail(q) = <<>>
<1>1. Len(q) \in Nat /\ Len(q) >= 1 /\ Tail(q) \in Seq(S) /\ Len(Tail(q)) = Len(q) - 1
  BY TailFact
<1>2. Len(q) = 1
  BY <1>1
<1>3. Len(Tail(q)) = 0
  BY <1>1, <1>2
<1>4. PICK r : r = Tail(q)
  OBVIOUS
<1>5. r \in Seq(S) /\ Len(r) = 0
  BY <1>1, <1>3, <1>4
<1>6. r = <<>>
  BY <1>5
<1> QED
  BY <1>2, <1>4, <1>6

\* Call and Local build calls.
LEMMA CallType ==
  ASSUME NEW op \in CallOps, NEW u \in Names
  PROVE  /\ Call(op, u) \in AllCalls
         /\ op \notin {"ADD", "unlock"} => Call(op, u) \in PlainCalls
         /\ Call(op, u).op = op
BY DEF Call, AllCalls, PlainCalls

\* The call sequences of the pages and forms leave the mutex alone.
LEMMA PlainSequences ==
  ASSUME NEW u \in Names
  PROVE  /\ sendHeaders \in Seq(PlainCalls) /\ sendStatus \in Seq(PlainCalls)
         /\ <<Call("GEN", u)>> \in Seq(PlainCalls)
         /\ Relocation(u) \in Seq(PlainCalls)
         /\ \A p \in Pages \union {NoPage} : handleGET(p, u) \in Seq(PlainCalls)
         /\ \A f \in Forms : handlePOST(f, u) \in Seq(PlainCalls)
         /\ \A right \in BOOLEAN : Relocation(u) \o Authenticate(u, right) \in Seq(PlainCalls)
<1> DEFINE S == Seq(PlainCalls)
<1>0. NoUser \in Names
  BY DEF Names
<1>1. \A op \in CallOps \ {"ADD", "unlock"} : \A v \in Names : <<Call(op, v)>> \in S
  <2> SUFFICES ASSUME NEW op \in CallOps \ {"ADD", "unlock"}, NEW v \in Names
               PROVE  <<Call(op, v)>> \in S
    OBVIOUS
  <2>1. Call(op, v) \in PlainCalls
    BY CallType
  <2> QED
    BY <2>1
<1>2. sendHeaders \in S /\ sendStatus \in S
  BY <1>0, <1>1 DEF sendHeaders, sendStatus, Local, CallOps
<1>3. /\ retrieveMailHeader(u) \in S /\ downloadEmail(u) \in S /\ send_email(u) \in S
      /\ deleteEmail(u) \in S /\ request_file_names(u) \in S /\ <<Call("getfile", u)>> \in S
      /\ createFolderRequest(u) \in S /\ removeFolderRequest(u) \in S
      /\ removeFileRequest(u) \in S /\ sendChunk(u) \in S /\ Relocation(u) \in S
      /\ <<Call("GEN", u)>> \in S /\ <<Local("DEL")>> \in S
  BY <1>0, <1>1 DEF retrieveMailHeader, downloadEmail, send_email, deleteEmail, request_file_names,
       createFolderRequest, removeFolderRequest, removeFileRequest, sendChunk, Relocation, Local,
       CallOps, RemoteOps, RelayOps, MailOps, OnceOps
<1>4. \A a, b \in S : a \o b \in S
  OBVIOUS
<1>5. \A right \in BOOLEAN : Authenticate(u, right) \in S
  <2> SUFFICES ASSUME NEW right \in BOOLEAN PROVE Authenticate(u, right) \in S
    OBVIOUS
  <2>1. Call("AUTH", u) \in PlainCalls
    BY CallType DEF CallOps, RemoteOps, RelayOps
  <2>2. [Call("AUTH", u) EXCEPT !.ok = right] \in PlainCalls
    BY <2>1 DEF PlainCalls, AllCalls
  <2> QED
    BY <2>2 DEF Authenticate
<1> HIDE DEF S
<1>6. ListPage(u) \in S /\ InboxPage(u) \in S /\ request_file_download(u) \in S
  BY <1>2, <1>3, <1>4 DEF ListPage, InboxPage, request_file_download
<1>7. \A p \in Pages \union {NoPage} : handleGET(p, u) \in S
  BY <1>2, <1>3, <1>4, <1>6 DEF handleGET, Pages
<1>8. \A f \in Forms : handlePOST(f, u) \in S
  BY <1>2, <1>3, <1>4, <1>6 DEF handlePOST, Forms
<1> QED
  BY <1>2, <1>3, <1>4, <1>5, <1>7, <1>8 DEF S

\* A request's calls, before the first of them is made.
Fresh(q) == /\ q \in Seq(AllCalls) /\ Chained(q)
            /\ q # <<>> => Head(q).op \notin {"ADD", "unlock"}

\* Calls that leave the mutex alone are chained.
LEMMA PlainFresh ==
  ASSUME NEW q \in Seq(PlainCalls)
  PROVE  Fresh(q)
<1>1. q \in Seq(AllCalls)
  BY SeqMonotonic DEF PlainCalls
<1>2. \A i \in 1 .. Len(q) : q[i] \in PlainCalls
  OBVIOUS
<1>3. Chained(q)
  BY <1>2 DEF Chained, PlainCalls
<1>4. q # <<>> => Head(q) \in PlainCalls
  BY TailFact
<1> QED
  BY <1>1, <1>3, <1>4 DEF Fresh, PlainCalls

\* The calls of a new user are chained.
LEMMA AddUserFresh ==
  ASSUME NEW u \in Names
  PROVE  Fresh(Relocation(u) \o AddUser(u))
<1> DEFINE r == Call("relocate", u)  l == Local("lock")  a == Call("ADD", u)
           x == Local("unlock")  h == Local("headers")
           q == Relocation(u) \o AddUser(u)
<1>1. r \in AllCalls /\ l \in AllCalls /\ a \in AllCalls /\ x \in AllCalls /\ h \in AllCalls
  BY CallType DEF Names, Local, CallOps, RemoteOps, RelayOps
<1>2. r.op = "relocate" /\ l.op = "lock" /\ a.op = "ADD" /\ x.op = "unlock" /\ h.op = "headers"
  BY DEF Call, Local
<1>3. q = <<r>> \o (<<l, a, x>> \o <<h>>)
  BY DEF Relocation, AddUser, sendHeaders
<1> HIDE DEF r, l, a, x, h, q
<1>4. PICK m : m = <<l, a, x>> \o <<h>>
  OBVIOUS
<1>5. m \in Seq(AllCalls) /\ Len(m) = 4 /\ m[1] = l /\ m[2] = a /\ m[3] = x /\ m[4] = h
  BY <1>1, <1>4
<1>6. /\ q \in Seq(AllCalls) /\ Len(q) = 5 /\ q # <<>>
      /\ q[1] = r /\ q[2] = l /\ q[3] = a /\ q[4] = x /\ q[5] = h
  BY <1>1, <1>3, <1>4, <1>5
<1>8. Head(q) = r
  BY <1>6, TailFact
<1>7. Chained(q)
  BY <1>2, <1>6 DEF Chained
<1> QED
  BY <1>2, <1>6, <1>7, <1>8 DEF Fresh, q

-----------------------------------------------------------------------------
(* Types are kept.                                                         *)

\* The initial state is well-typed.
LEMMA TypesInit == Init => Types
<1> SUFFICES ASSUME Init PROVE Types
  OBVIOUS
<1>1. RelayTypes
  <2>1. Len(conns) = 0 /\ conns \in Seq(Conns) /\ masterIn \in Seq(Words) /\ masterOut \in Seq(Addresses)
    BY DEF Init
  <2>2. 0 \in Ids
    BY FrontEndAssumption DEF Ids
  <2>3. up \in [Servers -> BOOLEAN] /\ mOpt \in MailOps /\ introduced \in BOOLEAN /\ alive \in BOOLEAN
    BY DEF Init, MailOps
  <2> QED
    BY <2>1, <2>2, <2>3 DEF Init, RelayTypes
<1>2. ThreadTypes
  <2>1. Nothing \in Answers
    BY FrontEndAssumption DEF Nothing, Answers, Ids
  <2>2. conns = <<>> /\ Len(conns) = 0 /\ <<>> \in Seq(AllCalls)
    BY DEF Init
  <2> QED
    BY <2>1, <2>2 DEF Init, ThreadTypes, Places
<1>3. SessionTypes
  BY DEF Init, SessionTypes, Names, Pages
<1> QED
  BY <1>1, <1>2, <1>3 DEF Types

\* The user and the cookie of a request.
LEMMA CookieUser ==
  ASSUME SessionTypes, NEW t \in Threads
  PROVE  User(t) \in Names /\ Cookie(t) \in Nat /\ Cookie(t) <= Len(cookie2Browser)
<1>1. Browser[t] \in Browsers
  BY DEF Browsers
<1>2. jar[Browser[t]] \in Nat /\ jar[Browser[t]] <= Len(cookie2Browser)
  BY <1>1 DEF SessionTypes
<1>3. cookie2Browser \in Seq(Names) /\ cookieValue[t] \in Nat /\ cookieValue[t] <= Len(cookie2Browser)
      /\ username[t] \in Names
  BY DEF SessionTypes
<1>4. jar[Browser[t]] # 0 => cookie2Browser[jar[Browser[t]]] \in Names
  BY <1>2, <1>3
<1> QED
  BY <1>2, <1>3, <1>4 DEF User, Cookie, AutoLogin

\* A request starts with well-typed calls.
LEMMA AskTypes ==
  ASSUME Types, NEW t \in Threads, NEW calls, Fresh(calls), Ask(t, calls),
         redirectTo' \in [Threads -> Pages \union {NoPage}]
  PROVE  Types' /\ \E q : Fresh(q) /\ todo' = [todo EXCEPT ![t] = q]
<1> DEFINE q == IF Mismatch(t) THEN sendStatus ELSE calls
<1>1. Fresh(q)
  <2>1. sendStatus \in Seq(PlainCalls)
    BY PlainSequences DEF Names
  <2> QED
    BY <2>1, PlainFresh
<1>2. todo' = [todo EXCEPT ![t] = q]
  BY DEF Ask
<1>3. q \in Seq(AllCalls)
  BY <1>1 DEF Fresh
<1> HIDE DEF q
<1>4. RelayTypes'
  BY DEF Ask, Types, RelayTypes, relayVars, masterVars, netVars
<1>5. ThreadTypes'
  <2>1. todo' \in [Threads -> Seq(AllCalls)]
    BY <1>2, <1>3 DEF Types, ThreadTypes
  <2>2. UNCHANGED <<conns, pc, fd, got>>
    BY DEF Ask, netVars
  <2> QED
    BY <2>1, <2>2 DEF Types, ThreadTypes
<1>6. SessionTypes'
  <2>1. User(t) \in Names /\ Cookie(t) \in Nat /\ Cookie(t) <= Len(cookie2Browser)
    BY CookieUser DEF Types
  <2> QED
    BY <2>1 DEF Ask, Types, SessionTypes
<1> QED
  BY <1>1, <1>2, <1>4, <1>5, <1>6 DEF Types

\* What a request of a browser does to the calls of its thread.
LEMMA RequestFact ==
  ASSUME Types, NEW t \in Threads, AnyRequest(t)
  PROVE  /\ Types'
         /\ \/ /\ todo' = todo /\ overlap' = overlap
            \/ /\ \E q : Fresh(q) /\ todo' = [todo EXCEPT ![t] = q]
               /\ overlap' = (overlap \/ \E o \in Threads : ~Idle(o))
         /\ Idle(t) /\ alive
         /\ UNCHANGED <<relayVars, masterVars, netVars, alive, mOpt, pc, fd, got>>
<1> DEFINE Goal == /\ Types'
                   /\ \E q : Fresh(q) /\ todo' = [todo EXCEPT ![t] = q]
                   /\ overlap' = (overlap \/ \E o \in Threads : ~Idle(o))
                   /\ UNCHANGED <<relayVars, masterVars, netVars, alive, mOpt, pc, fd, got>>
<1>0. User(t) \in Names /\ redirectTo \in [Threads -> Pages \union {NoPage}]
  BY CookieUser DEF Types, SessionTypes
<1>a. ASSUME NEW calls, Fresh(calls), Ask(t, calls), redirectTo' \in [Threads -> Pages \union {NoPage}]
      PROVE  Goal
  BY <1>a, AskTypes DEF Ask
<1> HIDE DEF Goal
<1>1. ASSUME NEW p \in Pages \intersect Kinds, Get(t, p) PROVE Goal
  <2> DEFINE calls == IF Cookie(t) = 0 THEN sendHeaders ELSE handleGET(p, User(t))
  <2>1. calls \in Seq(PlainCalls)
    BY <1>0, PlainSequences
  <2>2. Ask(t, calls) /\ redirectTo' = [redirectTo EXCEPT ![t] = IF Cookie(t) = 0 /\ ~Mismatch(t) THEN p ELSE @]
    BY <1>1 DEF Get
  <2> HIDE DEF calls
  <2>3. redirectTo' \in [Threads -> Pages \union {NoPage}]
    BY <1>0, <2>2
  <2> QED
    BY <1>a, <2>1, <2>2, <2>3, PlainFresh
<1>2. ASSUME NEW f \in Forms \intersect Kinds, Post(t, f) PROVE Goal
  <2>1. handlePOST(f, User(t)) \in Seq(PlainCalls)
    BY <1>0, PlainSequences
  <2>2. Ask(t, handlePOST(f, User(t))) /\ redirectTo' = redirectTo
    BY <1>2 DEF Post
  <2> QED
    BY <1>0, <1>a, <2>1, <2>2, PlainFresh
<1>3. ASSUME NEW u \in Users, NEW right \in BOOLEAN, Login(t, u, right) PROVE Goal
  <2>1. Relocation(u) \o Authenticate(u, right) \in Seq(PlainCalls)
    BY PlainSequences DEF Names
  <2>2. Ask(t, Relocation(u) \o Authenticate(u, right)) /\ redirectTo' = redirectTo
    BY <1>3 DEF Login
  <2> QED
    BY <1>0, <1>a, <2>1, <2>2, PlainFresh
<1>4. ASSUME NEW u \in Users, Register(t, u) PROVE Goal
  <2>1. Fresh(Relocation(u) \o AddUser(u))
    BY AddUserFresh DEF Names
  <2>2. Ask(t, Relocation(u) \o AddUser(u)) /\ redirectTo' = redirectTo
    BY <1>4 DEF Register
  <2> QED
    BY <1>0, <1>a, <2>1, <2>2
<1>5. CASE NewConnection(t)
  <2>1. UNCHANGED <<relayVars, masterVars, netVars, alive, mOpt, cookie2Browser, jar, threadVars, browserVars>>
    BY <1>5 DEF NewConnection
  <2>2. UNCHANGED <<backendSock, mutex_sock, masterIn, masterOut, introduced, conns, up, alive, mOpt, todo, pc, fd, got, overlap>>
    BY <2>1 DEF relayVars, masterVars, netVars, threadVars, browserVars
  <2>3. RelayTypes' /\ ThreadTypes'
    BY <2>2 DEF Types, RelayTypes, ThreadTypes
  <2>4. SessionTypes'
    <3>1. /\ cookieValue' = [cookieValue EXCEPT ![t] = 0] /\ username' = [username EXCEPT ![t] = NoUser]
          /\ redirectTo' = [redirectTo EXCEPT ![t] = "index"] /\ UNCHANGED <<cookie2Browser, jar>>
      BY <1>5 DEF NewConnection
    <3>2. SessionTypes
      BY DEF Types
    <3>3. cookie2Browser \in Seq(Names)
      BY <3>2 DEF SessionTypes
    <3>4. Len(cookie2Browser) \in Nat
      BY <3>3
    <3>5. NoUser \in Names /\ "index" \in Pages
      BY DEF Names, Pages
    <3>6. /\ cookieValue' \in [Threads -> Nat] /\ username' \in [Threads -> Names]
          /\ redirectTo' \in [Threads -> Pages \union {NoPage}]
          /\ \A o \in Threads : cookieValue'[o] = 0 \/ cookieValue'[o] = cookieValue[o]
      BY <3>1, <3>2, <3>5 DEF SessionTypes
    <3>7. ASSUME NEW o \in Threads PROVE cookieValue'[o] <= Len(cookie2Browser)
      <4>1. cookieValue[o] <= Len(cookie2Browser)
        BY <3>2 DEF SessionTypes
      <4>2. cookieValue'[o] = 0 \/ cookieValue'[o] = cookieValue[o]
        BY <3>6
      <4> QED
        BY <3>4, <4>1, <4>2
    <3> QED
      BY <3>1, <3>2, <3>6, <3>7 DEF SessionTypes
  <2> QED
    BY <1>5, <2>1, <2>2, <2>3, <2>4 DEF Types, NewConnection, MayAsk
<1>6. Idle(t) /\ alive
  BY DEF AnyRequest, Get, Post, Login, Register, NewConnection, MayAsk
<1>7. CASE Goal
  BY <1>6, <1>7 DEF Goal
<1> QED
  BY <1>1, <1>2, <1>3, <1>4, <1>5, <1>7 DEF AnyRequest

-----------------------------------------------------------------------------
(* What steps do to the connections.                                       *)

\* No connection is added, and none changes whom it is for.
SameEnds ==
  /\ conns' \in Seq(Conns) /\ Len(conns') = Len(conns)
  /\ \A c \in 1 .. Len(conns) :
       /\ conns'[c].by = conns[c].by /\ conns'[c].name = conns[c].name
       /\ conns'[c].server = conns[c].server

\* One connection changes, in what is on it and in its state.
LEMMA ConnUpdate ==
  ASSUME conns \in Seq(Conns), NEW c \in 1 .. Len(conns), NEW r \in Conns,
         conns' = [conns EXCEPT ![c] = r],
         r.by = conns[c].by, r.name = conns[c].name, r.server = conns[c].server
  PROVE  /\ SameEnds /\ conns'[c] = r
         /\ \A d \in 1 .. Len(conns) : d # c => conns'[d] = conns[d]
<1>1. /\ conns' \in Seq(Conns) /\ Len(conns') = Len(conns)
      /\ \A d \in 1 .. Len(conns) : conns'[d] = IF d = c THEN r ELSE conns[d]
  BY ExceptSeq
<1> QED
  BY <1>1 DEF SameEnds

\* What is on a connection.
LEMMA ConnFact ==
  ASSUME conns \in Seq(Conns), NEW c \in 1 .. Len(conns)
  PROVE  /\ conns[c].in \in Seq(Asked) /\ conns[c].out \in Seq(Answers)
         /\ conns[c].state \in {"open", "closed", "reset"}
<1>1. conns[c] \in Conns
  OBVIOUS
<1> QED
  BY <1>1 DEF Conns

\* Nothing happens to the connections.
LEMMA ConnSame ==
  ASSUME conns \in Seq(Conns), conns' = conns
  PROVE  SameEnds
BY DEF SameEnds

\* What is read on a connection, and what stays there.
LEMMA TakenFact ==
  ASSUME RelayTypes, NEW c \in 0 .. Len(conns)
  PROVE  /\ Answer(c) \in Answers
         /\ c = 0 \/ conns[c].out = <<>> => Answer(c) = Nothing /\ Taken(c) = conns
         /\ c # 0 /\ conns[c].out # <<>> =>
              /\ Answer(c) = conns[c].out[1]
              /\ Taken(c) = [conns EXCEPT ![c] = [conns[c] EXCEPT !.out = Tail(conns[c].out)]]
              /\ [conns[c] EXCEPT !.out = Tail(conns[c].out)] \in Conns
<1>0. Nothing \in Answers
  BY FrontEndAssumption DEF Nothing, Answers, Ids
<1>1. CASE c = 0 \/ conns[c].out = <<>>
  BY <1>0, <1>1 DEF Answer, Taken
<1>2. CASE c # 0 /\ conns[c].out # <<>>
  <2>1. conns \in Seq(Conns) /\ c \in 1 .. Len(conns)
    BY <1>2 DEF RelayTypes
  <2>2. conns[c] \in Conns
    BY <2>1
  <2>3. conns[c].out \in Seq(Answers)
    BY <2>2 DEF Conns
  <2>4. Head(conns[c].out) = conns[c].out[1] /\ conns[c].out[1] \in Answers /\ Tail(conns[c].out) \in Seq(Answers)
    BY <1>2, <2>3, TailFact
  <2>5. [conns[c] EXCEPT !.out = Tail(conns[c].out)] \in Conns
    BY <2>2, <2>4 DEF Conns
  <2>6. Taken(c) = [conns EXCEPT ![c] = [conns[c] EXCEPT !.out = Tail(conns[c].out)]]
    BY <1>2, <2>1 DEF Taken
  <2> QED
    BY <1>2, <2>4, <2>5, <2>6 DEF Answer
<1> QED
  BY <1>1, <1>2

\* A thread reads on a connection.
LEMMA ReadFact ==
  ASSUME RelayTypes, NEW c \in 0 .. Len(conns), conns' = Taken(c)
  PROVE  /\ SameEnds
         /\ \A d \in 1 .. Len(conns) :
              /\ conns'[d].state = conns[d].state /\ conns'[d].in = conns[d].in
              /\ d # c => conns'[d].out = conns[d].out
         /\ c # 0 => conns'[c].out = IF conns[c].out = <<>> THEN <<>> ELSE Tail(conns[c].out)
<1>0. conns \in Seq(Conns)
  BY DEF RelayTypes
<1>1. CASE c = 0 \/ conns[c].out = <<>>
  BY <1>0, <1>1, TakenFact, ConnSame
<1>2. CASE c # 0 /\ conns[c].out # <<>>
  <2> DEFINE r == [conns[c] EXCEPT !.out = Tail(conns[c].out)]
  <2>1. conns' = [conns EXCEPT ![c] = r] /\ r \in Conns
    BY <1>2, TakenFact
  <2>0. c \in 1 .. Len(conns)
    BY <1>0, <1>2
  <2>2. conns[c] \in Conns
    BY <1>0, <2>0
  <2>3. /\ r.by = conns[c].by /\ r.name = conns[c].name /\ r.server = conns[c].server
        /\ r.state = conns[c].state /\ r.in = conns[c].in /\ r.out = Tail(conns[c].out)
    BY <2>2 DEF Conns
  <2> HIDE DEF r
  <2>4. SameEnds /\ conns'[c] = r /\ \A d \in 1 .. Len(conns) : d # c => conns'[d] = conns[d]
    BY <1>0, <2>0, <2>1, <2>3, ConnUpdate
  <2> QED
    BY <1>2, <2>3, <2>4
<1> QED
  BY <1>1, <1>2

\* A call is written to the relay's connection.
LEMMA WriteFact ==
  ASSUME Types, NEW t \in Threads, Write(t), At(t, "write")
  PROVE  /\ SameEnds
         /\ LET c == backendSock IN
            /\ alive' = (c = 0 \/ conns[c].state # "reset")
            /\ \A d \in 1 .. Len(conns) :
                 /\ conns'[d].out = conns[d].out
                 /\ d # c => conns'[d] = conns[d]
            /\ c # 0 /\ conns[c].state = "open" =>
                 /\ conns'[c].state = "open"
                 /\ conns'[c].in = Append(conns[c].in, [by |-> t, op |-> Current(t).op,
                                                        user |-> Current(t).user, ok |-> Current(t).ok])
            /\ c # 0 /\ conns[c].state # "open" =>
                 conns'[c].state = "reset" /\ conns'[c].in = conns[c].in
<1> DEFINE c == backendSock
           m == [by |-> t, op |-> Current(t).op, user |-> Current(t).user, ok |-> Current(t).ok]
<1>0. conns \in Seq(Conns) /\ c \in 0 .. Len(conns) /\ todo[t] \in Seq(AllCalls)
  BY DEF Types, RelayTypes, ThreadTypes
<1>1. m \in Asked
  <2>1. Current(t) \in AllCalls
    BY <1>0, TailFact DEF At, Idle, Current
  <2> QED
    BY <2>1 DEF AllCalls, Asked
<1>2. /\ conns' = IF c = 0 \/ conns[c].state = "reset" THEN conns
                  ELSE IF conns[c].state = "open" THEN [conns EXCEPT ![c].in = Append(@, m)]
                  ELSE [conns EXCEPT ![c].state = "reset"]
      /\ alive' = (c = 0 \/ conns[c].state # "reset")
  BY DEF Write
<1>3. c # 0 => conns[c] \in Conns /\ c \in 1 .. Len(conns)
  BY <1>0
<1>4. c # 0 => conns[c].state \in {"open", "closed", "reset"} /\ conns[c].in \in Seq(Asked)
  BY <1>3 DEF Conns
<1> HIDE DEF c, m
<1>5. CASE c = 0 \/ conns[c].state = "reset"
  BY <1>0, <1>2, <1>4, <1>5, ConnSame DEF c
<1>6. CASE c # 0 /\ conns[c].state = "open"
  <2> DEFINE r == [conns[c] EXCEPT !.in = Append(conns[c].in, m)]
  <2>0. Append(conns[c].in, m) \in Seq(Asked)
    BY <1>1, <1>4, <1>6
  <2>1. /\ r \in Conns /\ r.by = conns[c].by /\ r.name = conns[c].name /\ r.server = conns[c].server
        /\ r.state = conns[c].state /\ r.in = Append(conns[c].in, m) /\ r.out = conns[c].out
    BY <1>3, <1>6, <2>0 DEF Conns
  <2>2. conns' = [conns EXCEPT ![c] = r]
    BY <1>0, <1>2, <1>6
  <2> HIDE DEF r
  <2>3. SameEnds /\ conns'[c] = r /\ \A d \in 1 .. Len(conns) : d # c => conns'[d] = conns[d]
    BY <1>0, <1>3, <1>6, <2>1, <2>2, ConnUpdate
  <2> QED
    BY <1>2, <1>6, <2>1, <2>3 DEF c, m
<1>7. CASE c # 0 /\ conns[c].state = "closed"
  <2> DEFINE r == [conns[c] EXCEPT !.state = "reset"]
  <2>1. /\ r \in Conns /\ r.by = conns[c].by /\ r.name = conns[c].name /\ r.server = conns[c].server
        /\ r.state = "reset" /\ r.in = conns[c].in /\ r.out = conns[c].out
    BY <1>3, <1>7 DEF Conns
  <2>2. conns' = [conns EXCEPT ![c] = r]
    BY <1>0, <1>2, <1>7
  <2> HIDE DEF r
  <2>3. SameEnds /\ conns'[c] = r /\ \A d \in 1 .. Len(conns) : d # c => conns'[d] = conns[d]
    BY <1>0, <1>3, <1>7, <2>1, <2>2, ConnUpdate
  <2> QED
    BY <1>2, <1>7, <2>1, <2>3 DEF c
<1> QED
  BY <1>4, <1>5, <1>6, <1>7

\* A storage server answers the first request on a connection.
LEMMA ServeFact ==
  ASSUME Types, NEW c \in DOMAIN conns, Serve(c)
  PROVE  /\ SameEnds /\ c \in 1 .. Len(conns)
         /\ conns[c].state = "open" /\ conns[c].in # <<>> /\ conns'[c].state = "open"
         /\ conns'[c].in = Tail(conns[c].in)
         /\ LET m == conns[c].in[1] IN
              conns'[c].out = Append(conns[c].out, [by |-> m.by, op |-> m.op, ok |-> m.ok])
         /\ \A d \in 1 .. Len(conns) : d # c => conns'[d] = conns[d]
<1> DEFINE m == conns[c].in[1]
           a == [by |-> m.by, op |-> m.op, ok |-> m.ok]
           r == [conns[c] EXCEPT !.in = Tail(conns[c].in), !.out = Append(conns[c].out, a)]
<1>0. conns \in Seq(Conns) /\ c \in 1 .. Len(conns)
  BY DEF Types, RelayTypes
<1>1. conns[c] \in Conns
  BY <1>0
<1>2. conns[c].in \in Seq(Asked) /\ conns[c].out \in Seq(Answers) /\ conns[c].in # <<>> /\ conns[c].state = "open"
  BY <1>1 DEF Conns, Serve
<1>3. m \in Asked /\ Tail(conns[c].in) \in Seq(Asked) /\ Head(conns[c].in) = m
  BY <1>2, TailFact
<1>4. a \in Answers
  BY <1>3, FrontEndAssumption DEF Asked, Answers, Ids, Threads
<1>5. conns' = [conns EXCEPT ![c] = r]
  BY <1>0, <1>3 DEF Serve
<1> HIDE DEF a, m
<1>6. Append(conns[c].out, a) \in Seq(Answers)
  BY <1>2, <1>4
<1>7. /\ r \in Conns /\ r.by = conns[c].by /\ r.name = conns[c].name /\ r.server = conns[c].server
      /\ r.state = conns[c].state /\ r.in = Tail(conns[c].in) /\ r.out = Append(conns[c].out, a)
  BY <1>1, <1>3, <1>6 DEF Conns
<1> HIDE DEF r
<1>8. SameEnds /\ conns'[c] = r /\ \A d \in 1 .. Len(conns) : d # c => conns'[d] = conns[d]
  BY <1>0, <1>5, <1>7, ConnUpdate
<1> QED
  BY <1>0, <1>2, <1>7, <1>8 DEF a, m

\* A storage server dies.
LEMMA DieFact ==
  ASSUME Types, NEW s \in Servers, Die(s)
  PROVE  /\ SameEnds
         /\ \A d \in 1 .. Len(conns) :
              /\ conns'[d].out = conns[d].out
              /\ \/ conns'[d].state = conns[d].state /\ conns'[d].in = conns[d].in
                 \/ conns'[d].state = "closed" /\ conns'[d].in = <<>>
<1>0. conns \in Seq(Conns) /\ Len(conns) \in Nat /\ DOMAIN conns = 1 .. Len(conns)
  BY DEF Types, RelayTypes
<1> DEFINE e(c) == IF conns[c].server = s /\ conns[c].state = "open"
                     THEN [conns[c] EXCEPT !.state = "closed", !.in = <<>>] ELSE conns[c]
<1>1. conns' = [c \in 1 .. Len(conns) |-> e(c)]
  BY <1>0 DEF Die
<1>2. ASSUME NEW c \in 1 .. Len(conns)
      PROVE  /\ e(c) \in Conns
             /\ e(c).by = conns[c].by /\ e(c).name = conns[c].name /\ e(c).server = conns[c].server
             /\ e(c).out = conns[c].out
             /\ \/ e(c).state = conns[c].state /\ e(c).in = conns[c].in
                \/ e(c).state = "closed" /\ e(c).in = <<>>
  <2>1. conns[c] \in Conns
    BY <1>0
  <2>2. CASE conns[c].server = s /\ conns[c].state = "open"
    <3> DEFINE r == [conns[c] EXCEPT !.state = "closed", !.in = <<>>]
    <3>1. e(c) = r
      BY <2>2
    <3>2. <<>> \in Seq(Asked)
      OBVIOUS
    <3>3. /\ r \in Conns /\ r.by = conns[c].by /\ r.name = conns[c].name /\ r.server = conns[c].server
          /\ r.out = conns[c].out /\ r.state = "closed" /\ r.in = <<>>
      BY <2>1, <3>2 DEF Conns
    <3> QED
      BY <3>1, <3>3
  <2>3. CASE ~ (conns[c].server = s /\ conns[c].state = "open")
    BY <2>1, <2>3
  <2> QED
    BY <2>2, <2>3
<1> HIDE DEF e
<1>3. conns' \in Seq(Conns) /\ Len(conns') = Len(conns) /\ \A c \in 1 .. Len(conns) : conns'[c] = e(c)
  BY <1>0, <1>1, <1>2
<1> QED
  BY <1>2, <1>3 DEF SameEnds

-----------------------------------------------------------------------------
(* Types and the mutex: the steps.                                         *)

\* The relay keeps its types where no connection is added.
LEMMA KeepRelay ==
  ASSUME RelayTypes, SameEnds, UNCHANGED <<backendSock, masterIn, masterOut, introduced>>,
         up' \in [Servers -> BOOLEAN], mutex_sock' \in Ids, alive' \in BOOLEAN, mOpt' \in MailOps
  PROVE  RelayTypes'
BY DEF RelayTypes, SameEnds

\* The other threads keep theirs.
LEMMA KeepThreads ==
  ASSUME ThreadTypes, NEW t \in Threads, NEW q \in Seq(AllCalls), NEW p \in Places,
         todo' = [todo EXCEPT ![t] = q], pc' = [pc EXCEPT ![t] = p],
         Len(conns) \in Nat, Len(conns') \in Nat, Len(conns) <= Len(conns'),
         fd' = fd \/ \E c \in 0 .. Len(conns') : fd' = [fd EXCEPT ![t] = c],
         got' = got \/ \E a \in Answers : got' = [got EXCEPT ![t] = a]
  PROVE  ThreadTypes'
<1>1. todo' \in [Threads -> Seq(AllCalls)] /\ pc' \in [Threads -> Places] /\ got' \in [Threads -> Answers]
  BY DEF ThreadTypes
<1>2. fd' \in [Threads -> Nat]
  <2>1. \A c \in 0 .. Len(conns') : [fd EXCEPT ![t] = c] \in [Threads -> Nat]
    BY DEF ThreadTypes
  <2> QED
    BY <2>1 DEF ThreadTypes
<1>3. ASSUME NEW o \in Threads PROVE fd'[o] <= Len(conns')
  <2>1. fd[o] \in Nat /\ fd[o] <= Len(conns)
    BY DEF ThreadTypes
  <2>2. CASE fd' = fd
    BY <2>1, <2>2
  <2>3. CASE \E c \in 0 .. Len(conns') : fd' = [fd EXCEPT ![t] = c]
    BY <2>1, <2>3 DEF ThreadTypes
  <2> QED
    BY <2>2, <2>3
<1> QED
  BY <1>1, <1>2, <1>3 DEF ThreadTypes

\* Also where nothing is read and no connection is added.
LEMMA KeepThreadsMove ==
  ASSUME ThreadTypes, NEW t \in Threads, NEW q \in Seq(AllCalls), NEW p \in Places,
         todo' = [todo EXCEPT ![t] = q], pc' = [pc EXCEPT ![t] = p],
         Len(conns') = Len(conns), UNCHANGED <<fd, got>>
  PROVE  ThreadTypes'
BY DEF ThreadTypes

\* So do the sessions that nothing touches.
LEMMA KeepSessions ==
  ASSUME SessionTypes, UNCHANGED <<cookie2Browser, cookieValue, jar, username, redirectTo>>
  PROVE  SessionTypes'
BY DEF SessionTypes

\* A thread moves on; the mutex stays where it is, or the thread takes it from
\* nobody or gives it back.
LEMMA ControlMove ==
  ASSUME ThreadTypes, Control, NEW t \in Threads, NEW q \in Seq(AllCalls), NEW p \in Places,
         todo' = [todo EXCEPT ![t] = q], pc' = [pc EXCEPT ![t] = p],
         Chained(q), Placed(q, p), Guarded(q, p, mutex_sock' = t),
         \/ mutex_sock' = mutex_sock
         \/ mutex_sock = 0 /\ mutex_sock' = t
         \/ mutex_sock = t /\ mutex_sock' = 0
  PROVE  Control'
<1> SUFFICES ASSUME NEW o \in Threads
             PROVE  Chained(todo'[o]) /\ Placed(todo'[o], pc'[o]) /\ Guarded(todo'[o], pc'[o], mutex_sock' = o)
  BY DEF Control
<1>1. CASE o = t
  BY <1>1 DEF ThreadTypes
<1>2. CASE o # t
  <2>1. todo'[o] = todo[o] /\ pc'[o] = pc[o]
    BY <1>2 DEF ThreadTypes
  <2>2. Chained(todo[o]) /\ Placed(todo[o], pc[o]) /\ Guarded(todo[o], pc[o], mutex_sock = o)
    BY DEF Control
  <2>3. mutex_sock = o => mutex_sock' = o
    BY <1>2, FrontEndAssumption DEF Threads
  <2> QED
    BY <2>1, <2>2, <2>3 DEF Guarded
<1> QED
  BY <1>1, <1>2

\* What is known of a thread that has a call to make.
LEMMA AtFact ==
  ASSUME Types, Control, NEW t \in Threads, NEW p, At(t, p)
  PROVE  /\ todo[t] \in Seq(AllCalls) /\ todo[t] # <<>> /\ pc[t] = p /\ alive
         /\ Current(t) = Head(todo[t]) /\ Current(t) = todo[t][1] /\ Current(t) \in AllCalls
         /\ Tail(todo[t]) \in Seq(AllCalls) /\ Chained(Tail(todo[t])) /\ Chained(todo[t])
         /\ todo = [todo EXCEPT ![t] = todo[t]]
         /\ Placed(todo[t], p) /\ Guarded(todo[t], p, mutex_sock = t)
         /\ Tail(todo[t]) # <<>> =>
              /\ Head(Tail(todo[t])).op = "ADD" => Current(t).op = "lock"
              /\ Head(Tail(todo[t])).op = "unlock" => Current(t).op = "ADD"
         /\ fd[t] \in 0 .. Len(conns) /\ backendSock \in 0 .. Len(conns) /\ Len(conns) \in Nat
         /\ mutex_sock \in Ids /\ t \in Ids /\ 0 \in Ids /\ t # 0
<1> DEFINE q == todo[t]
<1>1. q \in Seq(AllCalls) /\ q # <<>> /\ pc[t] = p /\ alive /\ todo = [todo EXCEPT ![t] = q]
  BY DEF At, Idle, Types, ThreadTypes
<1>2. Chained(q) /\ Placed(q, p) /\ Guarded(q, p, mutex_sock = t)
  BY <1>1 DEF Control
<1>3. /\ Head(q) \in AllCalls /\ Head(q) = q[1] /\ Tail(q) \in Seq(AllCalls)
      /\ Len(q) \in Nat /\ Len(q) >= 1 /\ Len(Tail(q)) = Len(q) - 1
      /\ \A i \in 1 .. Len(Tail(q)) : Tail(q)[i] = q[i + 1]
  BY <1>1, TailFact
<1> HIDE DEF q
<1>4. Chained(Tail(q))
  <2> SUFFICES ASSUME NEW i \in 2 .. Len(Tail(q))
               PROVE  /\ Tail(q)[i].op = "ADD" => Tail(q)[i - 1].op = "lock"
                      /\ Tail(q)[i].op = "unlock" => Tail(q)[i - 1].op = "ADD"
    BY DEF Chained
  <2>1. Tail(q)[i] = q[i + 1] /\ Tail(q)[i - 1] = q[i] /\ i + 1 \in 2 .. Len(q) /\ (i + 1) - 1 = i
    BY <1>3
  <2> QED
    BY <1>2, <2>1 DEF Chained
<1>5. ASSUME Tail(q) # <<>>
      PROVE  /\ Head(Tail(q)).op = "ADD" => Head(q).op = "lock"
             /\ Head(Tail(q)).op = "unlock" => Head(q).op = "ADD"
  <2>1. Head(Tail(q)) = Tail(q)[1] /\ Len(Tail(q)) >= 1
    BY <1>3, <1>5, TailFact
  <2>2. Head(Tail(q)) = q[2] /\ 2 \in 2 .. Len(q)
    BY <1>3, <2>1
  <2> QED
    BY <1>2, <1>3, <2>2 DEF Chained
<1>6. /\ fd[t] \in 0 .. Len(conns) /\ backendSock \in 0 .. Len(conns) /\ Len(conns) \in Nat
      /\ mutex_sock \in Ids /\ t \in Ids /\ 0 \in Ids /\ t # 0
  <2>1. conns \in Seq(Conns) /\ backendSock \in 0 .. Len(conns) /\ mutex_sock \in Ids
    BY DEF Types, RelayTypes
  <2>2. fd[t] \in Nat /\ fd[t] <= Len(conns)
    BY DEF Types, ThreadTypes
  <2> QED
    BY <2>1, <2>2, FrontEndAssumption DEF Ids, Threads
<1> QED
  BY <1>1, <1>2, <1>3, <1>4, <1>5, <1>6 DEF Current, q

\* The steps of setNewBackendSock keep types, and the mutex with who has it.
LEMMA ConnectTypes ==
  ASSUME Types, Control, NEW t \in Threads,
         LockRelay(t) \/ SendName(t) \/ ReadAddress(t) \/ ReadWelcome(t) \/ Release(t)
  PROVE  Types' /\ Control'
<1> DEFINE q == todo[t]
<1>0. RelayTypes /\ ThreadTypes /\ SessionTypes /\ conns \in Seq(Conns)
  BY DEF Types, RelayTypes
<1>s. UNCHANGED sessionVars => SessionTypes'
  BY <1>0, KeepSessions DEF sessionVars
<1>m. UNCHANGED masterVars => UNCHANGED <<masterIn, masterOut, introduced>>
  BY DEF masterVars
<1>1. CASE LockRelay(t)
  <2>1. PICK p \in {"reconnect", "next"} : At(t, p) /\ (p = "next" => Current(t).op = "relocate")
    BY <1>1 DEF LockRelay
  <2>2. /\ mutex_sock = 0 /\ mutex_sock' = t /\ pc' = [pc EXCEPT ![t] = "name"]
        /\ UNCHANGED <<backendSock, masterVars, conns, up, alive, mOpt, sessionVars, todo, fd, got>>
    BY <1>1 DEF LockRelay, Goto, netVars
  <2>3. /\ q \in Seq(AllCalls) /\ q # <<>> /\ todo' = [todo EXCEPT ![t] = q] /\ Chained(q) /\ t \in Ids /\ t # 0
        /\ Placed(q, p) /\ Guarded(q, p, mutex_sock = t) /\ Current(t) = Head(q) /\ Len(conns) \in Nat
    BY <2>1, <2>2, AtFact
  <2>4. Placed(q, "name") /\ Guarded(q, "name", mutex_sock' = t)
    BY <2>1, <2>2, <2>3 DEF Placed, Guarded, Dialogue, Sent, RelayOps
  <2> HIDE DEF q
  <2>5. Control'
    BY <1>0, <2>2, <2>3, <2>4, ControlMove DEF Places, Dialogue
  <2>6. RelayTypes'
    BY <1>0, <1>m, <2>2, <2>3, KeepRelay, ConnSame DEF RelayTypes
  <2>7. ThreadTypes'
    BY <1>0, <2>2, <2>3, KeepThreadsMove DEF Places, Dialogue
  <2> QED
    BY <1>s, <2>2, <2>5, <2>6, <2>7 DEF Types
<1>2. CASE SendName(t)
  <2>1. At(t, "name")
    BY <1>2 DEF SendName
  <2>2. /\ pc' = [pc EXCEPT ![t] = "address"]
        /\ masterIn' = masterIn \o (IF backendSock = 0 THEN <<"pair">> ELSE <<>>) \o <<Current(t).user>>
        /\ UNCHANGED <<backendSock, mutex_sock, masterOut, introduced, conns, up, alive, mOpt, sessionVars, todo, fd, got>>
    BY <1>2 DEF SendName, Goto, netVars, relayVars
  <2>3. /\ q \in Seq(AllCalls) /\ q # <<>> /\ todo' = [todo EXCEPT ![t] = q] /\ Chained(q)
        /\ Placed(q, "name") /\ Guarded(q, "name", mutex_sock = t) /\ Current(t) = Head(q) /\ Len(conns) \in Nat
        /\ Current(t) \in AllCalls
    BY <2>1, <2>2, AtFact
  <2>4. Placed(q, "address") /\ Guarded(q, "address", mutex_sock' = t)
    BY <2>2, <2>3 DEF Placed, Guarded, Dialogue, Sent
  <2>a. Current(t).user \in Words /\ "pair" \in Words
    BY <2>3 DEF AllCalls, Words
  <2> HIDE DEF q
  <2>5. Control'
    BY <1>0, <2>2, <2>3, <2>4, ControlMove DEF Places, Dialogue
  <2>6. RelayTypes'
    <3>1. masterIn \in Seq(Words)
      BY <1>0 DEF RelayTypes
    <3>2. masterIn' \in Seq(Words)
      BY <2>2, <2>a, <3>1
    <3> QED
      BY <1>0, <2>2, <3>2 DEF RelayTypes
  <2>7. ThreadTypes'
    BY <1>0, <2>2, <2>3, KeepThreadsMove DEF Places, Dialogue
  <2> QED
    BY <1>s, <2>2, <2>5, <2>6, <2>7 DEF Types
<1>3. CASE ReadAddress(t)
  <2>1. At(t, "address") /\ masterOut # <<>>
    BY <1>3 DEF ReadAddress
  <2> DEFINE a == Head(masterOut)
             r == [server |-> a.server, name |-> a.name, by |-> t, state |-> "open", in |-> <<>>, out |-> <<Welcome>>]
  <2>2. /\ pc' = [pc EXCEPT ![t] = "welcome"] /\ masterOut' = Tail(masterOut)
        /\ \/ /\ up[a.server] /\ conns' = Append(conns, r) /\ backendSock' = Len(conns) + 1
              /\ fd' = [fd EXCEPT ![t] = Len(conns) + 1] /\ alive' = alive
           \/ alive' = FALSE /\ UNCHANGED <<conns, backendSock, fd>>
        /\ UNCHANGED <<mutex_sock, masterIn, introduced, up, mOpt, sessionVars, todo, got>>
    BY <1>3 DEF ReadAddress, Goto
  <2>3. /\ q \in Seq(AllCalls) /\ q # <<>> /\ todo' = [todo EXCEPT ![t] = q] /\ Chained(q)
        /\ Placed(q, "address") /\ Guarded(q, "address", mutex_sock = t) /\ Current(t) = Head(q) /\ Len(conns) \in Nat
    BY <2>1, <2>2, AtFact
  <2>4. Placed(q, "welcome") /\ Guarded(q, "welcome", mutex_sock' = t)
    BY <2>2, <2>3 DEF Placed, Guarded, Dialogue, Sent
  <2>a. masterOut \in Seq(Addresses) /\ a \in Addresses /\ Tail(masterOut) \in Seq(Addresses)
    BY <1>0, <2>1, TailFact DEF RelayTypes
  <2>b. r \in Conns
    <3>1. Welcome \in Answers
      BY FrontEndAssumption DEF Welcome, Answers, Ids
    <3>2. <<Welcome>> \in Seq(Answers) /\ <<>> \in Seq(Asked)
      BY <3>1
    <3>3. a.server \in Servers /\ a.name \in Words
      BY <2>a DEF Addresses
    <3> HIDE DEF a
    <3> QED
      BY <3>2, <3>3 DEF Conns
  <2> HIDE DEF q, a, r
  <2>5. Control'
    BY <1>0, <2>2, <2>3, <2>4, ControlMove DEF Places, Dialogue
  <2>c. backendSock \in 0 .. Len(conns) /\ alive \in BOOLEAN
    BY <1>0 DEF RelayTypes
  <2>d. Append(conns, r) \in Seq(Conns) /\ Len(Append(conns, r)) = Len(conns) + 1
    BY <1>0, <2>b, AppendProperties
  <2>6. /\ conns' \in Seq(Conns) /\ backendSock' \in 0 .. Len(conns') /\ alive' \in BOOLEAN
        /\ Len(conns') \in Nat /\ Len(conns) <= Len(conns')
        /\ fd' = fd \/ \E c \in 0 .. Len(conns') : fd' = [fd EXCEPT ![t] = c]
    <3>1. CASE conns' = Append(conns, r) /\ backendSock' = Len(conns) + 1
              /\ fd' = [fd EXCEPT ![t] = Len(conns) + 1] /\ alive' = alive
      <4>1. Len(conns') = Len(conns) + 1 /\ conns' \in Seq(Conns)
        BY <2>d, <3>1
      <4>0. Len(conns) \in Nat
        BY <2>3
      <4>2. Len(conns) + 1 \in 0 .. Len(conns') /\ Len(conns') \in Nat /\ Len(conns) <= Len(conns')
        BY <4>0, <4>1
      <4>3. \E c \in 0 .. Len(conns') : fd' = [fd EXCEPT ![t] = c]
        BY <3>1, <4>2
      <4>4. backendSock' \in 0 .. Len(conns') /\ alive' \in BOOLEAN
        BY <2>c, <3>1, <4>2
      <4> QED
        BY <4>1, <4>2, <4>3, <4>4
    <3>2. CASE alive' = FALSE /\ UNCHANGED <<conns, backendSock, fd>>
      <4>1. conns' \in Seq(Conns) /\ alive' \in BOOLEAN /\ fd' = fd
        BY <1>0, <3>2
      <4>2. Len(conns) \in Nat /\ Len(conns') = Len(conns)
        BY <2>3, <3>2
      <4>3. Len(conns') \in Nat /\ Len(conns) <= Len(conns')
        BY <4>2
      <4>4. backendSock' \in 0 .. Len(conns')
        BY <2>c, <3>2, <4>2
      <4> QED
        BY <4>1, <4>3, <4>4
    <3> QED
      BY <2>2, <3>1, <3>2
  <2>7. RelayTypes'
    BY <1>0, <2>2, <2>6, <2>a DEF RelayTypes
  <2>8. ThreadTypes'
    <3>1. "welcome" \in Places
      BY DEF Places, Dialogue
    <3> QED
      BY <1>0, <2>2, <2>3, <2>6, <3>1, KeepThreads
  <2> QED
    BY <1>s, <2>2, <2>5, <2>7, <2>8 DEF Types
<1>4. CASE ReadWelcome(t)
  <2>1. At(t, "welcome")
    BY <1>4 DEF ReadWelcome
  <2>2. /\ pc' = [pc EXCEPT ![t] = "release"] /\ conns' = Taken(fd[t])
        /\ UNCHANGED <<backendSock, mutex_sock, masterVars, up, alive, mOpt, sessionVars, todo, fd, got>>
    BY <1>4 DEF ReadWelcome, Goto, relayVars
  <2>3. /\ q \in Seq(AllCalls) /\ q # <<>> /\ todo' = [todo EXCEPT ![t] = q] /\ Chained(q)
        /\ Placed(q, "welcome") /\ Guarded(q, "welcome", mutex_sock = t) /\ Len(conns) \in Nat
        /\ fd[t] \in 0 .. Len(conns)
    BY <2>1, <2>2, AtFact
  <2>4. Placed(q, "release") /\ Guarded(q, "release", mutex_sock' = t)
    BY <2>2, <2>3 DEF Placed, Guarded, Dialogue, Sent
  <2>a. SameEnds
    BY <1>0, <2>2, <2>3, ReadFact
  <2>b. Len(conns') = Len(conns)
    BY <2>a DEF SameEnds
  <2> HIDE DEF q
  <2>5. Control'
    BY <1>0, <2>2, <2>3, <2>4, ControlMove DEF Places, Dialogue
  <2>6. RelayTypes'
    BY <1>0, <1>m, <2>2, <2>a, KeepRelay DEF RelayTypes
  <2>7. ThreadTypes'
    BY <1>0, <2>2, <2>3, <2>b, KeepThreadsMove DEF Places, Dialogue
  <2> QED
    BY <1>s, <2>2, <2>5, <2>6, <2>7 DEF Types
<1>5. CASE Release(t)
  <2>1. At(t, "release")
    BY <1>5 DEF Release
  <2>2. /\ mutex_sock' = IF mutex_sock = t THEN 0 ELSE mutex_sock
        /\ IF Current(t).op = "relocate"
             THEN todo' = [todo EXCEPT ![t] = Tail(todo[t])] /\ pc' = [pc EXCEPT ![t] = "next"]
             ELSE todo' = todo /\ pc' = [pc EXCEPT ![t] = "write"]
        /\ UNCHANGED <<backendSock, masterVars, conns, up, alive, mOpt, sessionVars, fd, got>>
    BY <1>5 DEF Release, Goto, netVars
  <2>3. /\ q \in Seq(AllCalls) /\ q # <<>> /\ todo = [todo EXCEPT ![t] = q] /\ Chained(q)
        /\ Tail(q) \in Seq(AllCalls) /\ Chained(Tail(q))
        /\ Placed(q, "release") /\ Guarded(q, "release", mutex_sock = t) /\ Current(t) = Head(q) /\ Len(conns) \in Nat
        /\ Tail(q) # <<>> =>
              /\ Head(Tail(q)).op = "ADD" => Current(t).op = "lock"
              /\ Head(Tail(q)).op = "unlock" => Current(t).op = "ADD"
        /\ 0 \in Ids
    BY <2>1, AtFact
  <2>4. mutex_sock = t /\ mutex_sock' = 0 /\ Current(t).op \in (RelayOps \union {"relocate"}) \ {"ADD"}
    BY <2>2, <2>3 DEF Placed, Guarded, Dialogue
  <2>a. PICK n \in Seq(AllCalls), p \in {"next", "write"} :
          /\ todo' = [todo EXCEPT ![t] = n] /\ pc' = [pc EXCEPT ![t] = p]
          /\ Chained(n) /\ Placed(n, p) /\ Guarded(n, p, mutex_sock' = t)
    <3>1. CASE Current(t).op = "relocate"
      <4>1. Placed(Tail(q), "next") /\ Guarded(Tail(q), "next", mutex_sock' = t)
        BY <2>3, <3>1 DEF Placed, Guarded, Dialogue, Sent
      <4> QED
        BY <2>2, <2>3, <3>1, <4>1
    <3>2. CASE Current(t).op # "relocate"
      <4>1. Placed(q, "write") /\ Guarded(q, "write", mutex_sock' = t)
        BY <2>3, <2>4, <3>2 DEF Placed, Guarded, Dialogue, Sent, RelayOps, RemoteOps
      <4> QED
        BY <2>2, <2>3, <3>2, <4>1
    <3> QED
      BY <3>1, <3>2
  <2> HIDE DEF q
  <2>5. Control'
    BY <1>0, <2>a, <2>4, ControlMove DEF Places, Sent
  <2>6. RelayTypes'
    BY <1>0, <1>m, <2>2, <2>3, <2>4, KeepRelay, ConnSame DEF RelayTypes
  <2>7. ThreadTypes'
    BY <1>0, <2>2, <2>3, <2>a, KeepThreadsMove DEF Places, Sent
  <2> QED
    BY <1>s, <2>2, <2>5, <2>6, <2>7 DEF Types
<1> QED
  BY <1>1, <1>2, <1>3, <1>4, <1>5

\* A thread moves on, and leaves the master and the set of connections alone.
LEMMA TypesMove ==
  ASSUME Types, Control, NEW t \in Threads, NEW q \in Seq(AllCalls), NEW p \in Places,
         todo' = [todo EXCEPT ![t] = q], pc' = [pc EXCEPT ![t] = p],
         Chained(q), Placed(q, p), Guarded(q, p, mutex_sock' = t),
         \/ mutex_sock' = mutex_sock
         \/ mutex_sock = 0 /\ mutex_sock' = t
         \/ mutex_sock = t /\ mutex_sock' = 0,
         SameEnds, UNCHANGED <<backendSock, masterVars, up>>, alive' \in BOOLEAN, mOpt' \in MailOps,
         NEW c \in 0 .. Len(conns), fd' = [fd EXCEPT ![t] = c],
         NEW a \in Answers, got' = [got EXCEPT ![t] = a],
         SessionTypes'
  PROVE  Types' /\ Control'
<1>0. RelayTypes /\ ThreadTypes
  BY DEF Types
<1>1. Control'
  BY <1>0, ControlMove
<1>2. mutex_sock' \in Ids /\ up' \in [Servers -> BOOLEAN] /\ UNCHANGED <<masterIn, masterOut, introduced>>
  BY <1>0, FrontEndAssumption DEF RelayTypes, Ids, Threads, masterVars
<1>3. RelayTypes'
  BY <1>0, <1>2, KeepRelay
<1>4. Len(conns) \in Nat /\ Len(conns') = Len(conns)
  BY <1>0 DEF RelayTypes, SameEnds
<1>5. Len(conns') \in Nat /\ Len(conns) <= Len(conns') /\ c \in 0 .. Len(conns')
  BY <1>4
<1>6. ThreadTypes'
  BY <1>0, <1>4, <1>5, KeepThreads
<1> QED
  BY <1>1, <1>3, <1>6 DEF Types

\* What a thread keeps that changes nothing of it.
LEMMA KeptFact ==
  ASSUME Types, NEW t \in Threads
  PROVE  /\ fd = [fd EXCEPT ![t] = fd[t]] /\ got = [got EXCEPT ![t] = got[t]]
         /\ pc = [pc EXCEPT ![t] = pc[t]] /\ todo = [todo EXCEPT ![t] = todo[t]]
         /\ got[t] \in Answers /\ Nothing \in Answers
         /\ fd[t] \in 0 .. Len(conns) /\ 0 \in 0 .. Len(conns)
         /\ conns \in Seq(Conns) /\ alive \in BOOLEAN /\ mOpt \in MailOps
         /\ UNCHANGED sessionVars => SessionTypes'
<1>1. /\ fd \in [Threads -> Nat] /\ fd[t] <= Len(conns) /\ got \in [Threads -> Answers]
      /\ pc \in [Threads -> Places] /\ todo \in [Threads -> Seq(AllCalls)]
  BY DEF Types, ThreadTypes
<1>2. conns \in Seq(Conns) /\ alive \in BOOLEAN /\ mOpt \in MailOps
  BY DEF Types, RelayTypes
<1>3. Nothing \in Answers
  BY FrontEndAssumption DEF Nothing, Answers, Ids
<1>4. UNCHANGED sessionVars => SessionTypes'
  BY KeepSessions DEF Types, sessionVars
<1>5. Len(conns) \in Nat /\ fd[t] \in Nat
  BY <1>1, <1>2
<1>6. fd[t] \in 0 .. Len(conns) /\ 0 \in 0 .. Len(conns)
  BY <1>1, <1>5
<1> QED
  BY <1>1, <1>2, <1>3, <1>4, <1>6

\* The steps of a call keep types, and the mutex with who has it.
LEMMA CallTypes ==
  ASSUME Types, Control, NEW t \in Threads,
         \/ Lock(t) \/ Unlock(t) \/ Begin(t) \/ SetOption(t) \/ Switch(t)
         \/ Write(t) \/ EnterRead(t) \/ Read(t)
  PROVE  Types' /\ Control'
<1> DEFINE q == todo[t]
<1>k. /\ fd = [fd EXCEPT ![t] = fd[t]] /\ got = [got EXCEPT ![t] = got[t]]
      /\ pc = [pc EXCEPT ![t] = pc[t]] /\ todo = [todo EXCEPT ![t] = todo[t]]
      /\ got[t] \in Answers /\ Nothing \in Answers
      /\ fd[t] \in 0 .. Len(conns) /\ 0 \in 0 .. Len(conns)
      /\ conns \in Seq(Conns) /\ alive \in BOOLEAN /\ mOpt \in MailOps
      /\ UNCHANGED sessionVars => SessionTypes'
  BY KeptFact
<1>e. UNCHANGED conns => SameEnds
  BY <1>k, ConnSame
<1>a. ASSUME NEW p, At(t, p)
      PROVE  /\ q \in Seq(AllCalls) /\ q # <<>> /\ pc[t] = p /\ alive
             /\ Current(t) = Head(q) /\ Current(t) \in AllCalls
             /\ Tail(q) \in Seq(AllCalls) /\ Chained(Tail(q)) /\ Chained(q)
             /\ Placed(q, p) /\ Guarded(q, p, mutex_sock = t)
             /\ Tail(q) # <<>> =>
                  /\ Head(Tail(q)).op = "ADD" => Current(t).op = "lock"
                  /\ Head(Tail(q)).op = "unlock" => Current(t).op = "ADD"
             /\ backendSock \in 0 .. Len(conns)
  BY <1>a, AtFact
<1>1. CASE Lock(t)
  <2>1. At(t, "next") /\ Current(t).op = "lock" /\ mutex_sock = 0 /\ mutex_sock' = t
        /\ todo' = [todo EXCEPT ![t] = Tail(q)]
        /\ UNCHANGED <<backendSock, masterVars, conns, up, alive, mOpt, sessionVars, pc, fd, got>>
    BY <1>1 DEF Lock, netVars
  <2>2. Placed(Tail(q), "next") /\ Guarded(Tail(q), "next", mutex_sock' = t)
    BY <1>a, <2>1 DEF Placed, Guarded, Dialogue, Sent
  <2>3. pc' = [pc EXCEPT ![t] = "next"] /\ "next" \in Places
    BY <1>a, <1>k, <2>1 DEF Places
  <2>4. /\ fd' = [fd EXCEPT ![t] = fd[t]] /\ got' = [got EXCEPT ![t] = got[t]]
        /\ fd[t] \in 0 .. Len(conns) /\ got[t] \in Answers
        /\ alive' \in BOOLEAN /\ mOpt' \in MailOps
        /\ SessionTypes' /\ SameEnds /\ UNCHANGED <<backendSock, masterVars, up>>
    BY <1>e, <1>k, <2>1
  <2>5. Tail(q) \in Seq(AllCalls) /\ Chained(Tail(q))
    BY <1>a, <2>1
  <2>6. todo' = [todo EXCEPT ![t] = Tail(q)] /\ mutex_sock = 0 /\ mutex_sock' = t
    BY <2>1
  <2> QED
    BY <2>2, <2>3, <2>4, <2>5, <2>6, TypesMove
<1>2. CASE Unlock(t)
  <2>1. At(t, "next") /\ Current(t).op = "unlock" /\ mutex_sock' = 0
        /\ todo' = [todo EXCEPT ![t] = Tail(q)]
        /\ UNCHANGED <<backendSock, masterVars, conns, up, alive, mOpt, sessionVars, pc, fd, got>>
    BY <1>2 DEF Unlock, netVars
  <2>2. Placed(Tail(q), "next") /\ Guarded(Tail(q), "next", mutex_sock' = t) /\ mutex_sock = t
    BY <1>a, <2>1 DEF Placed, Guarded, Dialogue, Sent
  <2>3. pc' = [pc EXCEPT ![t] = "next"] /\ "next" \in Places
    BY <1>a, <1>k, <2>1 DEF Places
  <2>4. /\ fd' = [fd EXCEPT ![t] = fd[t]] /\ got' = [got EXCEPT ![t] = got[t]]
        /\ fd[t] \in 0 .. Len(conns) /\ got[t] \in Answers
        /\ alive' \in BOOLEAN /\ mOpt' \in MailOps
        /\ SessionTypes' /\ SameEnds /\ UNCHANGED <<backendSock, masterVars, up>>
    BY <1>e, <1>k, <2>1
  <2>5. Tail(q) \in Seq(AllCalls) /\ Chained(Tail(q))
    BY <1>a, <2>1
  <2>6. todo' = [todo EXCEPT ![t] = Tail(q)] /\ mutex_sock = t /\ mutex_sock' = 0
    BY <2>1, <2>2
  <2> QED
    BY <2>2, <2>3, <2>4, <2>5, <2>6, TypesMove
<1>3. CASE Begin(t)
  <2>1. At(t, "next") /\ Current(t).op \in RelayOps \union OnceOps
        /\ pc' = [pc EXCEPT ![t] = "write"]
        /\ UNCHANGED <<backendSock, mutex_sock, masterVars, conns, up, alive, mOpt, sessionVars, todo, fd, got>>
    BY <1>3 DEF Begin, Goto, netVars, relayVars
  <2>2. Placed(q, "write") /\ Guarded(q, "write", mutex_sock' = t)
    BY <1>a, <2>1 DEF Placed, Guarded, Dialogue, Sent, RemoteOps
  <2>3. todo' = [todo EXCEPT ![t] = q] /\ "write" \in Places
    BY <1>k, <2>1 DEF Places, Sent
  <2> QED
    BY <1>a, <1>e, <1>k, <2>1, <2>2, <2>3, TypesMove
<1>4. CASE SetOption(t)
  <2>1. At(t, "next") /\ Current(t).op \in MailOps /\ mOpt' = Current(t).op
        /\ pc' = [pc EXCEPT ![t] = "switch"]
        /\ UNCHANGED <<backendSock, mutex_sock, masterVars, conns, up, alive, sessionVars, todo, fd, got>>
    BY <1>4 DEF SetOption, Goto, netVars, relayVars
  <2>2. Placed(q, "switch") /\ Guarded(q, "switch", mutex_sock' = t)
    BY <1>a, <2>1 DEF Placed, Guarded, Dialogue, Sent
  <2>3. todo' = [todo EXCEPT ![t] = q] /\ "switch" \in Places
    BY <1>k, <2>1 DEF Places
  <2> QED
    BY <1>a, <1>e, <1>k, <2>1, <2>2, <2>3, TypesMove
<1>5. CASE Switch(t)
  <2>0. PICK ok \in BOOLEAN : ok = (mOpt \in OKOps)
    <3>1. CASE mOpt \in OKOps
      <4>1. TRUE \in BOOLEAN /\ TRUE = (mOpt \in OKOps)
        BY <3>1
      <4> QED
        BY <4>1
    <3>2. CASE mOpt \notin OKOps
      <4>1. FALSE \in BOOLEAN /\ FALSE = (mOpt \in OKOps)
        BY <3>2
      <4> QED
        BY <4>1
    <3> QED
      BY <3>1, <3>2
  <2> DEFINE r == [q[1] EXCEPT !.op = mOpt, !.ok = ok]
             n == [q EXCEPT ![1] = r]
  <2>1. /\ At(t, "switch") /\ pc' = [pc EXCEPT ![t] = "write"]
        /\ UNCHANGED <<backendSock, mutex_sock, masterVars, conns, up, alive, mOpt, sessionVars, fd, got>>
    BY <1>5 DEF Switch, Goto, netVars, relayVars
  <2>2. todo' = [todo EXCEPT ![t] = n]
    BY <1>5, <2>0 DEF Switch
  <2>3. /\ q \in Seq(AllCalls) /\ q # <<>> /\ Head(q) = q[1] /\ q[1] \in AllCalls /\ Chained(q)
        /\ q[1].op \in MailOps /\ 1 \in 1 .. Len(q)
    BY <1>a, <2>1, TailFact DEF Placed
  <2>4. r \in AllCalls /\ r.op = mOpt
    <3>1. mOpt \in CallOps
      BY <1>k DEF CallOps, RemoteOps
    <3> QED
      BY <2>3, <3>1 DEF AllCalls
  <2> HIDE DEF r
  <2>5. n \in Seq(AllCalls) /\ Len(n) = Len(q) /\ \A j \in 1 .. Len(q) : n[j] = IF j = 1 THEN r ELSE q[j]
    BY <2>3, <2>4, ExceptSeq
  <2> HIDE DEF n
  <2>6. Head(n) = r /\ n # <<>>
    BY <2>3, <2>5, TailFact
  <2>7. Chained(n)
    <3> SUFFICES ASSUME NEW i \in 2 .. Len(q)
                 PROVE  /\ n[i].op = "ADD" => n[i - 1].op = "lock"
                        /\ n[i].op = "unlock" => n[i - 1].op = "ADD"
      BY <2>5 DEF Chained
    <3>1. n[i] = q[i] /\ (q[i].op = "ADD" => q[i - 1].op = "lock") /\ (q[i].op = "unlock" => q[i - 1].op = "ADD")
      BY <2>3, <2>5 DEF Chained
    <3>2. i - 1 \in 1 .. Len(q) /\ n[i - 1] = IF i - 1 = 1 THEN r ELSE q[i - 1]
      BY <2>3, <2>5
    <3> QED
      BY <2>3, <3>1, <3>2 DEF MailOps
  <2>8. Placed(n, "write") /\ Guarded(n, "write", mutex_sock' = t)
    BY <1>k, <2>4, <2>6 DEF Placed, Guarded, Dialogue, Sent, RemoteOps, MailOps
  <2>9. "write" \in Places
    BY DEF Places, Sent
  <2> HIDE DEF q
  <2> QED
    BY <1>e, <1>k, <2>1, <2>2, <2>5, <2>7, <2>8, <2>9, TypesMove
<1>6. CASE Write(t)
  <2>1. At(t, "write") /\ pc' = [pc EXCEPT ![t] = "read"]
        /\ UNCHANGED <<backendSock, mutex_sock, masterVars, up, mOpt, sessionVars, todo, fd, got>>
    BY <1>6 DEF Write, Goto, relayVars
  <2>2. Placed(q, "read") /\ Guarded(q, "read", mutex_sock' = t)
    BY <1>a, <2>1 DEF Placed, Guarded, Dialogue, Sent
  <2>3. todo' = [todo EXCEPT ![t] = q] /\ "read" \in Places
    BY <1>k, <2>1 DEF Places, Sent
  <2>4. SameEnds /\ alive' \in BOOLEAN
    BY <1>6, <2>1, WriteFact
  <2> QED
    BY <1>a, <1>k, <2>1, <2>2, <2>3, <2>4, TypesMove
<1>7. CASE EnterRead(t)
  <2>1. At(t, "read") /\ pc' = [pc EXCEPT ![t] = "wait"] /\ fd' = [fd EXCEPT ![t] = backendSock]
        /\ UNCHANGED <<backendSock, mutex_sock, masterVars, conns, up, alive, mOpt, sessionVars, todo, got>>
    BY <1>7 DEF EnterRead, Goto, netVars, relayVars
  <2>2. Placed(q, "wait") /\ Guarded(q, "wait", mutex_sock' = t)
    BY <1>a, <2>1 DEF Placed, Guarded, Dialogue, Sent
  <2>3. todo' = [todo EXCEPT ![t] = q] /\ "wait" \in Places
    BY <1>k, <2>1 DEF Places, Sent
  <2> QED
    BY <1>a, <1>e, <1>k, <2>1, <2>2, <2>3, TypesMove
<1>8. CASE Read(t)
  <2>1. /\ At(t, "wait") /\ got' = [got EXCEPT ![t] = Answer(fd[t])] /\ conns' = Taken(fd[t])
        /\ pc' = [pc EXCEPT ![t] = AfterRead(t, fd[t])]
        /\ UNCHANGED <<backendSock, mutex_sock, masterVars, up, alive, mOpt, sessionVars, todo, fd>>
    BY <1>8 DEF Read, Goto, relayVars
  <2>2. RelayTypes
    BY DEF Types
  <2>3. Answer(fd[t]) \in Answers /\ SameEnds
    BY <1>k, <2>1, <2>2, TakenFact, ReadFact
  <2>4. PICK p \in {"reconnect", "answered"} : AfterRead(t, fd[t]) = p /\ (p = "reconnect" => Current(t).op \in RelayOps)
    BY DEF AfterRead
  <2>5. Placed(q, p) /\ Guarded(q, p, mutex_sock' = t)
    BY <1>a, <2>1, <2>4 DEF Placed, Guarded, Dialogue, Sent
  <2>6. todo' = [todo EXCEPT ![t] = q] /\ p \in Places /\ pc' = [pc EXCEPT ![t] = p]
    BY <1>k, <2>1, <2>4 DEF Places, Sent
  <2> QED
    BY <1>a, <1>k, <2>1, <2>3, <2>5, <2>6, TypesMove
<1> QED
  BY <1>1, <1>2, <1>3, <1>4, <1>5, <1>6, <1>7, <1>8

\* One entry of a sequence is overwritten, or none.
LEMMA Overwritten ==
  ASSUME NEW S, NEW q \in Seq(S), NEW n, NEW e \in S
  PROVE  [q EXCEPT ![n] = e] \in Seq(S) /\ Len([q EXCEPT ![n] = e]) = Len(q)
<1>1. CASE n \in 1 .. Len(q)
  BY <1>1, ExceptSeq
<1>2. CASE n \notin 1 .. Len(q)
  <2>1. n \notin DOMAIN q /\ q = [i \in DOMAIN q |-> q[i]]
    BY <1>2
  <2>2. [q EXCEPT ![n] = e] = q
    BY <2>1
  <2> QED
    BY <2>2
<1> QED
  BY <1>1, <1>2

\* A number is within the bound, and stays there when the bound grows.
LEMMA Bounded ==
  ASSUME NEW T, NEW f \in [T -> Nat], NEW t \in T, NEW len \in Nat, NEW new \in Nat, NEW v \in Nat,
         \A o \in T : f[o] <= len, len <= new, v <= new
  PROVE  [f EXCEPT ![t] = v] \in [T -> Nat] /\ \A o \in T : [f EXCEPT ![t] = v][o] <= new
<1>1. ASSUME NEW o \in T PROVE [f EXCEPT ![t] = v][o] <= new
  <2>1. f[o] \in Nat /\ f[o] <= len
    OBVIOUS
  <2>2. [f EXCEPT ![t] = v][o] = v \/ [f EXCEPT ![t] = v][o] = f[o]
    OBVIOUS
  <2> QED
    BY <2>1, <2>2
<1> QED
  BY <1>1

\* A user is logged in.
LEMMA LoginSessions ==
  ASSUME SessionTypes, NEW t \in Threads, NEW u \in Names, username' = [username EXCEPT ![t] = u],
         UNCHANGED <<cookie2Browser, cookieValue, redirectTo, jar>>
  PROVE  SessionTypes'
BY DEF SessionTypes

\* A session is made.
LEMMA GenSessions ==
  ASSUME SessionTypes, NEW t \in Threads, NEW len \in Nat, len = Len(cookie2Browser),
         NEW new \in Nat, len <= new,
         cookie2Browser' \in Seq(Names), Len(cookie2Browser') = new,
         cookieValue' = [cookieValue EXCEPT ![t] = new],
         redirectTo' = [redirectTo EXCEPT ![t] = NoPage], UNCHANGED <<username, jar>>
  PROVE  SessionTypes'
<1>1. new <= new
  OBVIOUS
<1>2. /\ cookieValue \in [Threads -> Nat] /\ \A o \in Threads : cookieValue[o] <= len
      /\ jar \in [Browsers -> Nat] /\ \A b \in Browsers : jar[b] <= len
  BY DEF SessionTypes
<1>3. cookieValue' \in [Threads -> Nat] /\ \A o \in Threads : cookieValue'[o] <= new
  BY <1>1, <1>2, Bounded
<1>4. \A b \in Browsers : jar[b] <= new
  BY <1>2
<1>5. redirectTo' \in [Threads -> Pages \union {NoPage}] /\ username' \in [Threads -> Names]
  BY DEF SessionTypes
<1> QED
  BY <1>2, <1>3, <1>4, <1>5 DEF SessionTypes

\* A session is deleted.
LEMMA DelSessions ==
  ASSUME SessionTypes, NEW t \in Threads,
         cookie2Browser' = [cookie2Browser EXCEPT ![cookieValue[t]] = NoUser],
         cookieValue' = [cookieValue EXCEPT ![t] = 0], username' = [username EXCEPT ![t] = NoUser],
         redirectTo' = [redirectTo EXCEPT ![t] = "index"], jar' = jar
  PROVE  SessionTypes'
<1>0. cookie2Browser \in Seq(Names) /\ NoUser \in Names
  BY DEF SessionTypes, Names
<1>1. cookie2Browser' \in Seq(Names) /\ Len(cookie2Browser') = Len(cookie2Browser)
  BY <1>0, Overwritten
<1>2. Len(cookie2Browser) \in Nat
  BY <1>0
<1>3. PICK len \in Nat : len = Len(cookie2Browser)
  BY <1>2
<1>4. len <= len /\ 0 <= len /\ 0 \in Nat /\ Len(cookie2Browser') = len
  BY <1>1, <1>3
<1>5. /\ cookieValue \in [Threads -> Nat] /\ \A o \in Threads : cookieValue[o] <= len
      /\ jar \in [Browsers -> Nat] /\ \A b \in Browsers : jar[b] <= len
  BY <1>3 DEF SessionTypes
<1>7. cookieValue' \in [Threads -> Nat] /\ \A o \in Threads : cookieValue'[o] <= len
  BY <1>4, <1>5, Bounded
<1>9. redirectTo' \in [Threads -> Pages \union {NoPage}] /\ username' \in [Threads -> Names]
  BY <1>0 DEF SessionTypes, Pages
<1> QED
  BY <1>1, <1>4, <1>5, <1>7, <1>9 DEF SessionTypes

\* A browser gets a cookie.
LEMMA JarMove ==
  ASSUME SessionTypes, NEW t \in Threads,
         jar' = [jar EXCEPT ![Browser[t]] = cookieValue[t]] \/ jar' = jar,
         UNCHANGED <<cookie2Browser, cookieValue, username, redirectTo>>
  PROVE  SessionTypes'
BY DEF SessionTypes, Browsers

\* The end of a call and of a request, and the sessions.
LEMMA SessionStepTypes ==
  ASSUME Types, Control, NEW t \in Threads,
         Answered(t) \/ genCookie(t) \/ delCookie(t) \/ Respond(t)
  PROVE  Types' /\ Control'
<1> DEFINE q == todo[t]
<1>k. /\ fd = [fd EXCEPT ![t] = fd[t]] /\ got = [got EXCEPT ![t] = got[t]]
      /\ pc = [pc EXCEPT ![t] = pc[t]] /\ todo = [todo EXCEPT ![t] = todo[t]]
      /\ got[t] \in Answers /\ Nothing \in Answers
      /\ fd[t] \in 0 .. Len(conns) /\ 0 \in 0 .. Len(conns)
      /\ conns \in Seq(Conns) /\ alive \in BOOLEAN /\ mOpt \in MailOps
      /\ UNCHANGED sessionVars => SessionTypes'
  BY KeptFact
<1>e. UNCHANGED conns => SameEnds
  BY <1>k, ConnSame
<1>a. ASSUME NEW p, At(t, p)
      PROVE  /\ q \in Seq(AllCalls) /\ q # <<>> /\ pc[t] = p /\ alive
             /\ Current(t) = Head(q) /\ Current(t) \in AllCalls
             /\ Tail(q) \in Seq(AllCalls) /\ Chained(Tail(q)) /\ Chained(q)
             /\ Placed(q, p) /\ Guarded(q, p, mutex_sock = t)
             /\ Tail(q) # <<>> =>
                  /\ Head(Tail(q)).op = "ADD" => Current(t).op = "lock"
                  /\ Head(Tail(q)).op = "unlock" => Current(t).op = "ADD"
             /\ backendSock \in 0 .. Len(conns)
  BY <1>a, AtFact
<1>s. /\ SessionTypes /\ NoUser \in Names /\ jar \in [Browsers -> Nat]
      /\ username = [username EXCEPT ![t] = username[t]] /\ username[t] \in Names
      /\ redirectTo[t] \in Pages \union {NoPage}
  BY DEF Types, Names, SessionTypes
<1>n. "next" \in Places
  BY DEF Places
<1>f. ASSUME NEW n, Fresh(n)
      PROVE  n \in Seq(AllCalls) /\ Chained(n) /\ Placed(n, "next") /\ Guarded(n, "next", mutex_sock = t)
  BY <1>f DEF Fresh, Placed, Guarded, Dialogue, Sent
<1>1. CASE Answered(t)
  <2> DEFINE c == Current(t)
  <2>1. /\ At(t, "answered") /\ alive' \in BOOLEAN
        /\ \/ c.op = "AUTH" /\ username' = [username EXCEPT ![t] = c.user] /\ todo' = [todo EXCEPT ![t] = <<Call("GEN", c.user)>>]
           \/ c.op = "AUTH" /\ username' = username /\ todo' = [todo EXCEPT ![t] = sendHeaders]
           \/ c.op # "AUTH" /\ username' = username /\ todo' = [todo EXCEPT ![t] = Tail(q)]
           \/ c.op # "AUTH" /\ username' = username /\ todo' = [todo EXCEPT ![t] = sendStatus]
                /\ c.op = "getfolder"
        /\ got' = [got EXCEPT ![t] = Nothing] /\ fd' = [fd EXCEPT ![t] = 0] /\ pc' = [pc EXCEPT ![t] = "next"]
        /\ UNCHANGED <<backendSock, mutex_sock, masterVars, conns, up, mOpt, cookie2Browser, cookieValue, redirectTo, jar>>
    BY <1>1 DEF Answered, Goto, netVars, relayVars
  <2>2. c.user \in Names /\ Placed(q, "answered") /\ c = Head(q)
    BY <1>a, <2>1 DEF AllCalls
  <2>3. PICK u \in Names : username' = [username EXCEPT ![t] = u]
    BY <1>s, <2>1, <2>2
  <2>4. SessionTypes'
    BY <1>s, <2>1, <2>3, LoginSessions
  <2>5. Fresh(<<Call("GEN", c.user)>>) /\ Fresh(sendHeaders) /\ Fresh(sendStatus)
    BY <2>2, PlainSequences, PlainFresh
  <2>6. c.op # "lock"
    BY <2>2 DEF Placed, Sent, RemoteOps, RelayOps, MailOps, OnceOps
  <2>7. Placed(Tail(q), "next") /\ Guarded(Tail(q), "next", mutex_sock = t)
    <3>1. Tail(q) # <<>> => Head(Tail(q)).op # "ADD"
      BY <1>a, <2>1, <2>6
    <3>2. Tail(q) # <<>> /\ Head(Tail(q)).op = "unlock" => mutex_sock = t
      BY <1>a, <2>1 DEF Guarded
    <3> QED
      BY <3>1, <3>2 DEF Placed, Guarded, Dialogue, Sent
  <2>8. PICK n \in Seq(AllCalls) : /\ todo' = [todo EXCEPT ![t] = n] /\ Chained(n)
                                   /\ Placed(n, "next") /\ Guarded(n, "next", mutex_sock = t)
    BY <1>a, <1>f, <2>1, <2>5, <2>7
  <2>9. mutex_sock' = mutex_sock
    BY <2>1
  <2>10. Guarded(n, "next", mutex_sock' = t)
    BY <2>8, <2>9
  <2> HIDE DEF c, q
  <2> QED
    BY <1>e, <1>k, <1>n, <2>1, <2>4, <2>8, <2>10, TypesMove
<1>2. CASE genCookie(t)
  <2>1. /\ At(t, "next")
        /\ cookie2Browser' = Append(cookie2Browser, username[t])
        /\ cookieValue' = [cookieValue EXCEPT ![t] = Len(cookie2Browser) + 1]
        /\ todo' = [todo EXCEPT ![t] = handleGET(redirectTo[t], username[t])]
        /\ redirectTo' = [redirectTo EXCEPT ![t] = NoPage]
        /\ UNCHANGED <<backendSock, mutex_sock, masterVars, conns, up, alive, mOpt, username, jar, pc, fd, got>>
    BY <1>2 DEF genCookie, netVars, relayVars
  <2>2. Fresh(handleGET(redirectTo[t], username[t]))
    BY <1>s, PlainSequences, PlainFresh
  <2>3. cookie2Browser \in Seq(Names)
    BY <1>s DEF SessionTypes
  <2>4. Len(cookie2Browser) \in Nat
    BY <2>3
  <2>5. PICK len, new \in Nat : len = Len(cookie2Browser) /\ new = Len(cookie2Browser) + 1
    BY <2>4
  <2>6. cookie2Browser' \in Seq(Names) /\ Len(cookie2Browser') = Len(cookie2Browser) + 1
    <3>1. cookie2Browser' = Append(cookie2Browser, username[t]) /\ username[t] \in Names
      BY <1>s, <2>1
    <3> QED
      BY <2>3, <3>1, AppendProperties
  <2>a. len <= new
    BY <2>5
  <2>b. cookieValue' = [cookieValue EXCEPT ![t] = new]
    BY <2>1, <2>5, Zenon
  <2>7. SessionTypes'
    BY <1>s, <2>1, <2>5, <2>6, <2>a, <2>b, GenSessions
  <2>8. pc' = [pc EXCEPT ![t] = "next"]
    BY <1>a, <1>k, <2>1
  <2>9. PICK n : n = handleGET(redirectTo[t], username[t])
    OBVIOUS
  <2>10. n \in Seq(AllCalls) /\ Chained(n) /\ Placed(n, "next") /\ Guarded(n, "next", mutex_sock = t)
         /\ todo' = [todo EXCEPT ![t] = n]
    BY <1>f, <2>1, <2>2, <2>9
  <2>11. Guarded(n, "next", mutex_sock' = t)
    BY <2>1, <2>10
  <2> HIDE DEF q
  <2> QED
    BY <1>e, <1>k, <1>n, <2>1, <2>7, <2>8, <2>10, <2>11, TypesMove
<1>3. CASE delCookie(t)
  <2>1. /\ At(t, "next")
        /\ cookie2Browser' = [cookie2Browser EXCEPT ![cookieValue[t]] = NoUser]
        /\ cookieValue' = [cookieValue EXCEPT ![t] = 0]
        /\ username' = [username EXCEPT ![t] = NoUser]
        /\ redirectTo' = [redirectTo EXCEPT ![t] = "index"]
        /\ todo' = [todo EXCEPT ![t] = sendHeaders]
        /\ UNCHANGED <<backendSock, mutex_sock, masterVars, conns, up, alive, mOpt, jar, pc, fd, got>>
    BY <1>3 DEF delCookie, netVars, relayVars
  <2>2. Fresh(sendHeaders)
    BY <1>s, PlainSequences, PlainFresh
  <2>7. SessionTypes'
    BY <1>s, <2>1, DelSessions
  <2>8. pc' = [pc EXCEPT ![t] = "next"]
    BY <1>a, <1>k, <2>1
  <2>9. PICK n : n = sendHeaders
    OBVIOUS
  <2>10. n \in Seq(AllCalls) /\ Chained(n) /\ Placed(n, "next") /\ Guarded(n, "next", mutex_sock = t)
         /\ todo' = [todo EXCEPT ![t] = n]
    BY <1>f, <2>1, <2>2, <2>9
  <2>11. Guarded(n, "next", mutex_sock' = t)
    BY <2>1, <2>10
  <2> HIDE DEF q
  <2> QED
    BY <1>e, <1>k, <1>n, <2>1, <2>7, <2>8, <2>10, <2>11, TypesMove
<1>4. CASE Respond(t)
  <2>1. /\ At(t, "next") /\ Current(t).op \in {"headers", "status"}
        /\ jar' = [jar EXCEPT ![Browser[t]] = cookieValue[t]] \/ jar' = jar
        /\ todo' = [todo EXCEPT ![t] = Tail(q)]
        /\ UNCHANGED <<backendSock, mutex_sock, masterVars, conns, up, alive, mOpt, cookie2Browser, cookieValue, username, redirectTo, pc, fd, got>>
    <3>1. jar = [jar EXCEPT ![Browser[t]] = jar[Browser[t]]]
      BY <1>s DEF SessionTypes
    <3> QED
      BY <1>4, <3>1 DEF Respond, netVars, relayVars
  <2>7. SessionTypes'
    BY <1>s, <2>1, JarMove
  <2>8. pc' = [pc EXCEPT ![t] = "next"]
    BY <1>a, <1>k, <2>1
  <2>9. Placed(Tail(q), "next") /\ Guarded(Tail(q), "next", mutex_sock' = t)
    BY <1>a, <2>1 DEF Placed, Guarded, Dialogue, Sent
  <2> QED
    BY <1>a, <1>e, <1>k, <1>n, <2>1, <2>7, <2>8, <2>9, TypesMove
<1> QED
  BY <1>1, <1>2, <1>3, <1>4
\* The master and the storage servers keep types, and the mutex with who has it.
LEMMA ServersTypes ==
  ASSUME Types, Control,
         MasterAnswers \/ (\E c \in DOMAIN conns : Serve(c)) \/ (\E s \in Servers : Die(s))
  PROVE  Types' /\ Control'
<1>0. RelayTypes /\ ThreadTypes /\ SessionTypes
  BY DEF Types
<1>r. /\ conns \in Seq(Conns) /\ masterIn \in Seq(Words) /\ masterOut \in Seq(Addresses)
      /\ up \in [Servers -> BOOLEAN] /\ mutex_sock \in Ids /\ alive \in BOOLEAN /\ mOpt \in MailOps
  BY <1>0 DEF RelayTypes
<1>u. ASSUME UNCHANGED <<mutex_sock, todo, pc, fd, got, sessionVars>>, Len(conns') = Len(conns)
      PROVE  ThreadTypes' /\ SessionTypes' /\ Control'
  <2>1. ThreadTypes'
    BY <1>0, <1>u DEF ThreadTypes
  <2>2. Control'
    BY <1>u DEF Control
  <2>3. SessionTypes'
    BY <1>0, <1>u, KeepSessions DEF sessionVars
  <2> QED
    BY <2>1, <2>2, <2>3
<1>1. CASE MasterAnswers
  <2>1. /\ masterIn # <<>> /\ masterIn' = Tail(masterIn)
        /\ UNCHANGED <<backendSock, mutex_sock, conns, up, alive, mOpt, sessionVars, todo, pc, fd, got>>
    BY <1>1 DEF MasterAnswers, relayVars, netVars, threadVars
  <2>2. Head(masterIn) \in Words /\ Tail(masterIn) \in Seq(Words)
    BY <1>r, <2>1, TailFact
  <2>3. masterOut' \in Seq(Addresses) /\ introduced' \in BOOLEAN
    <3>1. CASE ~introduced
      BY <1>1, <1>r, <3>1 DEF MasterAnswers
    <3>2. CASE introduced
      <4>1. PICK s \in Servers : masterOut' = Append(masterOut, [name |-> Head(masterIn), server |-> s])
        BY <1>1, <3>2 DEF MasterAnswers
      <4>2. [name |-> Head(masterIn), server |-> s] \in Addresses
        BY <2>2 DEF Addresses
      <4>3. introduced' = introduced
        BY <1>1, <3>2 DEF MasterAnswers
      <4> QED
        BY <1>0, <1>r, <4>1, <4>2, <4>3 DEF RelayTypes
    <3> QED
      BY <3>1, <3>2
  <2>4. RelayTypes'
    BY <1>0, <2>1, <2>2, <2>3 DEF RelayTypes
  <2> QED
    BY <1>u, <2>1, <2>4 DEF Types
<1>2. ASSUME NEW c \in DOMAIN conns, Serve(c) PROVE Types' /\ Control'
  <2>1. SameEnds
    BY <1>2, ServeFact
  <2>2. UNCHANGED <<backendSock, mutex_sock, masterIn, masterOut, introduced, up, alive, mOpt, sessionVars, todo, pc, fd, got>>
    BY <1>2 DEF Serve, relayVars, masterVars, threadVars
  <2>3. RelayTypes'
    BY <1>0, <1>r, <2>1, <2>2, KeepRelay
  <2> QED
    BY <1>u, <2>1, <2>2, <2>3 DEF Types, SameEnds
<1>3. ASSUME NEW s \in Servers, Die(s) PROVE Types' /\ Control'
  <2>1. SameEnds
    BY <1>3, DieFact
  <2>2. /\ UNCHANGED <<backendSock, mutex_sock, masterIn, masterOut, introduced, alive, mOpt, sessionVars, todo, pc, fd, got>>
        /\ up' = [up EXCEPT ![s] = FALSE]
    BY <1>3 DEF Die, relayVars, masterVars, threadVars
  <2>3. RelayTypes'
    BY <1>0, <1>r, <2>1, <2>2, KeepRelay
  <2> QED
    BY <1>u, <2>1, <2>2, <2>3 DEF Types, SameEnds
<1> QED
  BY <1>1, <1>2, <1>3

\* A request of a browser keeps types, and the mutex with who has it.
LEMMA RequestTypes ==
  ASSUME Types, Control, NEW t \in Threads, AnyRequest(t)
  PROVE  Types' /\ Control'
<1>0. ThreadTypes
  BY DEF Types
<1>1. /\ Types' /\ Idle(t) /\ mutex_sock' = mutex_sock /\ pc' = pc
      /\ todo' = todo \/ \E q : Fresh(q) /\ todo' = [todo EXCEPT ![t] = q]
  BY RequestFact DEF relayVars
<1>2. pc[t] = "next" /\ pc' = [pc EXCEPT ![t] = "next"] /\ "next" \in Places
  BY <1>0, <1>1 DEF Control, Placed, Idle, ThreadTypes, Places
<1>3. CASE todo' = todo
  BY <1>1, <1>3 DEF Control
<1>4. CASE \E q : Fresh(q) /\ todo' = [todo EXCEPT ![t] = q]
  <2>1. PICK q : Fresh(q) /\ todo' = [todo EXCEPT ![t] = q]
    BY <1>4
  <2>2. Placed(q, "next") /\ Guarded(q, "next", mutex_sock' = t) /\ Chained(q) /\ q \in Seq(AllCalls)
    BY <2>1 DEF Fresh, Placed, Guarded, Dialogue, Sent
  <2> QED
    BY <1>0, <1>1, <1>2, <2>1, <2>2, ControlMove
<1> QED
  BY <1>1, <1>3, <1>4

\* Every step keeps types, and the mutex with who has it.
LEMMA TypesNext ==
  ASSUME Types, Control, Next
  PROVE  Types' /\ Control'
<1>1. ASSUME NEW t \in Threads, AnyRequest(t) \/ Step(t) \/ LockRelay(t) \/ Lock(t)
      PROVE  Types' /\ Control'
  <2>1. CASE AnyRequest(t)
    BY <2>1, RequestTypes
  <2>2. CASE LockRelay(t) \/ SendName(t) \/ ReadAddress(t) \/ ReadWelcome(t) \/ Release(t)
    BY <2>2, ConnectTypes
  <2>3. CASE \/ Lock(t) \/ Unlock(t) \/ Begin(t) \/ SetOption(t) \/ Switch(t)
             \/ Write(t) \/ EnterRead(t) \/ Read(t)
    BY <2>3, CallTypes
  <2>4. CASE Answered(t) \/ genCookie(t) \/ delCookie(t) \/ Respond(t)
    BY <2>4, SessionStepTypes
  <2> QED
    BY <1>1, <2>1, <2>2, <2>3, <2>4 DEF Step
<1> QED
  BY <1>1, ServersTypes DEF Next

-----------------------------------------------------------------------------
(* The dialogue with the master: the steps.                                *)

\* The step of a thread leaves the others where they are.
OthersStay(t) ==
  \A o \in Threads \ {t} :
    todo'[o] = todo[o] /\ pc'[o] = pc[o] /\ fd'[o] = fd[o] /\ got'[o] = got[o]

\* A step of a thread that is not waiting for an address and does not come to
\* wait for one or for a welcome.
LEMMA RelayKept ==
  ASSUME Types, Relay, NEW t \in Threads, OthersStay(t),
         pc[t] # "address", pc'[t] \notin {"address", "welcome"},
         SameEnds, UNCHANGED <<backendSock, masterVars, up>>, alive' => alive
  PROVE  Relay'
<1>0. /\ backendSock \in 0 .. Len(conns) /\ Len(conns) \in Nat
      /\ UNCHANGED <<masterIn, masterOut, introduced>>
  BY DEF Types, RelayTypes, masterVars
<1>1. \A o \in Threads : pc'[o] \in {"address", "welcome"} =>
        pc'[o] = pc[o] /\ Current(o)' = Current(o) /\ fd'[o] = fd[o]
  BY DEF Current, OthersStay
<1>2. (\A o \in Threads : pc'[o] # "address") => \A o \in Threads : pc[o] # "address"
  BY DEF OthersStay
<1>3. OneDialogue'
  <2>1. AtRest => AtRest'
    BY <1>0 DEF AtRest
  <2>2. \A u : AskedFor(u) => AskedFor(u)'
    BY <1>0 DEF AskedFor
  <2> QED
    BY <1>1, <1>2, <2>1, <2>2 DEF Relay, OneDialogue
<1>4. AddressesLive'
  BY <1>0 DEF Relay, AddressesLive
<1>5. Connected'
  BY <1>0, <1>1 DEF Relay, Connected, SameEnds
<1> QED
  BY <1>3, <1>4, <1>5 DEF Relay

\* A step that leaves the threads, the dialogue and the servers alone.
LEMMA RelayStill ==
  ASSUME Types, Relay, SameEnds,
         UNCHANGED <<todo, pc, fd, backendSock, masterIn, masterOut, introduced, up, alive>>
  PROVE  Relay'
<1>0. backendSock \in 0 .. Len(conns) /\ Len(conns) \in Nat
  BY DEF Types, RelayTypes
<1>1. OneDialogue' /\ AddressesLive'
  BY DEF Relay, OneDialogue, AddressesLive, AtRest, AskedFor, Current
<1>2. Connected'
  BY <1>0 DEF Relay, Connected, SameEnds, Current
<1> QED
  BY <1>1, <1>2 DEF Relay

\* Two threads are not both in the dialogue.
LEMMA OneInDialogue ==
  ASSUME Control, NEW t \in Threads, NEW o \in Threads, pc[t] \in Dialogue, pc[o] \in Dialogue
  PROVE  o = t
BY DEF Control, Guarded
\* The steps of a thread that leave the dialogue with the master alone.
LEMMA OtherSteps ==
  ASSUME Types, Control, NEW t \in Threads,
         \/ LockRelay(t) \/ ReadWelcome(t) \/ Release(t) \/ Lock(t) \/ Unlock(t)
         \/ Begin(t) \/ SetOption(t) \/ Switch(t) \/ Write(t) \/ EnterRead(t) \/ Read(t)
         \/ Answered(t) \/ genCookie(t) \/ delCookie(t) \/ Respond(t)
  PROVE  /\ OthersStay(t) /\ pc[t] # "address" /\ pc'[t] \notin {"address", "welcome"}
         /\ ~Idle(t) /\ alive
         /\ SameEnds /\ UNCHANGED <<backendSock, masterVars, up, overlap>>
<1>k. fd[t] \in 0 .. Len(conns) /\ conns \in Seq(Conns)
  BY KeptFact
<1>t. /\ todo \in [Threads -> Seq(AllCalls)] /\ pc \in [Threads -> Places]
      /\ fd \in [Threads -> Nat] /\ got \in [Threads -> Answers]
  BY DEF Types, ThreadTypes
<1>e. UNCHANGED conns => SameEnds
  BY <1>k, ConnSame
<1>r. RelayTypes
  BY DEF Types
<1>1. CASE LockRelay(t)
  <2>1. /\ pc[t] \in {"reconnect", "next"} /\ ~Idle(t) /\ alive /\ pc' = [pc EXCEPT ![t] = "name"]
        /\ UNCHANGED <<backendSock, masterVars, conns, up, todo, fd, got, overlap>>
    BY <1>1 DEF LockRelay, At, Goto, netVars, browserVars
  <2>2. OthersStay(t) /\ pc'[t] = "name"
    BY <1>t, <2>1 DEF OthersStay
  <2> QED
    BY <1>e, <2>1, <2>2
<1>2. CASE ReadWelcome(t)
  <2>1. /\ pc[t] = "welcome" /\ ~Idle(t) /\ alive /\ pc' = [pc EXCEPT ![t] = "release"] /\ conns' = Taken(fd[t])
        /\ UNCHANGED <<backendSock, masterVars, up, todo, fd, got, overlap>>
    BY <1>2 DEF ReadWelcome, At, Goto, relayVars, browserVars
  <2>2. OthersStay(t) /\ pc'[t] = "release"
    BY <1>t, <2>1 DEF OthersStay
  <2>3. SameEnds
    BY <1>r, <1>k, <2>1, ReadFact
  <2> QED
    BY <2>1, <2>2, <2>3
<1>3. CASE Release(t)
  <2>1. /\ pc[t] = "release" /\ ~Idle(t) /\ alive
        /\ pc' = [pc EXCEPT ![t] = "next"] \/ pc' = [pc EXCEPT ![t] = "write"]
        /\ todo' = [todo EXCEPT ![t] = Tail(todo[t])] \/ todo' = todo
        /\ UNCHANGED <<backendSock, masterVars, conns, up, fd, got, overlap>>
    BY <1>3 DEF Release, At, Goto, netVars, browserVars
  <2>2. OthersStay(t) /\ pc'[t] \in {"next", "write"}
    BY <1>t, <2>1 DEF OthersStay
  <2> QED
    BY <1>e, <2>1, <2>2
<1>4. CASE Lock(t) \/ Unlock(t)
  <2>1. /\ pc[t] = "next" /\ ~Idle(t) /\ alive /\ todo' = [todo EXCEPT ![t] = Tail(todo[t])]
        /\ UNCHANGED <<backendSock, masterVars, conns, up, pc, fd, got, overlap>>
    BY <1>4 DEF Lock, Unlock, At, netVars, browserVars
  <2>2. OthersStay(t) /\ pc'[t] = pc[t]
    BY <1>t, <2>1 DEF OthersStay
  <2> QED
    BY <1>e, <2>1, <2>2
<1>5. CASE Begin(t) \/ SetOption(t)
  <2>1. /\ pc[t] = "next" /\ ~Idle(t) /\ alive
        /\ pc' = [pc EXCEPT ![t] = "write"] \/ pc' = [pc EXCEPT ![t] = "switch"]
        /\ UNCHANGED <<backendSock, masterVars, conns, up, todo, fd, got, overlap>>
    BY <1>5 DEF Begin, SetOption, At, Goto, netVars, relayVars, browserVars
  <2>2. PICK p \in {"switch", "write"} : pc' = [pc EXCEPT ![t] = p]
    BY <2>1
  <2>3. OthersStay(t) /\ pc'[t] = p
    BY <1>t, <2>1, <2>2 DEF OthersStay
  <2> QED
    BY <1>e, <2>1, <2>2, <2>3
<1>6. CASE Switch(t)
  <2>1. /\ pc[t] = "switch" /\ ~Idle(t) /\ alive /\ pc' = [pc EXCEPT ![t] = "write"]
        /\ UNCHANGED <<backendSock, masterVars, conns, up, fd, got, overlap>>
    BY <1>6 DEF Switch, At, Goto, netVars, relayVars, browserVars
  <2>2. PICK ok : ok = (mOpt \in OKOps)
    OBVIOUS
  <2>3. PICK q : q = [todo[t] EXCEPT ![1] = [todo[t][1] EXCEPT !.op = mOpt, !.ok = ok]]
    OBVIOUS
  <2>4. todo' = [todo EXCEPT ![t] = q]
    BY <1>6, <2>2, <2>3 DEF Switch
  <2>5. OthersStay(t) /\ pc'[t] = "write"
    BY <1>t, <2>1, <2>4 DEF OthersStay
  <2> QED
    BY <1>e, <2>1, <2>5
<1>7. CASE Write(t)
  <2>1. /\ At(t, "write") /\ pc[t] = "write" /\ ~Idle(t) /\ alive /\ pc' = [pc EXCEPT ![t] = "read"]
        /\ UNCHANGED <<backendSock, masterVars, up, todo, fd, got, overlap>>
    BY <1>7 DEF Write, At, Goto, relayVars, browserVars
  <2>2. SameEnds
    BY <1>7, <2>1, WriteFact
  <2>3. OthersStay(t) /\ pc'[t] = "read"
    BY <1>t, <2>1 DEF OthersStay
  <2> QED
    BY <2>1, <2>2, <2>3
<1>8. CASE EnterRead(t)
  <2>1. /\ pc[t] = "read" /\ ~Idle(t) /\ alive /\ pc' = [pc EXCEPT ![t] = "wait"]
        /\ fd' = [fd EXCEPT ![t] = backendSock]
        /\ UNCHANGED <<backendSock, masterVars, conns, up, todo, got, overlap>>
    BY <1>8 DEF EnterRead, At, Goto, netVars, relayVars, browserVars
  <2>2. OthersStay(t) /\ pc'[t] = "wait"
    BY <1>t, <2>1 DEF OthersStay
  <2> QED
    BY <1>e, <2>1, <2>2
<1>9. CASE Read(t)
  <2>1. /\ pc[t] = "wait" /\ ~Idle(t) /\ alive /\ pc' = [pc EXCEPT ![t] = AfterRead(t, fd[t])]
        /\ conns' = Taken(fd[t]) /\ got' = [got EXCEPT ![t] = Answer(fd[t])]
        /\ UNCHANGED <<backendSock, masterVars, up, todo, fd, overlap>>
    BY <1>9 DEF Read, At, Goto, relayVars, browserVars
  <2>2. AfterRead(t, fd[t]) \in {"reconnect", "answered"}
    BY DEF AfterRead
  <2>3. SameEnds
    BY <1>r, <1>k, <2>1, ReadFact
  <2>4. OthersStay(t) /\ pc'[t] = AfterRead(t, fd[t])
    BY <1>t, <2>1 DEF OthersStay
  <2> QED
    BY <2>1, <2>2, <2>3, <2>4
<1>10. CASE Answered(t)
  <2>1. /\ pc[t] = "answered" /\ ~Idle(t) /\ alive /\ pc' = [pc EXCEPT ![t] = "next"]
        /\ fd' = [fd EXCEPT ![t] = 0] /\ got' = [got EXCEPT ![t] = Nothing]
        /\ UNCHANGED <<backendSock, masterVars, conns, up, overlap>>
    BY <1>10 DEF Answered, At, Goto, netVars, relayVars, browserVars
  <2>2. PICK q : todo' = [todo EXCEPT ![t] = q]
    BY <1>10 DEF Answered
  <2>3. OthersStay(t) /\ pc'[t] = "next"
    BY <1>t, <2>1, <2>2 DEF OthersStay
  <2> QED
    BY <1>e, <2>1, <2>3
<1>11. CASE genCookie(t) \/ delCookie(t) \/ Respond(t)
  <2>1. /\ pc[t] = "next" /\ ~Idle(t) /\ alive
        /\ UNCHANGED <<backendSock, masterVars, conns, up, pc, fd, got, overlap>>
    BY <1>11 DEF genCookie, delCookie, Respond, At, netVars, relayVars, browserVars
  <2>2. PICK q : todo' = [todo EXCEPT ![t] = q]
    BY <1>11 DEF genCookie, delCookie, Respond
  <2>3. OthersStay(t) /\ pc'[t] = pc[t]
    BY <1>t, <2>1, <2>2 DEF OthersStay
  <2> QED
    BY <1>e, <2>1, <2>3
<1> QED
  BY <1>1, <1>2, <1>3, <1>4, <1>5, <1>6, <1>7, <1>8, <1>9, <1>10, <1>11

\* Two words one after the other.
LEMMA TwoWords ==
  ASSUME NEW S, NEW a \in S, NEW b \in S
  PROVE  <<a>> \o <<b>> = <<a, b>>
<1>1. PICK x, y : x = <<a>> \o <<b>> /\ y = <<a, b>>
  OBVIOUS
<1>2. x \in Seq(S) /\ Len(x) = 2 /\ x[1] = a /\ x[2] = b
  BY <1>1
<1>3. y \in Seq(S) /\ Len(y) = 2 /\ y[1] = a /\ y[2] = b
  BY <1>1
<1>4. \A i \in 1 .. Len(x) : x[i] = y[i]
  BY <1>2, <1>3
<1>5. x = y
  BY <1>2, <1>3, <1>4, SeqEqual
<1> QED
  BY <1>1, <1>5

\* A thread asks the master; nobody else is in the dialogue.
LEMMA SendNameRelay ==
  ASSUME Types, Control, Relay, NEW t \in Threads, SendName(t)
  PROVE  Relay'
<1>1. /\ pc[t] = "name" /\ alive /\ pc' = [pc EXCEPT ![t] = "address"]
      /\ masterIn' = masterIn \o (IF backendSock = 0 THEN <<"pair">> ELSE <<>>) \o <<Current(t).user>>
      /\ UNCHANGED <<backendSock, masterOut, introduced, conns, up, alive, todo, fd>>
  BY DEF SendName, At, Goto, relayVars, netVars
<1>2. pc \in [Threads -> Places]
  BY DEF Types, ThreadTypes
<1>3. \A o \in Threads : pc[o] \in Dialogue => o = t
  BY <1>1, OneInDialogue DEF Dialogue
<1>4. AtRest
  BY <1>1, <1>3 DEF Relay, OneDialogue, Dialogue
<1>5. AskedFor(Current(t).user)'
  <2> DEFINE u == Current(t).user
  <2>1. Current(t)' = Current(t)
    BY <1>1 DEF Current
  <2>2. CASE backendSock = 0
    <3>1. ~introduced /\ masterIn = <<>> /\ masterOut = <<>>
      BY <1>1, <1>4, <2>2 DEF AtRest
    <3>2. masterIn' = <<>> \o <<"pair">> \o <<u>>
      BY <1>1, <2>2, <3>1
    <3>3. <<>> \o <<"pair">> \o <<u>> = <<"pair", u>>
      <4> HIDE DEF u
      <4>1. <<>> \o <<"pair">> = <<"pair">>
        OBVIOUS
      <4>2. "pair" \in Words /\ u \in Words
        <5>1. Current(t) \in AllCalls
          BY <1>1, AtFact DEF At, SendName
        <5> QED
          BY <5>1 DEF AllCalls, Words, u
      <4>3. <<"pair">> \o <<u>> = <<"pair", u>>
        BY <4>2, TwoWords
      <4> QED
        BY <4>1, <4>3
    <3> QED
      BY <1>1, <2>1, <3>1, <3>2, <3>3 DEF AskedFor
  <2>3. CASE backendSock # 0
    <3>1. introduced /\ masterIn = <<>> /\ masterOut = <<>>
      BY <1>1, <1>4, <2>3 DEF AtRest
    <3>2. masterIn' = <<u>>
      BY <1>1, <2>3, <3>1
    <3> QED
      BY <1>1, <2>1, <3>1, <3>2 DEF AskedFor
  <2> QED
    BY <2>2, <2>3
<1>6. OneDialogue'
  <2>1. pc'[t] = "address" /\ \A o \in Threads : pc'[o] = "address" => o = t
    BY <1>1, <1>2, <1>3 DEF Dialogue
  <2> QED
    BY <1>5, <2>1 DEF OneDialogue
<1>7. AddressesLive'
  BY <1>1 DEF Relay, AddressesLive
<1>8. Connected'
  <2>1. \A o \in Threads : pc'[o] # "welcome"
    BY <1>1, <1>2, <1>3 DEF Dialogue
  <2> QED
    BY <2>1 DEF Connected
<1> QED
  BY <1>6, <1>7, <1>8 DEF Relay

\* A thread gets the address that it asked for, and connects to it.
LEMMA ReadAddressRelay ==
  ASSUME Types, Control, Relay, NEW t \in Threads, ReadAddress(t)
  PROVE  Relay'
<1> DEFINE a == Head(masterOut)
           r == [server |-> a.server, name |-> a.name, by |-> t, state |-> "open", in |-> <<>>, out |-> <<Welcome>>]
<1>1. /\ pc[t] = "address" /\ pc' = [pc EXCEPT ![t] = "welcome"] /\ masterOut # <<>> /\ masterOut' = Tail(masterOut)
      /\ \/ /\ up[a.server] /\ conns' = Append(conns, r) /\ backendSock' = Len(conns) + 1
            /\ fd' = [fd EXCEPT ![t] = Len(conns) + 1]
         \/ ~up[a.server] /\ alive' = FALSE
      /\ UNCHANGED <<masterIn, introduced, up, todo>>
  BY DEF ReadAddress, At, Goto
<1>2. /\ pc \in [Threads -> Places] /\ conns \in Seq(Conns) /\ masterOut \in Seq(Addresses)
      /\ fd \in [Threads -> Nat]
  BY DEF Types, RelayTypes, ThreadTypes
<1>0. Len(conns) \in Nat /\ Len(masterOut) \in Nat
  BY <1>2
<1>3. \A o \in Threads : pc[o] \in Dialogue => o = t
  BY <1>1, OneInDialogue DEF Dialogue
<1>4. AskedFor(Current(t).user)
  BY <1>1 DEF Relay, OneDialogue
<1>5. introduced /\ masterIn = <<>> /\ Len(masterOut) = 1 /\ masterOut[1].name = Current(t).user
  BY <1>1, <1>4 DEF AskedFor
<1>6. a = masterOut[1] /\ Len(masterOut') = 0 /\ masterOut' \in Seq(Addresses)
  BY <1>1, <1>2, <1>5, TailFact
<1>7. masterOut' = <<>>
  BY <1>6
<1>8. FreshAddress => up[a.server]
  BY <1>5, <1>6 DEF Relay, AddressesLive
<1>9. pc'[t] = "welcome" /\ \A o \in Threads : pc'[o] # "address" /\ (pc'[o] = "welcome" => o = t)
  BY <1>1, <1>2, <1>3 DEF Dialogue
<1>10. Current(t)' = Current(t)
  BY <1>1 DEF Current
<1>11. AddressesLive'
  BY <1>7 DEF AddressesLive
<1> HIDE DEF a, r
<1>12. CASE up[a.server] /\ conns' = Append(conns, r) /\ backendSock' = Len(conns) + 1
            /\ fd' = [fd EXCEPT ![t] = Len(conns) + 1]
  <2>1. backendSock' # 0 /\ conns'[backendSock'] = r
    BY <1>0, <1>2, <1>12, AppendProperties
  <2>2. fd'[t] = backendSock'
    BY <1>2, <1>12
  <2>3. r.by = t /\ r.name = Current(t).user
    BY <1>5, <1>6 DEF r
  <2>4. OneDialogue'
    BY <1>1, <1>5, <1>7, <1>9, <2>1 DEF OneDialogue, AtRest
  <2>5. Connected'
    BY <1>9, <1>10, <2>1, <2>2, <2>3 DEF Connected
  <2> QED
    BY <1>11, <2>4, <2>5 DEF Relay
<1>13. CASE ~up[a.server] /\ alive' = FALSE
  <2>1. OneDialogue'
    BY <1>1, <1>5, <1>7, <1>9, <1>13 DEF OneDialogue, AtRest
  <2>2. Connected'
    BY <1>8, <1>13 DEF Connected
  <2> QED
    BY <1>11, <2>1, <2>2 DEF Relay
<1> QED
  BY <1>1, <1>12, <1>13

\* The master answers the one question that it has been asked.
LEMMA MasterRelay ==
  ASSUME Types, Control, Relay, MasterAnswers
  PROVE  Relay'
<1>1. /\ masterIn # <<>> /\ masterIn' = Tail(masterIn)
      /\ UNCHANGED <<backendSock, conns, up, alive, todo, pc, fd>>
  BY DEF MasterAnswers, relayVars, netVars, threadVars
<1>2. PICK t \in Threads : pc[t] = "address"
  BY <1>1 DEF Relay, OneDialogue, AtRest
<1>3. \A o \in Threads : pc[o] = "address" => o = t
  BY <1>2, OneInDialogue DEF Dialogue
<1>4. PICK u : u = Current(t).user
  OBVIOUS
<1>5. AskedFor(u)
  BY <1>2, <1>4 DEF Relay, OneDialogue
<1>6. AskedFor(u)' /\ AddressesLive'
  <2>1. CASE ~introduced
    <3>1. masterIn = <<"pair", u>> /\ masterOut = <<>>
      BY <1>1, <1>5, <2>1 DEF AskedFor
    <3>2. masterIn' = <<u>>
      BY <1>1, <3>1
    <3>3. introduced' = TRUE /\ masterOut' = <<>>
      BY <2>1, <3>1 DEF MasterAnswers
    <3>4. AskedFor(u)'
      BY <3>2, <3>3 DEF AskedFor
    <3> QED
      BY <3>3, <3>4 DEF AddressesLive
  <2>2. CASE introduced
    <3>1. masterIn = <<u>> /\ masterOut = <<>>
      BY <1>1, <1>5, <2>2 DEF AskedFor
    <3>2. masterIn' = <<>> /\ Head(masterIn) = u
      BY <1>1, <3>1
    <3>3. PICK s \in Servers : up[s] /\ masterOut' = Append(masterOut, [name |-> Head(masterIn), server |-> s])
      BY <2>2 DEF MasterAnswers
    <3>4. introduced' = introduced
      BY <2>2 DEF MasterAnswers
    <3>5. masterOut' = <<[name |-> u, server |-> s]>>
      BY <3>1, <3>2, <3>3
    <3>6. Len(masterOut') = 1 /\ masterOut'[1].name = u /\ masterOut'[1].server = s
      BY <3>5
    <3>7. AskedFor(u)'
      BY <2>2, <3>2, <3>4, <3>6 DEF AskedFor
    <3>8. AddressesLive'
      BY <1>1, <3>3, <3>6 DEF AddressesLive
    <3> QED
      BY <3>7, <3>8
  <2> QED
    BY <2>1, <2>2
<1>7. Current(t)' = Current(t)
  BY <1>1 DEF Current
<1>8. OneDialogue'
  BY <1>1, <1>2, <1>3, <1>4, <1>6, <1>7 DEF OneDialogue
<1>9. Connected'
  BY <1>1 DEF Relay, Connected, Current
<1> QED
  BY <1>6, <1>8, <1>9 DEF Relay

\* A server dies whose address is not on its way.
LEMMA DieRelay ==
  ASSUME Types, Relay, NEW s \in Servers, Die(s)
  PROVE  Relay'
<1>1. /\ UNCHANGED <<todo, pc, fd, backendSock, masterIn, masterOut, introduced, alive>>
      /\ FreshAddress => masterOut = <<>>
  BY DEF Die, relayVars, masterVars, threadVars
<1>2. SameEnds /\ backendSock \in 0 .. Len(conns) /\ Len(conns) \in Nat
  BY DieFact DEF Types, RelayTypes
<1>3. OneDialogue'
  BY <1>1 DEF Relay, OneDialogue, AtRest, AskedFor, Current
<1>4. AddressesLive'
  BY <1>1 DEF AddressesLive
<1>5. Connected'
  BY <1>1, <1>2 DEF Relay, Connected, SameEnds, Current
<1> QED
  BY <1>3, <1>4, <1>5 DEF Relay

\* Every step keeps the dialogue with the master in order.
LEMMA RelayNext ==
  ASSUME Types, Control, Relay, Next
  PROVE  Relay'
<1>1. ASSUME NEW t \in Threads, AnyRequest(t) PROVE Relay'
  <2>1. /\ Idle(t) /\ UNCHANGED <<backendSock, masterVars, conns, up, alive, pc, fd, got>>
        /\ todo' = todo \/ \E q : todo' = [todo EXCEPT ![t] = q]
    BY <1>1, RequestFact DEF relayVars, netVars
  <2>2. pc[t] = "next"
    BY <2>1 DEF Idle, Control, Placed
  <2>3. conns \in Seq(Conns) /\ todo \in [Threads -> Seq(AllCalls)]
    BY DEF Types, RelayTypes, ThreadTypes
  <2>4. SameEnds
    BY <2>1, <2>3, ConnSame
  <2>6. OthersStay(t) /\ pc'[t] = pc[t]
    BY <2>1, <2>3 DEF OthersStay
  <2> QED
    BY <2>1, <2>2, <2>4, <2>6, RelayKept
<1>2. ASSUME NEW t \in Threads,
             \/ LockRelay(t) \/ ReadWelcome(t) \/ Release(t) \/ Lock(t) \/ Unlock(t)
             \/ Begin(t) \/ SetOption(t) \/ Switch(t) \/ Write(t) \/ EnterRead(t) \/ Read(t)
             \/ Answered(t) \/ genCookie(t) \/ delCookie(t) \/ Respond(t)
      PROVE  Relay'
  <2>1. /\ OthersStay(t) /\ pc[t] # "address" /\ pc'[t] \notin {"address", "welcome"} /\ alive
        /\ SameEnds /\ UNCHANGED <<backendSock, masterVars, up, overlap>>
    BY <1>2, OtherSteps
  <2> QED
    BY <2>1, RelayKept
<1>3. ASSUME NEW c \in DOMAIN conns, Serve(c) PROVE Relay'
  <2>1. SameEnds
    BY <1>3, ServeFact
  <2>2. UNCHANGED <<todo, pc, fd, backendSock, masterIn, masterOut, introduced, up, alive>>
    BY <1>3 DEF Serve, relayVars, masterVars, threadVars
  <2> QED
    BY <2>1, <2>2, RelayStill
<1> QED
  BY <1>1, <1>2, <1>3, SendNameRelay, ReadAddressRelay, MasterRelay, DieRelay DEF Next, Step
-----------------------------------------------------------------------------
(* One request at a time: the steps.                                       *)

\* Alone, as seen by the one thread that has a request.
CleanAt(t) ==
  /\ pc[t] \notin {"welcome", "read", "wait"} => Quiet(backendSock)
  /\ pc[t] = "welcome" =>
       /\ backendSock # 0 /\ fd[t] = backendSock
       /\ conns[backendSock].in = <<>> /\ Len(conns[backendSock].out) = 1
  /\ pc[t] \in {"read", "wait"} => Pending(t, backendSock)
  /\ pc[t] = "wait" => fd[t] = backendSock

OptionAt(t) == pc[t] = "switch" => mOpt = Current(t).op
AnswerAt(t) == got[t] # Nothing => pc[t] = "answered" /\ Own(t, got[t])

\* The other threads are idle while a thread is alone.
LEMMA AloneFact ==
  ASSUME Control, GotAnswered, Alone, NEW t \in Threads, ~Idle(t), ~overlap
  PROVE  /\ \A o \in Threads \ {t} : Idle(o) /\ pc[o] = "next" /\ got[o] = Nothing
         /\ alive => CleanAt(t)
         /\ OptionAt(t) /\ AnswerAt(t)
<1>1. \A o \in Threads \ {t} : Idle(o)
  BY DEF Alone, AtMostOne
<1>2. \A o \in Threads \ {t} : pc[o] = "next"
  BY <1>1 DEF Idle, Control, Placed
<1>3. \A o \in Threads \ {t} : got[o] = Nothing
  BY <1>2 DEF GotAnswered
<1>4. alive => CleanAt(t)
  BY <1>2 DEF Alone, Clean, CleanAt
<1>5. OptionAt(t) /\ AnswerAt(t)
  BY DEF Alone, OwnOption, OwnGot, OptionAt, AnswerAt, GotAnswered
<1> QED
  BY <1>1, <1>2, <1>3, <1>4, <1>5

\* A step of the thread that is alone.
LEMMA AloneStep ==
  ASSUME Control, GotAnswered, Alone, NEW t \in Threads, ~Idle(t), OthersStay(t), overlap' = overlap,
         got'[t] # Nothing => pc'[t] = "answered",
         ~overlap /\ alive' => CleanAt(t)',
         ~overlap => OptionAt(t)' /\ AnswerAt(t)'
  PROVE  GotAnswered' /\ Alone'
<1>1. GotAnswered'
  BY DEF GotAnswered, OthersStay
<1>2. ASSUME ~overlap PROVE AtMostOne' /\ (alive' => Clean') /\ OwnOption' /\ OwnGot'
  <2>1. \A o \in Threads \ {t} : Idle(o) /\ pc[o] = "next" /\ got[o] = Nothing
    BY <1>2, AloneFact
  <2>2. \A o \in Threads \ {t} : todo'[o] = <<>> /\ pc'[o] = "next" /\ got'[o] = Nothing
    BY <2>1 DEF OthersStay, Idle
  <2>3. AtMostOne'
    BY <2>2 DEF AtMostOne, Idle
  <2>4. ASSUME alive' PROVE Clean'
    <3>1. CleanAt(t)'
      BY <1>2, <2>4
    <3> QED
      BY <2>2, <3>1 DEF Clean, CleanAt
  <2>5. OwnOption'
    BY <1>2, <2>2 DEF OwnOption, OptionAt
  <2>6. OwnGot'
    BY <1>2, <2>2 DEF OwnGot, AnswerAt
  <2> QED
    BY <2>3, <2>4, <2>5, <2>6
<1> QED
  BY <1>1, <1>2 DEF Alone

\* The steps that leave the connections alone, before which and after which
\* nothing is on its way.
LEMMA QuietSteps ==
  ASSUME Types, Control, NEW t \in Threads,
         \/ LockRelay(t) \/ SendName(t) \/ Release(t) \/ Lock(t) \/ Unlock(t)
         \/ Begin(t) \/ SetOption(t) \/ Switch(t) \/ Answered(t)
         \/ genCookie(t) \/ delCookie(t) \/ Respond(t)
  PROVE  /\ OthersStay(t) /\ ~Idle(t) /\ alive
         /\ UNCHANGED <<conns, backendSock, overlap>>
         /\ pc[t] \notin {"welcome", "read", "wait"} /\ pc'[t] \notin {"welcome", "read", "wait"}
         /\ got'[t] = Nothing \/ (got'[t] = got[t] /\ pc[t] # "answered")
         /\ pc'[t] = "switch" => mOpt' = Current(t)'.op
<1>t. /\ todo \in [Threads -> Seq(AllCalls)] /\ pc \in [Threads -> Places]
      /\ fd \in [Threads -> Nat] /\ got \in [Threads -> Answers]
  BY DEF Types, ThreadTypes
<1>1. CASE LockRelay(t)
  <2>1. /\ pc[t] \in {"reconnect", "next"} /\ ~Idle(t) /\ alive /\ pc' = [pc EXCEPT ![t] = "name"]
        /\ UNCHANGED <<backendSock, conns, todo, fd, got, overlap>>
    BY <1>1 DEF LockRelay, At, Goto, netVars, browserVars
  <2> QED
    BY <1>t, <2>1 DEF OthersStay
<1>2. CASE SendName(t)
  <2>1. /\ pc[t] = "name" /\ ~Idle(t) /\ alive /\ pc' = [pc EXCEPT ![t] = "address"]
        /\ UNCHANGED <<backendSock, conns, todo, fd, got, overlap>>
    BY <1>2 DEF SendName, At, Goto, netVars, relayVars, browserVars
  <2> QED
    BY <1>t, <2>1 DEF OthersStay
<1>3. CASE Release(t)
  <2>1. /\ pc[t] = "release" /\ ~Idle(t) /\ alive
        /\ pc' = [pc EXCEPT ![t] = "next"] \/ pc' = [pc EXCEPT ![t] = "write"]
        /\ todo' = [todo EXCEPT ![t] = Tail(todo[t])] \/ todo' = todo
        /\ UNCHANGED <<backendSock, conns, fd, got, overlap>>
    BY <1>3 DEF Release, At, Goto, netVars, browserVars
  <2>2. OthersStay(t) /\ pc'[t] \in {"next", "write"} /\ got'[t] = got[t]
    BY <1>t, <2>1 DEF OthersStay
  <2> QED
    BY <2>1, <2>2
<1>4. CASE Lock(t) \/ Unlock(t)
  <2>1. /\ pc[t] = "next" /\ ~Idle(t) /\ alive /\ todo' = [todo EXCEPT ![t] = Tail(todo[t])]
        /\ UNCHANGED <<backendSock, conns, pc, fd, got, overlap>>
    BY <1>4 DEF Lock, Unlock, At, netVars, browserVars
  <2> QED
    BY <1>t, <2>1 DEF OthersStay
<1>5. CASE Begin(t)
  <2>1. /\ pc[t] = "next" /\ ~Idle(t) /\ alive /\ pc' = [pc EXCEPT ![t] = "write"]
        /\ UNCHANGED <<backendSock, conns, todo, fd, got, overlap>>
    BY <1>5 DEF Begin, At, Goto, netVars, relayVars, browserVars
  <2> QED
    BY <1>t, <2>1 DEF OthersStay
<1>6. CASE SetOption(t)
  <2>1. /\ pc[t] = "next" /\ ~Idle(t) /\ alive /\ pc' = [pc EXCEPT ![t] = "switch"]
        /\ mOpt' = Current(t).op
        /\ UNCHANGED <<backendSock, conns, todo, fd, got, overlap>>
    BY <1>6 DEF SetOption, At, Goto, netVars, relayVars, browserVars
  <2>2. Current(t)' = Current(t)
    BY <2>1 DEF Current
  <2>3. OthersStay(t) /\ pc'[t] = "switch"
    BY <1>t, <2>1 DEF OthersStay
  <2> QED
    BY <2>1, <2>2, <2>3
<1>7. CASE Switch(t)
  <2>1. /\ pc[t] = "switch" /\ ~Idle(t) /\ alive /\ pc' = [pc EXCEPT ![t] = "write"]
        /\ UNCHANGED <<backendSock, conns, fd, got, overlap>>
    BY <1>7 DEF Switch, At, Goto, netVars, relayVars, browserVars
  <2>2. PICK ok : ok = (mOpt \in OKOps)
    OBVIOUS
  <2>3. PICK q : q = [todo[t] EXCEPT ![1] = [todo[t][1] EXCEPT !.op = mOpt, !.ok = ok]]
    OBVIOUS
  <2>4. todo' = [todo EXCEPT ![t] = q]
    BY <1>7, <2>2, <2>3 DEF Switch
  <2> QED
    BY <1>t, <2>1, <2>4 DEF OthersStay
<1>8. CASE Answered(t)
  <2>1. /\ pc[t] = "answered" /\ ~Idle(t) /\ alive /\ pc' = [pc EXCEPT ![t] = "next"]
        /\ fd' = [fd EXCEPT ![t] = 0] /\ got' = [got EXCEPT ![t] = Nothing]
        /\ UNCHANGED <<backendSock, conns, overlap>>
    BY <1>8 DEF Answered, At, Goto, netVars, relayVars, browserVars
  <2>2. PICK q : todo' = [todo EXCEPT ![t] = q]
    BY <1>8 DEF Answered
  <2> QED
    BY <1>t, <2>1, <2>2 DEF OthersStay
<1>9. CASE genCookie(t) \/ delCookie(t) \/ Respond(t)
  <2>1. /\ pc[t] = "next" /\ ~Idle(t) /\ alive
        /\ UNCHANGED <<backendSock, conns, pc, fd, got, overlap>>
    BY <1>9 DEF genCookie, delCookie, Respond, At, netVars, relayVars, browserVars
  <2>2. PICK q : todo' = [todo EXCEPT ![t] = q]
    BY <1>9 DEF genCookie, delCookie, Respond
  <2> QED
    BY <1>t, <2>1, <2>2 DEF OthersStay
<1> QED
  BY <1>1, <1>2, <1>3, <1>4, <1>5, <1>6, <1>7, <1>8, <1>9

\* They leave the thread alone.
LEMMA QuietAlone ==
  ASSUME Types, Control, ClosedEmpty, GotAnswered, Alone, NEW t \in Threads,
         \/ LockRelay(t) \/ SendName(t) \/ Release(t) \/ Lock(t) \/ Unlock(t)
         \/ Begin(t) \/ SetOption(t) \/ Switch(t) \/ Answered(t)
         \/ genCookie(t) \/ delCookie(t) \/ Respond(t)
  PROVE  ClosedEmpty' /\ GotAnswered' /\ Alone'
<1>1. /\ OthersStay(t) /\ ~Idle(t) /\ alive
      /\ UNCHANGED <<conns, backendSock, overlap>>
      /\ pc[t] \notin {"welcome", "read", "wait"} /\ pc'[t] \notin {"welcome", "read", "wait"}
      /\ got'[t] = Nothing \/ (got'[t] = got[t] /\ pc[t] # "answered")
      /\ pc'[t] = "switch" => mOpt' = Current(t)'.op
  BY QuietSteps
<1>2. got'[t] = Nothing
  BY <1>1 DEF GotAnswered
<1>3. ~overlap => CleanAt(t)'
  <2>1. ~overlap => CleanAt(t)
    BY <1>1, AloneFact
  <2>2. ~overlap => Quiet(backendSock)
    BY <1>1, <2>1 DEF CleanAt
  <2>3. ~overlap => Quiet(backendSock)'
    BY <1>1, <2>2 DEF Quiet
  <2> QED
    BY <1>1, <2>3 DEF CleanAt
<1>4. OptionAt(t)' /\ AnswerAt(t)'
  BY <1>1, <1>2 DEF OptionAt, AnswerAt
<1>5. ClosedEmpty'
  BY <1>1 DEF ClosedEmpty
<1> QED
  BY <1>1, <1>2, <1>3, <1>4, <1>5, AloneStep

\* The new connection has the welcome on it and nothing else.
LEMMA ReadAddressAlone ==
  ASSUME Types, Control, ClosedEmpty, GotAnswered, Alone, NEW t \in Threads, ReadAddress(t)
  PROVE  ClosedEmpty' /\ GotAnswered' /\ Alone'
<1> DEFINE a == Head(masterOut)
           r == [server |-> a.server, name |-> a.name, by |-> t, state |-> "open", in |-> <<>>, out |-> <<Welcome>>]
<1>1. /\ pc[t] = "address" /\ ~Idle(t) /\ pc' = [pc EXCEPT ![t] = "welcome"]
      /\ \/ /\ conns' = Append(conns, r) /\ backendSock' = Len(conns) + 1
            /\ fd' = [fd EXCEPT ![t] = Len(conns) + 1]
         \/ alive' = FALSE /\ UNCHANGED <<conns, fd>>
      /\ UNCHANGED <<todo, got, overlap>>
  BY DEF ReadAddress, At, Goto, browserVars
<1>2. /\ pc \in [Threads -> Places] /\ conns \in Seq(Conns)
      /\ fd \in [Threads -> Nat]
  BY DEF Types, RelayTypes, ThreadTypes
<1>3. Len(conns) \in Nat
  BY <1>2
<1>4. r.state = "open" /\ r.in = <<>> /\ Len(r.out) = 1
  BY DEF Welcome
<1> HIDE DEF a, r
<1>5. PICK n : n = Len(conns) + 1
  OBVIOUS
<1>6. OthersStay(t) /\ pc'[t] = "welcome" /\ got'[t] = got[t]
  BY <1>1, <1>2, <1>5 DEF OthersStay
<1>7. got[t] = Nothing
  BY <1>1 DEF GotAnswered
<1>8. OptionAt(t)' /\ AnswerAt(t)'
  BY <1>6, <1>7 DEF OptionAt, AnswerAt
<1>9. CASE conns' = Append(conns, r) /\ backendSock' = Len(conns) + 1 /\ fd' = [fd EXCEPT ![t] = Len(conns) + 1]
  <2>1. n # 0 /\ n \in Nat /\ backendSock' = n /\ Len(conns') = n
        /\ conns'[n] = r /\ \A c \in 1 .. Len(conns) : conns'[c] = conns[c]
    BY <1>2, <1>3, <1>5, <1>9
  <2>2. fd'[t] = n
    BY <1>2, <1>5, <1>9
  <2>3. CleanAt(t)'
    BY <1>4, <1>6, <2>1, <2>2 DEF CleanAt
  <2>4. ClosedEmpty'
    <3> SUFFICES ASSUME NEW c \in 1 .. Len(conns') PROVE conns'[c].state # "open" => conns'[c].in = <<>>
      BY DEF ClosedEmpty
    <3>1. c \in 1 .. Len(conns) \/ c = n
      BY <1>3, <1>5, <2>1
    <3> QED
      BY <1>4, <2>1, <3>1 DEF ClosedEmpty
  <2> QED
    BY <1>1, <1>6, <1>7, <1>8, <2>3, <2>4, AloneStep
<1>10. CASE alive' = FALSE /\ UNCHANGED <<conns, fd>>
  <2>1. ClosedEmpty'
    BY <1>10 DEF ClosedEmpty
  <2> QED
    BY <1>1, <1>6, <1>7, <1>8, <1>10, <2>1, AloneStep
<1> QED
  BY <1>1, <1>9, <1>10

\* The thread reads the welcome, and the connection is quiet.
LEMMA ReadWelcomeAlone ==
  ASSUME Types, Control, ClosedEmpty, GotAnswered, Alone, NEW t \in Threads, ReadWelcome(t)
  PROVE  ClosedEmpty' /\ GotAnswered' /\ Alone'
<1>1. /\ pc[t] = "welcome" /\ ~Idle(t) /\ alive /\ pc' = [pc EXCEPT ![t] = "release"] /\ conns' = Taken(fd[t])
      /\ UNCHANGED <<backendSock, todo, fd, got, overlap>>
  BY DEF ReadWelcome, At, Goto, relayVars, browserVars
<1>2. RelayTypes /\ pc \in [Threads -> Places] /\ conns \in Seq(Conns)
      /\ backendSock \in 0 .. Len(conns) /\ fd[t] \in 0 .. Len(conns)
  BY KeptFact DEF Types, RelayTypes, ThreadTypes
<1>3. /\ SameEnds
      /\ \A d \in 1 .. Len(conns) :
           conns'[d].state = conns[d].state /\ conns'[d].in = conns[d].in
      /\ fd[t] # 0 => conns'[fd[t]].out = IF conns[fd[t]].out = <<>> THEN <<>> ELSE Tail(conns[fd[t]].out)
  BY <1>1, <1>2, ReadFact
<1>4. OthersStay(t) /\ pc'[t] = "release" /\ got'[t] = got[t]
  BY <1>1, <1>2 DEF OthersStay
<1>5. got[t] = Nothing
  BY <1>1 DEF GotAnswered
<1>6. OptionAt(t)' /\ AnswerAt(t)'
  BY <1>4, <1>5 DEF OptionAt, AnswerAt
<1>7. ClosedEmpty'
  BY <1>3 DEF ClosedEmpty, SameEnds
<1>8. ASSUME ~overlap PROVE CleanAt(t)'
  <2>1. CleanAt(t)
    BY <1>1, <1>8, AloneFact
  <2>2. backendSock # 0 /\ fd[t] = backendSock
        /\ conns[backendSock].in = <<>> /\ Len(conns[backendSock].out) = 1
    BY <1>1, <2>1 DEF CleanAt
  <2>3. backendSock \in 1 .. Len(conns)
    BY <1>2, <2>2
  <2>4. conns[backendSock].out \in Seq(Answers)
    BY <1>2, <2>3, ConnFact
  <2>a. Len(conns[backendSock].out) <= 1
    BY <2>2
  <2>5. conns[backendSock].out # <<>> => Tail(conns[backendSock].out) = <<>>
    BY <2>4, <2>a, OneLeft
  <2>6. conns'[backendSock].out = <<>> /\ conns'[backendSock].in = <<>>
    BY <1>3, <2>2, <2>3, <2>5
  <2>7. Quiet(backendSock)'
    BY <1>1, <2>6 DEF Quiet
  <2> QED
    BY <1>4, <2>7 DEF CleanAt
<1> QED
  BY <1>1, <1>4, <1>5, <1>6, <1>7, <1>8, AloneStep
\* The request of the thread is the only one on the connection.
LEMMA WriteAlone ==
  ASSUME Types, Control, ClosedEmpty, GotAnswered, Alone, NEW t \in Threads, Write(t)
  PROVE  ClosedEmpty' /\ GotAnswered' /\ Alone'
<1> DEFINE c == backendSock
           m == [by |-> t, op |-> Current(t).op, user |-> Current(t).user, ok |-> Current(t).ok]
<1>1. /\ At(t, "write") /\ pc[t] = "write" /\ ~Idle(t) /\ alive /\ pc' = [pc EXCEPT ![t] = "read"]
      /\ UNCHANGED <<backendSock, todo, fd, got, overlap>>
  BY DEF Write, At, Goto, relayVars, browserVars
<1>2. /\ pc \in [Threads -> Places] /\ conns \in Seq(Conns) /\ c \in 0 .. Len(conns)
  BY DEF Types, RelayTypes, ThreadTypes
<1>3. /\ SameEnds
      /\ alive' = (c = 0 \/ conns[c].state # "reset")
      /\ \A d \in 1 .. Len(conns) :
           /\ conns'[d].out = conns[d].out
           /\ d # c => conns'[d] = conns[d]
      /\ c # 0 /\ conns[c].state = "open" =>
           conns'[c].state = "open" /\ conns'[c].in = Append(conns[c].in, m)
      /\ c # 0 /\ conns[c].state # "open" =>
           conns'[c].state = "reset" /\ conns'[c].in = conns[c].in
  BY <1>1, WriteFact
<1>m. m.by = t /\ m.op = Current(t).op
  OBVIOUS
<1> HIDE DEF m
<1>4. OthersStay(t) /\ pc'[t] = "read" /\ got'[t] = got[t]
  BY <1>1, <1>2 DEF OthersStay
<1>5. got[t] = Nothing
  BY <1>1 DEF GotAnswered
<1>6. OptionAt(t)' /\ AnswerAt(t)'
  BY <1>4, <1>5 DEF OptionAt, AnswerAt
<1>7. ClosedEmpty'
  <2> SUFFICES ASSUME NEW d \in 1 .. Len(conns), conns'[d].state # "open" PROVE conns'[d].in = <<>>
    BY <1>3 DEF ClosedEmpty, SameEnds
  <2>1. CASE d # c
    BY <1>3, <2>1 DEF ClosedEmpty
  <2>2. CASE d = c
    <3>1. c # 0 /\ conns[c].state # "open"
      BY <1>3, <2>2
    <3> QED
      BY <1>3, <2>2, <3>1 DEF ClosedEmpty
  <2> QED
    BY <2>1, <2>2
<1>8. ASSUME ~overlap PROVE CleanAt(t)'
  <2>1. CleanAt(t)
    BY <1>1, <1>8, AloneFact
  <2>2. c # 0 => conns[c].in = <<>> /\ conns[c].out = <<>>
    BY <1>1, <2>1 DEF CleanAt, Quiet
  <2>3. c # 0 => conns'[c].out = <<>> /\ (conns'[c].in = <<>> \/ conns'[c].in = <<m>>)
    <3> SUFFICES ASSUME c # 0 PROVE conns'[c].out = <<>> /\ (conns'[c].in = <<>> \/ conns'[c].in = <<m>>)
      OBVIOUS
    <3>1. c \in 1 .. Len(conns)
      BY <1>2
    <3>2. Append(<<>>, m) = <<m>>
      OBVIOUS
    <3>3. conns'[c].out = conns[c].out
      BY <1>3, <3>1
    <3>4. conns'[c].in = Append(conns[c].in, m) \/ conns'[c].in = conns[c].in
      BY <1>3
    <3> QED
      BY <2>2, <3>2, <3>3, <3>4
  <2>4. Current(t)' = Current(t)
    BY <1>1 DEF Current
  <2>5. ASSUME c # 0, conns'[c].in # <<>>
        PROVE  Len(conns'[c].in) = 1 /\ conns'[c].in[1].by = t /\ conns'[c].in[1].op = Current(t)'.op
    <3>1. conns'[c].in = <<m>>
      BY <2>3, <2>5
    <3>2. Len(conns'[c].in) = 1 /\ conns'[c].in[1] = m
      BY <3>1
    <3> QED
      BY <1>m, <2>4, <3>2
  <2>6. Pending(t, backendSock)'
    BY <1>1, <2>3, <2>5 DEF Pending, Own
  <2> QED
    BY <1>4, <2>6 DEF CleanAt
<1> QED
  BY <1>1, <1>4, <1>5, <1>6, <1>7, <1>8, AloneStep

\* The thread goes on to read on the connection that it has written to.
LEMMA EnterReadAlone ==
  ASSUME Types, Control, ClosedEmpty, GotAnswered, Alone, NEW t \in Threads, EnterRead(t)
  PROVE  ClosedEmpty' /\ GotAnswered' /\ Alone'
<1>1. /\ pc[t] = "read" /\ ~Idle(t) /\ alive /\ pc' = [pc EXCEPT ![t] = "wait"]
      /\ fd' = [fd EXCEPT ![t] = backendSock]
      /\ UNCHANGED <<backendSock, conns, todo, got, overlap>>
  BY DEF EnterRead, At, Goto, netVars, relayVars, browserVars
<1>2. pc \in [Threads -> Places] /\ fd \in [Threads -> Nat]
  BY DEF Types, ThreadTypes
<1>4. OthersStay(t) /\ pc'[t] = "wait" /\ got'[t] = got[t] /\ fd'[t] = backendSock
  BY <1>1, <1>2 DEF OthersStay
<1>5. got[t] = Nothing
  BY <1>1 DEF GotAnswered
<1>6. OptionAt(t)' /\ AnswerAt(t)'
  BY <1>4, <1>5 DEF OptionAt, AnswerAt
<1>7. ClosedEmpty'
  BY <1>1 DEF ClosedEmpty
<1>8. ASSUME ~overlap PROVE CleanAt(t)'
  <2>1. CleanAt(t)
    BY <1>1, <1>8, AloneFact
  <2>2. Pending(t, backendSock)
    BY <1>1, <2>1 DEF CleanAt
  <2>3. Pending(t, backendSock)'
    BY <1>1, <2>2 DEF Pending, Own, Current
  <2> QED
    BY <1>1, <1>4, <2>3 DEF CleanAt
<1> QED
  BY <1>1, <1>4, <1>5, <1>6, <1>7, <1>8, AloneStep

\* The thread reads the answer to its request, or nothing, and the connection
\* is quiet.
LEMMA ReadAlone ==
  ASSUME Types, Control, ClosedEmpty, GotAnswered, Alone, NEW t \in Threads, Read(t)
  PROVE  ClosedEmpty' /\ GotAnswered' /\ Alone'
<1> DEFINE c == fd[t]
<1>1. /\ pc[t] = "wait" /\ ~Idle(t) /\ alive /\ Readable(c) /\ pc' = [pc EXCEPT ![t] = AfterRead(t, c)]
      /\ conns' = Taken(c) /\ got' = [got EXCEPT ![t] = Answer(c)]
      /\ UNCHANGED <<backendSock, todo, fd, overlap>>
  BY DEF Read, At, Goto, relayVars, browserVars
<1>2. /\ RelayTypes /\ pc \in [Threads -> Places] /\ conns \in Seq(Conns)
      /\ got \in [Threads -> Answers] /\ c \in 0 .. Len(conns)
  BY KeptFact DEF Types, RelayTypes, ThreadTypes
<1>3. /\ SameEnds
      /\ \A d \in 1 .. Len(conns) : conns'[d].state = conns[d].state /\ conns'[d].in = conns[d].in
      /\ c # 0 => conns'[c].out = IF conns[c].out = <<>> THEN <<>> ELSE Tail(conns[c].out)
  BY <1>1, <1>2, ReadFact
<1>a. /\ c = 0 \/ conns[c].out = <<>> => Answer(c) = Nothing
      /\ c # 0 /\ conns[c].out # <<>> => Answer(c) = conns[c].out[1]
  BY <1>2, TakenFact
<1>4. OthersStay(t) /\ pc'[t] = AfterRead(t, c) /\ got'[t] = Answer(c)
  BY <1>1, <1>2 DEF OthersStay
<1>5. AfterRead(t, c) \in {"reconnect", "answered"} /\ (Answer(c) # Nothing => AfterRead(t, c) = "answered")
  BY DEF AfterRead
<1>6. OptionAt(t)'
  BY <1>4, <1>5 DEF OptionAt
<1>7. ClosedEmpty'
  BY <1>3 DEF ClosedEmpty, SameEnds
<1>8. ASSUME ~overlap PROVE CleanAt(t)' /\ AnswerAt(t)'
  <2>1. CleanAt(t)
    BY <1>1, <1>8, AloneFact
  <2>2. Pending(t, c) /\ c = backendSock
    BY <1>1, <2>1 DEF CleanAt
  <2>3. Current(t)' = Current(t)
    BY <1>1 DEF Current
  <2>4. CASE c = 0
    <3>1. Quiet(backendSock)'
      BY <1>1, <2>2, <2>4 DEF Quiet
    <3> QED
      BY <1>4, <1>5, <1>a, <2>4, <3>1 DEF CleanAt, AnswerAt
  <2>5. CASE c # 0
    <3>1. c \in 1 .. Len(conns)
      BY <1>2, <2>5
    <3>2. conns[c].in \in Seq(Asked) /\ conns[c].out \in Seq(Answers)
      BY <1>2, <3>1, ConnFact
    <3>3. /\ conns[c].in = <<>> \/ conns[c].out = <<>>
          /\ conns[c].out # <<>> => Len(conns[c].out) = 1 /\ Own(t, conns[c].out[1])
      BY <2>2, <2>5 DEF Pending
    <3>4. CASE conns[c].out = <<>>
      <4>1. conns[c].state # "open"
        BY <1>1, <2>5, <3>4 DEF Readable
      <4>2. conns[c].in = <<>>
        BY <3>1, <4>1 DEF ClosedEmpty
      <4>3. conns'[c].in = <<>> /\ conns'[c].out = <<>>
        BY <1>3, <2>5, <3>1, <3>4, <4>2
      <4>4. Quiet(backendSock)'
        BY <1>1, <2>2, <4>3 DEF Quiet
      <4>5. Answer(c) = Nothing
        BY <1>a, <3>4
      <4> QED
        BY <1>4, <1>5, <4>4, <4>5 DEF CleanAt, AnswerAt
    <3>5. CASE conns[c].out # <<>>
      <4>a. Len(conns[c].out) = 1
        BY <3>3, <3>5
      <4>0. Len(conns[c].out) <= 1
        BY <4>a
      <4>1. Tail(conns[c].out) = <<>>
        BY <3>2, <3>5, <4>0, OneLeft
      <4>3. conns[c].in = <<>>
        BY <3>3, <3>5
      <4>4. conns'[c].in = <<>> /\ conns'[c].out = <<>>
        BY <1>3, <2>5, <3>1, <3>5, <4>1, <4>3
      <4>5. Quiet(backendSock)'
        BY <1>1, <2>2, <4>4 DEF Quiet
      <4>6. Own(t, conns[c].out[1])
        BY <3>3, <3>5
      <4>7. Own(t, got[t])'
        BY <1>4, <1>a, <2>3, <2>5, <3>5, <4>6 DEF Own
      <4> QED
        BY <1>4, <1>5, <4>5, <4>7 DEF CleanAt, AnswerAt
    <3> QED
      BY <3>4, <3>5
  <2> QED
    BY <2>4, <2>5
<1>9. got'[t] # Nothing => pc'[t] = "answered"
  BY <1>4, <1>5
<1> QED
  BY <1>1, <1>4, <1>6, <1>7, <1>8, <1>9, AloneStep
\* A step of the servers leaves the threads alone, when it leaves the relay's
\* connection clean.
LEMMA ServersStep ==
  ASSUME GotAnswered, Alone,
         UNCHANGED <<todo, pc, fd, got, mOpt, backendSock, overlap, alive>>,
         ~overlap /\ alive => Clean'
  PROVE  GotAnswered' /\ Alone'
<1>1. GotAnswered'
  BY DEF GotAnswered
<1>2. ~overlap => AtMostOne' /\ OwnOption' /\ OwnGot'
  BY DEF Alone, AtMostOne, OwnOption, OwnGot, Own, Idle, Current
<1> QED
  BY <1>1, <1>2 DEF Alone

\* A storage server answers the request of the one thread to that thread.
LEMMA ServeAlone ==
  ASSUME Types, Control, ClosedEmpty, GotAnswered, Alone, NEW c \in DOMAIN conns, Serve(c)
  PROVE  ClosedEmpty' /\ GotAnswered' /\ Alone'
<1> DEFINE m == conns[c].in[1]
           a == [by |-> m.by, op |-> m.op, ok |-> m.ok]
           b == backendSock
<1>1. UNCHANGED <<todo, pc, fd, got, mOpt, backendSock, overlap, alive>>
  BY DEF Serve, relayVars, threadVars, browserVars
<1>2. /\ SameEnds /\ c \in 1 .. Len(conns)
      /\ conns[c].state = "open" /\ conns[c].in # <<>> /\ conns'[c].state = "open"
      /\ conns'[c].in = Tail(conns[c].in)
      /\ conns'[c].out = Append(conns[c].out, a)
      /\ \A d \in 1 .. Len(conns) : d # c => conns'[d] = conns[d]
  BY ServeFact
<1>a. a.by = m.by /\ a.op = m.op
  OBVIOUS
<1>b. conns \in Seq(Conns) /\ b \in 0 .. Len(conns)
  BY DEF Types, RelayTypes
<1> HIDE DEF a
<1>3. ClosedEmpty'
  <2> SUFFICES ASSUME NEW d \in 1 .. Len(conns), conns'[d].state # "open" PROVE conns'[d].in = <<>>
    BY <1>2 DEF ClosedEmpty, SameEnds
  <2>1. d # c /\ conns'[d] = conns[d]
    BY <1>2
  <2> QED
    BY <2>1 DEF ClosedEmpty
<1>4. ASSUME ~overlap, alive PROVE Clean'
  <2>0. Clean
    BY <1>4 DEF Alone
  <2>1. CASE b # c
    <3>1. b # 0 => conns'[b] = conns[b]
      BY <1>2, <1>b, <2>1
    <3>2. Quiet(b) => Quiet(b)'
      BY <1>1, <3>1 DEF Quiet
    <3>3. \A t \in Threads : Pending(t, b) => Pending(t, b)'
      BY <1>1, <3>1 DEF Pending, Own, Current
    <3> QED
      BY <1>1, <2>0, <3>1, <3>2, <3>3 DEF Clean
  <2>2. CASE b = c
    <3>0. b # 0 /\ conns[b].in # <<>>
      BY <1>2, <2>2
    <3>1. ~Quiet(b)
      BY <3>0 DEF Quiet
    <3>2. \A t \in Threads : pc[t] # "welcome"
      BY <2>0, <3>0 DEF Clean
    <3>3. ASSUME NEW t \in Threads, Pending(t, b) PROVE Pending(t, b)'
      <4>1. Len(conns[b].in) = 1 /\ m.by = t /\ m.op = Current(t).op /\ conns[b].out = <<>>
        BY <2>2, <3>0, <3>3 DEF Pending, Own
      <4>2. conns[b].in \in Seq(Asked) /\ Len(conns[b].in) <= 1
        BY <1>2, <1>b, <2>2, <4>1, ConnFact
      <4>3. conns'[b].in = <<>>
        BY <1>2, <2>2, <3>0, <4>2, OneLeft
      <4>4. conns'[b].out = Append(<<>>, a)
        BY <1>2, <2>2, <4>1
      <4>5. Append(<<>>, a) = <<a>>
        OBVIOUS
      <4>6. conns'[b].out = <<a>>
        BY <4>4, <4>5
      <4>7. Len(conns'[b].out) = 1 /\ conns'[b].out[1] = a
        BY <4>6
      <4>8. conns'[b].out[1].by = t /\ conns'[b].out[1].op = Current(t)'.op
        BY <1>1, <1>a, <4>1, <4>7 DEF Current
      <4> QED
        BY <1>1, <4>3, <4>7, <4>8 DEF Pending, Own
    <3>4. PICK t \in Threads : pc[t] \in {"welcome", "read", "wait"}
      BY <2>0, <3>1 DEF Clean
    <3> QED
      BY <1>1, <2>0, <3>2, <3>3, <3>4 DEF Clean
  <2> QED
    BY <2>1, <2>2
<1> QED
  BY <1>1, <1>3, <1>4, ServersStep

\* A dead server loses requests; it adds nothing to a connection.
LEMMA DieAlone ==
  ASSUME Types, Control, ClosedEmpty, GotAnswered, Alone, NEW s \in Servers, Die(s)
  PROVE  ClosedEmpty' /\ GotAnswered' /\ Alone'
<1> DEFINE b == backendSock
<1>1. UNCHANGED <<todo, pc, fd, got, mOpt, backendSock, overlap, alive>>
  BY DEF Die, relayVars, threadVars, browserVars
<1>2. /\ SameEnds
      /\ \A d \in 1 .. Len(conns) :
           /\ conns'[d].out = conns[d].out
           /\ \/ conns'[d].state = conns[d].state /\ conns'[d].in = conns[d].in
              \/ conns'[d].state = "closed" /\ conns'[d].in = <<>>
  BY DieFact
<1>3. ClosedEmpty'
  BY <1>2 DEF ClosedEmpty, SameEnds
<1>4. ASSUME ~overlap, alive PROVE Clean'
  <2>0. Clean
    BY <1>4 DEF Alone
  <2>1. b \in 0 .. Len(conns) /\ Len(conns) \in Nat
    BY DEF Types, RelayTypes
  <2>2. b # 0 => conns'[b].out = conns[b].out /\ (conns'[b].in = conns[b].in \/ conns'[b].in = <<>>)
    BY <1>2, <2>1
  <2>3. Quiet(b) => Quiet(b)'
    BY <1>1, <2>2 DEF Quiet
  <2>4. \A t \in Threads : Pending(t, b) => Pending(t, b)'
    BY <1>1, <2>2 DEF Pending, Own, Current
  <2> QED
    BY <1>1, <2>0, <2>2, <2>3, <2>4 DEF Clean
<1> QED
  BY <1>1, <1>3, <1>4, ServersStep

\* The master has no part in it.
LEMMA MasterAlone ==
  ASSUME ClosedEmpty, GotAnswered, Alone, MasterAnswers
  PROVE  ClosedEmpty' /\ GotAnswered' /\ Alone'
<1>1. UNCHANGED <<conns, todo, pc, fd, got, mOpt, backendSock, overlap, alive>>
  BY DEF MasterAnswers, relayVars, netVars, threadVars, browserVars
<1>2. ClosedEmpty'
  BY <1>1 DEF ClosedEmpty
<1>3. ~overlap /\ alive => Clean'
  BY <1>1 DEF Alone, Clean, Quiet, Pending, Own, Current
<1> QED
  BY <1>1, <1>2, <1>3, ServersStep

\* A request that overlaps with no other finds the connection quiet.
LEMMA RequestAlone ==
  ASSUME Types, Control, ClosedEmpty, GotAnswered, Alone, NEW t \in Threads, AnyRequest(t)
  PROVE  ClosedEmpty' /\ GotAnswered' /\ Alone'
<1>1. /\ \/ /\ todo' = todo /\ overlap' = overlap
         \/ /\ \E q : Fresh(q) /\ todo' = [todo EXCEPT ![t] = q]
            /\ overlap' = (overlap \/ \E o \in Threads : ~Idle(o))
      /\ Idle(t) /\ alive
      /\ UNCHANGED <<backendSock, conns, alive, mOpt, pc, fd, got>>
  BY RequestFact DEF relayVars, netVars
<1>2. ClosedEmpty' /\ GotAnswered'
  BY <1>1 DEF ClosedEmpty, GotAnswered
<1>3. CASE todo' = todo /\ overlap' = overlap
  BY <1>1, <1>2, <1>3 DEF Alone, AtMostOne, Clean, OwnOption, OwnGot, Quiet, Pending, Own, Current, Idle
<1>4. CASE /\ \E q : todo' = [todo EXCEPT ![t] = q]
           /\ overlap' = (overlap \/ \E o \in Threads : ~Idle(o))
  <2> SUFFICES ASSUME ~overlap' PROVE Alone'
    BY <1>2 DEF Alone
  <2>1. ~overlap /\ \A o \in Threads : Idle(o)
    BY <1>4
  <2>2. \A o \in Threads : pc[o] = "next"
    BY <2>1 DEF Idle, Control, Placed
  <2>3. Quiet(backendSock)
    BY <1>1, <2>1, <2>2 DEF Alone, Clean
  <2>4. \A o \in Threads : pc'[o] = "next" /\ got'[o] = Nothing
    BY <1>1, <2>2 DEF GotAnswered
  <2>5. Quiet(backendSock)'
    BY <1>1, <2>3 DEF Quiet
  <2>6. \A o \in Threads \ {t} : Idle(o)'
    <3>1. todo \in [Threads -> Seq(AllCalls)]
      BY DEF Types, ThreadTypes
    <3> QED
      BY <1>4, <2>1, <3>1 DEF Idle
  <2>7. AtMostOne'
    BY <2>6 DEF AtMostOne
  <2>8. Clean' /\ OwnOption' /\ OwnGot'
    BY <2>4, <2>5 DEF Clean, OwnOption, OwnGot
  <2> QED
    BY <2>7, <2>8 DEF Alone
<1> QED
  BY <1>1, <1>3, <1>4

\* Every step keeps a thread alone.
LEMMA AloneNext ==
  ASSUME Types, Control, ClosedEmpty, GotAnswered, Alone, Next
  PROVE  ClosedEmpty' /\ GotAnswered' /\ Alone'
BY RequestAlone, QuietAlone, ReadAddressAlone, ReadWelcomeAlone, WriteAlone, EnterReadAlone, ReadAlone,
   ServeAlone, DieAlone, MasterAlone DEF Next, Step

-----------------------------------------------------------------------------
(* The invariant.                                                          *)

\* It holds initially.
LEMMA FrontInit == Init => FrontInv
<1> SUFFICES ASSUME Init PROVE FrontInv
  OBVIOUS
<1>1. Types
  BY TypesInit
<1>2. \A t \in Threads : todo[t] = <<>> /\ pc[t] = "next" /\ got[t] = Nothing
  BY DEF Init
<1>3. Chained(<<>>)
  <2>1. \A i \in 2 .. Len(<<>>) : FALSE
    <3>1. Len(<<>>) = 0
      OBVIOUS
    <3> QED
      BY <3>1
  <2> QED
    BY <2>1 DEF Chained
<1>4. Control
  BY <1>2, <1>3 DEF Control, Placed, Guarded, Dialogue, Sent
<1>5. conns = <<>> /\ Len(conns) = 0 /\ masterIn = <<>> /\ masterOut = <<>> /\ Len(masterOut) = 0
      /\ backendSock = 0 /\ introduced = FALSE
  BY DEF Init
<1>6. Relay
  BY <1>2, <1>5 DEF Relay, OneDialogue, AtRest, AddressesLive, Connected
<1>7. ClosedEmpty /\ GotAnswered
  BY <1>2, <1>5 DEF ClosedEmpty, GotAnswered
<1>8. Alone
  BY <1>2, <1>5 DEF Alone, AtMostOne, Idle, Clean, Quiet, OwnOption, OwnGot
<1> QED
  BY <1>1, <1>4, <1>6, <1>7, <1>8 DEF FrontInv

\* Every step keeps it.
LEMMA FrontNext == FrontInv /\ [Next]_vars => FrontInv'
<1> SUFFICES ASSUME FrontInv, [Next]_vars PROVE FrontInv'
  OBVIOUS
<1>1. CASE Next
  BY <1>1, TypesNext, RelayNext, AloneNext DEF FrontInv
<1>2. CASE UNCHANGED vars
  <2>1. UNCHANGED <<backendSock, mutex_sock, conns, masterIn, masterOut, introduced, up, alive, mOpt,
                    todo, pc, fd, got, overlap, sessionVars>>
    BY <1>2 DEF vars, relayVars, masterVars, netVars, threadVars, browserVars
  <2>2. Types'
    <3>1. RelayTypes'
      BY <2>1 DEF FrontInv, Types, RelayTypes
    <3>2. ThreadTypes'
      BY <2>1 DEF FrontInv, Types, ThreadTypes
    <3>3. SessionTypes'
      BY <2>1, KeepSessions DEF FrontInv, Types, sessionVars
    <3> QED
      BY <3>1, <3>2, <3>3 DEF Types
  <2>3. Control'
    BY <2>1 DEF FrontInv, Control
  <2>4. SameEnds
    BY <2>1, ConnSame DEF FrontInv, Types, RelayTypes
  <2>5. Relay'
    BY <2>1, <2>4, RelayStill DEF FrontInv
  <2>6. ClosedEmpty'
    BY <2>1 DEF FrontInv, ClosedEmpty
  <2>7. ~overlap /\ alive => Clean'
    BY <2>1 DEF FrontInv, Alone, Clean, Quiet, Pending, Own, Current
  <2>8. GotAnswered' /\ Alone'
    BY <2>1, <2>7, ServersStep DEF FrontInv
  <2> QED
    BY <2>2, <2>3, <2>5, <2>6, <2>8 DEF FrontInv
<1> QED
  BY <1>1, <1>2

\* It always holds.
LEMMA FrontAlways == Spec => []FrontInv
BY FrontInit, FrontNext, PTL DEF Spec

\* Every step of setNewBackendSock is one of the thread that holds mutex_sock,
\* the sessions and the connection of the relay exist, and the option is one of
\* the mail service's.
THEOREM TypeCorrect == Spec => []TypeOK
<1>1. FrontInv => TypeOK
  <2> SUFFICES ASSUME FrontInv PROVE TypeOK
    OBVIOUS
  <2>1. backendSock \in 0 .. Len(conns) /\ mutex_sock \in 0 .. num_threads /\ mOpt \in MailOps
    BY DEF FrontInv, Types, RelayTypes, Ids
  <2>2. ASSUME NEW t \in Threads
        PROVE  /\ pc[t] \in {"next", "reconnect", "name", "address", "welcome", "release", "switch"} \union Sent
               /\ username[t] \in Users \union {NoUser}
               /\ cookieValue[t] \in 0 .. Len(cookie2Browser)
               /\ pc[t] \in {"name", "address", "welcome", "release"} => mutex_sock = t
    <3>1. pc[t] \in Places
      BY DEF FrontInv, Types, ThreadTypes
    <3>2. SessionTypes
      BY DEF FrontInv, Types
    <3>3. username[t] \in Names /\ cookieValue[t] \in Nat /\ cookieValue[t] <= Len(cookie2Browser)
          /\ Len(cookie2Browser) \in Nat
      BY <3>2 DEF SessionTypes
    <3>4. pc[t] \in Dialogue => mutex_sock = t
      BY DEF FrontInv, Control, Guarded
    <3> QED
      BY <3>1, <3>3, <3>4 DEF Places, Dialogue, Names
  <2>3. ASSUME NEW b \in Browsers PROVE jar[b] \in 0 .. Len(cookie2Browser)
    <3>1. SessionTypes
      BY DEF FrontInv, Types
    <3>2. jar[b] \in Nat /\ jar[b] <= Len(cookie2Browser) /\ Len(cookie2Browser) \in Nat
      BY <3>1 DEF SessionTypes
    <3> QED
      BY <3>2
  <2> QED
    BY <2>1, <2>2, <2>3 DEF TypeOK
<1> QED
  BY <1>1, FrontAlways, PTL

\* The master's answers are not mixed up by the threads, as long as the front
\* end lives: it ends when an address turns out to be that of a dead server,
\* which FreshAddress excludes.
THEOREM OwnAddressAlways == Spec => [](FreshAddress \/ alive => OwnAddress)
<1>1. FrontInv => (FreshAddress \/ alive => OwnAddress)
  BY DEF FrontInv, Relay, Connected, OwnAddress
<1> QED
  BY <1>1, FrontAlways, PTL

\* What a thread reads is the answer to what it wrote, whatever servers die,
\* unless two requests have overlapped.
THEOREM OwnAnswerAlways == Spec => []OwnAnswer
<1>1. FrontInv => OwnAnswer
  BY DEF FrontInv, Alone, OwnGot, Own, OwnAnswer
<1> QED
  BY <1>1, FrontAlways, PTL
===============================================================================
