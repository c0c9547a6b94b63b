----------------------------- MODULE LoadBalancer -----------------------------
(***************************************************************************)
(* The load balancer (loadbalancer.cc) and the part of the front ends it   *)
(* deals with: the accept loop (frontendserver.cc) and the control thread  *)
(* (singleconnservercontrol.cc).  The main thread of the load balancer     *)
(* asks every front end for its load and redirects a browser to the first  *)
(* one that is not full; one thread per front end answers its cookie       *)
(* requests.  cookie2Browser, latestCookie and webThreads have no lock,    *)
(* and a new thread reads its socket from the stack of the thread that     *)
(* made it.                                                                *)
(*                                                                         *)
(* Abstractions.  Two threads that use a container at once do not damage   *)
(* it.  What a front end answers to GETLOAD is read as one message.  A     *)
(* front end dies by DISABLE, which is a SIGTERM to itself.                *)
(***************************************************************************)
EXTENDS Integers, Sequences, FiniteSets, SequencesExt

CONSTANTS
  Frontends,     \* a sequence: the front ends in the order of the configuration
  Browsers,
  Users,
  MAX_WEB_CLNT,
  Habits,        \* which schedules and events may happen, see below
  MaxCookies     \* bound: cookies generated

\* "hasty": a connection may be accepted before the thread of the one before
\* has read its argument; "parallel": front ends ask for cookies at the same
\* time; "brief": a connection may end before its thread is noted;
\* "disable": front ends are disabled.
AllHabits == {"hasty", "parallel", "brief", "disable"}
F == ToSet(Frontends)
None == "none"

ASSUME LoadBalancerAssumption ==
  /\ MAX_WEB_CLNT \in Nat \ {0} /\ MaxCookies \in Nat
  /\ Habits \subseteq AllHabits
  /\ None \notin F \union Browsers \union Users

VARIABLES
  mpc, client,                  \* the main thread, and the browser it serves
  fe_ctrlSocks, fe_fwdAddrs,    \* by the front end they belong to
  loads, updatedSocks, updatedAddrs, z, \* locals of the main loop
  args,                         \* the front end whose socket is on the main thread's stack
  clntSock,                     \* clntSock[f]: the socket the thread made for f reads
  cpc, reg, cmd,                \* the cookie threads: place, latestCookie loaded, command
  latestCookie, cookie2Browser,
  asked, answer,                \* what the relay of a front end has written, what it has read
  issued,                       \* the cookies handed out: <<cookie, user>>
  erased,                       \* the cookies deleted
  at,                           \* at[b]: where a browser is: away, queued, sent to f, or a thread of f
  dead,                         \* front ends disabled
  webThreads,                   \* webThreads[f]: the threads noted
  noting                        \* noting[f]: the thread made and not yet noted

mainVars == <<mpc, client, fe_ctrlSocks, fe_fwdAddrs, loads, updatedSocks, updatedAddrs, z>>
cookieVars == <<args, clntSock, cpc, reg, cmd, latestCookie, cookie2Browser, asked, answer, issued, erased>>
feVars == <<at, dead, webThreads, noting>>
vars == <<mainVars, cookieVars, feVars>>

Place(kind, f) == [kind |-> kind, fe |-> f]
Away == Place("away", None)
NoCmd == [op |-> "none", cookie |-> 0, user |-> None]

\* main after readConfig_lb: the control connections are open.
Init ==
  /\ mpc = "poll" /\ client = None
  /\ fe_ctrlSocks = Frontends /\ fe_fwdAddrs = Frontends
  /\ loads = <<>> /\ updatedSocks = <<>> /\ updatedAddrs = <<>> /\ z = 1
  /\ args = None
  /\ clntSock = [f \in F |-> None]
  /\ cpc = [f \in F |-> "none"]
  /\ reg = [f \in F |-> 0]
  /\ cmd = [f \in F |-> NoCmd]
  /\ latestCookie = 0
  /\ cookie2Browser = <<>>
  /\ asked = [f \in F |-> NoCmd]
  /\ answer = [f \in F |-> NoCmd]
  /\ issued = <<>> /\ erased = {}
  /\ at = [b \in Browsers |-> Away]
  /\ dead = {}
  /\ webThreads = [f \in F |-> {}]
  /\ noting = [f \in F |-> None]

-----------------------------------------------------------------------------
(* The main loop: browsers.                                                *)

Live(f) == f \notin dead

Connect(b) ==
  /\ at[b] = Away /\ mpc # "exited"
  /\ at' = [at EXCEPT ![b] = Place("queued", None)]
  /\ UNCHANGED <<mainVars, cookieVars, dead, webThreads, noting>>

\* poll, accept and the read of the request, which the browser sends at once.
AcceptWeb(b) ==
  /\ mpc = "poll" /\ at[b].kind = "queued"
  /\ mpc' = "load" /\ client' = b
  /\ UNCHANGED <<fe_ctrlSocks, fe_fwdAddrs, loads, updatedSocks, updatedAddrs, z, cookieVars, feVars>>

\* Mutant: the addresses are matched without regard to the dead.
GetLoadShifted ==
  /\ mpc = "load" /\ z <= Len(fe_ctrlSocks)
  /\ LET f == fe_ctrlSocks[z] IN
       /\ loads' = IF Live(f) THEN Append(loads, Cardinality(webThreads[f])) ELSE loads
       /\ updatedSocks' = IF Live(f) THEN Append(updatedSocks, f) ELSE updatedSocks
       /\ updatedAddrs' = IF Live(f) THEN Append(updatedAddrs, fe_fwdAddrs[Len(updatedSocks) + 1]) ELSE updatedAddrs
  /\ z' = z + 1
  /\ UNCHANGED <<mpc, client, fe_ctrlSocks, fe_fwdAddrs, cookieVars, feVars>>

\* Mutant: the main thread waits for the answer of a dead front end.
GetLoadOfLiving ==
  /\ mpc = "load" /\ z <= Len(fe_ctrlSocks) /\ Live(fe_ctrlSocks[z])
  /\ LET f == fe_ctrlSocks[z] IN
       /\ loads' = Append(loads, Cardinality(webThreads[f]))
       /\ updatedSocks' = Append(updatedSocks, f)
       /\ updatedAddrs' = Append(updatedAddrs, fe_fwdAddrs[z])
  /\ z' = z + 1
  /\ UNCHANGED <<mpc, client, fe_ctrlSocks, fe_fwdAddrs, cookieVars, feVars>>

\* GETLOAD: no answer drops the front end.
GetLoad ==
  /\ mpc = "load" /\ z <= Len(fe_ctrlSocks)
  /\ LET f == fe_ctrlSocks[z] IN
       /\ loads' = IF Live(f) THEN Append(loads, Cardinality(webThreads[f])) ELSE loads
       /\ updatedSocks' = IF Live(f) THEN Append(updatedSocks, f) ELSE updatedSocks
       /\ updatedAddrs' = IF Live(f) THEN Append(updatedAddrs, fe_fwdAddrs[z]) ELSE updatedAddrs
  /\ z' = z + 1
  /\ UNCHANGED <<mpc, client, fe_ctrlSocks, fe_fwdAddrs, cookieVars, feVars>>

Free == {i \in DOMAIN loads : loads[i] < MAX_WEB_CLNT}
getFirstFreeServer == updatedAddrs[CHOOSE i \in Free : \A j \in Free : i <= j]

\* getFirstFreeServer exits when all are full.
Redirect ==
  /\ mpc = "load" /\ z > Len(fe_ctrlSocks)
  /\ fe_ctrlSocks' = updatedSocks /\ fe_fwdAddrs' = updatedAddrs
  /\ IF Free = {}
       THEN mpc' = "exited" /\ UNCHANGED <<client, at>>
       ELSE /\ mpc' = "poll" /\ client' = None
            /\ at' = [at EXCEPT ![client] = Place("sent", getFirstFreeServer)]
  /\ loads' = <<>> /\ updatedSocks' = <<>> /\ updatedAddrs' = <<>> /\ z' = 1
  /\ UNCHANGED <<cookieVars, dead, webThreads, noting>>

-----------------------------------------------------------------------------
(* A front end: main, webThreadFunc, and the control thread's DISABLE.     *)

AcceptClient(f, b) ==
  /\ Live(f) /\ noting[f] = None /\ at[b] = Place("sent", f)
  /\ Cardinality(webThreads[f]) <= MAX_WEB_CLNT
  /\ at' = [at EXCEPT ![b] = Place("thread", f)]
  /\ noting' = [noting EXCEPT ![f] = b]
  /\ UNCHANGED <<mainVars, cookieVars, dead, webThreads>>

\* webThreads.insert, after the thread has been made.
Note(f) ==
  /\ Live(f) /\ noting[f] # None
  /\ webThreads' = [webThreads EXCEPT ![f] = @ \union {noting[f]}]
  /\ noting' = [noting EXCEPT ![f] = None]
  /\ UNCHANGED <<mainVars, cookieVars, at, dead>>

\* The browser leaves and the thread erases itself.
Leave(f, b) ==
  /\ Live(f) /\ at[b] = Place("thread", f)
  /\ "brief" \in Habits \/ noting[f] # b
  /\ at' = [at EXCEPT ![b] = Away]
  /\ webThreads' = [webThreads EXCEPT ![f] = @ \ {b}]
  /\ UNCHANGED <<mainVars, cookieVars, dead, noting>>

\* The browsers of a front end that dies start again at the load balancer.
Disable(f) ==
  /\ "disable" \in Habits /\ Live(f) /\ Cardinality(F \ dead) > 1
  /\ dead' = dead \union {f}
  /\ at' = [b \in Browsers |-> IF at[b] = Place("thread", f) THEN Away ELSE at[b]]
  /\ UNCHANGED <<mainVars, cookieVars, webThreads, noting>>

\* A redirect to a dead front end fails in the browser.
Refused(b) ==
  /\ at[b].kind = "sent" /\ ~Live(at[b].fe)
  /\ at' = [at EXCEPT ![b] = Away]
  /\ UNCHANGED <<mainVars, cookieVars, dead, webThreads, noting>>

-----------------------------------------------------------------------------
(* Cookies.                                                                *)

\* main accepts the cookie connection of f and makes a thread for it.
AcceptCookie(f) ==
  /\ mpc = "poll" /\ cpc[f] = "none" /\ MaxCookies > 0
  /\ "hasty" \in Habits \/ \A o \in F : cpc[o] # "start"
  /\ args' = f
  /\ cpc' = [cpc EXCEPT ![f] = "start"]
  /\ UNCHANGED <<mainVars, clntSock, reg, cmd, latestCookie, cookie2Browser, asked, answer, issued, erased, feVars>>

\* The new thread reads its argument.
Start(f) ==
  /\ cpc[f] = "start"
  /\ clntSock' = [clntSock EXCEPT ![f] = args]
  /\ cpc' = [cpc EXCEPT ![f] = "read"]
  /\ UNCHANGED <<mainVars, args, reg, cmd, latestCookie, cookie2Browser, asked, answer, issued, erased, feVars>>

\* A front end's relay asks; it holds its mutex until the answer.
Request(f, c) ==
  /\ asked[f] = NoCmd /\ cpc[f] # "none"
  /\ c.op = "GEN" => latestCookie < MaxCookies
  /\ "parallel" \in Habits \/ \A o \in F : asked[o] = NoCmd
  /\ asked' = [asked EXCEPT ![f] = c]
  /\ answer' = [answer EXCEPT ![f] = NoCmd]
  /\ UNCHANGED <<mainVars, args, clntSock, cpc, reg, cmd, latestCookie, cookie2Browser, issued, erased, feVars>>

readClient(f) ==
  /\ cpc[f] = "read" /\ clntSock[f] # None
  /\ asked[clntSock[f]] # NoCmd /\ \A o \in F \ {f} : cmd[o] # asked[clntSock[f]] \/ clntSock[o] # clntSock[f]
  /\ cmd' = [cmd EXCEPT ![f] = asked[clntSock[f]]]
  /\ cpc' = [cpc EXCEPT ![f] = IF asked[clntSock[f]].op = "GEN" THEN "load" ELSE "do"]
  /\ UNCHANGED <<mainVars, args, clntSock, reg, latestCookie, cookie2Browser, asked, answer, issued, erased, feVars>>

\* ++latestCookie, a load and a store.
Load(f) ==
  /\ cpc[f] = "load"
  /\ reg' = [reg EXCEPT ![f] = latestCookie]
  /\ cpc' = [cpc EXCEPT ![f] = "store"]
  /\ UNCHANGED <<mainVars, args, clntSock, cmd, latestCookie, cookie2Browser, asked, answer, issued, erased, feVars>>

Store(f) ==
  /\ cpc[f] = "store"
  /\ latestCookie' = reg[f] + 1
  /\ cpc' = [cpc EXCEPT ![f] = "insert"]
  /\ UNCHANGED <<mainVars, args, clntSock, reg, cmd, cookie2Browser, asked, answer, issued, erased, feVars>>

\* operator[] is given a reference to latestCookie.
Insert(f) ==
  /\ cpc[f] = "insert"
  /\ cookie2Browser' = [c \in DOMAIN cookie2Browser \union {latestCookie} |->
                          IF c = latestCookie THEN cmd[f].user ELSE cookie2Browser[c]]
  /\ cpc' = [cpc EXCEPT ![f] = "answer"]
  /\ UNCHANGED <<mainVars, args, clntSock, reg, cmd, latestCookie, asked, answer, issued, erased, feVars>>

Reply(f, a) ==
  /\ answer' = [answer EXCEPT ![clntSock[f]] = a]
  /\ asked' = [asked EXCEPT ![clntSock[f]] = NoCmd]
  /\ cmd' = [cmd EXCEPT ![f] = NoCmd]
  /\ cpc' = [cpc EXCEPT ![f] = "read"]

\* to_string(latestCookie), written to the front end.
AnswerGen(f) ==
  /\ cpc[f] = "answer"
  /\ Reply(f, [cmd[f] EXCEPT !.cookie = latestCookie])
  /\ issued' = Append(issued, <<latestCookie, cmd[f].user>>)
  /\ UNCHANGED <<mainVars, args, clntSock, reg, latestCookie, cookie2Browser, erased, feVars>>

\* Mutant: an unknown cookie is not answered.
FetchKnown(f) ==
  /\ cpc[f] = "do" /\ cmd[f].op = "FETCH" /\ cmd[f].cookie \in DOMAIN cookie2Browser
  /\ Reply(f, [cmd[f] EXCEPT !.user = cookie2Browser[cmd[f].cookie]])
  /\ UNCHANGED <<mainVars, args, clntSock, reg, latestCookie, cookie2Browser, issued, erased, feVars>>

Fetch(f) ==
  /\ cpc[f] = "do" /\ cmd[f].op = "FETCH"
  /\ LET c == cmd[f].cookie IN
       Reply(f, [cmd[f] EXCEPT !.user = IF c \in DOMAIN cookie2Browser THEN cookie2Browser[c] ELSE None])
  /\ UNCHANGED <<mainVars, args, clntSock, reg, latestCookie, cookie2Browser, issued, erased, feVars>>

\* Mutant: the newest cookie is erased.
DelLatest(f) ==
  /\ cpc[f] = "do" /\ cmd[f].op = "DEL"
  /\ cookie2Browser' = [c \in DOMAIN cookie2Browser \ {latestCookie} |-> cookie2Browser[c]]
  /\ erased' = erased \union {cmd[f].cookie}
  /\ Reply(f, cmd[f])
  /\ UNCHANGED <<mainVars, args, clntSock, reg, latestCookie, issued, feVars>>

Del(f) ==
  /\ cpc[f] = "do" /\ cmd[f].op = "DEL"
  /\ cookie2Browser' = [c \in DOMAIN cookie2Browser \ {cmd[f].cookie} |-> cookie2Browser[c]]
  /\ erased' = erased \union {cmd[f].cookie}
  /\ Reply(f, cmd[f])
  /\ UNCHANGED <<mainVars, args, clntSock, reg, latestCookie, issued, feVars>>

\* Front ends fetch and delete cookies that were handed out.
Commands ==
  {[op |-> "GEN", cookie |-> 0, user |-> u] : u \in Users} \union
  {[op |-> o, cookie |-> issued[i][1], user |-> None] : o \in {"FETCH", "DEL"}, i \in DOMAIN issued}

CookieThread(f) == readClient(f) \/ Load(f) \/ Store(f) \/ Insert(f) \/ AnswerGen(f) \/ Fetch(f) \/ Del(f)

Next ==
  \/ \E b \in Browsers : Connect(b) \/ AcceptWeb(b) \/ Refused(b)
  \/ GetLoad \/ Redirect
  \/ \E f \in F : Note(f) \/ Disable(f) \/ \E b \in Browsers : AcceptClient(f, b) \/ Leave(f, b)
  \/ \E f \in F : AcceptCookie(f) \/ Start(f) \/ CookieThread(f) \/ \E c \in Commands : Request(f, c)

\* The threads of both processes run; browsers and users owe nothing.
Fairness ==
  /\ \A b \in Browsers : SF_vars(AcceptWeb(b))
  /\ WF_vars(GetLoad \/ Redirect)
  /\ \A f \in F : WF_vars(Note(f)) /\ WF_vars(Start(f)) /\ WF_vars(CookieThread(f))

Spec == Init /\ [][Next]_vars /\ Fairness

-----------------------------------------------------------------------------
(* Properties.                                                             *)

\* Type invariant: the vectors that are used by one index have one length, and
\* there is a load for each front end that answered (loadbalancer.cc:250-270).
TypeOK ==
  /\ mpc \in {"poll", "load", "exited"} /\ client \in Browsers \union {None}
  /\ Len(fe_ctrlSocks) = Len(fe_fwdAddrs)
  /\ Len(loads) = Len(updatedSocks) /\ Len(loads) < z
  /\ latestCookie \in 0 .. MaxCookies /\ DOMAIN cookie2Browser \subseteq 1 .. MaxCookies
  /\ \A f \in F : clntSock[f] \in F \union {None} /\ webThreads[f] \subseteq Browsers
  /\ \A b \in Browsers : at[b].kind \in {"away", "queued", "sent", "thread"}

\* The three vectors that the main loop keeps by position stay aligned when
\* front ends die: a control socket and the address a browser is sent to are
\* those of one front end, and the load compared with the limit is its own.
Aligned ==
  /\ fe_ctrlSocks = fe_fwdAddrs
  /\ updatedSocks = updatedAddrs

\* A browser that asks is redirected, unless all front ends are full.
BrowserRedirected ==
  \A b \in Browsers : (at[b].kind = "queued") ~> (at[b].kind # "queued" \/ mpc = "exited")

\* A cookie stands for the user it was generated for until it is deleted.
CookieIsUser ==
  \A i \in DOMAIN issued :
    LET c == issued[i][1] IN
      IF c \in erased THEN c \notin DOMAIN cookie2Browser
      ELSE c \in DOMAIN cookie2Browser /\ cookie2Browser[c] = issued[i][2]

\* Every cookie request is answered, so that no front end keeps its relay
\* locked for ever.
CookieAnswered == \A f \in F : (asked[f] # NoCmd) ~> (asked[f] = NoCmd)

-----------------------------------------------------------------------------
(* Not among the runs: what the source says of the program and the code    *)
(* does not keep; README.md, "Departures", has the setting for each.       *)

\* "get LOAD for each fes": what a front end counts are its web threads.
LoadIsReal ==
  \A f \in F : Live(f) => webThreads[f] = {b \in Browsers : at[b] = Place("thread", f) /\ noting[f] # b}

\* "Generate a cookie for a new browser": no two logins get one cookie.
OwnCookie == \A i, j \in DOMAIN issued : i # j => issued[i][1] # issued[j][1]
=============================================================================
