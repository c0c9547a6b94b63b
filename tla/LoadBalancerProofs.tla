-------------------------- MODULE LoadBalancerProofs --------------------------
(***************************************************************************)
(* Proofs about LoadBalancer, for any front ends, browsers, users and      *)
(* limits.                                                                 *)
(*                                                                         *)
(* The argument for cookies.  Where front ends ask one after another, at   *)
(* most one thread is at work (CommandAsked), even if it reads the socket  *)
(* of another, and latestCookie is above every cookie that was handed out  *)
(* while it inserts (Fresh).                                               *)
(***************************************************************************)
EXTENDS LoadBalancer, TLAPS

USE LoadBalancerAssumption

\* The vectors of the main loop stay aligned, for any number of front ends
\* that die in any order (GETLOAD in the loop of loadbalancer.cc).
THEOREM AlignedAlways == Spec => []Aligned
<1>1. Init => Aligned
  BY DEF Init, Aligned
<1>2. Aligned /\ [Next]_vars => Aligned'
  <2> SUFFICES ASSUME Aligned, [Next]_vars PROVE Aligned'
    OBVIOUS
  <2>1. CASE GetLoad
    BY <2>1 DEF GetLoad, Aligned
  <2>2. CASE Redirect
    BY <2>2 DEF Redirect, Aligned
  <2>3. CASE UNCHANGED <<fe_ctrlSocks, fe_fwdAddrs, updatedSocks, updatedAddrs>>
    BY <2>3 DEF Aligned
  <2> QED
    BY <2>1, <2>2, <2>3
       DEF Next, Connect, AcceptWeb, Refused, Note, Disable, AcceptClient, Leave, AcceptCookie, Start,
           CookieThread, readClient, Load, Store, Insert, AnswerGen, Fetch, Del, Request, vars, mainVars
<1> QED
  BY <1>1, <1>2, PTL DEF Spec

-----------------------------------------------------------------------------
(* Cookies.                                                                *)

Cookies == {issued[i][1] : i \in DOMAIN issued}

CommandType == [op : {"none", "GEN", "FETCH", "DEL"}, cookie : Nat, user : Users \union {None}]

\* The types the argument needs.
CookieTypes ==
  /\ cpc \in [F -> {"none", "start", "read", "load", "store", "insert", "answer", "do"}]
  /\ args \in F \union {None} /\ clntSock \in [F -> F \union {None}]
  /\ reg \in [F -> Nat]
  /\ cmd \in [F -> CommandType] /\ asked \in [F -> CommandType]
  /\ latestCookie \in Nat
  /\ issued \in Seq(Nat \X (Users \union {None}))

Generating(f) == cpc[f] \in {"load", "store", "insert", "answer"}
Busy(f) == Generating(f) \/ cpc[f] = "do"

\* At most one front end asks, and at most one thread is at work, on what was
\* asked at the socket it reads.
CommandAsked ==
  /\ \A f, g \in F : asked[f] # NoCmd /\ asked[g] # NoCmd => f = g
  /\ \A f, g \in F : Busy(f) /\ Busy(g) => f = g
  /\ \A f \in F : Busy(f) => /\ clntSock[f] \in F /\ asked[clntSock[f]] # NoCmd
                            /\ cmd[f] = asked[clntSock[f]]
  /\ \A f \in F : asked[f].op = "DEL" => asked[f].cookie \in Cookies

\* latestCookie is new when it is inserted, and inserted when it is answered.
Fresh ==
  /\ \A c \in Cookies : c <= latestCookie
  /\ erased \subseteq Cookies
  /\ \A f \in F :
       /\ cpc[f] = "store" => reg[f] = latestCookie
       /\ cpc[f] \in {"insert", "answer"} => latestCookie \notin Cookies
       /\ cpc[f] = "answer" => /\ latestCookie \in DOMAIN cookie2Browser
                               /\ cookie2Browser[latestCookie] = cmd[f].user

\* The inductive invariant.
CookieInv == CookieTypes /\ CommandAsked /\ Fresh /\ CookieIsUser

\* It holds when no cookie has been asked for.
LEMMA InitCookieInv == Init => CookieInv
<1> SUFFICES ASSUME Init PROVE CookieInv
  OBVIOUS
<1>1. NoCmd \in CommandType
  BY DEF NoCmd, CommandType
<1>2. CookieTypes
  BY <1>1 DEF Init, CookieTypes
<1>3. CommandAsked
  BY DEF Init, CommandAsked, Busy, Generating, NoCmd
<1>4. Fresh /\ CookieIsUser
  BY DEF Init, Fresh, Cookies, CookieIsUser
<1> QED
  BY <1>2, <1>3, <1>4 DEF CookieInv

\* The cookies after one more is handed out.
LEMMA CookiesAppend ==
  ASSUME CookieTypes, NEW e \in Nat \X (Users \union {None}), issued' = Append(issued, e)
  PROVE  /\ issued' \in Seq(Nat \X (Users \union {None}))
         /\ Cookies' = Cookies \union {e[1]}
         /\ \A i \in DOMAIN issued' : (i \in DOMAIN issued /\ issued'[i] = issued[i]) \/ issued'[i] = e
<1>1. /\ issued' \in Seq(Nat \X (Users \union {None}))
      /\ DOMAIN issued' = DOMAIN issued \union {Len(issued) + 1}
      /\ issued'[Len(issued) + 1] = e
      /\ \A i \in DOMAIN issued : issued'[i] = issued[i]
  BY DEF CookieTypes
<1> QED
  BY <1>1 DEF Cookies

\* A thread is made, and reads the socket that its argument names by then.
LEMMA ThreadStep ==
  ASSUME CookieInv, NEW f \in F, AcceptCookie(f) \/ Start(f)
  PROVE  CookieInv'
<1> USE DEF CookieInv, CookieTypes
<1>1. UNCHANGED <<reg, cmd, latestCookie, cookie2Browser, asked, issued, erased>>
  BY DEF AcceptCookie, Start
<1>2. /\ args' \in F \union {None} /\ clntSock' \in [F -> F \union {None}]
      /\ cpc' \in [F -> {"none", "start", "read", "load", "store", "insert", "answer", "do"}]
      /\ cpc'[f] \in {"start", "read"}
      /\ \A g \in F \ {f} : cpc'[g] = cpc[g] /\ clntSock'[g] = clntSock[g]
  BY DEF AcceptCookie, Start
<1>3. CommandAsked'
  <2>1. \A g \in F : Busy(g)' => Busy(g) /\ clntSock'[g] = clntSock[g]
    BY <1>2 DEF Busy, Generating
  <2> QED
    BY <1>1, <2>1 DEF CommandAsked, Cookies
<1> QED
  BY <1>1, <1>2, <1>3 DEF Fresh, Cookies, CookieIsUser

\* A front end asks when no other does.
LEMMA RequestStep ==
  ASSUME CookieInv, "parallel" \notin Habits, NEW f \in F, NEW c \in Commands, Request(f, c)
  PROVE  CookieInv'
<1> USE DEF CookieInv, CookieTypes
<1>1. /\ UNCHANGED <<args, clntSock, cpc, reg, cmd, latestCookie, cookie2Browser, issued, erased>>
      /\ \A o \in F : asked[o] = NoCmd
      /\ asked' = [asked EXCEPT ![f] = c]
  BY DEF Request
<1>2. \A i \in DOMAIN issued : issued[i][1] \in Nat /\ issued[i][1] \in Cookies
  BY DEF Cookies
<1>3. c \in CommandType /\ (c.op = "DEL" => c.cookie \in Cookies)
  BY <1>2 DEF Commands, CommandType
<1>4. \A g \in F : ~Busy(g)
  BY <1>1 DEF CommandAsked
<1>5. CommandAsked'
  BY <1>1, <1>3, <1>4 DEF CommandAsked, Busy, Generating, Cookies, NoCmd
<1> QED
  BY <1>1, <1>3, <1>5 DEF Fresh, Cookies, CookieIsUser

\* A thread that generates a cookie works on it alone.
LEMMA GenerateStep ==
  ASSUME CookieInv, NEW f \in F, readClient(f) \/ Load(f) \/ Store(f) \/ Insert(f)
  PROVE  CookieInv'
<1> USE DEF CookieInv, CookieTypes
<1>1. UNCHANGED <<args, clntSock, asked, issued, erased>>
  BY DEF readClient, Load, Store, Insert
<1>2. Cookies' = Cookies
  BY <1>1 DEF Cookies
<1>3. \A g \in F : g # f /\ Busy(f) => ~Busy(g)
  BY DEF CommandAsked
<1>4. CASE readClient(f)
  <2> DEFINE s == clntSock[f]
  <2>1. /\ cpc[f] = "read" /\ s \in F /\ asked[s] # NoCmd
        /\ \A o \in F \ {f} : cmd[o] # asked[s] \/ clntSock[o] # s
        /\ cmd' = [cmd EXCEPT ![f] = asked[s]]
        /\ cpc' = [cpc EXCEPT ![f] = IF asked[s].op = "GEN" THEN "load" ELSE "do"]
        /\ UNCHANGED <<reg, latestCookie, cookie2Browser>>
    BY <1>4 DEF readClient
  <2>2. \A g \in F : ~Busy(g)
    BY <2>1 DEF CommandAsked, Busy, Generating
  <2>3. CommandAsked'
    BY <1>1, <1>2, <2>1, <2>2 DEF CommandAsked, Busy, Generating
  <2> QED
    BY <1>1, <1>2, <2>1, <2>2, <2>3 DEF Busy, Generating, Fresh, CookieIsUser
<1>5. CASE Load(f)
  <2>1. /\ cpc[f] = "load" /\ reg' = [reg EXCEPT ![f] = latestCookie]
        /\ cpc' = [cpc EXCEPT ![f] = "store"] /\ UNCHANGED <<cmd, latestCookie, cookie2Browser>>
    BY <1>5 DEF Load
  <2> QED
    BY <1>1, <1>2, <2>1 DEF CommandAsked, Busy, Generating, Fresh, CookieIsUser
<1>6. CASE Store(f)
  <2>1. /\ cpc[f] = "store" /\ latestCookie' = latestCookie + 1
        /\ cpc' = [cpc EXCEPT ![f] = "insert"] /\ UNCHANGED <<reg, cmd, cookie2Browser>>
    BY <1>6 DEF Store, Fresh
  <2>2. \A c \in Cookies : c \in Nat /\ c <= latestCookie
    BY DEF Fresh, Cookies
  <2>3. \A g \in F : g # f => cpc'[g] \notin {"store", "insert", "answer"}
    BY <1>3, <2>1 DEF Busy, Generating
  <2>4. Fresh'
    BY <1>1, <1>2, <2>1, <2>2, <2>3 DEF Fresh
  <2>5. CommandAsked'
    BY <1>1, <1>2, <2>1 DEF CommandAsked, Busy, Generating
  <2> QED
    BY <1>1, <2>1, <2>4, <2>5 DEF CookieIsUser
<1>7. CASE Insert(f)
  <2>1. /\ cpc[f] = "insert" /\ cpc' = [cpc EXCEPT ![f] = "answer"]
        /\ cookie2Browser' = [c \in DOMAIN cookie2Browser \union {latestCookie} |->
                                IF c = latestCookie THEN cmd[f].user ELSE cookie2Browser[c]]
        /\ UNCHANGED <<reg, cmd, latestCookie>>
    BY <1>7 DEF Insert
  <2>2. \A g \in F : g # f => cpc'[g] \notin {"store", "insert", "answer"}
    BY <1>3, <2>1 DEF Busy, Generating
  <2>3. latestCookie \notin Cookies
    BY <2>1 DEF Fresh
  <2>4. Fresh'
    BY <1>1, <1>2, <2>1, <2>2, <2>3 DEF Fresh
  <2>5. CommandAsked'
    BY <1>1, <1>2, <2>1 DEF CommandAsked, Busy, Generating
  <2>6. CookieIsUser'
    BY <1>1, <2>1, <2>3 DEF CookieIsUser, Cookies
  <2> QED
    BY <1>1, <2>1, <2>4, <2>5, <2>6
<1> QED
  BY <1>4, <1>5, <1>6, <1>7

\* The answer ends the work of a thread, and another front end may ask.
LEMMA AnswerStep ==
  ASSUME CookieInv, NEW f \in F, AnswerGen(f) \/ Fetch(f) \/ Del(f)
  PROVE  CookieInv'
<1> USE DEF CookieInv, CookieTypes
<1>1. Busy(f) /\ clntSock[f] \in F /\ cmd[f] = asked[clntSock[f]]
  BY DEF AnswerGen, Fetch, Del, Busy, Generating, CommandAsked
<1>2. /\ asked' = [asked EXCEPT ![clntSock[f]] = NoCmd] /\ cmd' = [cmd EXCEPT ![f] = NoCmd]
      /\ cpc' = [cpc EXCEPT ![f] = "read"]
      /\ UNCHANGED <<args, clntSock, reg, latestCookie>>
  BY <1>1 DEF AnswerGen, Fetch, Del, Reply
<1>3. \A g \in F : cpc'[g] \notin {"store", "insert", "answer"}
  BY <1>1, <1>2 DEF CommandAsked, Busy, Generating
<1>4. NoCmd \in CommandType /\ NoCmd.op # "DEL"
  BY DEF NoCmd, CommandType
<1>5. Cookies \subseteq Cookies'
  <2>1. CASE AnswerGen(f)
    <3>1. PICK e \in Nat \X (Users \union {None}) : e = <<latestCookie, cmd[f].user>>
      BY DEF CommandType
    <3>2. issued' = Append(issued, e)
      BY <2>1, <3>1 DEF AnswerGen
    <3>3. Cookies' = Cookies \union {e[1]}
      BY <3>2, CookiesAppend
    <3> QED
      BY <3>3
  <2> QED
    BY <2>1 DEF Fetch, Del, Cookies
<1>6. CommandAsked'
  <2>1. /\ cpc'[f] = "read" /\ \A g \in F \ {f} : ~Busy(g) /\ cpc'[g] = cpc[g]
        /\ \A g \in F : asked'[g] = NoCmd \/ asked'[g] = asked[g]
    BY <1>1, <1>2 DEF CommandAsked
  <2>2. \A g \in F : ~Busy(g)'
    BY <2>1 DEF Busy, Generating
  <2> QED
    BY <1>4, <1>5, <2>1, <2>2 DEF CommandAsked
<1>7. CASE AnswerGen(f)
  <2> DEFINE e == <<latestCookie, cmd[f].user>>
  <2>1. e \in Nat \X (Users \union {None})
    BY DEF CommandType
  <2>2. issued' = Append(issued, e) /\ UNCHANGED <<cookie2Browser, erased>>
    BY <1>7 DEF AnswerGen
  <2>3. /\ latestCookie \notin Cookies /\ latestCookie \in DOMAIN cookie2Browser
        /\ cookie2Browser[latestCookie] = cmd[f].user
    BY <1>7 DEF AnswerGen, Fresh
  <2>4. e[1] = latestCookie /\ e[2] = cmd[f].user
    OBVIOUS
  <2> HIDE DEF e
  <2>5. /\ issued' \in Seq(Nat \X (Users \union {None})) /\ Cookies' = Cookies \union {latestCookie}
        /\ \A i \in DOMAIN issued' : (i \in DOMAIN issued /\ issued'[i] = issued[i]) \/ issued'[i] = e
    BY <2>1, <2>2, <2>4, CookiesAppend
  <2>6. Fresh'
    BY <1>2, <1>3, <2>2, <2>5 DEF Fresh
  <2>7. CookieIsUser'
    BY <2>2, <2>3, <2>4, <2>5 DEF CookieIsUser, Fresh
  <2> QED
    BY <1>2, <1>4, <1>6, <2>5, <2>6, <2>7
<1>8. CASE Fetch(f)
  <2>1. UNCHANGED <<cookie2Browser, issued, erased>>
    BY <1>8 DEF Fetch
  <2>2. Fresh'
    BY <1>2, <1>3, <2>1 DEF Fresh, Cookies
  <2>3. CookieIsUser'
    BY <2>1 DEF CookieIsUser
  <2> QED
    BY <1>2, <1>4, <1>6, <2>1, <2>2, <2>3
<1>9. CASE Del(f)
  <2> DEFINE c == cmd[f].cookie
  <2>1. /\ cookie2Browser' = [k \in DOMAIN cookie2Browser \ {c} |-> cookie2Browser[k]]
        /\ erased' = erased \union {c} /\ issued' = issued
    BY <1>9 DEF Del
  <2>2. c \in Cookies
    BY <1>1, <1>9 DEF Del, CommandAsked
  <2>3. Fresh'
    BY <1>2, <1>3, <2>1, <2>2 DEF Fresh, Cookies
  <2>4. CookieIsUser'
    BY <2>1 DEF CookieIsUser
  <2> QED
    BY <1>2, <1>4, <1>6, <2>1, <2>3, <2>4
<1> QED
  BY <1>7, <1>8, <1>9

\* Where cookie requests come one at a time, a cookie stands for the user it
\* was generated for until it is deleted, even if threads read sockets that
\* are not theirs: for any number of front ends, users and cookies.
THEOREM CookieIsUserAlways ==
  ASSUME "parallel" \notin Habits
  PROVE  Spec => []CookieIsUser
<1>1. CookieInv /\ [Next]_vars => CookieInv'
  <2> SUFFICES ASSUME CookieInv, [Next]_vars PROVE CookieInv'
    OBVIOUS
  <2>1. CASE UNCHANGED cookieVars
    BY <2>1 DEF cookieVars, CookieInv, CookieTypes, CommandAsked, Busy, Generating, Fresh, Cookies,
                CookieIsUser
  <2>2. CASE \E f \in F : AcceptCookie(f) \/ Start(f) \/ CookieThread(f) \/ \E c \in Commands : Request(f, c)
    BY <2>2, ThreadStep, RequestStep, GenerateStep, AnswerStep DEF CookieThread
  <2> QED
    BY <2>1, <2>2 DEF Next, Connect, AcceptWeb, Refused, GetLoad, Redirect, Note, Disable, AcceptClient, Leave, vars
<1>2. CookieInv => CookieIsUser
  BY DEF CookieInv
<1> QED
  BY <1>1, <1>2, InitCookieInv, PTL DEF Spec
=============================================================================
