--------------------------- MODULE WebSessionProofs ---------------------------
(***************************************************************************)
(* Theorems about WebSession, for any number of tabs, requests, accounts   *)
(* and tokens.                                                             *)
(*                                                                         *)
(* They hold from IInv.  Good has the types, and says that tokens are      *)
(* handed out in order (so that Fresh is new) and that whatever the        *)
(* browser or a request holds has been handed out.  Flow is what keeps a   *)
(* refresh current: a session that nothing has interfered with (Calm) has  *)
(* at most one refresh in flight, which carries its current token or has   *)
(* received it, and FlowCookie says the same of the cookie.  Own ties      *)
(* cookie, token and requests of a tab to the user it shows, and needs     *)
(* PagesLoadOnce and QueuesAreServed for what a tab has under way.         *)
(***************************************************************************)
EXTENDS WebSession, FiniteSetTheorems, TLAPS

AccountOf(t) == issued[t].account
Served == {"booted", "renewed"}
Asking == {"boot", "refresh"}

-----------------------------------------------------------------------------
\* Tokens, and the sessions they are of, have been handed out in order.
Given(t) == t = Empty \/ (t \in used /\ SessionOf(t) \in used)

CurrentIsOne ==
  \A s \in Token : \A x \in current[s] :
     x \in used /\ s \in used /\ SessionOf(x) = s /\ current[s] = {x}

ServerOK ==
  /\ current \in [Token -> SUBSET Token]
  /\ used \in SUBSET Token
  /\ issued \in [Token -> [session : Token \union {Empty}, account : Account \union {None}]]
  /\ used = 1..Cardinality(used)
  /\ CurrentIsOne

GoodTab(m) ==
  /\ m \in TabState
  /\ Given(m.token)
  /\ m.page # "ready" => m.user = None

GoodOp(n) ==
  /\ n \in OpState
  /\ n.phase # "idle" => n.tab \in Tab
  /\ Given(n.presented) /\ Given(n.received)
  /\ IF n.phase \in Served
       THEN /\ n.presented # Empty /\ n.received # Empty
            /\ SessionOf(n.received) = SessionOf(n.presented)
            /\ AccountOf(n.received) = AccountOf(n.presented)
       ELSE n.received = Empty

Good ==
  /\ ServerOK
  /\ Given(cookie)
  /\ tab \in [Tab -> TabState] /\ \A t \in Tab : GoodTab(tab[t])
  /\ op \in [Op -> OpState] /\ \A o \in Op : GoodOp(op[o])
  /\ hurt \in SUBSET Token /\ strayed \in SUBSET Tab

\* A page that loads has one request, its refresh; one that is ready has others.
PagesLoadOnce ==
  \A t \in Tab :
    /\ tab[t].page = "closed" => OpsOf(t) = {}
    /\ \A o \in OpsOf(t) : op[o].phase \in Booting <=> tab[t].page = "loading"
    /\ \A o, p \in OpsOf(t) : tab[t].page = "loading" => o = p

Calm(s) == current[s] # {} /\ s \notin hurt
InFlight(o) == op[o].phase \in Asking \union Served /\ op[o].presented # Empty

Flow ==
  \A o \in Op : InFlight(o) /\ Calm(SessionOf(op[o].presented)) =>
    /\ op[o].phase \in Asking => IsCurrent(op[o].presented)
    /\ op[o].phase \in Served =>
         /\ IsCurrent(op[o].received)
         /\ \/ cookie \in {op[o].presented, Empty}
            \/ SessionOf(cookie) # SessionOf(op[o].presented)
    /\ \A p \in Op : InFlight(p) /\ SessionOf(op[p].presented) = SessionOf(op[o].presented) => o = p

FlowCookie ==
  cookie # Empty /\ Calm(SessionOf(cookie)) =>
    IsCurrent(cookie) \/ \E o \in Op : op[o].phase \in Served /\ op[o].presented = cookie

Own ==
  \A t \in Tab \ strayed : tab[t].user # None =>
    /\ tab[t].token # Empty /\ AccountOf(tab[t].token) = tab[t].user
    /\ cookie # Empty => AccountOf(cookie) = tab[t].user
    /\ \A o \in OpsOf(t) :
         /\ op[o].phase \in {"sent", "queued"} \union Refreshing => op[o].account = tab[t].user
         /\ At(o, "sent") => op[o].presented # Empty /\ AccountOf(op[o].presented) = tab[t].user
         /\ op[o].phase \in Refreshing /\ op[o].presented # Empty =>
              AccountOf(op[o].presented) = tab[t].user

IInv == Good /\ PagesLoadOnce /\ QueuesAreServed /\ Flow /\ FlowCookie /\ Own

-----------------------------------------------------------------------------
LEMMA EmptyIsNoToken == Empty \notin Token
BY DEF Empty, Token

LEMMA FreshIsNew ==
  ASSUME ServerOK
  PROVE  Fresh \notin used /\ used \union {Fresh} = 1..Cardinality(used \union {Fresh})
<1> DEFINE n == Cardinality(used)
<1>1. n \in Nat
  <2>1. IsFiniteSet(Token)
    BY MaxTokenAssumption, FS_Interval DEF Token
  <2> QED
    BY <2>1, FS_Subset, FS_CardinalityType DEF ServerOK
<1>2. Fresh = n + 1 /\ used = 1..n
  BY DEF Fresh, ServerOK
<1>3. Cardinality(1..(n + 1)) = n + 1
  BY <1>1, FS_Interval
<1> HIDE DEF n
<1>4. used \union {Fresh} = 1..(n + 1)
  BY <1>1, <1>2
<1>5. Fresh \notin used
  BY <1>1, <1>2
<1>6. used \union {Fresh} = 1..Cardinality(used \union {Fresh})
  BY <1>3, <1>4
<1> QED
  BY <1>5, <1>6

(***************************************************************************)
(* The steps of the server: what was handed out stays what it was.         *)
(***************************************************************************)
Keeps == \A x \in used : x \in used' /\ issued'[x] = issued[x]

LEMMA BeginStep ==
  ASSUME ServerOK, Fresh \in Token, NEW a \in Account \union {None},
         Server!Begin(Fresh), Issue(Fresh, a)
  PROVE  /\ ServerOK' /\ Keeps /\ used' = used \union {Fresh}
         /\ issued'[Fresh] = [session |-> Fresh, account |-> a]
         /\ current'[Fresh] = {Fresh} /\ \A s \in Token \ {Fresh} : current'[s] = current[s]
<1>1. /\ used' = used \union {Fresh} /\ current' = [current EXCEPT ![Fresh] = {Fresh}]
      /\ issued' = [issued EXCEPT ![Fresh] = [session |-> Fresh, account |-> a]]
  BY DEF Server!Begin, Issue
<1>2. Fresh \notin used /\ used' = 1..Cardinality(used')
  BY <1>1, FreshIsNew
<1>3. /\ current' \in [Token -> SUBSET Token] /\ used' \in SUBSET Token
      /\ issued' \in [Token -> [session : Token \union {Empty}, account : Account \union {None}]]
      /\ current'[Fresh] = {Fresh} /\ \A s \in Token \ {Fresh} : current'[s] = current[s]
      /\ issued'[Fresh] = [session |-> Fresh, account |-> a]
      /\ \A x \in Token \ {Fresh} : issued'[x] = issued[x]
  BY <1>1 DEF ServerOK
<1>4. Keeps
  BY <1>1, <1>2, <1>3 DEF Keeps, ServerOK
<1>5. CurrentIsOne'
  BY <1>1, <1>2, <1>3 DEF CurrentIsOne, ServerOK, SessionOf
<1> QED
  BY <1>1, <1>2, <1>3, <1>4, <1>5 DEF ServerOK

LEMMA RenewStep ==
  ASSUME ServerOK, Fresh \in Token, NEW s \in used, NEW a \in Account \union {None},
         Server!Renew(s, Fresh), Issue(s, a)
  PROVE  /\ ServerOK' /\ Keeps /\ used' = used \union {Fresh}
         /\ issued'[Fresh] = [session |-> s, account |-> a]
         /\ current'[s] = {Fresh} /\ \A r \in Token \ {s} : current'[r] = current[r]
<1>1. /\ used' = used \union {Fresh} /\ current' = [current EXCEPT ![s] = {Fresh}]
      /\ issued' = [issued EXCEPT ![Fresh] = [session |-> s, account |-> a]]
  BY DEF Server!Renew, Issue
<1>2. Fresh \notin used /\ used' = 1..Cardinality(used')
  BY <1>1, FreshIsNew
<1>3. /\ current' \in [Token -> SUBSET Token] /\ used' \in SUBSET Token
      /\ issued' \in [Token -> [session : Token \union {Empty}, account : Account \union {None}]]
      /\ current'[s] = {Fresh} /\ \A r \in Token \ {s} : current'[r] = current[r]
      /\ issued'[Fresh] = [session |-> s, account |-> a]
      /\ \A x \in Token \ {Fresh} : issued'[x] = issued[x]
  BY <1>1 DEF ServerOK
<1>4. Keeps
  BY <1>1, <1>2, <1>3 DEF Keeps, ServerOK
<1>5. CurrentIsOne'
  BY <1>1, <1>2, <1>3 DEF CurrentIsOne, ServerOK, SessionOf
<1> QED
  BY <1>1, <1>2, <1>3, <1>4, <1>5 DEF ServerOK

\* Nothing new is handed out, and sessions at most end.
Ebbs ==
  /\ UNCHANGED <<used, issued>>
  /\ current' \in [Token -> SUBSET Token]
  /\ \A s \in Token : current'[s] = current[s] \/ current'[s] = {}

LEMMA EndStep ==
  ASSUME ServerOK, NEW S, Server!End(S), UNCHANGED issued
  PROVE  Ebbs /\ \A s \in S \intersect Token : current'[s] = {}
BY DEF ServerOK, Server!End, Ebbs

LEMMA SameStep == ASSUME ServerOK, UNCHANGED server PROVE Ebbs
BY DEF ServerOK, Ebbs, server

LEMMA EbbStep == ASSUME ServerOK, Ebbs PROVE ServerOK' /\ Keeps
<1>1. Keeps
  BY DEF Ebbs, Keeps
<1>2. CurrentIsOne'
  BY DEF ServerOK, Ebbs, CurrentIsOne, SessionOf
<1> QED
  BY <1>1, <1>2 DEF ServerOK, Ebbs

LEMMA GivenStays == ASSUME Keeps, NEW t, Given(t) PROVE Given(t)'
BY DEF Keeps, Given, SessionOf

LEMMA TabStays == ASSUME Keeps, NEW m, GoodTab(m) PROVE GoodTab(m)'
BY GivenStays DEF GoodTab

LEMMA OpStays == ASSUME Keeps, NEW n, GoodOp(n) PROVE GoodOp(n)'
<1>1. Given(n.presented)' /\ Given(n.received)'
  BY GivenStays DEF GoodOp
<1>2. n.phase \in Served =>
        SessionOf(n.received)' = SessionOf(n.presented)' /\ AccountOf(n.received)' = AccountOf(n.presented)'
  BY DEF GoodOp, Given, Keeps, SessionOf, AccountOf
<1> QED
  BY <1>1, <1>2 DEF GoodOp

(***************************************************************************)
(* One request changes, or one tab.                                        *)
(***************************************************************************)
LEMMA OpMoves ==
  ASSUME Good, Keeps, NEW o \in Op, NEW n, GoodOp(n)', op' = [op EXCEPT ![o] = n]
  PROVE  /\ op' \in [Op -> OpState] /\ \A p \in Op : GoodOp(op[p])'
         /\ op'[o] = n /\ \A p \in Op \ {o} : op'[p] = op[p]
<1>1. n \in OpState
  BY DEF GoodOp
<1>2. /\ op' \in [Op -> OpState]
      /\ op'[o] = n /\ \A p \in Op \ {o} : op'[p] = op[p]
  BY <1>1 DEF Good
<1>3. ASSUME NEW p \in Op PROVE GoodOp(op[p])'
  <2>1. GoodOp(op[p])
    BY DEF Good
  <2>2. GoodOp(op[p]) => \E m \in OpState : m = op[p] /\ GoodOp(m)
    BY DEF Good
  <2> QED
    BY <1>2, <2>1, <2>2, OpStays
<1> QED
  BY <1>2, <1>3

LEMMA IdleIsGood == Idle \in OpState /\ GoodOp(Idle)' /\ GoodOp(Idle)
BY DEF GoodOp, Idle, OpState, Given, Empty, Served

LEMMA OpsEnd ==
  ASSUME Good, Keeps, NEW S \in SUBSET Op, op' = [p \in Op |-> IF p \in S THEN Idle ELSE op[p]]
  PROVE  /\ op' \in [Op -> OpState] /\ \A p \in Op : GoodOp(op[p])'
         /\ \A p \in S : op'[p] = Idle
         /\ \A p \in Op \ S : op'[p] = op[p]
<1>1. GoodOp(Idle)' /\ Idle \in OpState
  BY IdleIsGood
<1>2. /\ op' \in [Op -> OpState]
      /\ \A p \in S : op'[p] = Idle
      /\ \A p \in Op \ S : op'[p] = op[p]
  BY <1>1 DEF Good
<1>3. ASSUME NEW p \in Op PROVE GoodOp(op[p])'
  <2>1. GoodOp(op[p]) => \E m \in OpState : m = op[p] /\ GoodOp(m)
    BY DEF Good
  <2>2. GoodOp(op[p])
    BY DEF Good
  <2> QED
    BY <1>1, <1>2, <2>1, <2>2, OpStays
<1> QED
  BY <1>2, <1>3

LEMMA TabMoves ==
  ASSUME Good, Keeps, NEW t \in Tab, NEW m, GoodTab(m)', tab' = [tab EXCEPT ![t] = m]
  PROVE  /\ tab' \in [Tab -> TabState] /\ \A u \in Tab : GoodTab(tab[u])'
         /\ tab'[t] = m /\ \A u \in Tab \ {t} : tab'[u] = tab[u]
<1>1. m \in TabState
  BY DEF GoodTab
<1>2. /\ tab' \in [Tab -> TabState]
      /\ tab'[t] = m /\ \A u \in Tab \ {t} : tab'[u] = tab[u]
  BY <1>1 DEF Good
<1>3. ASSUME NEW u \in Tab PROVE GoodTab(tab[u])'
  <2>1. GoodTab(tab[u]) /\ \E k \in TabState : k = tab[u] /\ GoodTab(k)
    BY DEF Good
  <2> QED
    BY <1>2, <2>1, TabStays
<1> QED
  BY <1>2, <1>3

LEMMA TabsStay ==
  ASSUME Good, Keeps, UNCHANGED tab
  PROVE  tab' \in [Tab -> TabState] /\ \A u \in Tab : GoodTab(tab[u])'
<1>1. ASSUME NEW u \in Tab PROVE GoodTab(tab[u])'
  <2>1. GoodTab(tab[u]) /\ \E k \in TabState : k = tab[u] /\ GoodTab(k)
    BY DEF Good
  <2> QED
    BY <2>1, TabStays
<1> QED
  BY <1>1 DEF Good

-----------------------------------------------------------------------------
(***************************************************************************)
(* Steps that start no refresh and answer none: requests leave, the cookie *)
(* stays or goes, and a session whose renewed token is lost is hurt.       *)
(***************************************************************************)
LEMMA FlowEbbs ==
  ASSUME Good, Flow, FlowCookie, Keeps, op' \in [Op -> OpState],
         \A s \in used : current'[s] = current[s] \/ current'[s] = {},
         \A p \in Op : op'[p] = op[p] \/ op'[p].phase \notin Asking \union Served,
         \A p \in Op : op[p].phase \in Served /\ op'[p] # op[p]
                        => SessionOf(op[p].received) \in hurt',
         hurt \subseteq hurt',
         \/ cookie' = cookie \/ cookie' = Empty
         \/ issued'[cookie'].session \notin used /\ IsCurrent(cookie)'
  PROVE  Flow' /\ FlowCookie'
<1>1. ASSUME NEW x, Given(x), x # Empty
      PROVE  /\ issued'[x].session = issued[x].session
             /\ Calm(issued[x].session)' => Calm(issued[x].session)
             /\ Calm(issued[x].session)' /\ IsCurrent(x) => IsCurrent(x)'
  <2>1. x \in Token /\ issued[x].session \in used /\ issued'[x] = issued[x]
    BY <1>1 DEF Given, Good, ServerOK, SessionOf, Keeps
  <2> QED
    BY <2>1 DEF Calm, IsCurrent, SessionOf
<1>2. \A p \in Op : Given(op[p].presented) /\ Given(op[p].received)
                   /\ (op[p].phase \in Served => op[p].received # Empty
                          /\ SessionOf(op[p].received) = SessionOf(op[p].presented))
  BY DEF Good, GoodOp
<1>3. \A p \in Op : InFlight(p)' => op'[p] = op[p] /\ InFlight(p)
  BY DEF InFlight
<1>4. Flow'
  <2> SUFFICES ASSUME NEW o \in Op, InFlight(o)', Calm(SessionOf(op[o].presented))'
               PROVE  /\ op[o].phase \in Asking => IsCurrent(op[o].presented)'
                      /\ op[o].phase \in Served =>
                           /\ IsCurrent(op[o].received)'
                           /\ \/ cookie' \in {op[o].presented, Empty}
                              \/ SessionOf(cookie)' # SessionOf(op[o].presented)
                      /\ \A p \in Op : InFlight(p)' /\ SessionOf(op[p].presented)' = SessionOf(op[o].presented) => o = p
    BY <1>1, <1>2, <1>3 DEF Flow, SessionOf, InFlight
  <2>1. op'[o] = op[o] /\ InFlight(o) /\ Calm(SessionOf(op[o].presented))
    BY <1>1, <1>2, <1>3 DEF SessionOf, InFlight
  <2>2. op[o].phase \in Asking => IsCurrent(op[o].presented)'
    BY <1>1, <1>2, <2>1 DEF Flow, SessionOf, InFlight
  <2>3. op[o].phase \in Served => IsCurrent(op[o].received)'
    BY <1>1, <1>2, <2>1 DEF Flow, SessionOf, InFlight
  <2>4. op[o].phase \in Served => \/ cookie' \in {op[o].presented, Empty}
                                  \/ SessionOf(cookie)' # SessionOf(op[o].presented)
    <3>1. /\ issued'[op[o].presented].session = SessionOf(op[o].presented)
          /\ SessionOf(op[o].presented) \in used
      BY <1>1, <1>2, <2>1 DEF InFlight, Given, SessionOf
    <3>2. CASE cookie' = cookie \/ cookie' = Empty
      <4>1. cookie = Empty \/ SessionOf(cookie)' = SessionOf(cookie) \/ cookie' = Empty
        BY <1>1, <3>2 DEF Good, SessionOf
      <4> QED
        BY <2>1, <3>2, <4>1 DEF Flow
    <3>3. CASE issued'[cookie'].session \notin used
      BY <3>1, <3>3 DEF SessionOf
    <3> QED
      BY <3>2, <3>3
  <2>5. ASSUME NEW p \in Op, InFlight(p)', SessionOf(op[p].presented)' = SessionOf(op[o].presented)
        PROVE  o = p
    BY <1>1, <1>2, <1>3, <2>1, <2>5 DEF Flow, SessionOf, InFlight
  <2> QED
    BY <2>2, <2>3, <2>4, <2>5
<1>5. FlowCookie'
  <2> SUFFICES ASSUME cookie' # Empty, Calm(SessionOf(cookie))'
               PROVE  IsCurrent(cookie)' \/ \E o \in Op : op'[o].phase \in Served /\ op'[o].presented = cookie'
    BY DEF FlowCookie
  <2> SUFFICES ASSUME cookie' = cookie
               PROVE  IsCurrent(cookie)' \/ \E o \in Op : op'[o].phase \in Served /\ op'[o].presented = cookie'
    OBVIOUS
  <2>1. cookie' = cookie /\ cookie # Empty /\ Given(cookie)
    BY DEF Good
  <2>2. Calm(SessionOf(cookie)) /\ (IsCurrent(cookie) => IsCurrent(cookie)')
    BY <1>1, <2>1 DEF SessionOf, IsCurrent, Calm
  <2>3. CASE IsCurrent(cookie)
    BY <2>2, <2>3
  <2>4. CASE ~IsCurrent(cookie)
    <3>1. PICK o \in Op : op[o].phase \in Served /\ op[o].presented = cookie
      BY <2>1, <2>2, <2>4 DEF FlowCookie
    <3>2. op'[o] = op[o]
      <4>1. SessionOf(op[o].received) = SessionOf(cookie) /\ SessionOf(cookie)' = SessionOf(cookie)
        BY <1>1, <1>2, <2>1, <3>1 DEF SessionOf
      <4> QED
        BY <3>1, <4>1 DEF Calm
    <3> QED
      BY <2>1, <3>1, <3>2
  <2> QED
    BY <2>3, <2>4
<1> QED
  BY <1>4, <1>5

LEMMA EbbFacts ==
  ASSUME ServerOK, Ebbs
  PROVE  ServerOK' /\ Keeps /\ \A s \in used : current'[s] = current[s] \/ current'[s] = {}
BY EbbStep DEF ServerOK, Ebbs

(***************************************************************************)
(* Steps that send nothing more and change no cookie but to drop it: what  *)
(* the tabs that keep their user do is still that user's.                  *)
(***************************************************************************)
LEMMA OwnEbbs ==
  ASSUME Good, Own, Keeps, op' \in [Op -> OpState],
         \A p \in Op : \/ op'[p] = op[p]
                       \/ op'[p].phase \notin {"sent", "queued"} \union Refreshing,
         \A t \in Tab \ strayed' : \/ tab'[t].user = None
                                   \/ /\ t \notin strayed
                                      /\ tab'[t].user = tab[t].user /\ tab'[t].token = tab[t].token,
         cookie' = cookie \/ cookie' = Empty
  PROVE  Own'
<1>1. \A x : Given(x) /\ x # Empty => issued'[x] = issued[x]
  BY DEF Given, Keeps
<1>2. /\ Given(cookie) /\ \A t \in Tab : Given(tab[t].token)
      /\ \A p \in Op : Given(op[p].presented)
  BY DEF Good, GoodTab, GoodOp
<1> QED
  BY <1>1, <1>2 DEF Own, OpsOf, AccountOf, At

-----------------------------------------------------------------------------
(***************************************************************************)
(* A request is sent, waits, or ends, and nothing else happens.            *)
(***************************************************************************)
LEMMA QuietStep ==
  ASSUME IInv, NEW o \in Op, op[o].phase \notin Asking \union Served,
         NEW n, GoodOp(n), op' = [op EXCEPT ![o] = n],
         n.phase \notin Asking \union Served,
         \/ n.phase = "idle"
         \/ /\ n.tab \in Tab /\ tab[n.tab].page = "ready"
            /\ n.phase = "queued" => tab[n.tab].refreshing
            /\ n.phase \in {"sent", "queued"} =>
                 \/ tab[n.tab].user = None \/ n.tab \in strayed
                 \/ n.account = tab[n.tab].user
            /\ n.phase = "sent" => n.presented = tab[n.tab].token,
         UNCHANGED <<server, cookie, tab, hurt, strayed>>
  PROVE  IInv'
<1>1. Ebbs /\ ServerOK' /\ Keeps
  BY SameStep, EbbStep DEF IInv, Good
<1>2. GoodOp(n)'
  BY <1>1, OpStays
<1>3. /\ op' \in [Op -> OpState] /\ \A p \in Op : GoodOp(op[p])'
      /\ op'[o] = n /\ \A p \in Op \ {o} : op'[p] = op[p]
  BY <1>1, <1>2, OpMoves DEF IInv
<1>4. Good'
  BY <1>1, <1>3, TabsStay, GivenStays DEF IInv, Good
<1>5. PagesLoadOnce'
  BY <1>3 DEF IInv, PagesLoadOnce, OpsOf, Booting, Asking, Served
<1>6. QueuesAreServed'
  BY <1>3 DEF IInv, QueuesAreServed, UnderWay, Waiting, OpsOf, Refreshing, Asking, Served
<1>7. Flow' /\ FlowCookie'
  BY <1>1, <1>3, FlowEbbs DEF IInv, Good, ServerOK, Ebbs
<1>8. Own'
  BY <1>1, <1>3 DEF IInv, Own, OpsOf, At, AccountOf, Refreshing, Asking, Served, server
<1> QED
  BY <1>4, <1>5, <1>6, <1>7, <1>8 DEF IInv

LEMMA EndsQuietly ==
  ASSUME IInv, NEW o \in Op, op[o].phase \notin Asking \union Served, Ends(o),
         UNCHANGED <<server, cookie, tab, hurt, strayed>>
  PROVE  IInv'
<1>1. GoodOp(Idle) /\ Idle.phase = "idle" /\ op' = [op EXCEPT ![o] = Idle]
  BY IdleIsGood DEF Idle, Ends
<1> QED
  BY <1>1, QuietStep DEF Asking, Served

\* What a request is when it is sent.
LEMMA SentOp ==
  ASSUME NEW o \in Op, NEW t \in Tab, NEW ph \in {"boot", "login", "logout", "sent"},
         NEW a \in Account \union {None}, NEW x \in Token \union {Empty}, Given(x),
         Sends(o, t, ph, a, x)
  PROVE  \E n : /\ GoodOp(n) /\ op[o].phase = "idle" /\ op' = [op EXCEPT ![o] = n]
                /\ n.phase = ph /\ n.tab = t /\ n.account = a /\ n.presented = x
<1> DEFINE n == [Idle EXCEPT !.phase = ph, !.tab = t, !.account = a, !.presented = x]
<1>1. /\ n \in OpState /\ n.phase = ph /\ n.tab = t /\ n.account = a
      /\ n.presented = x /\ n.received = Empty
  BY DEF Idle, OpState, Booting, Refreshing
<1>2. op[o].phase = "idle" /\ op' = [op EXCEPT ![o] = n]
  BY DEF Sends, At
<1> HIDE DEF n
<1>3. GoodOp(n)
  BY <1>1 DEF GoodOp, Given, Served
<1> QED
  BY <1>1, <1>2, <1>3

LEMMA Cookies == ASSUME Good PROVE cookie \in Token \union {Empty}
BY DEF Good, ServerOK, Given

LEMMA Tabs ==
  ASSUME Good, NEW t \in Tab
  PROVE  /\ tab[t] \in TabState /\ GoodTab(tab[t]) /\ tab[t].token \in Token \union {Empty}
         /\ tab[t].user \in Account \union {None}
         /\ tab[t].user # None => tab[t].page = "ready"
BY DEF Good, GoodTab, TabState

LEMMA LoginStep == ASSUME IInv, NEW o \in Op, NEW t \in Tab, NEW a \in Account, Login(o, t, a) PROVE IInv'
<1>1. Given(Empty) /\ Sends(o, t, "login", a, Empty) /\ tab[t].page = "ready"
  BY DEF Login, Given
<1>2. PICK n : /\ GoodOp(n) /\ op[o].phase = "idle" /\ op' = [op EXCEPT ![o] = n]
               /\ n.phase = "login" /\ n.tab = t
  BY <1>1, SentOp
<1> QED
  BY <1>1, <1>2, QuietStep DEF Login, Asking, Served

LEMMA LogoutStep == ASSUME IInv, NEW o \in Op, NEW t \in Tab, Logout(o, t) PROVE IInv'
<1>1. /\ Given(cookie) /\ cookie \in Token \union {Empty} /\ tab[t].user \in Account \union {None}
      /\ Sends(o, t, "logout", tab[t].user, cookie) /\ tab[t].page = "ready"
  BY Cookies, Tabs DEF Logout, IInv, Good
<1>2. PICK n : /\ GoodOp(n) /\ op[o].phase = "idle" /\ op' = [op EXCEPT ![o] = n]
               /\ n.phase = "logout" /\ n.tab = t
  BY <1>1, SentOp
<1> QED
  BY <1>1, <1>2, QuietStep DEF Logout, Asking, Served

LEMMA CallStep == ASSUME IInv, NEW o \in Op, NEW t \in Tab, Call(o, t) PROVE IInv'
<1>1. /\ Given(tab[t].token) /\ tab[t].token \in Token \union {Empty}
      /\ tab[t].user \in Account \union {None}
      /\ Sends(o, t, "sent", tab[t].user, tab[t].token) /\ tab[t].page = "ready"
  BY Tabs DEF Call, IInv, GoodTab
<1>2. PICK n : /\ GoodOp(n) /\ op[o].phase = "idle" /\ op' = [op EXCEPT ![o] = n]
               /\ n.phase = "sent" /\ n.tab = t /\ n.account = tab[t].user
               /\ n.presented = tab[t].token
  BY <1>1, SentOp
<1> QED
  BY <1>1, <1>2, QuietStep DEF Call, Asking, Served

\* What a request under way is.
LEMMA OpFacts ==
  ASSUME Good, NEW o \in Op, op[o].phase # "idle"
  PROVE  /\ op[o] \in OpState /\ GoodOp(op[o]) /\ op[o].tab \in Tab
         /\ op[o].presented \in Token \union {Empty} /\ op[o].received \in Token \union {Empty}
         /\ op[o].account \in Account \union {None}
BY DEF Good, GoodOp, OpState

(***************************************************************************)
(* A refresh is sent, by a page that loads or for a request of a tab that  *)
(* has none under way.                                                     *)
(***************************************************************************)
LEMMA AsksStep ==
  ASSUME IInv, NEW o \in Op, NEW t \in Tab, NEW n, GoodOp(n), op' = [op EXCEPT ![o] = n],
         op[o].phase \notin Asking \union Served, n.phase \in Asking,
         n.tab = t, n.presented = cookie,
         \A p \in Op : p # o /\ op[p].tab = t => op[p].phase \notin Asking \union Served,
         hurt' = hurt \union Clash(o, t, cookie), UNCHANGED <<server, cookie>>
  PROVE  Flow' /\ FlowCookie' /\ hurt' \in SUBSET Token
<1>1. Ebbs /\ ServerOK' /\ Keeps
  BY SameStep, EbbStep DEF IInv, Good
<1>2. /\ op'[o] = n /\ \A p \in Op \ {o} : op'[p] = op[p]
  BY <1>1, OpStays, OpMoves DEF IInv
<1>3. \A x : SessionOf(x)' = SessionOf(x) /\ IsCurrent(x)' = IsCurrent(x)
            /\ (Calm(SessionOf(x))' => Calm(SessionOf(x)))
  BY DEF server, SessionOf, IsCurrent, Calm
<1>4. ASSUME NEW p \in Op, p # o, InFlight(p), op[p].presented = cookie
      PROVE  SessionOf(cookie) \in hurt'
  <2>1. op[p].tab # t /\ op[p].phase \in Refreshing \union Booting
    BY <1>4 DEF InFlight, Asking, Served, Refreshing, Booting
  <2> QED
    BY <1>4, <2>1 DEF Clash, InFlight
<1>5. ASSUME NEW p \in Op, p # o, InFlight(p), cookie # Empty, Calm(SessionOf(cookie))',
             SessionOf(op[p].presented) = SessionOf(cookie)
      PROVE  FALSE
  <2>1. Calm(SessionOf(cookie)) /\ op[p].presented # cookie
    BY <1>3, <1>4, <1>5 DEF Calm
  <2>2. op[p].phase \in Asking /\ IsCurrent(op[p].presented)
    BY <1>5, <2>1 DEF IInv, Flow, InFlight
  <2>3. ~\E q \in Op : op[q].phase \in Served /\ op[q].presented = cookie
    <3> SUFFICES ASSUME NEW q \in Op, op[q].phase \in Served, op[q].presented = cookie
                 PROVE  FALSE
      OBVIOUS
    <3>1. InFlight(q)
      BY <1>5 DEF InFlight
    <3> QED
      BY <1>5, <2>1, <2>2, <3>1 DEF IInv, Flow, Asking, Served
  <2>4. IsCurrent(cookie)
    BY <1>5, <2>1, <2>3 DEF IInv, FlowCookie
  <2>5. SessionOf(cookie) \in Token
    BY <1>5 DEF IInv, Good, ServerOK, Given
  <2> QED
    BY <1>5, <2>1, <2>2, <2>4, <2>5 DEF IsCurrent, IInv, Good, ServerOK, CurrentIsOne
<1>6. Flow'
  <2> SUFFICES ASSUME NEW q \in Op, InFlight(q)', Calm(SessionOf(op[q].presented))'
               PROVE  /\ op'[q].phase \in Asking => IsCurrent(op[q].presented)'
                      /\ op'[q].phase \in Served =>
                           /\ IsCurrent(op[q].received)'
                           /\ \/ cookie' \in {op'[q].presented, Empty}
                              \/ SessionOf(cookie)' # SessionOf(op[q].presented)'
                      /\ \A p \in Op : InFlight(p)' /\ SessionOf(op[p].presented)' = SessionOf(op[q].presented)' => q = p
    BY DEF Flow
  <2>1. CASE q = o
    <3>1. n.presented # Empty /\ Calm(SessionOf(cookie))' /\ cookie # Empty
      BY <1>2, <2>1 DEF InFlight
    <3>2. \A p \in Op : InFlight(p)' /\ SessionOf(op[p].presented)' = SessionOf(op[q].presented)' => q = p
      BY <1>2, <1>3, <1>5, <2>1, <3>1 DEF InFlight
    <3>3. ~\E p \in Op : op[p].phase \in Served /\ op[p].presented = cookie
      BY <1>5, <3>1 DEF InFlight, Asking, Served
    <3>4. IsCurrent(cookie)
      BY <1>3, <3>1, <3>3 DEF IInv, FlowCookie
    <3> QED
      BY <1>2, <1>3, <2>1, <3>1, <3>2, <3>4 DEF Asking, Served
  <2>2. CASE q # o
    <3>1. op'[q] = op[q] /\ InFlight(q) /\ Calm(SessionOf(op[q].presented))
      BY <1>2, <1>3, <2>2 DEF InFlight
    <3>2. \A p \in Op : InFlight(p)' /\ SessionOf(op[p].presented)' = SessionOf(op[q].presented)' => q = p
      <4> SUFFICES ASSUME NEW p \in Op, InFlight(p)', p # q,
                          SessionOf(op[p].presented)' = SessionOf(op[q].presented)'
                   PROVE  FALSE
        OBVIOUS
      <4>1. CASE p = o
        BY <1>2, <1>3, <1>5, <2>2, <3>1, <4>1 DEF InFlight
      <4>2. CASE p # o
        BY <1>2, <1>3, <3>1, <4>2 DEF InFlight, IInv, Flow
      <4> QED
        BY <4>1, <4>2
    <3> QED
      BY <1>3, <3>1, <3>2 DEF IInv, Flow
  <2> QED
    BY <2>1, <2>2
<1>7. FlowCookie'
  <2>1. \A p \in Op : op[p].phase \in Served => op'[p] = op[p]
    BY <1>2
  <2> QED
    BY <1>3, <2>1 DEF IInv, FlowCookie
<1>8. hurt' \in SUBSET Token
  <2>1. \A p \in Op : op[p].presented # Empty => SessionOf(op[p].presented) \in Token
    BY DEF IInv, Good, GoodOp, Given, ServerOK
  <2>2. Clash(o, t, cookie) \in SUBSET Token
    BY <2>1 DEF Clash
  <2> QED
    BY <2>2 DEF IInv, Good
<1> QED
  BY <1>6, <1>7, <1>8

LEMMA OpenStep == ASSUME IInv, NEW o \in Op, NEW t \in Tab, Open(o, t) PROVE IInv'
<1>1. /\ Given(cookie) /\ cookie \in Token \union {Empty} /\ None \in Account \union {None}
      /\ Sends(o, t, "boot", None, cookie) /\ tab[t].page = "closed"
      /\ UNCHANGED <<server, cookie, strayed>> /\ hurt' = hurt \union Clash(o, t, cookie)
  BY Cookies DEF Open, IInv, Good
<1>2. PICK n : /\ GoodOp(n) /\ op[o].phase = "idle" /\ op' = [op EXCEPT ![o] = n]
               /\ n.phase = "boot" /\ n.tab = t /\ n.presented = cookie
  BY <1>1, SentOp
<1>3. Ebbs /\ ServerOK' /\ Keeps
  BY <1>1, SameStep, EbbStep DEF IInv, Good
<1>4. /\ op' \in [Op -> OpState] /\ \A p \in Op : GoodOp(op[p])'
      /\ op'[o] = n /\ \A p \in Op \ {o} : op'[p] = op[p]
  BY <1>2, <1>3, OpStays, OpMoves DEF IInv
<1>5. \A p \in Op : op[p].phase # "idle" => op[p].tab # t
  BY <1>1 DEF IInv, PagesLoadOnce, OpsOf
<1>6. Flow' /\ FlowCookie' /\ hurt' \in SUBSET Token
  <2>1. op[o].phase \notin Asking \union Served /\ n.phase \in Asking
    BY <1>2 DEF Asking, Served
  <2>2. \A p \in Op : p # o /\ op[p].tab = t => op[p].phase \notin Asking \union Served
    BY <1>5 DEF Asking, Served
  <2>3. UNCHANGED <<server, cookie>>
    BY <1>1
  <2> QED
    BY <1>1, <1>2, <2>1, <2>2, <2>3, AsksStep
<1> DEFINE m == [Closed EXCEPT !.page = "loading"]
<1>7. /\ m \in TabState /\ GoodTab(m) /\ m.page = "loading" /\ m.refreshing = FALSE /\ m.user = None
      /\ tab' = [tab EXCEPT ![t] = m]
  BY DEF Open, Closed, TabState, GoodTab, Given
<1> HIDE DEF m
<1>8. /\ tab' \in [Tab -> TabState] /\ \A u \in Tab : GoodTab(tab[u])'
      /\ tab'[t] = m /\ \A u \in Tab \ {t} : tab'[u] = tab[u]
  BY <1>3, <1>7, TabStays, TabMoves DEF IInv
<1>9. Good'
  BY <1>1, <1>3, <1>4, <1>6, <1>8, GivenStays DEF IInv, Good
<1>10. PagesLoadOnce'
  BY <1>2, <1>4, <1>5, <1>7, <1>8 DEF IInv, PagesLoadOnce, OpsOf, Booting
<1>11. QueuesAreServed'
  BY <1>2, <1>4, <1>5, <1>7, <1>8 DEF IInv, QueuesAreServed, UnderWay, Waiting, OpsOf, Refreshing
<1>12. Own'
  BY <1>1, <1>2, <1>3, <1>4, <1>7, <1>8, OwnEbbs DEF IInv, Refreshing
<1> QED
  BY <1>6, <1>9, <1>10, <1>11, <1>12 DEF IInv

\* Requests that are no part of a page's loading are of pages that are ready.
LEMMA ReadyPages ==
  ASSUME IInv, NEW o \in Op, op[o].phase # "idle", op[o].phase \notin Booting
  PROVE  tab[op[o].tab].page = "ready" /\ \A p \in OpsOf(op[o].tab) : op[p].phase \notin Booting
BY OpFacts, Tabs DEF IInv, PagesLoadOnce, OpsOf, TabState

LEMMA UnauthorisedStep == ASSUME IInv, NEW o \in Op, Unauthorised(o) PROVE IInv'
<1> DEFINE t == op[o].tab
<1>1. /\ op[o].phase = "sent" /\ UNCHANGED <<server, cookie, strayed>>
      /\ GoodOp(op[o]) /\ op[o] \in OpState /\ t \in Tab /\ tab[t].page = "ready"
      /\ GoodTab(tab[t]) /\ tab[t] \in TabState
      /\ \A p \in OpsOf(t) : op[p].phase \notin Booting
  BY OpFacts, ReadyPages, Tabs DEF Unauthorised, At, IInv, Booting
<1>2. op[o].phase \notin Asking \union Served /\ op[o].received = Empty
  BY <1>1 DEF Asking, Served, GoodOp
<1>3. tab[t].user = None \/ t \in strayed \/ op[o].account = tab[t].user
  BY <1>1 DEF IInv, Own, OpsOf
<1>4. CASE Ends(o) /\ UNCHANGED <<tab, hurt>>
  BY <1>1, <1>2, <1>4, EndsQuietly
<1>5. CASE /\ tab[t].refreshing /\ UNCHANGED <<tab, hurt>>
           /\ op' = [op EXCEPT ![o].phase = "queued", ![o].retried = TRUE]
  <2> DEFINE n == [op[o] EXCEPT !.phase = "queued", !.retried = TRUE]
  <2>1. /\ n \in OpState /\ n.phase = "queued" /\ n.tab = t /\ n.account = op[o].account
        /\ n.presented = op[o].presented /\ n.received = op[o].received
    BY <1>1 DEF OpState
  <2>2. op' = [op EXCEPT ![o] = n]
    BY <1>5 DEF IInv, Good
  <2> HIDE DEF n
  <2>3. GoodOp(n)
    BY <1>1, <1>2, <2>1 DEF GoodOp, Served
  <2>4. n.phase \notin Asking \union Served
    BY <2>1 DEF Asking, Served
  <2> QED
    BY <1>1, <1>2, <1>3, <1>5, <2>1, <2>2, <2>3, <2>4, QuietStep
<1>6. CASE /\ ~tab[t].refreshing
           /\ op' = [op EXCEPT ![o].phase = "refresh", ![o].retried = TRUE, ![o].presented = cookie]
           /\ tab' = [tab EXCEPT ![t].refreshing = TRUE]
           /\ hurt' = hurt \union Clash(o, t, cookie)
  <2> DEFINE n == [op[o] EXCEPT !.phase = "refresh", !.retried = TRUE, !.presented = cookie]
             m == [tab[t] EXCEPT !.refreshing = TRUE]
  <2>1. /\ n \in OpState /\ n.phase = "refresh" /\ n.tab = t /\ n.account = op[o].account
        /\ n.presented = cookie /\ n.received = op[o].received
    BY <1>1, Cookies DEF OpState, Refreshing, IInv
  <2>2. /\ m \in TabState /\ m.refreshing /\ m.page = tab[t].page
        /\ m.user = tab[t].user /\ m.token = tab[t].token
    BY <1>1 DEF TabState
  <2>3. op' = [op EXCEPT ![o] = n] /\ tab' = [tab EXCEPT ![t] = m]
    BY <1>6 DEF IInv, Good
  <2> HIDE DEF n, m
  <2>4. GoodOp(n) /\ GoodTab(m)
    BY <1>1, <1>2, <2>1, <2>2 DEF GoodOp, Served, GoodTab, IInv, Good
  <2>5. Ebbs /\ ServerOK' /\ Keeps
    BY <1>1, SameStep, EbbStep DEF IInv, Good
  <2>6. /\ op' \in [Op -> OpState] /\ \A p \in Op : GoodOp(op[p])'
        /\ op'[o] = n /\ \A p \in Op \ {o} : op'[p] = op[p]
    BY <2>3, <2>4, <2>5, OpStays, OpMoves DEF IInv
  <2>7. /\ tab' \in [Tab -> TabState] /\ \A u \in Tab : GoodTab(tab[u])'
        /\ tab'[t] = m /\ \A u \in Tab \ {t} : tab'[u] = tab[u]
    BY <1>1, <2>3, <2>4, <2>5, TabStays, TabMoves DEF IInv
  <2>8. \A p \in Op : p # o /\ op[p].tab = t => op[p].phase \notin Asking \union Served
    BY <1>1, <1>6 DEF IInv, QueuesAreServed, UnderWay, OpsOf, Refreshing, Booting, Asking, Served
  <2>9. Flow' /\ FlowCookie' /\ hurt' \in SUBSET Token
    <3>1. n.phase \in Asking /\ UNCHANGED <<server, cookie>>
      BY <1>1, <2>1 DEF Asking
    <3> QED
      BY <1>1, <1>2, <1>6, <2>1, <2>3, <2>4, <2>8, <3>1, AsksStep
  <2>10. Good'
    BY <1>1, <2>5, <2>6, <2>7, <2>9, GivenStays DEF IInv, Good
  <2>11. PagesLoadOnce'
    BY <1>1, <2>1, <2>2, <2>6, <2>7 DEF IInv, PagesLoadOnce, OpsOf, Booting
  <2>12. QueuesAreServed'
    <3>1. \A p \in UnderWay(t)' : p = o
      BY <1>1, <2>1, <2>6, <2>8 DEF UnderWay, OpsOf, Refreshing, Asking, Served
    <3>2. o \in UnderWay(t)'
      BY <1>1, <2>1, <2>6 DEF UnderWay, OpsOf, Refreshing
    <3> QED
      BY <1>1, <2>1, <2>2, <2>6, <2>7, <3>1, <3>2 DEF IInv, QueuesAreServed, UnderWay, Waiting, OpsOf
  <2>13. Own'
    BY <1>1, <1>3, <2>1, <2>2, <2>6, <2>7 DEF IInv, Own, OpsOf, At, AccountOf, Refreshing, server
  <2> QED
    BY <2>9, <2>10, <2>11, <2>12, <2>13 DEF IInv
<1> QED
  BY <1>1, <1>4, <1>5, <1>6 DEF Unauthorised

(***************************************************************************)
(* A log-in is answered: a session begins, and the cookie is its token.    *)
(***************************************************************************)
LEMMA LoginAnsweredStep == ASSUME IInv, NEW o \in Op, LoginAnswered(o) PROVE IInv'
<1> DEFINE t == op[o].tab
           a == op[o].account
<1>0. PICK f, m : f = Fresh /\ m = [tab[t] EXCEPT !.user = a, !.token = f]
  OBVIOUS
<1>1. /\ op[o].phase = "login" /\ t \in Tab /\ a \in Account \union {None}
      /\ op[o] \in OpState /\ GoodOp(op[o])
      /\ f \in Token /\ Server!Begin(f) /\ Issue(f, a)
      /\ cookie' = f /\ hurt' = hurt /\ op' = [op EXCEPT ![o] = Idle]
  BY <1>0, OpFacts DEF LoginAnswered, At, IInv, LoginCookie, SetCookie, Ends
<1>2. /\ tab[t].page = "ready" /\ tab[t] \in TabState
      /\ \A p \in OpsOf(t) : op[p].phase \notin Booting
  BY <1>1, ReadyPages, Tabs DEF Booting, IInv
<1>3. /\ ServerOK' /\ Keeps /\ used' = used \union {f}
      /\ issued'[f] = [session |-> f, account |-> a]
      /\ current'[f] = {f} /\ \A s \in Token \ {f} : current'[s] = current[s]
  BY <1>0, <1>1, BeginStep DEF IInv, Good
<1>4. f \notin used /\ f # Empty /\ f \in used'
  BY <1>0, <1>1, <1>3, FreshIsNew, EmptyIsNoToken DEF IInv, Good
<1>5. /\ op' \in [Op -> OpState] /\ \A p \in Op : GoodOp(op[p])'
      /\ op'[o] = Idle /\ \A p \in Op \ {o} : op'[p] = op[p]
  BY <1>1, <1>3, IdleIsGood, OpMoves DEF IInv
<1>6. /\ m \in TabState /\ m.page = "ready" /\ m.refreshing = tab[t].refreshing
      /\ m.user = a /\ m.token = f
  BY <1>0, <1>1, <1>2 DEF TabState
<1>7. tab' = [tab EXCEPT ![t] = m]
  BY <1>0 DEF LoginAnswered, IInv, Good
<1>8. /\ OthersThan(a) \in SUBSET Tab
      /\ strayed' = (strayed \ {t}) \union OthersThan(a)
            \union {u \in {t} : {p \in OpsOf(t) : op[p].phase \in {"sent", "queued"} \union Refreshing} # {}}
  BY DEF LoginAnswered, OthersThan
<1>9. Given(f)' /\ GoodTab(m)'
  BY <1>3, <1>4, <1>6 DEF Given, SessionOf, GoodTab
<1>10. /\ tab' \in [Tab -> TabState] /\ \A u \in Tab : GoodTab(tab[u])'
       /\ tab'[t] = m /\ \A u \in Tab \ {t} : tab'[u] = tab[u]
  BY <1>1, <1>3, <1>7, <1>9, TabMoves DEF IInv
<1>11. Good'
  <2>1. Given(cookie)'
    BY <1>1, <1>9 DEF Given, SessionOf
  <2>2. strayed' \in SUBSET Tab
    BY <1>1, <1>8 DEF IInv, Good
  <2> QED
    BY <1>1, <1>3, <1>5, <1>10, <2>1, <2>2 DEF IInv, Good
<1>12. Idle.phase = "idle"
  BY DEF Idle
<1>13. PagesLoadOnce'
  BY <1>1, <1>2, <1>5, <1>6, <1>10, <1>12 DEF IInv, PagesLoadOnce, OpsOf, Booting
<1>14. QueuesAreServed'
  BY <1>1, <1>5, <1>6, <1>10, <1>12 DEF IInv, QueuesAreServed, UnderWay, Waiting, OpsOf, Refreshing
<1>15. Flow' /\ FlowCookie'
  <2>1. \A s \in used : current'[s] = current[s]
    BY <1>3, <1>4 DEF IInv, Good, ServerOK
  <2>2. issued'[cookie'].session \notin used /\ IsCurrent(cookie)'
    BY <1>1, <1>3, <1>4 DEF SessionOf, IsCurrent
  <2>3. \A p \in Op : op'[p] = op[p] \/ op'[p].phase \notin Asking \union Served
    BY <1>5, <1>12 DEF Asking, Served
  <2>4. \A p \in Op : op[p].phase \in Served => op'[p] = op[p]
    BY <1>1, <1>5 DEF Served
  <2> QED
    BY <1>1, <1>3, <1>5, <2>1, <2>2, <2>3, <2>4, FlowEbbs DEF IInv
<1>16. Own'
  <2> SUFFICES ASSUME NEW u \in Tab \ strayed', tab'[u].user # None
               PROVE  /\ tab'[u].token # Empty /\ issued'[tab'[u].token].account = tab'[u].user
                      /\ cookie' # Empty => issued'[cookie'].account = tab'[u].user
                      /\ \A p \in Op : op'[p].phase # "idle" /\ op'[p].tab = u =>
                           /\ op'[p].phase \in {"sent", "queued"} \union Refreshing => op'[p].account = tab'[u].user
                           /\ op'[p].phase = "sent" => op'[p].presented # Empty /\ issued'[op'[p].presented].account = tab'[u].user
                           /\ op'[p].phase \in Refreshing /\ op'[p].presented # Empty =>
                                issued'[op'[p].presented].account = tab'[u].user
    BY DEF Own, OpsOf, At, AccountOf
  <2>1. CASE u = t
    <3>1. \A p \in OpsOf(t) : op[p].phase \notin {"sent", "queued"} \union Refreshing
      BY <1>8, <2>1
    <3> QED
      BY <1>1, <1>3, <1>4, <1>5, <1>6, <1>10, <1>12, <2>1, <3>1 DEF OpsOf, Refreshing
  <2>2. CASE u # t
    <3>1. u \notin strayed /\ tab'[u] = tab[u] /\ tab[u].user = a
      BY <1>8, <1>10, <2>2 DEF OthersThan
    <3>2. Given(tab[u].token) /\ \A p \in Op : Given(op[p].presented)
      BY DEF IInv, Good, GoodTab, GoodOp
    <3>3. \A x : Given(x) /\ x # Empty => issued'[x] = issued[x]
      BY <1>3 DEF Given, Keeps
    <3>4. issued'[f].account = a
      BY <1>3
    <3> QED
      BY <1>1, <1>5, <1>12, <3>1, <3>2, <3>3, <3>4 DEF IInv, Own, OpsOf, At, AccountOf
  <2> QED
    BY <2>1, <2>2
<1> QED
  BY <1>11, <1>13, <1>14, <1>15, <1>16 DEF IInv

LEMMA SignedOutTab ==
  ASSUME Good, NEW t \in Tab
  PROVE  /\ SignedOut(t) \in TabState /\ SignedOut(t).user = None /\ SignedOut(t).token = Empty
         /\ SignedOut(t).page = tab[t].page /\ SignedOut(t).refreshing = tab[t].refreshing
BY Tabs DEF SignedOut, TabState

LEMMA LogoutAnsweredStep == ASSUME IInv, NEW o \in Op, LogoutAnswered(o) PROVE IInv'
<1> DEFINE t == op[o].tab
<1>0. PICK m : m = SignedOut(t)
  OBVIOUS
<1>1. /\ op[o].phase = "logout" /\ t \in Tab /\ issued' = issued /\ hurt' = hurt
      /\ strayed' = strayed \ {t} /\ op' = [op EXCEPT ![o] = Idle]
      /\ tab' = [tab EXCEPT ![t] = m] /\ (cookie' = cookie \/ cookie' = Empty)
  BY <1>0, OpFacts DEF LogoutAnswered, At, Ends, SetCookie, IInv
<1>2. Ebbs
  <2>1. \/ UNCHANGED <<current, used>> \/ Server!End({SessionOf(op[o].presented)})
    BY DEF LogoutAnswered, Revokes
  <2>2. CASE UNCHANGED <<current, used>>
    BY <1>1, <2>2 DEF Ebbs, IInv, Good, ServerOK
  <2>3. CASE Server!End({SessionOf(op[o].presented)})
    BY <1>1, <2>3, EndStep DEF IInv, Good
  <2> QED
    BY <2>1, <2>2, <2>3
<1>3. ServerOK' /\ Keeps /\ \A s \in used : current'[s] = current[s] \/ current'[s] = {}
  BY <1>2, EbbFacts DEF IInv, Good
<1>4. /\ op' \in [Op -> OpState] /\ \A p \in Op : GoodOp(op[p])'
      /\ op'[o] = Idle /\ \A p \in Op \ {o} : op'[p] = op[p]
  BY <1>1, <1>3, IdleIsGood, OpMoves DEF IInv
<1>5. /\ m \in TabState /\ m.user = None /\ m.token = Empty
      /\ m.page = tab[t].page /\ m.refreshing = tab[t].refreshing
  BY <1>0, <1>1, SignedOutTab DEF IInv
<1>6. GoodTab(m)'
  BY <1>5 DEF GoodTab, Given
<1>7. /\ tab' \in [Tab -> TabState] /\ \A u \in Tab : GoodTab(tab[u])'
      /\ tab'[t] = m /\ \A u \in Tab \ {t} : tab'[u] = tab[u]
  BY <1>1, <1>3, <1>6, TabMoves DEF IInv
<1>8. Good'
  <2>1. Given(cookie)'
    BY <1>1, <1>3 DEF Given, Keeps, SessionOf, IInv, Good
  <2> QED
    BY <1>1, <1>3, <1>4, <1>7, <2>1 DEF IInv, Good
<1>9. Idle.phase = "idle"
  BY DEF Idle
<1>10. PagesLoadOnce'
  BY <1>1, <1>4, <1>5, <1>7, <1>9 DEF IInv, PagesLoadOnce, OpsOf, Booting
<1>11. QueuesAreServed'
  BY <1>1, <1>4, <1>5, <1>7, <1>9 DEF IInv, QueuesAreServed, UnderWay, Waiting, OpsOf, Refreshing
<1>12. Flow' /\ FlowCookie'
  <2>1. /\ \A p \in Op : op'[p] = op[p] \/ op'[p].phase \notin Asking \union Served
        /\ \A p \in Op : op[p].phase \in Served => op'[p] = op[p]
    BY <1>1, <1>4, <1>9 DEF Asking, Served
  <2> QED
    BY <1>1, <1>3, <1>4, <2>1, FlowEbbs DEF IInv
<1>13. Own'
  BY <1>1, <1>3, <1>4, <1>5, <1>7, <1>9, OwnEbbs DEF IInv, Refreshing
<1> QED
  BY <1>8, <1>10, <1>11, <1>12, <1>13 DEF IInv

(***************************************************************************)
(* A session ends on the server.                                           *)
(***************************************************************************)
LEMMA SessionEndsStep == ASSUME IInv, NEW s \in Token, SessionEnds(s) PROVE IInv'
<1>1. Server!End({s}) /\ UNCHANGED <<issued, cookie, tab, op, hurt, strayed>>
  BY DEF SessionEnds
<1>2. ServerOK' /\ Keeps /\ \A r \in used : current'[r] = current[r] \/ current'[r] = {}
  BY <1>1, EndStep, EbbFacts DEF IInv, Good
<1>3. Good'
  <2>1. \A p \in Op : GoodOp(op[p])'
    BY <1>1, <1>2, OpStays DEF IInv, Good
  <2> QED
    BY <1>1, <1>2, <2>1, TabsStay, GivenStays DEF IInv, Good
<1>4. PagesLoadOnce' /\ QueuesAreServed'
  BY <1>1 DEF IInv, PagesLoadOnce, OpsOf, QueuesAreServed, UnderWay, Waiting
<1>5. Flow' /\ FlowCookie'
  BY <1>1, <1>2, FlowEbbs DEF IInv, Good
<1>6. Own'
  BY <1>1, <1>2, OwnEbbs DEF IInv, Good
<1> QED
  BY <1>3, <1>4, <1>5, <1>6 DEF IInv

(***************************************************************************)
(* A tab closes, with all its requests.                                    *)
(***************************************************************************)
LEMMA CloseStep == ASSUME IInv, NEW t \in Tab, Close(t) PROVE IInv'
<1>0. PICK m : m = Closed
  OBVIOUS
<1>1. /\ tab' = [tab EXCEPT ![t] = m] /\ UNCHANGED <<server, cookie>>
      /\ op' = [p \in Op |-> IF p \in OpsOf(t) THEN Idle ELSE op[p]]
      /\ hurt' = hurt \union {SessionOf(op[p].received) :
                               p \in {q \in OpsOf(t) : op[q].phase \in {"booted", "renewed"}}}
      /\ strayed' = strayed \ {t} /\ OpsOf(t) \in SUBSET Op
  BY <1>0 DEF Close, OpsOf
<1>2. ServerOK' /\ Keeps /\ \A s \in used : current'[s] = current[s] \/ current'[s] = {}
  BY <1>1, SameStep, EbbFacts DEF IInv, Good
<1>3. /\ op' \in [Op -> OpState] /\ \A p \in Op : GoodOp(op[p])'
      /\ \A p \in OpsOf(t) : op'[p] = Idle
      /\ \A p \in Op \ OpsOf(t) : op'[p] = op[p]
  BY <1>1, <1>2, OpsEnd DEF IInv
<1>4. m \in TabState /\ m.user = None /\ m.token = Empty /\ m.page = "closed" /\ ~m.refreshing
  BY <1>0 DEF Closed, TabState
<1>5. GoodTab(m)'
  BY <1>4 DEF GoodTab, Given
<1>6. /\ tab' \in [Tab -> TabState] /\ \A u \in Tab : GoodTab(tab[u])'
      /\ tab'[t] = m /\ \A u \in Tab \ {t} : tab'[u] = tab[u]
  BY <1>1, <1>2, <1>5, TabMoves DEF IInv
<1>7. hurt' \in SUBSET Token
  <2>1. \A p \in Op : op[p].phase \in Served => SessionOf(op[p].received) \in Token
    BY DEF IInv, Good, GoodOp, Given, ServerOK
  <2> QED
    BY <1>1, <2>1 DEF IInv, Good, Served, OpsOf
<1>8. Good'
  BY <1>1, <1>2, <1>3, <1>6, <1>7, GivenStays DEF IInv, Good
<1>9. Idle.phase = "idle"
  BY DEF Idle
<1>10. PagesLoadOnce'
  BY <1>3, <1>4, <1>6, <1>9 DEF IInv, PagesLoadOnce, OpsOf, Booting
<1>11. QueuesAreServed'
  BY <1>3, <1>4, <1>6, <1>9 DEF IInv, QueuesAreServed, UnderWay, Waiting, OpsOf, Refreshing
<1>12. Flow' /\ FlowCookie'
  <2>1. /\ \A p \in Op : op'[p] = op[p] \/ op'[p].phase \notin Asking \union Served
        /\ \A p \in Op : op[p].phase \in Served /\ op'[p] # op[p]
                         => SessionOf(op[p].received) \in hurt'
    BY <1>1, <1>3, <1>9 DEF Asking, Served
  <2> QED
    BY <1>1, <1>2, <1>3, <2>1, FlowEbbs DEF IInv
<1>13. Own'
  <2>1. \A p \in Op : op'[p] = op[p] \/ op'[p].phase \notin {"sent", "queued"} \union Refreshing
    BY <1>3, <1>9 DEF Refreshing
  <2> QED
    BY <1>1, <1>2, <1>3, <1>4, <1>6, <2>1, OwnEbbs DEF IInv
<1> QED
  BY <1>8, <1>10, <1>11, <1>12, <1>13 DEF IInv

(***************************************************************************)
(* A refresh fails: a page has loaded without a user, or a tab rejects its *)
(* queue and signs out.                                                    *)
(***************************************************************************)
LEMMA FailsStep ==
  ASSUME IInv, NEW o \in Op, op[o].phase \in Refreshing \union Booting, Fails(o),
         Ebbs, UNCHANGED <<cookie, strayed>>, hurt \subseteq hurt', hurt' \in SUBSET Token,
         op[o].phase \in Served => SessionOf(op[o].received) \in hurt'
  PROVE  IInv'
<1>0. PICK t, m : t = op[o].tab /\ m = IF op[o].phase \in Booting THEN [SignedOut(t) EXCEPT !.page = "ready"]
                                                                 ELSE [SignedOut(t) EXCEPT !.refreshing = FALSE]
  OBVIOUS
<1> DEFINE S == IF op[o].phase \in Booting THEN {o} ELSE {o} \union Waiting(t)
<1>1. t \in Tab /\ S \in SUBSET Op /\ o \in S /\ \A p \in S \ {o} : op[p].phase = "queued"
  BY <1>0, OpFacts DEF Refreshing, Booting, IInv, Waiting, OpsOf
<1>2. op' = [p \in Op |-> IF p \in S THEN Idle ELSE op[p]] /\ tab' = [tab EXCEPT ![t] = m]
  <2>1. CASE op[o].phase \in Booting
    <3>1. op' = [op EXCEPT ![o] = Idle] /\ tab' = [tab EXCEPT ![t] = m]
      BY <1>0, <2>1 DEF Fails, LoadedSignedOut, Ends
    <3> QED
      BY <2>1, <3>1 DEF IInv, Good
  <2>2. CASE op[o].phase \notin Booting
    <3>1. /\ op' = [p \in Op |-> IF p = o \/ p \in Waiting(t) THEN Idle ELSE op[p]]
          /\ tab' = [tab EXCEPT ![t] = m]
      BY <1>0, <2>2 DEF Fails, Rejected
    <3> QED
      BY <2>2, <3>1
  <2> QED
    BY <2>1, <2>2
<1>3. ServerOK' /\ Keeps /\ \A s \in used : current'[s] = current[s] \/ current'[s] = {}
  BY EbbFacts DEF IInv, Good
<1>4. /\ m \in TabState /\ m.user = None /\ m.token = Empty
      /\ IF op[o].phase \in Booting THEN m.page = "ready" /\ m.refreshing = tab[t].refreshing
                                     ELSE m.page = tab[t].page /\ ~m.refreshing
  BY <1>0, <1>1, SignedOutTab DEF TabState, IInv
<1>5. GoodTab(m)'
  BY <1>4 DEF GoodTab, Given
<1>6. /\ tab' \in [Tab -> TabState] /\ \A u \in Tab : GoodTab(tab[u])'
      /\ tab'[t] = m /\ \A u \in Tab \ {t} : tab'[u] = tab[u]
  BY <1>1, <1>2, <1>3, <1>5, TabMoves DEF IInv
<1>7. /\ op' \in [Op -> OpState] /\ \A p \in Op : GoodOp(op[p])'
      /\ \A p \in S : op'[p] = Idle /\ op'[p].phase = "idle"
      /\ \A p \in Op \ S : op'[p] = op[p]
  <2>1. Idle.phase = "idle"
    BY DEF Idle
  <2> HIDE DEF S
  <2> QED
    BY <1>1, <1>2, <1>3, <2>1, OpsEnd DEF IInv
<1>8. Good'
  BY <1>3, <1>6, <1>7, GivenStays DEF IInv, Good
<1>9. PagesLoadOnce'
  <2>1. CASE op[o].phase \in Booting
    <3>1. \A p \in OpsOf(t) : p = o
      BY <1>0, <1>1, <2>1 DEF IInv, PagesLoadOnce, OpsOf, Booting
    <3>2. \A p \in Op : op'[p].phase # "idle" => op'[p] = op[p] /\ op[p].tab # t
      BY <1>1, <1>7, <3>1 DEF OpsOf
    <3> QED
      BY <1>1, <1>4, <1>6, <2>1, <3>2 DEF IInv, PagesLoadOnce, OpsOf
  <2>2. CASE op[o].phase \notin Booting
    <3>1. \A p \in Op : op'[p].phase # "idle" => op'[p] = op[p]
      BY <1>7
    <3>2. m.page = tab[t].page /\ \A u \in Tab : tab'[u].page = tab[u].page
      BY <1>1, <1>4, <1>6, <2>2
    <3> QED
      BY <3>1, <3>2 DEF IInv, PagesLoadOnce, OpsOf
  <2> QED
    BY <2>1, <2>2
<1>10. QueuesAreServed'
  <2>1. \A p \in Op : op'[p].phase # "idle" => op'[p] = op[p] /\ p # o
    BY <1>1, <1>7
  <2>2. CASE op[o].phase \in Booting
    <3>1. \A p \in Op : p # o => op'[p] = op[p]
      BY <1>7, <2>2
    <3>2. \A u \in Tab : tab'[u].refreshing = tab[u].refreshing
      BY <1>1, <1>4, <1>6, <2>2
    <3>3. ASSUME NEW u \in Tab PROVE UnderWay(u)' = UnderWay(u) /\ Waiting(u)' = Waiting(u)
      BY <2>1, <2>2, <3>1 DEF UnderWay, Waiting, OpsOf, Booting, Refreshing
    <3> QED
      BY <3>2, <3>3 DEF IInv, QueuesAreServed
  <2>3. CASE op[o].phase \notin Booting
    <3>1. o \in UnderWay(t)
      BY <1>0, <1>1, <2>3 DEF UnderWay, OpsOf, Booting, Refreshing
    <3>2. UnderWay(t)' = {} /\ Waiting(t)' = {}
      BY <1>0, <1>1, <1>7, <2>1, <2>3, <3>1 DEF IInv, QueuesAreServed, UnderWay, Waiting, OpsOf, Refreshing
    <3>3. ASSUME NEW u \in Tab, u # t PROVE UnderWay(u)' = UnderWay(u) /\ Waiting(u)' = Waiting(u)
      <4>1. \A p \in S : op[p].tab = t
        BY <1>0 DEF Waiting, OpsOf
      <4> QED
        BY <1>1, <1>7, <3>3, <4>1 DEF UnderWay, Waiting, OpsOf, Refreshing
    <3> QED
      BY <1>1, <1>4, <1>6, <2>3, <3>2, <3>3 DEF IInv, QueuesAreServed
  <2> QED
    BY <2>2, <2>3
<1>11. Flow' /\ FlowCookie'
  <2>1. /\ \A p \in Op : op'[p] = op[p] \/ op'[p].phase \notin Asking \union Served
        /\ \A p \in Op : op[p].phase \in Served /\ op'[p] # op[p]
                         => SessionOf(op[p].received) \in hurt'
    BY <1>1, <1>7 DEF Asking, Served
  <2> QED
    BY <1>3, <1>7, <2>1, FlowEbbs DEF IInv
<1>12. Own'
  <2>1. \A p \in Op : op'[p] = op[p] \/ op'[p].phase \notin {"sent", "queued"} \union Refreshing
    BY <1>7 DEF Refreshing
  <2> QED
    BY <1>3, <1>4, <1>6, <1>7, <2>1, OwnEbbs DEF IInv
<1> QED
  BY <1>8, <1>9, <1>10, <1>11, <1>12 DEF IInv

LEMMA RefreshRefusedStep == ASSUME IInv, NEW o \in Op, RefreshRefused(o) PROVE IInv'
<1>1. /\ op[o].phase \in Asking /\ Fails(o) /\ UNCHANGED <<issued, cookie, hurt, strayed>>
      /\ \/ UNCHANGED <<current, used>> \/ Server!End({SessionOf(op[o].presented)})
  BY DEF RefreshRefused, Asking
<1>2. Ebbs
  <2>1. CASE UNCHANGED <<current, used>>
    BY <1>1, <2>1 DEF Ebbs, IInv, Good, ServerOK
  <2>2. CASE Server!End({SessionOf(op[o].presented)})
    BY <1>1, <2>2, EndStep DEF IInv, Good
  <2> QED
    BY <1>1, <2>1, <2>2
<1> QED
  BY <1>1, <1>2, FailsStep DEF Asking, Served, Refreshing, Booting, IInv, Good

LEMMA RefreshFailsStep == ASSUME IInv, NEW o \in Op, RefreshFails(o) PROVE IInv'
<1>1. /\ op[o].phase \in Refreshing \union Booting /\ Fails(o) /\ UNCHANGED <<server, cookie, strayed>>
      /\ hurt' = IF op[o].received = Empty THEN hurt ELSE hurt \union {SessionOf(op[o].received)}
  BY DEF RefreshFails
<1>2. Ebbs
  BY <1>1, SameStep DEF IInv, Good
<1>3. /\ op[o].received # Empty => SessionOf(op[o].received) \in Token
      /\ op[o].phase \in Served => op[o].received # Empty
  BY DEF IInv, Good, GoodOp, Given, ServerOK
<1>4. /\ hurt \subseteq hurt' /\ hurt' \in SUBSET Token
      /\ op[o].phase \in Served => SessionOf(op[o].received) \in hurt'
  BY <1>1, <1>3 DEF IInv, Good
<1> QED
  BY <1>1, <1>2, <1>4, FailsStep

(***************************************************************************)
(* The answer to a refresh arrives, and with it the cookie.                *)
(***************************************************************************)
LEMMA AnswerFlows ==
  ASSUME IInv, NEW o \in Op, op[o].phase \in Served, NEW x, x = op[o].received,
         op' \in [Op -> OpState], op'[o].phase \notin Asking \union Served,
         \A p \in Op : op'[p] = op[p] \/ (op[p].phase = "queued" /\ op'[p].phase = "sent") \/ p = o,
         cookie' = x, UNCHANGED <<server, hurt>>
  PROVE  Flow' /\ FlowCookie'
<1>1. /\ InFlight(o) /\ x # Empty /\ Given(x) /\ SessionOf(x) = SessionOf(op[o].presented)
  BY DEF IInv, Good, GoodOp, InFlight
<1>2. \A y : SessionOf(y)' = SessionOf(y) /\ IsCurrent(y)' = IsCurrent(y) /\ Calm(y)' = Calm(y)
  BY DEF server, SessionOf, IsCurrent, Calm
<1>3. \A p \in Op : InFlight(p)' => op'[p] = op[p] /\ InFlight(p) /\ p # o
  BY DEF InFlight, Asking, Served
<1>4. Calm(SessionOf(x)) => IsCurrent(x)
  BY <1>1 DEF IInv, Flow
<1>5. FlowCookie'
  BY <1>2, <1>4 DEF FlowCookie, IsCurrent, SessionOf, Calm
<1>6. Flow'
  <2> SUFFICES ASSUME NEW q \in Op, InFlight(q)', Calm(SessionOf(op[q].presented))'
               PROVE  /\ op'[q].phase \in Asking => IsCurrent(op[q].presented)'
                      /\ op'[q].phase \in Served =>
                           /\ IsCurrent(op[q].received)'
                           /\ \/ cookie' \in {op'[q].presented, Empty}
                              \/ SessionOf(cookie)' # SessionOf(op[q].presented)'
                      /\ \A p \in Op : InFlight(p)' /\ SessionOf(op[p].presented)' = SessionOf(op[q].presented)' => q = p
    BY DEF Flow
  <2>1. op'[q] = op[q] /\ InFlight(q) /\ q # o
    BY <1>3
  <2>2. PICK y, z : y = op[q].presented /\ z = op[q].received
    OBVIOUS
  <2>3. Calm(SessionOf(y)) /\ SessionOf(y)' = SessionOf(y) /\ op'[q].presented = y /\ op'[q].received = z
    BY <1>2, <2>1, <2>2 DEF SessionOf, Calm, server
  <2>4. /\ op[q].phase \in Asking => IsCurrent(y)
        /\ op[q].phase \in Served => IsCurrent(z)
        /\ \A p \in Op : InFlight(p) /\ SessionOf(op[p].presented) = SessionOf(y) => q = p
    BY <2>1, <2>2, <2>3 DEF IInv, Flow
  <2>5. SessionOf(x) # SessionOf(y)
    BY <1>1, <2>1, <2>4
  <2>6. SessionOf(cookie)' # SessionOf(op[q].presented)'
    BY <1>2, <2>1, <2>2, <2>5 DEF SessionOf, server
  <2>7. /\ op[q].phase \in Asking => IsCurrent(op[q].presented)'
        /\ op[q].phase \in Served => IsCurrent(op[q].received)'
    BY <1>2, <2>3, <2>4 DEF IsCurrent, SessionOf, server
  <2>8. \A p \in Op : InFlight(p)' /\ SessionOf(op[p].presented)' = SessionOf(op[q].presented)' => q = p
    BY <1>3, <2>2, <2>3, <2>4 DEF SessionOf, server
  <2> QED
    BY <2>1, <2>6, <2>7, <2>8
<1> QED
  BY <1>5, <1>6

LEMMA BootAnsweredStep == ASSUME IInv, NEW o \in Op, BootAnswered(o) PROVE IInv'
<1>0. PICK t, x, m : t = op[o].tab /\ x = op[o].received /\ m = [SignedOut(t) EXCEPT !.page = "ready"]
  OBVIOUS
<1>1. /\ op[o].phase = "booted" /\ t \in Tab /\ UNCHANGED <<server, hurt>> /\ cookie' = x
      /\ strayed' = strayed \union OthersThan(issued[x].account)
      /\ op' = [op EXCEPT ![o] = Idle] /\ tab' = [tab EXCEPT ![t] = m]
      /\ GoodOp(op[o])
  BY <1>0, OpFacts DEF BootAnswered, At, Ends, SetCookie, LoadedSignedOut, IInv
<1>2. ServerOK' /\ Keeps
  BY <1>1, SameStep, EbbStep DEF IInv, Good
<1>3. /\ m \in TabState /\ m.user = None /\ m.token = Empty
      /\ m.page = "ready" /\ m.refreshing = tab[t].refreshing
  BY <1>0, <1>1, SignedOutTab DEF TabState, IInv
<1>4. GoodTab(m)'
  BY <1>3 DEF GoodTab, Given
<1>5. /\ tab' \in [Tab -> TabState] /\ \A u \in Tab : GoodTab(tab[u])'
      /\ tab'[t] = m /\ \A u \in Tab \ {t} : tab'[u] = tab[u]
  BY <1>1, <1>2, <1>4, TabMoves DEF IInv
<1>6. /\ op' \in [Op -> OpState] /\ \A p \in Op : GoodOp(op[p])'
      /\ op'[o] = Idle /\ op'[o].phase = "idle" /\ \A p \in Op \ {o} : op'[p] = op[p]
  <2>1. Idle.phase = "idle"
    BY DEF Idle
  <2> QED
    BY <1>1, <1>2, <2>1, IdleIsGood, OpMoves DEF IInv
<1>7. Good'
  <2>1. Given(cookie)'
    BY <1>0, <1>1, <1>2 DEF GoodOp, Given, Keeps, SessionOf, server
  <2>2. strayed' \in SUBSET Tab
    BY <1>1 DEF OthersThan, IInv, Good
  <2> QED
    BY <1>1, <1>2, <1>5, <1>6, <2>1, <2>2 DEF IInv, Good
<1>8. PagesLoadOnce'
  <2>1. \A p \in OpsOf(t) : p = o
    BY <1>0, <1>1 DEF IInv, PagesLoadOnce, OpsOf, Booting
  <2>2. \A p \in Op : op'[p].phase # "idle" => op'[p] = op[p] /\ op[p].tab # t
    BY <1>1, <1>6, <2>1 DEF OpsOf
  <2> QED
    BY <1>1, <1>3, <1>5, <2>2 DEF IInv, PagesLoadOnce, OpsOf
<1>9. QueuesAreServed'
  BY <1>1, <1>3, <1>5, <1>6 DEF IInv, QueuesAreServed, UnderWay, Waiting, OpsOf, Refreshing
<1>10. Flow' /\ FlowCookie'
  <2>1. op[o].phase \in Served /\ op'[o].phase \notin Asking \union Served
    BY <1>1, <1>6 DEF Asking, Served
  <2>2. \A p \in Op : op'[p] = op[p] \/ (op[p].phase = "queued" /\ op'[p].phase = "sent") \/ p = o
    BY <1>6
  <2> QED
    BY <1>0, <1>1, <1>6, <2>1, <2>2, AnswerFlows
<1>11. Own'
  <2> SUFFICES ASSUME NEW u \in Tab \ strayed', tab'[u].user # None
               PROVE  /\ tab'[u].token # Empty /\ issued'[tab'[u].token].account = tab'[u].user
                      /\ cookie' # Empty => issued'[cookie'].account = tab'[u].user
                      /\ \A p \in Op : op'[p].phase # "idle" /\ op'[p].tab = u =>
                           /\ op'[p].phase \in {"sent", "queued"} \union Refreshing => op'[p].account = tab'[u].user
                           /\ op'[p].phase = "sent" => op'[p].presented # Empty /\ issued'[op'[p].presented].account = tab'[u].user
                           /\ op'[p].phase \in Refreshing /\ op'[p].presented # Empty =>
                                issued'[op'[p].presented].account = tab'[u].user
    BY DEF Own, OpsOf, At, AccountOf
  <2>1. u # t /\ tab'[u] = tab[u] /\ u \notin strayed /\ tab[u].user = issued[x].account
    BY <1>1, <1>3, <1>5 DEF OthersThan
  <2>2. \A p \in Op : op'[p].phase # "idle" => op'[p] = op[p]
    BY <1>6
  <2>3. issued' = issued
    BY <1>1 DEF server
  <2> QED
    BY <1>1, <2>1, <2>2, <2>3 DEF IInv, Own, OpsOf, At, AccountOf
<1> QED
  BY <1>7, <1>8, <1>9, <1>10, <1>11 DEF IInv

LEMMA RefreshAnsweredStep == ASSUME IInv, NEW o \in Op, RefreshAnswered(o) PROVE IInv'
<1>0. PICK t, x, m : /\ t = op[o].tab /\ x = op[o].received
                     /\ m = [tab[t] EXCEPT !.token = x, !.refreshing = FALSE]
  OBVIOUS
<1> DEFINE S == {o} \union Waiting(t)
<1>1. /\ op[o].phase = "renewed" /\ t \in Tab /\ UNCHANGED <<server, hurt>> /\ cookie' = x
      /\ strayed' = strayed \union (OthersThan(issued[x].account) \ {t})
      /\ GoodOp(op[o]) /\ S \in SUBSET Op /\ \A p \in S \ {o} : op[p].phase = "queued"
      /\ \A p \in S : op[p].tab = t /\ op[p] \in OpState
  BY <1>0, OpFacts DEF RefreshAnswered, At, SetCookie, Waiting, OpsOf, IInv, Good
<1>2. ServerOK' /\ Keeps
  BY <1>1, SameStep, EbbStep DEF IInv, Good
<1>3. x # Empty /\ Given(x) /\ x \in Token
  BY <1>0, <1>1 DEF GoodOp, Served, Given, IInv, Good, ServerOK
<1>4. /\ m \in TabState /\ m.user = tab[t].user /\ m.token = x
      /\ m.page = tab[t].page /\ ~m.refreshing /\ (m.page # "ready" => m.user = None)
  BY <1>0, <1>1, <1>3, Tabs DEF TabState, GoodTab, IInv
<1>5. GoodTab(m)'
  <2>1. Given(x)'
    BY <1>2, <1>3, GivenStays
  <2> QED
    BY <1>4, <2>1 DEF GoodTab
<1>6. /\ tab' \in [Tab -> TabState] /\ \A u \in Tab : GoodTab(tab[u])'
      /\ tab'[t] = m /\ \A u \in Tab \ {t} : tab'[u] = tab[u]
  <2>1. tab' = [tab EXCEPT ![t] = m]
    BY <1>0 DEF RefreshAnswered, IInv, Good
  <2> QED
    BY <1>1, <1>2, <1>5, <2>1, TabMoves DEF IInv
<1>7. /\ op' \in [Op -> OpState] /\ \A p \in Op \ S : op'[p] = op[p]
      /\ \A p \in S : /\ op'[p].phase = "sent" /\ op'[p].tab = t /\ op'[p].account = op[p].account
                      /\ op'[p].presented = x /\ op'[p].received = Empty
  <2>1. op' = [p \in Op |-> IF p \in S THEN [op[p] EXCEPT !.phase = "sent", !.received = Empty,
                                                           !.presented = x]
                                       ELSE op[p]]
    BY <1>0 DEF RefreshAnswered
  <2>2. ASSUME NEW p \in S
        PROVE  /\ op'[p] \in OpState
               /\ op'[p].phase = "sent" /\ op'[p].tab = t /\ op'[p].account = op[p].account
               /\ op'[p].presented = x /\ op'[p].received = Empty
    <3>1. op'[p] = [op[p] EXCEPT !.phase = "sent", !.received = Empty, !.presented = x]
      BY <1>1, <2>1
    <3> QED
      BY <1>1, <1>3, <3>1 DEF OpState
  <2> HIDE DEF S
  <2> QED
    BY <2>1, <2>2 DEF IInv, Good
<1> HIDE DEF S
<1>8. ASSUME NEW p \in Op PROVE GoodOp(op[p])'
  <2>1. CASE p \in S
    <3>1. x \in used' /\ issued'[x].session \in used'
      BY <1>2, <1>3 DEF Given, Keeps, SessionOf
    <3> QED
      BY <1>1, <1>7, <2>1, <3>1 DEF GoodOp, Served, Given, SessionOf
  <2>2. CASE p \notin S
    <3>1. GoodOp(op[p]) /\ \E k \in OpState : k = op[p] /\ GoodOp(k)
      BY DEF IInv, Good
    <3> QED
      BY <1>2, <1>7, <2>2, <3>1, OpStays
  <2> QED
    BY <2>1, <2>2
<1>9. Good'
  <2>1. Given(cookie)'
    BY <1>1, <1>2, <1>3 DEF Given, Keeps, SessionOf
  <2>2. strayed' \in SUBSET Tab
    BY <1>1 DEF OthersThan, IInv, Good
  <2> QED
    BY <1>1, <1>2, <1>6, <1>7, <1>8, <2>1, <2>2 DEF IInv, Good
<1>10. o \in S /\ o \in UnderWay(t) /\ Waiting(t) \subseteq S
  BY <1>0, <1>1 DEF S, UnderWay, OpsOf, Refreshing
<1>11. PagesLoadOnce'
  <2>1. tab[t].page = "ready"
    BY <1>0, <1>1, ReadyPages DEF Booting
  <2>2. \A u \in Tab : tab'[u].page = tab[u].page
    BY <1>4, <1>6
  <2> QED
    BY <1>1, <1>7, <1>10, <2>1, <2>2 DEF IInv, PagesLoadOnce, OpsOf, Booting
<1>12. QueuesAreServed'
  <2>1. UnderWay(t)' = {} /\ Waiting(t)' = {}
    BY <1>1, <1>7, <1>10 DEF IInv, QueuesAreServed, UnderWay, Waiting, OpsOf, Refreshing
  <2>2. ASSUME NEW u \in Tab, u # t PROVE UnderWay(u)' = UnderWay(u) /\ Waiting(u)' = Waiting(u)
    BY <1>1, <1>7, <2>2 DEF UnderWay, Waiting, OpsOf, Refreshing
  <2> QED
    BY <1>1, <1>4, <1>6, <2>1, <2>2 DEF IInv, QueuesAreServed
<1>13. Flow' /\ FlowCookie'
  <2>1. op[o].phase \in Served /\ op'[o].phase \notin Asking \union Served
    BY <1>1, <1>7, <1>10 DEF Asking, Served
  <2>2. \A p \in Op : op'[p] = op[p] \/ (op[p].phase = "queued" /\ op'[p].phase = "sent") \/ p = o
    BY <1>1, <1>7
  <2> QED
    BY <1>0, <1>1, <1>7, <2>1, <2>2, AnswerFlows
<1>14. Own'
  <2> SUFFICES ASSUME NEW u \in Tab \ strayed', tab'[u].user # None
               PROVE  /\ tab'[u].token # Empty /\ issued'[tab'[u].token].account = tab'[u].user
                      /\ cookie' # Empty => issued'[cookie'].account = tab'[u].user
                      /\ \A p \in Op : op'[p].phase # "idle" /\ op'[p].tab = u =>
                           /\ op'[p].phase \in {"sent", "queued"} \union Refreshing => op'[p].account = tab'[u].user
                           /\ op'[p].phase = "sent" => op'[p].presented # Empty /\ issued'[op'[p].presented].account = tab'[u].user
                           /\ op'[p].phase \in Refreshing /\ op'[p].presented # Empty =>
                                issued'[op'[p].presented].account = tab'[u].user
    BY DEF Own, OpsOf, At, AccountOf
  <2>1. issued' = issued /\ u \notin strayed
    BY <1>1 DEF server
  <2>2. CASE u = t
    <3>0. t \in Tab \ strayed /\ tab[t].user # None
      BY <1>1, <1>4, <1>6, <2>1, <2>2
    <3>1. issued[x].account = tab[t].user
      <4>1. /\ op[o].presented # Empty
            /\ issued[x].account = issued[op[o].presented].account
        BY <1>0, <1>1 DEF GoodOp, Served, AccountOf
      <4> QED
        BY <1>1, <1>10, <3>0, <4>1 DEF IInv, Own, UnderWay, AccountOf, Refreshing
    <3>2. \A p \in S : op[p].account = tab[t].user
      <4>1. \A p \in S : p \in OpsOf(t) /\ op[p].phase \in {"queued"} \union Refreshing
        BY <1>1 DEF OpsOf, Refreshing
      <4> QED
        BY <3>0, <4>1 DEF IInv, Own
    <3>3. \A p \in Op \ S : op'[p] = op[p]
      BY <1>7
    <3> QED
      BY <1>1, <1>3, <1>4, <1>6, <1>7, <2>1, <2>2, <3>1, <3>2, <3>3 DEF IInv, Own, OpsOf, At, AccountOf, Refreshing
  <2>3. CASE u # t
    <3>1. tab'[u] = tab[u] /\ tab[u].user = issued[x].account
      BY <1>1, <1>6, <2>3 DEF OthersThan
    <3>2. \A p \in Op : op'[p].tab = u => op'[p] = op[p]
      BY <1>7, <2>3
    <3> QED
      BY <1>1, <2>1, <3>1, <3>2 DEF IInv, Own, OpsOf, At, AccountOf
  <2> QED
    BY <2>2, <2>3
<1> QED
  BY <1>9, <1>11, <1>12, <1>13, <1>14 DEF IInv

(***************************************************************************)
(* The server rotates the token a refresh carries.                         *)
(***************************************************************************)
LEMMA RefreshServedStep == ASSUME IInv, NEW o \in Op, RefreshServed(o) PROVE IInv'
<1>0. PICK f, x, s, a, n :
        /\ f = Fresh /\ x = op[o].presented /\ s = SessionOf(x) /\ a = AccountOf(x)
        /\ n = [op[o] EXCEPT !.received = f,
                             !.phase = IF At(o, "boot") THEN "booted" ELSE "renewed"]
  OBVIOUS
<1>1. /\ op[o].phase \in Asking /\ x # Empty /\ IsCurrent(x) /\ f \in Token
      /\ Server!Renew(s, f) /\ Issue(s, a) /\ UNCHANGED <<cookie, tab, hurt, strayed>>
      /\ GoodOp(op[o]) /\ op[o] \in OpState /\ op[o].tab \in Tab /\ InFlight(o)
  BY <1>0, OpFacts DEF RefreshServed, IsCurrent, Asking, AccountOf, IInv, InFlight
<1>2. x \in used /\ s \in used /\ s \in Token /\ current[s] = {x} /\ a \in Account \union {None}
  BY <1>0, <1>1 DEF GoodOp, Given, IsCurrent, IInv, Good, ServerOK, CurrentIsOne, AccountOf
<1>3. /\ ServerOK' /\ Keeps /\ used' = used \union {f} /\ f \notin used /\ f # Empty
      /\ issued'[f] = [session |-> s, account |-> a]
      /\ current'[s] = {f} /\ \A r \in Token \ {s} : current'[r] = current[r]
  BY <1>0, <1>1, <1>2, RenewStep, FreshIsNew, EmptyIsNoToken DEF IInv, Good
<1>4. /\ n \in OpState /\ n.tab = op[o].tab /\ n.account = op[o].account
      /\ n.presented = x /\ n.received = f /\ n.phase \in Served
      /\ n.phase = IF op[o].phase = "boot" THEN "booted" ELSE "renewed"
  BY <1>0, <1>1 DEF OpState, At, Served, Refreshing, Booting
<1>5. issued'[x] = issued[x] /\ x \in used' /\ f \in used' /\ s \in used'
  BY <1>2, <1>3 DEF Keeps
<1>6. GoodOp(n)'
  BY <1>0, <1>1, <1>3, <1>4, <1>5 DEF GoodOp, Given, SessionOf, AccountOf, Served
<1>7. op' = [op EXCEPT ![o] = n]
  BY <1>0 DEF RefreshServed, IInv, Good
<1>8. /\ op' \in [Op -> OpState] /\ \A p \in Op : GoodOp(op[p])'
      /\ op'[o] = n /\ \A p \in Op \ {o} : op'[p] = op[p]
  BY <1>3, <1>6, <1>7, OpMoves DEF IInv
<1>9. Good'
  BY <1>1, <1>3, <1>8, TabsStay, GivenStays DEF IInv, Good
<1>10. PagesLoadOnce'
  <2>1. op'[o].phase \in Booting <=> op[o].phase \in Booting
    BY <1>1, <1>4, <1>8 DEF Booting, Asking
  <2>2. \A u \in Tab : OpsOf(u)' = OpsOf(u)
    BY <1>1, <1>4, <1>8 DEF OpsOf, Asking
  <2>3. \A p \in Op : op'[p].phase \in Booting <=> op[p].phase \in Booting
    BY <1>8, <2>1
  <2> QED
    BY <1>1, <2>2, <2>3 DEF IInv, PagesLoadOnce, OpsOf
<1>11. QueuesAreServed'
  BY <1>1, <1>4, <1>8 DEF IInv, QueuesAreServed, UnderWay, Waiting, OpsOf, Refreshing, Asking
<1>12. Calm(s) => /\ \A q \in Op : InFlight(q) /\ SessionOf(op[q].presented) = s => q = o
                  /\ cookie \in {x, Empty} \/ SessionOf(cookie) # s
  <2> SUFFICES ASSUME Calm(s)
               PROVE  /\ \A q \in Op : InFlight(q) /\ SessionOf(op[q].presented) = s => q = o
                      /\ cookie \in {x, Empty} \/ SessionOf(cookie) # s
    OBVIOUS
  <2>1. \A q \in Op : InFlight(q) /\ SessionOf(op[q].presented) = s => q = o
    BY <1>0, <1>1 DEF IInv, Flow
  <2>2. ASSUME cookie # Empty, SessionOf(cookie) = s
        PROVE  cookie = x
    <3>1. ~\E q \in Op : op[q].phase \in Served /\ op[q].presented = cookie
      BY <1>1, <2>1, <2>2 DEF InFlight, Asking, Served
    <3>2. IsCurrent(cookie)
      BY <2>2, <3>1 DEF IInv, FlowCookie
    <3> QED
      BY <1>2, <2>2, <3>2 DEF IsCurrent
  <2> QED
    BY <2>1, <2>2
<1>13. ASSUME NEW y, Given(y), y # Empty
       PROVE  /\ issued'[y] = issued[y]
              /\ SessionOf(y) # s /\ IsCurrent(y) => y \in current'[SessionOf(y)]
              /\ (Calm(SessionOf(y))' => Calm(SessionOf(y)))
  <2>1. issued'[y] = issued[y] /\ SessionOf(y) \in Token
    BY <1>3, <1>13 DEF Given, Keeps, IInv, Good, ServerOK
  <2>2. Calm(SessionOf(y))' => Calm(SessionOf(y))
    BY <1>1, <1>2, <1>3, <2>1 DEF Calm, SessionOf
  <2> QED
    BY <1>3, <2>1, <2>2 DEF IsCurrent
<1>14. Flow'
  <2> SUFFICES ASSUME NEW q \in Op, InFlight(q)', Calm(SessionOf(op[q].presented))'
               PROVE  /\ op'[q].phase \in Asking => IsCurrent(op[q].presented)'
                      /\ op'[q].phase \in Served =>
                           /\ IsCurrent(op[q].received)'
                           /\ \/ cookie' \in {op'[q].presented, Empty}
                              \/ SessionOf(cookie)' # SessionOf(op[q].presented)'
                      /\ \A p \in Op : InFlight(p)' /\ SessionOf(op[p].presented)' = SessionOf(op[q].presented)' => q = p
    BY DEF Flow
  <2>1. PICK y, z : y = op'[q].presented /\ z = op[q].received
    OBVIOUS
  <2>2. /\ InFlight(q) /\ op[q].presented = y /\ y # Empty /\ Given(y) /\ Given(z)
        /\ op[q].phase \in Served => z # Empty /\ SessionOf(z) = SessionOf(y)
    <3>1. op[q].presented = y /\ InFlight(q)
      <4>1. CASE q = o
        BY <1>0, <1>1, <1>4, <1>8, <2>1, <4>1
      <4>2. CASE q # o
        BY <1>8, <2>1, <4>2 DEF InFlight
      <4> QED
        BY <4>1, <4>2
    <3>2. GoodOp(op[q])
      BY DEF IInv, Good
    <3> QED
      BY <2>1, <3>1, <3>2 DEF InFlight, GoodOp
  <2>3. issued'[y] = issued[y] /\ Calm(SessionOf(y)) /\ SessionOf(op[q].presented)' = SessionOf(y)
    BY <1>13, <2>1, <2>2 DEF SessionOf, Calm
  <2>4. \A p \in Op : /\ InFlight(p)' => InFlight(p)
                      /\ op'[p].presented = op[p].presented
                      /\ InFlight(p)' => issued'[op'[p].presented].session = SessionOf(op[p].presented)
    <3> SUFFICES ASSUME NEW p \in Op
                 PROVE  /\ InFlight(p)' => InFlight(p)
                        /\ op'[p].presented = op[p].presented
                        /\ InFlight(p)' => issued'[op'[p].presented].session = SessionOf(op[p].presented)
      OBVIOUS
    <3>1. op'[p].presented = op[p].presented
      <4>1. CASE p = o
        BY <1>0, <1>1, <1>4, <1>8, <4>1
      <4>2. CASE p # o
        BY <1>8, <4>2
      <4> QED
        BY <4>1, <4>2
    <3>2. InFlight(p)' => InFlight(p)
      BY <1>0, <1>1, <1>4, <1>8 DEF InFlight
    <3>3. Given(op[p].presented)
      BY DEF IInv, Good, GoodOp
    <3>4. PICK w : w = op[p].presented /\ op'[p].presented = w
      BY <3>1
    <3>5. InFlight(p)' => w # Empty
      BY <3>2, <3>4 DEF InFlight
    <3>6. w # Empty => issued'[w] = issued[w]
      BY <1>13, <3>3, <3>4
    <3> QED
      BY <3>1, <3>2, <3>4, <3>5, <3>6 DEF SessionOf
  <2>5. \A p \in Op : InFlight(p)' /\ SessionOf(op[p].presented)' = SessionOf(op[q].presented)' => q = p
    <3>1. \A p \in Op : InFlight(p) /\ SessionOf(op[p].presented) = SessionOf(y) => q = p
      BY <2>2, <2>3 DEF IInv, Flow
    <3>2. \A p \in Op : InFlight(p)' => SessionOf(op[p].presented)' = SessionOf(op[p].presented)
      BY <2>4 DEF SessionOf
    <3> QED
      BY <2>3, <2>4, <3>1, <3>2
  <2>6. \/ cookie = Empty \/ cookie' = y \/ SessionOf(cookie)' # SessionOf(y) \/ op'[q].phase \notin Served
    <3>1. cookie = Empty \/ SessionOf(cookie)' = SessionOf(cookie)
      BY <1>1, <1>13 DEF IInv, Good, SessionOf
    <3>2. CASE q = o
      BY <1>0, <1>1, <1>12, <2>2, <2>3, <3>1, <3>2
    <3>3. CASE q # o
      <4>1. op'[q] = op[q]
        BY <1>8, <3>3
      <4> QED
        BY <1>1, <2>2, <2>3, <3>1, <4>1 DEF IInv, Flow
    <3> QED
      BY <3>2, <3>3
  <2>7. CASE q = o
    <3>1. op'[q].received = f /\ op'[q].phase \in Served
      BY <1>4, <1>8, <2>7
    <3>2. IsCurrent(op[q].received)'
      BY <1>3, <3>1 DEF IsCurrent, SessionOf
    <3> QED
      BY <1>1, <2>1, <2>3, <2>5, <2>6, <3>1, <3>2 DEF Asking, Served
  <2>8. CASE q # o
    <3>1. op'[q] = op[q] /\ SessionOf(y) # s
      BY <1>8, <1>12, <2>2, <2>3, <2>8
    <3>2. /\ op[q].phase \in Asking => IsCurrent(y)
          /\ op[q].phase \in Served => IsCurrent(z)
      BY <2>1, <2>2, <2>3 DEF IInv, Flow
    <3>3. /\ op[q].phase \in Asking => IsCurrent(op[q].presented)'
          /\ op[q].phase \in Served => IsCurrent(op[q].received)'
      BY <1>13, <2>1, <2>2, <3>1, <3>2 DEF IsCurrent, SessionOf
    <3> QED
      BY <1>1, <2>1, <2>3, <2>5, <2>6, <3>1, <3>3
  <2> QED
    BY <2>7, <2>8
<1>15. FlowCookie'
  <2> SUFFICES ASSUME cookie # Empty, Calm(SessionOf(cookie))'
               PROVE  IsCurrent(cookie)' \/ \E q \in Op : op'[q].phase \in Served /\ op'[q].presented = cookie
    BY <1>1 DEF FlowCookie
  <2>1. PICK y : y = cookie /\ cookie' = y
    BY <1>1
  <2>2. Given(y) /\ issued'[y] = issued[y] /\ Calm(SessionOf(y))
    BY <1>13, <2>1 DEF IInv, Good, SessionOf, Calm
  <2>3. CASE SessionOf(y) = s
    BY <1>4, <1>8, <1>12, <2>1, <2>2, <2>3
  <2>4. CASE SessionOf(y) # s
    <3>1. IsCurrent(y) => IsCurrent(cookie)'
      BY <1>13, <2>1, <2>2, <2>4 DEF IsCurrent, SessionOf
    <3>2. \A q \in Op : op[q].phase \in Served => op'[q] = op[q]
      BY <1>1, <1>8 DEF Asking, Served
    <3> QED
      BY <2>1, <2>2, <3>1, <3>2 DEF IInv, FlowCookie
  <2> QED
    BY <2>3, <2>4
<1>16. Own'
  <2>1. \A y : Given(y) /\ y # Empty => issued'[y] = issued[y]
    BY <1>13
  <2>2. /\ Given(cookie) /\ \A u \in Tab : Given(tab[u].token)
        /\ \A p \in Op : Given(op[p].presented)
    BY DEF IInv, Good, GoodTab, GoodOp
  <2>3. /\ \A p \in Op : /\ op'[p].presented = op[p].presented /\ op'[p].account = op[p].account
                         /\ op'[p].tab = op[p].tab
                         /\ op'[p].phase \in Refreshing <=> op[p].phase \in Refreshing
        /\ \A p \in Op : \/ op'[p].phase = op[p].phase
                         \/ op[p].phase \in Asking /\ op'[p].phase \in Served
    <3>1. op'[o].phase \in Refreshing <=> op[o].phase \in Refreshing
      BY <1>1, <1>4, <1>8 DEF Asking, Refreshing
    <3> QED
      BY <1>0, <1>1, <1>4, <1>8, <3>1
  <2>4. \A p \in Op : /\ op'[p].phase # "idle" => op[p].phase # "idle"
                      /\ op'[p].phase \in {"sent", "queued"} => op'[p].phase = op[p].phase
    BY <2>3 DEF Asking, Served
  <2> QED
    BY <1>1, <2>1, <2>2, <2>3, <2>4 DEF IInv, Own, OpsOf, At, AccountOf
<1> QED
  BY <1>9, <1>10, <1>11, <1>14, <1>15, <1>16 DEF IInv

-----------------------------------------------------------------------------
LEMMA InitHolds == ASSUME Init PROVE IInv
<1>1. Cardinality({}) = 0 /\ 1..0 = {}
  BY FS_EmptySet
<1>2. ServerOK
  BY <1>1 DEF Init, ServerOK, CurrentIsOne
<1>3. Closed \in TabState /\ Idle \in OpState /\ GoodOp(Idle)
  BY IdleIsGood DEF Closed, TabState
<1>4. Good
  BY <1>2, <1>3 DEF Init, Good, GoodTab, Given, Closed
<1>5. \A o \in Op : op[o].phase = "idle"
  BY DEF Init, Idle
<1>6. \A t \in Tab : tab[t].user = None /\ ~tab[t].refreshing
  BY DEF Init, Closed
<1>7. PagesLoadOnce /\ QueuesAreServed
  BY <1>5, <1>6 DEF PagesLoadOnce, QueuesAreServed, OpsOf, UnderWay, Waiting
<1>8. Flow /\ FlowCookie /\ Own
  BY <1>5, <1>6 DEF Flow, InFlight, Asking, Served, FlowCookie, Own, Init
<1> QED
  BY <1>4, <1>7, <1>8 DEF IInv

LEMMA StutterHolds == ASSUME IInv, UNCHANGED vars PROVE IInv'
<1>1. UNCHANGED <<server, cookie, tab, op, hurt, strayed>>
  BY DEF vars, server
<1>2. ServerOK' /\ Keeps /\ \A r \in used : current'[r] = current[r] \/ current'[r] = {}
  BY <1>1, SameStep, EbbFacts DEF IInv, Good
<1>3. Good'
  <2>1. \A p \in Op : GoodOp(op[p])'
    BY <1>1, <1>2, OpStays DEF IInv, Good
  <2> QED
    BY <1>1, <1>2, <2>1, TabsStay, GivenStays DEF IInv, Good
<1>4. PagesLoadOnce' /\ QueuesAreServed'
  BY <1>1 DEF IInv, PagesLoadOnce, OpsOf, QueuesAreServed, UnderWay, Waiting
<1>5. Flow' /\ FlowCookie'
  BY <1>1, <1>2, FlowEbbs DEF IInv, Good
<1>6. Own'
  BY <1>1, <1>2, OwnEbbs DEF IInv, Good
<1> QED
  BY <1>3, <1>4, <1>5, <1>6 DEF IInv

LEMMA StepHolds == ASSUME IInv, [Next]_vars PROVE IInv'
<1>1. ASSUME NEW o \in Op, Continue(o) PROVE IInv'
  <2>1. CASE LoginFails(o) \/ CallEnds(o)
    <3>1. /\ op[o].phase \notin Asking \union Served /\ Ends(o)
          /\ UNCHANGED <<server, cookie, tab, hurt, strayed>>
      BY <2>1 DEF LoginFails, CallEnds, At, Asking, Served
    <3> QED
      BY <3>1, EndsQuietly
  <2> QED
    BY <1>1, <2>1, LoginAnsweredStep, LogoutAnsweredStep, UnauthorisedStep, RefreshServedStep,
       RefreshRefusedStep, RefreshFailsStep, BootAnsweredStep, RefreshAnsweredStep DEF Continue
<1>2. ASSUME NEW o \in Op, NEW t \in Tab,
             Open(o, t) \/ Logout(o, t) \/ Call(o, t) \/ \E a \in Account : Login(o, t, a)
      PROVE  IInv'
  BY <1>2, OpenStep, LogoutStep, CallStep, LoginStep
<1> QED
  BY <1>1, <1>2, CloseStep, SessionEndsStep, StutterHolds DEF Next

LEMMA Invariance == Spec => []IInv
BY InitHolds, StepHolds, PTL DEF Spec

-----------------------------------------------------------------------------
(***************************************************************************)
(* The variables have their types.                                         *)
(***************************************************************************)
THEOREM TypeCorrect == Spec => []TypeOK
<1>1. IInv => TypeOK
  BY Cookies DEF IInv, Good, ServerOK, TypeOK
<1> QED
  BY <1>1, Invariance, PTL

(***************************************************************************)
(* No request is left in a queue: of any number of tabs and requests, a    *)
(* tab has one refresh under way while isRefreshing is set.                *)
(***************************************************************************)
THEOREM QueuesServed == Spec => []QueuesAreServed
<1>1. IInv => QueuesAreServed
  BY DEF IInv
<1> QED
  BY <1>1, Invariance, PTL

(***************************************************************************)
(* A refresh carries the current token of its session, unless two tabs     *)
(* sent one cookie at once, an answer was lost, or the session is over.    *)
(***************************************************************************)
THEOREM CurrentTokens == Spec => []RefreshesCarryTheCurrentToken
<1>1. ASSUME IInv PROVE RefreshesCarryTheCurrentToken
  BY <1>1 DEF IInv, Flow, InFlight, Calm, Asking, RefreshesCarryTheCurrentToken
<1> QED
  BY <1>1, Invariance, PTL

(***************************************************************************)
(* A tab acts for the user it shows, unless another tab has signed in as   *)
(* somebody else, or somebody signed in over requests still under way.     *)
(***************************************************************************)
THEOREM TabsOwnTheirRequests == Spec => []TabsActForTheirUser
<1>1. ASSUME IInv PROVE TabsActForTheirUser
  BY <1>1 DEF IInv, Own, OpsOf, At, AccountOf, TabsActForTheirUser
<1> QED
  BY <1>1, Invariance, PTL
=============================================================================
