----------------------------- MODULE WebSession -----------------------------
(***************************************************************************)
(* The session of the web client: the tabs of one browser.  They share the *)
(* refresh cookie; each keeps its own access token and its own user in     *)
(* memory (tokenStore, AuthContext), and its own queue of the requests     *)
(* that wait for a refresh (api.http.ts).  The server's side of a session  *)
(* is what RotatingSessions promises of it, and Sessions implements.       *)
(*                                                                         *)
(* JavaScript runs from one await to the next without interruption, so a   *)
(* step is the sending of a request, what the server does with it, or what *)
(* a tab does with the answer; the last two are one step where nothing     *)
(* that comes between could tell.  The browser adds the cookie it has to a *)
(* request to /auth when it is sent, and replaces the cookie when an       *)
(* answer says so.  A request or its answer may be lost.                   *)
(***************************************************************************)
EXTENDS Integers, FiniteSets

CONSTANTS Tab,      \* tabs of the browser
          Op,       \* slots for requests under way
          Account,
          None,     \* no user, no tab
          MaxToken  \* bound: the token pairs handed out

ASSUME NoneAssumption == None \notin Account \union Tab
ASSUME MaxTokenAssumption == MaxToken \in Nat \ {0}

Token == 1..MaxToken   \* an access token and the refresh token that came with it
Empty == 0

VARIABLES current, used,  \* the sessions of the server
          issued,         \* issued[t]: the session and account of token t
          cookie,         \* the refresh cookie of the browser
          tab,            \* what each tab holds in memory
          op,             \* the requests under way
          hurt,           \* history: the sessions something has interfered with
          strayed         \* history: tabs whose cookie or requests may be another user's

server == <<current, used, issued>>
vars == <<current, used, issued, cookie, tab, op, hurt, strayed>>

Server == INSTANCE RotatingSessions

\* page: AuthContext's loading, or "closed"; refreshing: isRefreshing
TabState == [page : {"closed", "loading", "ready"}, user : Account \union {None},
             token : Token \union {Empty}, refreshing : BOOLEAN]

Refreshing == {"refresh", "renewed"}   \* the interceptor's refresh
Booting == {"boot", "booted"}          \* the refresh of a page that loads
OpState == [phase : {"idle", "login", "logout", "sent", "queued"}
                      \union Refreshing \union Booting,
            tab : Tab \union {None}, account : Account \union {None}, retried : BOOLEAN,
            presented : Token \union {Empty}, received : Token \union {Empty}]

TypeOK ==
  /\ current \in [Token -> SUBSET Token]
  /\ used \in SUBSET Token
  /\ issued \in [Token -> [session : Token \union {Empty}, account : Account \union {None}]]
  /\ cookie \in Token \union {Empty}
  /\ tab \in [Tab -> TabState]
  /\ op \in [Op -> OpState]
  /\ hurt \in SUBSET Token
  /\ strayed \in SUBSET Tab

Closed == [page |-> "closed", user |-> None, token |-> Empty, refreshing |-> FALSE]
Idle == [phase |-> "idle", tab |-> None, account |-> None,
         retried |-> FALSE, presented |-> Empty, received |-> Empty]

Init ==
  /\ current = [t \in Token |-> {}] /\ used = {}
  /\ issued = [t \in Token |-> [session |-> Empty, account |-> None]]
  /\ cookie = Empty
  /\ tab = [t \in Tab |-> Closed]
  /\ op = [o \in Op |-> Idle]
  /\ hurt = {} /\ strayed = {}

Fresh == Cardinality(used) + 1
Issue(s, a) == issued' = [issued EXCEPT ![Fresh] = [session |-> s, account |-> a]]

At(o, phase) == op[o].phase = phase
Ends(o) == op' = [op EXCEPT ![o] = Idle]
OpsOf(t) == {o \in Op : op[o].phase # "idle" /\ op[o].tab = t}
SessionOf(t) == issued[t].session
IsCurrent(t) == t # Empty /\ t \in current[SessionOf(t)]

\* A request of tab t, with the token that goes with it
Sends(o, t, phase, account, token) ==
  /\ At(o, "idle")
  /\ op' = [op EXCEPT ![o] = [Idle EXCEPT !.phase = phase, !.tab = t,
                                          !.account = account, !.presented = token]]

\* What the browser does with a Set-Cookie, and the tabs that then show another user
SetCookie(t) == cookie' = t
OthersThan(a) == {t \in Tab : tab[t].user \notin {None, a}}

\* clearAuth
SignedOut(t) == [tab[t] EXCEPT !.user = None, !.token = Empty]

\* Sessions whose token two refreshes of different tabs carry at once
Clash(o, t, token) ==
  {SessionOf(p) : p \in {op[q].presented : q \in {r \in Op \ {o} :
       /\ op[r].phase \in Refreshing \union Booting
       /\ op[r].tab # t
       /\ op[r].presented # Empty /\ op[r].presented = token}}}

-----------------------------------------------------------------------------
\* AuthProvider mounts: the page tries the cookie.
Open(o, t) ==
  /\ tab[t].page = "closed"
  /\ Sends(o, t, "boot", None, cookie)
  /\ tab' = [tab EXCEPT ![t] = [Closed EXCEPT !.page = "loading"]]
  /\ hurt' = hurt \union Clash(o, t, cookie)
  /\ UNCHANGED <<server, cookie, strayed>>

\* The tab is closed or reloaded: its memory is gone, and so are its requests.
Close(t) ==
  /\ tab[t].page # "closed"
  /\ tab' = [tab EXCEPT ![t] = Closed]
  /\ op' = [o \in Op |-> IF o \in OpsOf(t) THEN Idle ELSE op[o]]
  /\ hurt' = hurt \union {SessionOf(op[o].received) :
                            o \in {p \in OpsOf(t) : op[p].phase \in {"booted", "renewed"}}}
  /\ strayed' = strayed \ {t}
  /\ UNCHANGED <<server, cookie>>

\* LoginPage: log-in or registration, one at a time (submitting).
Login(o, t, a) ==
  /\ tab[t].page = "ready" /\ tab[t].user = None
  /\ ~\E p \in OpsOf(t) : op[p].phase = "login"
  /\ Sends(o, t, "login", a, Empty)
  /\ UNCHANGED <<server, cookie, tab, hurt, strayed>>

\* Mutation of LoginCookie: the cookie is set for another path, and one that
\* was there before keeps being sent.
LoginCookieShadowed == cookie' = IF cookie = Empty THEN Fresh ELSE cookie

\* withCredentials
LoginCookie == SetCookie(Fresh)

\* The server opens a session; storeTokens.  Requests of the user before may
\* still be under way.
LoginAnswered(o) ==
  LET t == op[o].tab
      earlier == {p \in OpsOf(t) : op[p].phase \in {"sent", "queued"} \union Refreshing}
  IN  /\ At(o, "login")
      /\ Fresh \in Token
      /\ Server!Begin(Fresh) /\ Issue(Fresh, op[o].account)
      /\ LoginCookie
      /\ tab' = [tab EXCEPT ![t].user = op[o].account, ![t].token = Fresh]
      /\ strayed' = (strayed \ {t}) \union OthersThan(op[o].account)
                      \union {u \in {t} : earlier # {}}
      /\ Ends(o)
      /\ UNCHANGED hurt

\* Refused or lost: LoginPage shows an error.
LoginFails(o) ==
  /\ At(o, "login")
  /\ Ends(o)
  /\ UNCHANGED <<server, cookie, tab, hurt, strayed>>

Logout(o, t) ==
  /\ tab[t].user # None
  /\ Sends(o, t, "logout", tab[t].user, cookie)
  /\ UNCHANGED <<server, cookie, tab, hurt, strayed>>

\* The server revokes the token presented, if it is still the current one.
Revokes(t) == IF IsCurrent(t) THEN Server!End({SessionOf(t)}) ELSE UNCHANGED <<current, used>>

\* The answer clears the cookie, whosever it is by now; if it is lost or the
\* request was, the cookie stays.  The tab is signed out in any case.
LogoutAnswered(o) ==
  /\ At(o, "logout")
  /\ \/ Revokes(op[o].presented) /\ SetCookie(Empty)
     \/ Revokes(op[o].presented) /\ UNCHANGED cookie
     \/ UNCHANGED <<current, used, cookie>>
  /\ tab' = [tab EXCEPT ![op[o].tab] = SignedOut(op[o].tab)]
  /\ strayed' = strayed \ {op[o].tab}
  /\ Ends(o)
  /\ UNCHANGED <<issued, hurt>>

-----------------------------------------------------------------------------
\* A request of a view, with the access token in memory.
Call(o, t) ==
  /\ tab[t].user # None
  /\ Sends(o, t, "sent", tab[t].user, tab[t].token)
  /\ UNCHANGED <<server, cookie, tab, hurt, strayed>>

\* Any answer but a 401, or none in ten seconds: the caller has its result.
CallEnds(o) ==
  /\ At(o, "sent")
  /\ Ends(o)
  /\ UNCHANGED <<server, cookie, tab, hurt, strayed>>

\* Mutation of Unauthorised: a request does not look whether a refresh is under way.
UnauthorisedAlone(o) ==
  LET t == op[o].tab
  IN  /\ At(o, "sent")
      /\ ~op[o].retried
      /\ op' = [op EXCEPT ![o].phase = "refresh", ![o].retried = TRUE, ![o].presented = cookie]
      /\ tab' = [tab EXCEPT ![t].refreshing = TRUE]
      /\ hurt' = hurt \union Clash(o, t, cookie)
      /\ UNCHANGED <<server, cookie, strayed>>

\* A 401: the access token is past its time, or its account is gone.  It is
\* final for a request that was sent again; the first of a tab starts a
\* refresh, and the others wait for it.
Unauthorised(o) ==
  LET t == op[o].tab
  IN  /\ At(o, "sent")
      /\ \/ op[o].retried /\ Ends(o) /\ UNCHANGED <<tab, hurt>>
         \/ /\ ~op[o].retried /\ tab[t].refreshing
            /\ op' = [op EXCEPT ![o].phase = "queued", ![o].retried = TRUE]
            /\ UNCHANGED <<tab, hurt>>
         \/ /\ ~op[o].retried /\ ~tab[t].refreshing
            /\ op' = [op EXCEPT ![o].phase = "refresh", ![o].retried = TRUE,
                                ![o].presented = cookie]
            /\ tab' = [tab EXCEPT ![t].refreshing = TRUE]
            /\ hurt' = hurt \union Clash(o, t, cookie)
      /\ UNCHANGED <<server, cookie, strayed>>

\* The server rotates a current token.
RefreshServed(o) ==
  LET s == SessionOf(op[o].presented)
  IN  /\ op[o].phase \in {"boot", "refresh"}
      /\ IsCurrent(op[o].presented)
      /\ Fresh \in Token
      /\ Server!Renew(s, Fresh) /\ Issue(s, issued[op[o].presented].account)
      /\ op' = [op EXCEPT ![o].received = Fresh,
                          ![o].phase = IF At(o, "boot") THEN "booted" ELSE "renewed"]
      /\ UNCHANGED <<cookie, tab, hurt, strayed>>

Waiting(t) == {o \in OpsOf(t) : op[o].phase = "queued"}

\* Mutation of Rejected: the queue is left as it is.
RejectedAlone(o) ==
  /\ op' = [op EXCEPT ![o] = Idle]
  /\ tab' = [tab EXCEPT ![op[o].tab] = [SignedOut(op[o].tab) EXCEPT !.refreshing = FALSE]]

\* The tab's refresh failed: the queue is rejected, the user signed out.
Rejected(o) ==
  LET t == op[o].tab
  IN  /\ op' = [p \in Op |-> IF p = o \/ p \in Waiting(t) THEN Idle ELSE op[p]]
      /\ tab' = [tab EXCEPT ![t] = [SignedOut(t) EXCEPT !.refreshing = FALSE]]

\* The page has loaded without a user.
LoadedSignedOut(o) ==
  /\ tab' = [tab EXCEPT ![op[o].tab] = [SignedOut(op[o].tab) EXCEPT !.page = "ready"]]
  /\ Ends(o)

Fails(o) == IF op[o].phase \in Booting THEN LoadedSignedOut(o) ELSE Rejected(o)

\* No cookie, or one that is not current: then its session ends.
RefreshRefused(o) ==
  /\ op[o].phase \in {"boot", "refresh"}
  /\ ~IsCurrent(op[o].presented)
  /\ IF op[o].presented = Empty THEN UNCHANGED <<current, used>>
                                ELSE Server!End({SessionOf(op[o].presented)})
  /\ Fails(o)
  /\ UNCHANGED <<issued, cookie, hurt, strayed>>

\* A rate limit or another error, or the request or its answer is lost.
RefreshFails(o) ==
  /\ op[o].phase \in Refreshing \union Booting
  /\ hurt' = IF op[o].received = Empty THEN hurt ELSE hurt \union {SessionOf(op[o].received)}
  /\ Fails(o)
  /\ UNCHANGED <<server, cookie, strayed>>

\* The answer to the page: an access token, but RefreshResponse has no user,
\* so that AuthContext takes it for a failure.
BootAnswered(o) ==
  /\ At(o, "booted")
  /\ SetCookie(op[o].received)
  /\ strayed' = strayed \union OthersThan(issued[op[o].received].account)
  /\ LoadedSignedOut(o)
  /\ UNCHANGED <<server, hurt>>

\* The answer to the interceptor: the token is stored, and the requests that
\* wait are sent again with it.
RefreshAnswered(o) ==
  LET t == op[o].tab
  IN  /\ At(o, "renewed")
      /\ SetCookie(op[o].received)
      /\ strayed' = strayed \union (OthersThan(issued[op[o].received].account) \ {t})
      /\ tab' = [tab EXCEPT ![t].token = op[o].received, ![t].refreshing = FALSE]
      /\ op' = [p \in Op |-> IF p = o \/ p \in Waiting(t)
                             THEN [op[p] EXCEPT !.phase = "sent", !.received = Empty,
                                                !.presented = op[o].received]
                             ELSE op[p]]
      /\ UNCHANGED <<server, hurt>>

-----------------------------------------------------------------------------
\* A session ends on the server: a password reset, a deleted account, age.
SessionEnds(s) ==
  /\ current[s] # {}
  /\ Server!End({s})
  /\ UNCHANGED <<issued, cookie, tab, op, hurt, strayed>>

Continue(o) ==
  \/ LoginAnswered(o) \/ LoginFails(o) \/ LogoutAnswered(o)
  \/ CallEnds(o) \/ Unauthorised(o)
  \/ RefreshServed(o) \/ RefreshRefused(o) \/ RefreshFails(o)
  \/ BootAnswered(o) \/ RefreshAnswered(o)

Next ==
  \/ \E o \in Op : Continue(o)
  \/ \E o \in Op, t \in Tab :
        Open(o, t) \/ Logout(o, t) \/ Call(o, t) \/ \E a \in Account : Login(o, t, a)
  \/ \E t \in Tab : Close(t)
  \/ \E t \in Token : SessionEnds(t)

Spec == Init /\ [][Next]_vars

-----------------------------------------------------------------------------
UnderWay(t) == {o \in OpsOf(t) : op[o].phase \in Refreshing}

(***************************************************************************)
(* A request that waits for a refresh has one to wait for: a tab has       *)
(* exactly one refresh under way while isRefreshing is set and none        *)
(* otherwise, so no request is left in the queue, whatever fails.          *)
(***************************************************************************)
QueuesAreServed ==
  \A t \in Tab :
    /\ tab[t].refreshing <=> UnderWay(t) # {}
    /\ \A o, p \in UnderWay(t) : o = p
    /\ Waiting(t) # {} => tab[t].refreshing

(***************************************************************************)
(* A refresh carries the current token of its session, so that the server  *)
(* does not take it for a token used twice: unless two tabs sent the same  *)
(* cookie at once, the answer to a refresh was lost, or the session is     *)
(* over.                                                                   *)
(***************************************************************************)
RefreshesCarryTheCurrentToken ==
  \A o \in Op :
    LET t == op[o].presented
    IN  op[o].phase \in {"boot", "refresh"} /\ t # Empty
          => \/ IsCurrent(t)
             \/ current[SessionOf(t)] = {}
             \/ SessionOf(t) \in hurt

(***************************************************************************)
(* A tab acts for the user it shows: its access token is that user's, and  *)
(* each of its requests carries the token of whoever made it, also when it *)
(* is sent again after a refresh.  The exceptions are a tab                *)
(* beside one that has signed in as somebody else, whose cookie they       *)
(* share, and one in which somebody signed in while requests of the user   *)
(* before were still under way.                                            *)
(***************************************************************************)
TabsActForTheirUser ==
  \A t \in Tab \ strayed : tab[t].user # None =>
    /\ tab[t].token # Empty /\ issued[tab[t].token].account = tab[t].user
    /\ \A o \in OpsOf(t) : op[o].phase = "sent" => issued[op[o].presented].account = op[o].account

(***************************************************************************)
(* A page whose refresh on loading succeeds has its user again             *)
(* (README.md:581, AuthContext.tsx:55).                                    *)
(***************************************************************************)
ReloadRestoresTheUser ==
  [][\A o \in Op : BootAnswered(o) => tab'[op[o].tab].user # None]_vars
=============================================================================
