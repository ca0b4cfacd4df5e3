----------------------------- MODULE CloudSync -----------------------------
(***************************************************************************)
(* The cloud session of the desktop app: connect, sync and disconnect, and *)
(* the four user settings they read and write one at a time.  The server's *)
(* side of a session is what RotatingSessions promises of it, and Sessions *)
(* implements.                                                             *)
(*                                                                         *)
(* The operations are IPC handlers of Electron's main process.  A fetch    *)
(* lets the others run; the database answers at once (better-sqlite3), so  *)
(* what a handler does between two fetches is never interleaved with       *)
(* another's work in the same copy of the app.  Nothing keeps a second     *)
(* copy from running on the same database, though, and its handlers come   *)
(* between any two statements.  Each setting is read and committed by      *)
(* itself: a write may fail, or its copy be killed, between two of them.   *)
(* A request or its answer may be lost, and the keychain may refuse.       *)
(***************************************************************************)
EXTENDS Integers, FiniteSets

CONSTANTS Op,       \* operation slots
          Account,  \* accounts, each on a server of its own
          Instance, \* the copies of the app that may run
          None,     \* an empty setting for the server or the address; no copy
          MaxToken  \* bound: the token pairs handed out

Token == 1..MaxToken   \* an access token and the refresh token that came with it
Empty == 0

VARIABLES current, used,  \* the sessions of the servers
          issued,         \* issued[t]: the session and account of token t
          setting,        \* the four user settings
          op,             \* the operation each slot is carrying out
          torn,           \* history: something may have torn the settings
          crossed,        \* history: the handlers now writing at the same time
                          \* as another has
          hurt            \* history: the sessions something has interfered with

server == <<current, used, issued>>
vars == <<current, used, issued, setting, op, torn, crossed, hurt>>

Server == INSTANCE RotatingSessions

Setting == [url : Account \union {None}, email : Account \union {None},
            access : Token \union {Empty}, refresh : Token \union {Empty}]

\* Phases that hold the event loop of their copy, and those that await an answer
Reading == {"readAccess", "readRefresh"}
Writing == {"saveUrl", "saveEmail", "saveAccess", "saveRefresh",
            "storeAccess", "storeRefresh", "clearEmail", "clearAccess", "clearRefresh"}
OnLoop == Reading \union Writing
Awaiting == {"login", "opened", "post", "refresh", "rotated", "repost"}

\* The tokens an operation has received, and the refresh token it presents
OpState == [phase : OnLoop \union Awaiting \union {"idle"}, copy : Instance \union {None},
            account : Account \union {None},
            received : Token \union {Empty}, presented : Token \union {Empty}]

TypeOK ==
  /\ current \in [Token -> SUBSET Token]
  /\ used \in SUBSET Token
  /\ issued \in [Token -> [session : Token \union {Empty}, account : Account \union {None}]]
  /\ setting \in Setting
  /\ op \in [Op -> OpState]
  /\ torn \in BOOLEAN
  /\ crossed \in SUBSET Op
  /\ hurt \in SUBSET Token

Idle == [phase |-> "idle", copy |-> None, account |-> None, received |-> Empty, presented |-> Empty]

Init ==
  /\ current = [t \in Token |-> {}] /\ used = {}
  /\ issued = [t \in Token |-> [session |-> Empty, account |-> None]]
  /\ setting = [url |-> None, email |-> None, access |-> Empty, refresh |-> Empty]
  /\ op = [o \in Op |-> Idle]
  /\ torn = FALSE /\ crossed = {} /\ hurt = {}

\* A copy of the app works on one thing at a time.
MayStart(o, i) ==
  op[o].phase = "idle" /\ \A p \in Op : op[p].copy = i => op[p].phase \notin OnLoop
MayRun(o) == \A p \in Op \ {o} : op[p].copy = op[o].copy => op[p].phase \notin OnLoop
At(o, phase) == op[o].phase = phase /\ MayRun(o)

Becomes(o, state) ==
  /\ op' = [op EXCEPT ![o] = state]
  /\ crossed' = IF state.phase \in Writing THEN crossed ELSE crossed \ {o}
Goto(o, phase) == Becomes(o, [op[o] EXCEPT !.phase = phase])
Ends(o) == Becomes(o, Idle)

\* A handler begins to write; one of another copy may be writing already.
Writers(o) == {p \in Op \ {o} : op[p].phase \in Writing}

BeginsToWrite(o, state) ==
  /\ op' = [op EXCEPT ![o] = state]
  /\ crossed' = IF Writers(o) = {} THEN crossed ELSE crossed \union Writers(o) \union {o}
  /\ torn' = (torn \/ Writers(o) # {})

\* setUserSetting commits the one setting or throws, as encryptString does when
\* the keychain is not available.  The operation then ends with an error, and
\* what it has written stays.
Saves(key, value) == setting' = [setting EXCEPT ![key] = value]
SaveFails(o) == Ends(o) /\ torn' = TRUE /\ UNCHANGED setting

\* The next pair of tokens a server hands out
Fresh == Cardinality(used) + 1
Issue(s, a) == issued' = [issued EXCEPT ![Fresh] = [session |-> s, account |-> a]]

-----------------------------------------------------------------------------
\* cloudConnect: validateServerUrl passed, the login is sent.
Connect(o, i, a) ==
  /\ MayStart(o, i)
  /\ Becomes(o, [Idle EXCEPT !.phase = "login", !.copy = i, !.account = a])
  /\ UNCHANGED <<server, setting, torn, hurt>>

\* The server opens a session.
LoginServed(o) ==
  /\ op[o].phase = "login"
  /\ Fresh \in Token
  /\ Server!Begin(Fresh) /\ Issue(Fresh, op[o].account)
  /\ Becomes(o, [op[o] EXCEPT !.phase = "opened", !.received = Fresh])
  /\ UNCHANGED <<setting, torn, hurt>>

LoginAnswered(o) ==
  /\ At(o, "opened")
  /\ BeginsToWrite(o, [op[o] EXCEPT !.phase = "saveUrl"])
  /\ UNCHANGED <<server, setting, hurt>>

\* Wrong credentials, or the request or its answer is lost: an error.
LoginFails(o) ==
  /\ At(o, "login") \/ At(o, "opened")
  /\ Ends(o)
  /\ UNCHANGED <<server, setting, torn, hurt>>

\* A first setting that is not written leaves the others as they are.
SaveUrl(o) ==
  /\ At(o, "saveUrl")
  /\ \/ Saves("url", op[o].account) /\ Goto(o, "saveEmail")
     \/ Ends(o) /\ UNCHANGED setting
  /\ UNCHANGED <<server, torn, hurt>>

SaveEmail(o) ==
  /\ At(o, "saveEmail")
  /\ \/ Saves("email", op[o].account) /\ Goto(o, "saveAccess") /\ UNCHANGED torn
     \/ SaveFails(o)
  /\ UNCHANGED <<server, hurt>>

SaveAccess(o) ==
  /\ At(o, "saveAccess")
  /\ \/ Saves("access", op[o].received) /\ Goto(o, "saveRefresh") /\ UNCHANGED torn
     \/ SaveFails(o)
  /\ UNCHANGED <<server, hurt>>

\* All four have been written, and by this handler unless another came between.
SaveRefresh(o) ==
  /\ At(o, "saveRefresh")
  /\ \/ Saves("refresh", op[o].received) /\ Ends(o) /\ torn' = (o \in crossed)
     \/ SaveFails(o)
  /\ UNCHANGED <<server, hurt>>

-----------------------------------------------------------------------------
\* cloudSync reads three settings one at a time; without a server and an access
\* token, or when they cannot be decrypted, it ends with an error and has changed
\* nothing.
Sync(o, i) ==
  /\ MayStart(o, i)
  /\ setting.url # None
  /\ Becomes(o, [Idle EXCEPT !.phase = "readAccess", !.copy = i, !.account = setting.url])
  /\ UNCHANGED <<server, setting, torn, hurt>>

ReadAccess(o) ==
  /\ At(o, "readAccess")
  /\ \/ setting.access # Empty /\ Goto(o, "readRefresh")
     \/ Ends(o)
  /\ UNCHANGED <<server, setting, torn, hurt>>

ReadRefresh(o) ==
  /\ At(o, "readRefresh")
  /\ \/ Becomes(o, [op[o] EXCEPT !.phase = "post", !.presented = setting.refresh])
     \/ Ends(o)
  /\ UNCHANGED <<server, setting, torn, hurt>>

\* A 401, for an access token that has expired or is not this server's, leads
\* to a refresh if there is a refresh token.  Any other answer, or none, is the
\* result of the sync.
Post(o) ==
  /\ At(o, "post")
  /\ \/ op[o].presented # Empty /\ Goto(o, "refresh")
     \/ Ends(o)
  /\ UNCHANGED <<server, setting, torn, hurt>>

Known(o) == issued[op[o].presented].account = op[o].account
SessionOf(o) == issued[op[o].presented].session
IsCurrent(o) == op[o].presented \in current[SessionOf(o)]

\* A token that is current is rotated.
RefreshRotates(o) ==
  /\ op[o].phase = "refresh"
  /\ Known(o) /\ IsCurrent(o)
  /\ Fresh \in Token
  /\ Server!Renew(SessionOf(o), Fresh) /\ Issue(SessionOf(o), op[o].account)
  /\ Becomes(o, [op[o] EXCEPT !.phase = "rotated", !.received = Fresh])
  /\ UNCHANGED <<setting, torn, hurt>>

\* A token that has been rotated already ends its session; a server that does
\* not know the token just refuses.
RefreshRefused(o) ==
  /\ op[o].phase = "refresh"
  /\ \/ /\ Known(o) /\ ~IsCurrent(o)
        /\ Server!End({SessionOf(o)})
        /\ hurt' = hurt \union {SessionOf(o)}
     \/ ~Known(o) /\ UNCHANGED <<current, used, hurt>>
  /\ Ends(o)
  /\ UNCHANGED <<issued, setting, torn>>

RefreshAnswered(o) ==
  /\ At(o, "rotated")
  /\ BeginsToWrite(o, [op[o] EXCEPT !.phase = "storeAccess"])
  /\ UNCHANGED <<server, setting, hurt>>

\* The request never arrived, or its answer is lost.
RefreshFails(o) ==
  /\ At(o, "refresh") \/ At(o, "rotated")
  /\ hurt' = IF op[o].phase = "rotated" THEN hurt \union {SessionOf(o)} ELSE hurt
  /\ Ends(o)
  /\ UNCHANGED <<server, setting, torn>>

\* The settings are not those the sync has read any more
Overtaken(o) == setting.refresh # op[o].presented \/ setting.url # op[o].account

\* Nothing is read again: the new tokens go into whatever the settings are now.
StoreAccess(o) ==
  /\ At(o, "storeAccess")
  /\ \/ /\ Saves("access", op[o].received) /\ Goto(o, "storeRefresh")
        /\ torn' = (torn \/ Overtaken(o))
     \/ SaveFails(o)
  /\ UNCHANGED <<server, hurt>>

\* Mutation of StoreRefresh: the rotated token is not stored.
StoreNoRefresh(o) ==
  /\ At(o, "storeRefresh")
  /\ Goto(o, "repost")
  /\ UNCHANGED <<server, setting, torn, hurt>>

StoreRefresh(o) ==
  /\ At(o, "storeRefresh")
  /\ \/ Saves("refresh", op[o].received) /\ Goto(o, "repost") /\ UNCHANGED torn
     \/ SaveFails(o)
  /\ UNCHANGED <<server, hurt>>

\* Whatever the second post answers is the result.
Repost(o) ==
  /\ At(o, "repost")
  /\ Ends(o)
  /\ UNCHANGED <<server, setting, torn, hurt>>

-----------------------------------------------------------------------------
\* clearCloudConfig empties the settings in the order of KEYS.  If the first
\* cannot be written, nothing has happened.
Disconnect(o, i) ==
  /\ MayStart(o, i)
  /\ BeginsToWrite(o, [Idle EXCEPT !.phase = "clearEmail", !.copy = i])
  /\ Saves("url", None)
  /\ UNCHANGED <<server, hurt>>

ClearEmail(o) ==
  /\ At(o, "clearEmail")
  /\ \/ Saves("email", None) /\ Goto(o, "clearAccess") /\ UNCHANGED torn
     \/ SaveFails(o)
  /\ UNCHANGED <<server, hurt>>

ClearAccess(o) ==
  /\ At(o, "clearAccess")
  /\ \/ Saves("access", Empty) /\ Goto(o, "clearRefresh") /\ UNCHANGED torn
     \/ SaveFails(o)
  /\ UNCHANGED <<server, hurt>>

\* Mutation of ClearRefresh: the loop stops before the last key.
ClearAllButRefresh(o) ==
  /\ At(o, "clearRefresh")
  /\ Ends(o)
  /\ torn' = (o \in crossed)
  /\ UNCHANGED <<server, setting, hurt>>

ClearRefresh(o) ==
  /\ At(o, "clearRefresh")
  /\ \/ Saves("refresh", Empty) /\ Ends(o) /\ torn' = (o \in crossed)
     \/ SaveFails(o)
  /\ UNCHANGED <<server, hurt>>

-----------------------------------------------------------------------------
\* A copy of the app is killed; the settings are on disk.
Of(i) == {o \in Op : op[o].copy = i}

Killed(i) ==
  /\ Of(i) # {}
  /\ torn' = (torn \/ \E o \in Of(i) : op[o].phase \in Writing)
  /\ hurt' = hurt \union {SessionOf(o) : o \in {p \in Of(i) : op[p].phase = "rotated"}}
  /\ op' = [o \in Op |-> IF o \in Of(i) THEN Idle ELSE op[o]]
  /\ crossed' = crossed \ Of(i)
  /\ UNCHANGED <<server, setting>>

\* A session ends on the server: a password reset, a deleted account, age.
SessionEnds(s) ==
  /\ current[s] # {}
  /\ Server!End({s})
  /\ hurt' = hurt \union {s}
  /\ UNCHANGED <<issued, setting, op, torn, crossed>>

Continue(o) ==
  \/ LoginServed(o) \/ LoginAnswered(o) \/ LoginFails(o)
  \/ SaveUrl(o) \/ SaveEmail(o) \/ SaveAccess(o) \/ SaveRefresh(o)
  \/ ReadAccess(o) \/ ReadRefresh(o) \/ Post(o)
  \/ RefreshRotates(o) \/ RefreshRefused(o) \/ RefreshAnswered(o) \/ RefreshFails(o)
  \/ StoreAccess(o) \/ StoreRefresh(o) \/ Repost(o)
  \/ ClearEmail(o) \/ ClearAccess(o) \/ ClearRefresh(o)

Next ==
  \/ \E o \in Op : Continue(o)
  \/ \E o \in Op, i \in Instance :
       Sync(o, i) \/ Disconnect(o, i) \/ \E a \in Account : Connect(o, i, a)
  \/ \E i \in Instance : Killed(i)
  \/ \E s \in Token : SessionEnds(s)

Spec == Init /\ [][Next]_vars

-----------------------------------------------------------------------------
Settled == \A o \in Op : op[o].phase \notin Writing

\* getCloudConfig
Connected == setting.url # None /\ setting.email # None

IsWhole ==
  \/ setting = [url |-> None, email |-> None, access |-> Empty, refresh |-> Empty]
  \/ /\ Connected /\ setting.url = setting.email
     /\ setting.access # Empty /\ setting.access = setting.refresh
     /\ issued[setting.access].account = setting.url

(***************************************************************************)
(* The four settings are committed one at a time.  Whenever no handler is  *)
(* at work on them they are nevertheless all empty or all of one session   *)
(* of one account, even while connects, syncs and disconnects overlap.     *)
(* Until the next connect or disconnect that is carried through, four      *)
(* things are excepted: the app was killed half-way; a setting could not   *)
(* be written half-way; two copies of the app were writing at a time; a    *)
(* sync stored its tokens into settings that were not those it had read.   *)
(***************************************************************************)
SettingsAreWhole == Settled /\ ~torn => IsWhole

(***************************************************************************)
(* The stored refresh token is the current one of its session, so that the *)
(* next refresh is not taken for token reuse: unless the answer to a       *)
(* refresh was lost or is under way, the session was ended, or the         *)
(* settings were torn in one of the ways named above.                      *)
(***************************************************************************)
StoredTokenIsCurrent ==
  Settled /\ ~torn /\ Connected =>
    LET s == issued[setting.refresh].session
    IN  \/ s \in hurt
        \/ setting.refresh \in current[s]
        \/ \E o \in Op : op[o].phase = "rotated" /\ op[o].presented = setting.refresh

(***************************************************************************)
(* A sync ends its own session on the server, as a reuse of its token, in  *)
(* one case only: another sync presented the token it had read, and has    *)
(* stored its successor or is about to.                                    *)
(***************************************************************************)
SyncsKeepTheSession ==
  [][\A o \in Op :
       RefreshRefused(o) /\ Known(o) /\ SessionOf(o) \notin hurt /\ ~torn
         => \/ Overtaken(o)
            \/ \E p \in Op \ {o} : op[p].phase \in {"rotated", "storeAccess", "storeRefresh"}
                                 /\ op[p].presented = op[o].presented]_vars
=============================================================================
