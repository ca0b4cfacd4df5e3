--------------------------- MODULE DesktopProofs ---------------------------
(***************************************************************************)
(* Proofs about the desktop app, for any number of operations, accounts,   *)
(* token pairs, copies of the app, calls and frameworks.                   *)
(*                                                                         *)
(* CloudSync: the settings are whole, the stored refresh token is the      *)
(* current one, and a sync that ends its own session was overtaken.  Two   *)
(* facts carry all three: handlers that write to the settings at the same  *)
(* time are known as such, and the settings as torn (Crossing), and a      *)
(* token that was handed out and is not stored yet is known to nobody but  *)
(* the operation that received it (Unshared).                              *)
(*                                                                         *)
(* LocalEvidence, as an instance: rows keep their files, and the entries   *)
(* of the ledger and the trail count the rows that are there.  The first   *)
(* rests on where the file of each call under way is (FileKept), the       *)
(* second on what each call has stored so far (RowsSoFar, EntriesSoFar).   *)
(***************************************************************************)
EXTENDS Desktop, FiniteSetTheorems, WellFoundedInduction, TLAPS

Connecting == {"login", "opened", "saveUrl", "saveEmail", "saveAccess", "saveRefresh"}
Syncing == {"readAccess", "readRefresh", "post", "refresh", "rotated",
            "storeAccess", "storeRefresh", "repost"}

\* The phases between receiving a token pair and storing it
Rotated == {"rotated", "storeAccess", "storeRefresh"}
Receiving == {"opened", "saveUrl", "saveEmail", "saveAccess", "saveRefresh"} \union Rotated

Known2(S) == S \union {Empty}

\* The servers know the tokens they have handed out, and a session has at most
\* one that is current.
TokensOK ==
  /\ \A t \in used : issued[t].session \in used /\ issued[t].account \in Account
  /\ \A s \in Token : \A t \in current[s] : /\ t \in used /\ issued[t].session = s
                                            /\ \A u \in current[s] : u = t

\* What an operation carries is what a server has given the app.
OpOK(p) ==
  /\ p.received \in Known2(used) /\ p.presented \in Known2(used)
  /\ p.phase \in Connecting \union Syncing => p.account \in Account
  /\ p.phase \in Receiving => p.received # Empty /\ issued[p.received].account = p.account
  /\ p.phase \in Rotated \union {"refresh"} => p.presented # Empty
  /\ p.phase \in Rotated => /\ issued[p.presented].account = p.account
                            /\ issued[p.presented].session = issued[p.received].session

SettingOK == setting.access \in Known2(used) /\ setting.refresh \in Known2(used)

\* Two handlers that write at the same time are both known as crossed, and the
\* settings as torn.
Crossing ==
  /\ \A o, p \in Op : op[o].phase \in Writing /\ op[p].phase \in Writing /\ o # p => o \in crossed
  /\ \A o \in crossed : o \in Op /\ op[o].phase \in Writing
  /\ \A o \in crossed : torn

BaseInv == TypeOK /\ TokensOK /\ SettingOK /\ Crossing /\ \A o \in Op : OpOK(op[o])

-----------------------------------------------------------------------------
LEMMA TokenFacts ==
  ASSUME MaxToken \in Nat
  PROVE  Empty \notin Token
BY DEF Token, Empty

\* A server hands out a token nobody has seen.
LEMMA FreshIsNew ==
  ASSUME BaseInv, MaxToken \in Nat, NEW S, NEW a \in Account, NEW s \in used',
         Fresh \in Token, Fresh \notin used, used' = used \union {Fresh}, Issue(s, a)
  PROVE  /\ issued'[Fresh] = [session |-> s, account |-> a]
         /\ \A t \in used : issued'[t] = issued[t]
         /\ issued' \in [Token -> [session : Token \union {Empty}, account : Account \union {None}]]
         /\ used' \in SUBSET Token
BY DEF BaseInv, TypeOK, Issue

\* A handler goes on or ends, and begins to write in none.
LEMMA CrossingGoesOn ==
  ASSUME TypeOK, Crossing, NEW o \in Op, NEW q, Becomes(o, q),
         q.phase \in Writing => op[o].phase \in Writing,
         torn /\ (op[o].phase \in Writing => o \in crossed) => torn'
  PROVE  Crossing' /\ crossed' \in SUBSET Op
<1>1. \A p \in Op : op'[p] = IF p = o THEN q ELSE op[p]
  BY DEF Becomes, TypeOK
<1>2. crossed' = IF q.phase \in Writing THEN crossed ELSE crossed \ {o}
  BY DEF Becomes
<1>3. ASSUME NEW p \in crossed' PROVE torn'
  <2>1. p \in crossed /\ torn
    BY <1>2, <1>3 DEF Crossing
  <2>2. op[o].phase \in Writing => o \in crossed
    BY <2>1 DEF Crossing
  <2> QED BY <2>1, <2>2
<1>4. \A p \in crossed' : p \in Op /\ op'[p].phase \in Writing
  BY <1>1, <1>2 DEF Crossing
<1>5. ASSUME NEW p \in Op, NEW r \in Op, op'[p].phase \in Writing, op'[r].phase \in Writing, p # r
      PROVE  p \in crossed'
  BY <1>1, <1>2, <1>5 DEF Crossing
<1> QED BY <1>3, <1>4, <1>5 DEF Crossing

\* A handler begins to write.
LEMMA CrossingBegins ==
  ASSUME TypeOK, Crossing, NEW o \in Op, NEW q, BeginsToWrite(o, q), q.phase \in Writing
  PROVE  Crossing' /\ crossed' \in SUBSET Op /\ torn' \in BOOLEAN
<1>1. \A p \in Op : op'[p] = IF p = o THEN q ELSE op[p]
  BY DEF BeginsToWrite, TypeOK
<1>2. crossed' = IF Writers(o) = {} THEN crossed ELSE crossed \union Writers(o) \union {o}
  BY DEF BeginsToWrite
<1>3. torn' = (torn \/ Writers(o) # {})
  BY DEF BeginsToWrite
<1>4. \A p \in Op : p \in Writers(o) <=> p # o /\ op[p].phase \in Writing
  BY DEF Writers
<1>5. ASSUME NEW p \in Op, NEW r \in Op, op'[p].phase \in Writing, op'[r].phase \in Writing, p # r
      PROVE  p \in crossed'
  BY <1>1, <1>2, <1>4, <1>5 DEF Crossing
<1>6. \A p \in crossed' : p \in Op /\ op'[p].phase \in Writing
  BY <1>1, <1>2 DEF Crossing, Writers
<1>7. \A p \in crossed' : torn'
  BY <1>2, <1>3 DEF Crossing
<1> QED BY <1>3, <1>5, <1>6, <1>7 DEF Crossing, TypeOK

\* Nothing is handed out, nothing becomes current, and the operation o goes on
\* with what it has or ends.
LEMMA Proceeds ==
  ASSUME BaseInv, MaxToken \in Nat, NEW o \in Op,
         UNCHANGED <<used, issued>>,
         \A s \in Token : current'[s] \subseteq current[s],
         current' \in [Token -> SUBSET Token],
         setting' \in Setting, SettingOK',
         torn' \in BOOLEAN, hurt' \in SUBSET Token,
         NEW q \in OpState, OpOK(q), op' = [op EXCEPT ![o] = q],
         Crossing', crossed' \in SUBSET Op
  PROVE  BaseInv'
<1>1. \A p \in Op : op'[p] = IF p = o THEN q ELSE op[p]
  BY DEF BaseInv, TypeOK
<1>2. TypeOK'
  BY DEF BaseInv, TypeOK
<1>3. TokensOK'
  BY DEF BaseInv, TypeOK, TokensOK
<1>5. \A p \in Op : OpOK(op'[p])
  BY <1>1 DEF BaseInv
<1>6. \A p \in Op : OpOK(op[p])'
  BY <1>5 DEF OpOK
<1> QED BY <1>2, <1>3, <1>6 DEF BaseInv

LEMMA BaseInit ==
  ASSUME MaxToken \in Nat, Init
  PROVE  BaseInv
<1>1. TypeOK
  BY DEF Init, TypeOK, Idle, OpState, Setting
<1>2. TokensOK /\ SettingOK /\ Crossing
  BY DEF Init, TokensOK, SettingOK, Crossing, Known2, Idle, Writing
<1>3. \A o \in Op : OpOK(op[o])
  BY DEF Init, OpOK, Known2, Idle, Connecting, Syncing, Receiving, Rotated
<1> QED BY <1>1, <1>2, <1>3 DEF BaseInv

\* An operation that ends.
LEMMA IdleOK == Idle \in OpState /\ OpOK(Idle) /\ Idle.phase \notin Writing
BY DEF Idle, OpState, OpOK, Known2, Connecting, Syncing, Receiving, Rotated, OnLoop, Reading,
       Writing, Awaiting

\* An operation that gets a new pair from the server.
LEMMA BaseServed ==
  ASSUME BaseInv, MaxToken \in Nat, NEW o \in Op,
         Fresh \in Token, Fresh \notin used, used' = used \union {Fresh},
         NEW a \in Account, NEW s \in used', Issue(s, a),
         current' = [current EXCEPT ![s] = {Fresh}],
         UNCHANGED <<setting, torn, hurt>>,
         NEW q \in OpState, Becomes(o, q), OpOK(q)', q.phase \notin Writing
  PROVE  BaseInv'
<1>1. /\ issued'[Fresh] = [session |-> s, account |-> a]
      /\ \A t \in used : issued'[t] = issued[t]
      /\ issued' \in [Token -> [session : Token \union {Empty}, account : Account \union {None}]]
      /\ used' \in SUBSET Token
  BY FreshIsNew
<1>2. \A p \in Op : op'[p] = IF p = o THEN q ELSE op[p]
  BY DEF BaseInv, TypeOK, Becomes
<1>9. Crossing' /\ crossed' \in SUBSET Op
  BY CrossingGoesOn DEF BaseInv
<1>3. TypeOK'
  BY <1>1, <1>9 DEF BaseInv, TypeOK, Becomes
<1>4. TokensOK'
  <2>1. \A t \in used' : issued'[t].session \in used' /\ issued'[t].account \in Account
    BY <1>1 DEF BaseInv, TokensOK
  <2>2. \A r \in Token : current'[r] = IF r = s THEN {Fresh} ELSE current[r]
    BY DEF BaseInv, TypeOK
  <2>3. ASSUME NEW r \in Token, NEW t \in current'[r]
        PROVE  t \in used' /\ issued'[t].session = r /\ \A u \in current'[r] : u = t
    BY <1>1, <2>2, <2>3 DEF BaseInv, TokensOK
  <2> QED BY <2>1, <2>3 DEF TokensOK
<1>5. SettingOK'
  BY DEF BaseInv, SettingOK, Known2
<1>7. ASSUME NEW p \in Op, p # o PROVE OpOK(op[p])'
  <2>1. OpOK(op[p]) /\ op'[p] = op[p] /\ used \subseteq used'
    BY <1>2, <1>7 DEF BaseInv
  <2>2. \A t \in Known2(used) : t # Empty => t \in used
    BY DEF Known2
  <2> QED BY <1>1, <2>1, <2>2 DEF OpOK, Known2, Rotated, Receiving
<1>8. OpOK(op[o])'
  BY <1>2 DEF BaseInv
<1> QED BY <1>3, <1>4, <1>5, <1>7, <1>8, <1>9 DEF BaseInv

LEMMA BaseLoginServed ==
  ASSUME BaseInv, MaxToken \in Nat, NEW o \in Op, LoginServed(o)
  PROVE  BaseInv'
<1>1. OpOK(op[o]) /\ op[o] \in OpState /\ op[o].account \in Account
  BY DEF BaseInv, TypeOK, LoginServed, OpOK, Connecting
<1>a. PICK a \in Account : a = op[o].account
  BY <1>1
<1>q. PICK q : q = [op[o] EXCEPT !.phase = "opened", !.received = Fresh]
  OBVIOUS
<1>2. a = op[o].account /\ q = [op[o] EXCEPT !.phase = "opened", !.received = Fresh]
  BY <1>a, <1>q
<1>3. /\ Fresh \in Token /\ Fresh \notin used /\ used' = used \union {Fresh}
      /\ current' = [current EXCEPT ![Fresh] = {Fresh}] /\ Issue(Fresh, a)
      /\ Becomes(o, q) /\ UNCHANGED <<setting, torn, hurt>>
  BY <1>2 DEF LoginServed, Server!Begin
<1>4. /\ q.phase = "opened" /\ q.received = Fresh /\ q.account = a
      /\ q.presented = op[o].presented /\ q \in OpState
  BY <1>1, <1>2, <1>3 DEF OpState, Awaiting
<1>5. issued'[Fresh] = [session |-> Fresh, account |-> a]
  BY <1>3, FreshIsNew
<1>6. OpOK(q)'
  BY <1>1, <1>2, <1>3, <1>4, <1>5, TokenFacts DEF OpOK, Known2, Connecting, Syncing, Receiving, Rotated
<1> QED BY <1>3, <1>4, <1>6, BaseServed DEF Writing

LEMMA BaseRefreshRotates ==
  ASSUME BaseInv, MaxToken \in Nat, NEW o \in Op, RefreshRotates(o)
  PROVE  BaseInv'
<1>1. /\ OpOK(op[o]) /\ op[o] \in OpState /\ op[o].account \in Account
      /\ op[o].presented \in used /\ op[o].phase = "refresh"
  BY DEF BaseInv, TypeOK, RefreshRotates, OpOK, Syncing, Known2
<1>a. PICK a \in Account, s \in used, r \in used :
        a = op[o].account /\ s = SessionOf(o) /\ r = op[o].presented
  BY <1>1 DEF BaseInv, TokensOK, SessionOf
<1>q. PICK q : q = [op[o] EXCEPT !.phase = "rotated", !.received = Fresh]
  OBVIOUS
<1>2. /\ a = op[o].account /\ s = SessionOf(o) /\ r = op[o].presented
      /\ q = [op[o] EXCEPT !.phase = "rotated", !.received = Fresh]
  BY <1>a, <1>q
<1>3. /\ Fresh \in Token /\ Fresh \notin used /\ used' = used \union {Fresh}
      /\ current' = [current EXCEPT ![s] = {Fresh}] /\ Issue(s, a)
      /\ Becomes(o, q) /\ UNCHANGED <<setting, torn, hurt>>
      /\ issued[r].account = a /\ issued[r].session = s
  BY <1>2 DEF RefreshRotates, Server!Renew, Known, SessionOf
<1>4. /\ q.phase = "rotated" /\ q.received = Fresh /\ q.account = a
      /\ q.presented = r /\ q \in OpState
  BY <1>1, <1>2, <1>3 DEF OpState, Awaiting
<1>5. issued'[Fresh] = [session |-> s, account |-> a] /\ issued'[r] = issued[r]
  BY <1>3, FreshIsNew
<1>6. r # Empty /\ Fresh # Empty
  BY <1>3, TokenFacts DEF BaseInv, TypeOK
<1>7. OpOK(q)'
  BY <1>2, <1>3, <1>4, <1>5, <1>6 DEF OpOK, Known2, Connecting, Syncing, Receiving, Rotated
<1> QED BY <1>3, <1>4, <1>7, BaseServed DEF Writing

\* A handler that goes on to another phase with what it has.
LEMMA BaseGoto ==
  ASSUME BaseInv, MaxToken \in Nat, NEW o \in Op, NEW phase \in OnLoop \union Awaiting,
         Goto(o, phase), phase \in Writing => op[o].phase \in Writing,
         UNCHANGED server, setting' \in Setting, SettingOK', torn' \in BOOLEAN, torn => torn', UNCHANGED hurt,
         OpOK([op[o] EXCEPT !.phase = phase])
  PROVE  BaseInv'
<1>1. PICK q : q = [op[o] EXCEPT !.phase = phase]
  OBVIOUS
<1>2. q \in OpState /\ q.phase = phase
  BY <1>1 DEF BaseInv, TypeOK, OpState
<1>3. Becomes(o, q)
  BY <1>1 DEF Goto
<1>4. Crossing' /\ crossed' \in SUBSET Op
  BY <1>2, <1>3, CrossingGoesOn DEF BaseInv
<1>5. op' = [op EXCEPT ![o] = q] /\ torn' \in BOOLEAN
  BY <1>3 DEF Becomes, BaseInv, TypeOK
<1> QED BY <1>1, <1>2, <1>4, <1>5, Proceeds DEF server, BaseInv, TypeOK

\* A handler that begins to write.
LEMMA BaseBegins ==
  ASSUME BaseInv, MaxToken \in Nat, NEW o \in Op, NEW q \in OpState, OpOK(q),
         BeginsToWrite(o, q), q.phase \in Writing,
         UNCHANGED server, setting' \in Setting, SettingOK', UNCHANGED hurt
  PROVE  BaseInv'
<1>1. Crossing' /\ crossed' \in SUBSET Op /\ torn' \in BOOLEAN
  BY CrossingBegins DEF BaseInv
<1>2. op' = [op EXCEPT ![o] = q]
  BY DEF BeginsToWrite
<1> QED BY <1>1, <1>2, Proceeds DEF server, BaseInv, TypeOK

\* An operation that writes nothing becomes q.
LEMMA BaseBecomes ==
  ASSUME BaseInv, MaxToken \in Nat, NEW o \in Op, NEW q \in OpState, OpOK(q),
         Becomes(o, q), q.phase \notin Writing,
         UNCHANGED <<server, torn, hurt>>, setting' \in Setting, SettingOK'
  PROVE  BaseInv'
<1>1. Crossing' /\ crossed' \in SUBSET Op
  BY CrossingGoesOn DEF BaseInv
<1>2. op' = [op EXCEPT ![o] = q]
  BY DEF Becomes
<1> QED BY <1>1, <1>2, Proceeds DEF server, BaseInv, TypeOK

\* A handler that ends, in the midst of its work or after its last write.
LEMMA BaseEnds ==
  ASSUME BaseInv, MaxToken \in Nat, NEW o \in Op, Ends(o),
         UNCHANGED <<used, issued>>, \A s \in Token : current'[s] \subseteq current[s],
         current' \in [Token -> SUBSET Token],
         setting' \in Setting, SettingOK', hurt' \in SUBSET Token, torn' \in BOOLEAN,
         (torn => torn') \/ (op[o].phase \in Writing /\ (o \in crossed => torn'))
  PROVE  BaseInv'
<1>1. Becomes(o, Idle) /\ op' = [op EXCEPT ![o] = Idle]
  BY DEF Ends, Becomes
<1>2. Crossing' /\ crossed' \in SUBSET Op
  BY <1>1, IdleOK, CrossingGoesOn DEF BaseInv
<1> QED BY <1>1, <1>2, IdleOK, Proceeds

LEMMA GotoOK ==
  ASSUME NEW r \in OpState, OpOK(r), NEW phase,
         phase \in Connecting \union Syncing => r.phase \in Connecting \union Syncing,
         phase \in Receiving => r.phase \in Receiving,
         phase \in Rotated \union {"refresh"} => r.presented # Empty,
         phase \in Rotated => r.phase \in Rotated
  PROVE  OpOK([r EXCEPT !.phase = phase])
BY DEF OpState, OpOK

\* What the phases are, for the steps that follow.
LEMMA Phases ==
  /\ Connecting = {"login", "opened", "saveUrl", "saveEmail", "saveAccess", "saveRefresh"}
  /\ Syncing = {"readAccess", "readRefresh", "post", "refresh", "rotated",
                "storeAccess", "storeRefresh", "repost"}
  /\ Receiving = {"opened", "saveUrl", "saveEmail", "saveAccess", "saveRefresh",
                  "rotated", "storeAccess", "storeRefresh"}
  /\ Rotated = {"rotated", "storeAccess", "storeRefresh"}
BY DEF Connecting, Syncing, Receiving, Rotated

\* The sessions of operations that have a refresh token are sessions.
LEMMA SessionOfIsToken ==
  ASSUME BaseInv, NEW o \in Op, op[o].phase \in Rotated \union {"refresh"}
  PROVE  SessionOf(o) \in Token
BY DEF BaseInv, TypeOK, TokensOK, OpOK, Known2, SessionOf

\* The end of a session, for whatever reason.
LEMMA EndShrinks ==
  ASSUME BaseInv, NEW S, Server!End(S)
  PROVE  /\ \A s \in Token : current'[s] \subseteq current[s]
         /\ \A s \in Token \ S : current'[s] = current[s]
         /\ current' \in [Token -> SUBSET Token]
         /\ used' = used
BY DEF BaseInv, TypeOK, Server!End

\* The last write of a handler, whether it succeeds or fails.
LEMMA LastWriteTears ==
  ASSUME NEW o, NEW Written,
         (Written /\ torn' = (o \in crossed)) \/ SaveFails(o)
  PROVE  torn' \in BOOLEAN /\ (o \in crossed => torn')
<1>1. CASE torn' = (o \in crossed)
  <2>1. (o \in crossed) \in BOOLEAN
    OBVIOUS
  <2> QED BY <1>1, <2>1, Zenon
<1>2. CASE torn' = TRUE
  BY <1>2
<1> QED BY <1>1, <1>2, Zenon DEF SaveFails

LEMMA BaseConnects ==
  ASSUME BaseInv, MaxToken \in Nat, NEW o \in Op
  PROVE  \/ \E i \in Instance, a \in Account : Connect(o, i, a)
         \/ LoginServed(o) \/ LoginAnswered(o) \/ LoginFails(o)
         \/ SaveUrl(o) \/ SaveEmail(o) \/ SaveAccess(o) \/ SaveRefresh(o)
         => BaseInv'
<1> USE Phases
<1>r. op[o] \in OpState /\ OpOK(op[o])
  BY DEF BaseInv, TypeOK
<1>t. /\ setting \in Setting /\ torn \in BOOLEAN /\ hurt \in SUBSET Token
      /\ current \in [Token -> SUBSET Token] /\ SettingOK
  BY DEF BaseInv, TypeOK
<1>1. ASSUME NEW i \in Instance, NEW a \in Account, Connect(o, i, a)
      PROVE  BaseInv'
  <2>1. PICK q : q = [Idle EXCEPT !.phase = "login", !.copy = i, !.account = a]
    OBVIOUS
  <2>2. /\ q.phase = "login" /\ q.account = a /\ q.received = Empty /\ q.presented = Empty
        /\ q \in OpState
    BY <2>1 DEF Idle, OpState, Awaiting
  <2>3. OpOK(q) /\ q.phase \notin Writing
    BY <2>2 DEF OpOK, Known2, Writing
  <2>4. Becomes(o, q) /\ UNCHANGED <<server, setting, torn, hurt>>
    BY <1>1, <2>1 DEF Connect
  <2> QED BY <1>t, <2>2, <2>3, <2>4, BaseBecomes DEF server, SettingOK
<1>2. ASSUME LoginServed(o) PROVE BaseInv'
  BY <1>2, BaseLoginServed
<1>3. ASSUME LoginAnswered(o) PROVE BaseInv'
  <2>1. PICK q : q = [op[o] EXCEPT !.phase = "saveUrl"]
    OBVIOUS
  <2>2. OpOK(q)
    BY <1>r, <1>3, <2>1, GotoOK DEF LoginAnswered, At
  <2>3. q \in OpState /\ q.phase \in Writing
    BY <1>r, <2>1 DEF OpState, OnLoop, Writing
  <2>4. BeginsToWrite(o, q) /\ UNCHANGED <<server, setting, hurt>>
    BY <1>3, <2>1 DEF LoginAnswered
  <2> QED BY <1>t, <2>2, <2>3, <2>4, BaseBegins DEF SettingOK, server
<1>4. ASSUME LoginFails(o) PROVE BaseInv'
  <2>1. Ends(o) /\ UNCHANGED <<server, setting, torn, hurt>>
    BY <1>4 DEF LoginFails
  <2> QED BY <1>t, <2>1, BaseEnds DEF server, SettingOK
<1>5. ASSUME SaveUrl(o) PROVE BaseInv'
  <2>1. OpOK([op[o] EXCEPT !.phase = "saveEmail"])
    BY <1>r, <1>5, GotoOK DEF SaveUrl, At
  <2>2. setting' \in Setting /\ SettingOK'
    BY <1>r, <1>t, <1>5 DEF SaveUrl, Saves, At, OpState, Setting, SettingOK, server
  <2>3. CASE Ends(o)
    BY <1>5, <1>t, <2>2, <2>3, BaseEnds DEF SaveUrl, server
  <2>4. CASE Goto(o, "saveEmail")
    BY <1>5, <1>t, <2>1, <2>2, <2>4, BaseGoto DEF SaveUrl, At, OnLoop, Writing
  <2> QED BY <1>5, <2>3, <2>4 DEF SaveUrl
<1>6. ASSUME SaveEmail(o) PROVE BaseInv'
  <2>1. OpOK([op[o] EXCEPT !.phase = "saveAccess"])
    BY <1>r, <1>6, GotoOK DEF SaveEmail, At
  <2>2. setting' \in Setting /\ SettingOK'
    BY <1>r, <1>t, <1>6 DEF SaveEmail, Saves, SaveFails, At, OpState, OpOK, Setting, SettingOK, server
  <2>5. torn' \in BOOLEAN /\ (torn => torn')
    BY <1>6, <1>t DEF SaveEmail, SaveFails
  <2>3. CASE Ends(o)
    BY <1>6, <1>t, <2>2, <2>5, <2>3, BaseEnds DEF SaveEmail, server
  <2>4. CASE Goto(o, "saveAccess")
    BY <1>6, <1>t, <2>1, <2>2, <2>5, <2>4, BaseGoto DEF SaveEmail, At, OnLoop, Writing
  <2> QED BY <1>6, <2>3, <2>4 DEF SaveEmail, SaveFails
<1>7. ASSUME SaveAccess(o) PROVE BaseInv'
  <2>1. OpOK([op[o] EXCEPT !.phase = "saveRefresh"])
    BY <1>r, <1>7, GotoOK DEF SaveAccess, At
  <2>2. setting' \in Setting /\ SettingOK'
    BY <1>r, <1>t, <1>7 DEF SaveAccess, Saves, SaveFails, At, OpState, OpOK, Setting, SettingOK, server
  <2>5. torn' \in BOOLEAN /\ (torn => torn')
    BY <1>7, <1>t DEF SaveAccess, SaveFails
  <2>3. CASE Ends(o)
    BY <1>7, <1>t, <2>2, <2>5, <2>3, BaseEnds DEF SaveAccess, server
  <2>4. CASE Goto(o, "saveRefresh")
    BY <1>7, <1>t, <2>1, <2>2, <2>5, <2>4, BaseGoto DEF SaveAccess, At, OnLoop, Writing
  <2> QED BY <1>7, <2>3, <2>4 DEF SaveAccess, SaveFails
<1>8. ASSUME SaveRefresh(o) PROVE BaseInv'
  <2>2. setting' \in Setting /\ SettingOK'
    BY <1>r, <1>t, <1>8 DEF SaveRefresh, Saves, SaveFails, At, OpState, OpOK, Setting, SettingOK, server
  <2>3. op[o].phase \in Writing /\ Ends(o) /\ UNCHANGED <<server, hurt>>
    BY <1>8 DEF SaveRefresh, SaveFails, At, Writing
  <2>4. torn' \in BOOLEAN /\ (o \in crossed => torn')
    BY <1>8, LastWriteTears DEF SaveRefresh
  <2> QED BY <1>t, <2>2, <2>3, <2>4, BaseEnds DEF server
<1> QED BY <1>1, <1>2, <1>3, <1>4, <1>5, <1>6, <1>7, <1>8

LEMMA BaseSyncs ==
  ASSUME BaseInv, MaxToken \in Nat, NEW o \in Op
  PROVE  \/ (\E i \in Instance : Sync(o, i)) \/ ReadAccess(o) \/ ReadRefresh(o) \/ Post(o)
         \/ RefreshRotates(o) \/ RefreshRefused(o) \/ RefreshAnswered(o) \/ RefreshFails(o)
         \/ StoreAccess(o) \/ StoreRefresh(o) \/ Repost(o)
         => BaseInv'
<1> USE Phases
<1>r. op[o] \in OpState /\ OpOK(op[o])
  BY DEF BaseInv, TypeOK
<1>t. /\ setting \in Setting /\ torn \in BOOLEAN /\ hurt \in SUBSET Token
      /\ current \in [Token -> SUBSET Token] /\ SettingOK
  BY DEF BaseInv, TypeOK
<1>1. ASSUME NEW i \in Instance, Sync(o, i)
      PROVE  BaseInv'
  <2>1. PICK q : q = [Idle EXCEPT !.phase = "readAccess", !.copy = i, !.account = setting.url]
    OBVIOUS
  <2>2. setting.url \in Account
    BY <1>t, <1>1 DEF Sync, Setting
  <2>3. /\ q.phase = "readAccess" /\ q.account = setting.url /\ q.received = Empty
        /\ q.presented = Empty /\ q \in OpState
    BY <2>1, <2>2 DEF Idle, OpState, OnLoop, Reading
  <2>4. OpOK(q) /\ q.phase \notin Writing
    BY <1>t, <2>2, <2>3 DEF OpOK, Known2, Writing, SettingOK
  <2>5. Becomes(o, q) /\ UNCHANGED <<server, setting, torn, hurt>>
    BY <1>1, <2>1 DEF Sync
  <2> QED BY <1>t, <2>3, <2>4, <2>5, BaseBecomes DEF server, SettingOK
<1>a. ASSUME ReadAccess(o) PROVE BaseInv'
  <2>1. OpOK([op[o] EXCEPT !.phase = "readRefresh"])
    BY <1>r, <1>a, GotoOK DEF ReadAccess, At
  <2>2. UNCHANGED <<server, setting, torn, hurt>>
    BY <1>a DEF ReadAccess
  <2>3. CASE Ends(o)
    BY <1>t, <2>2, <2>3, BaseEnds DEF server, SettingOK
  <2>4. CASE Goto(o, "readRefresh")
    BY <1>t, <2>1, <2>2, <2>4, BaseGoto DEF OnLoop, Reading, Writing, SettingOK, server
  <2> QED BY <1>a, <2>3, <2>4 DEF ReadAccess
<1>b. ASSUME ReadRefresh(o) PROVE BaseInv'
  <2>1. PICK q : q = [op[o] EXCEPT !.phase = "post", !.presented = setting.refresh]
    OBVIOUS
  <2>2. UNCHANGED <<server, setting, torn, hurt>> /\ op[o].phase = "readRefresh"
    BY <1>b DEF ReadRefresh, At
  <2>3. CASE Ends(o)
    BY <1>t, <2>2, <2>3, BaseEnds DEF server, SettingOK
  <2>4. CASE Becomes(o, q)
    <3>1. /\ q.phase = "post" /\ q.account = op[o].account /\ q.received = op[o].received
          /\ q.presented = setting.refresh /\ q \in OpState
      BY <1>r, <1>t, <2>1 DEF OpState, Awaiting, Setting
    <3>2. OpOK(q) /\ q.phase \notin Writing
      BY <1>r, <1>t, <2>2, <3>1 DEF OpOK, Known2, Writing, SettingOK
    <3> QED BY <1>t, <2>2, <2>4, <3>1, <3>2, BaseBecomes DEF server, SettingOK
  <2> QED BY <1>b, <2>1, <2>3, <2>4 DEF ReadRefresh
<1>2. ASSUME Post(o) PROVE BaseInv'
  <2>1. CASE Ends(o)
    BY <1>2, <1>t, <2>1, BaseEnds DEF Post, server, SettingOK
  <2>2. CASE op[o].presented # Empty /\ Goto(o, "refresh")
    <3>1. OpOK([op[o] EXCEPT !.phase = "refresh"])
      BY <1>r, <1>2, <2>2, GotoOK DEF Post, At
    <3> QED BY <1>2, <1>t, <2>2, <3>1, BaseGoto DEF Post, Awaiting, Writing, SettingOK, server
  <2> QED BY <1>2, <2>1, <2>2 DEF Post
<1>3. ASSUME RefreshRotates(o) PROVE BaseInv'
  BY <1>3, BaseRefreshRotates
<1>4. ASSUME RefreshRefused(o) PROVE BaseInv'
  <2>1. SessionOf(o) \in Token
    BY <1>4, SessionOfIsToken DEF RefreshRefused
  <2>2. /\ \A s \in Token : current'[s] \subseteq current[s]
        /\ current' \in [Token -> SUBSET Token] /\ used' = used /\ hurt' \in SUBSET Token
    BY <1>4, <1>t, <2>1, EndShrinks DEF RefreshRefused
  <2> QED BY <1>4, <1>t, <2>2, BaseEnds DEF RefreshRefused, SettingOK
<1>5. ASSUME RefreshAnswered(o) PROVE BaseInv'
  <2>1. PICK q : q = [op[o] EXCEPT !.phase = "storeAccess"]
    OBVIOUS
  <2>2. OpOK(q)
    BY <1>r, <1>5, <2>1, GotoOK DEF RefreshAnswered, At, OpOK
  <2>3. q \in OpState /\ q.phase \in Writing
    BY <1>r, <2>1 DEF OpState, OnLoop, Writing
  <2>4. BeginsToWrite(o, q) /\ UNCHANGED <<server, setting, hurt>>
    BY <1>5, <2>1 DEF RefreshAnswered
  <2> QED BY <1>t, <2>2, <2>3, <2>4, BaseBegins DEF SettingOK, server
<1>6. ASSUME RefreshFails(o) PROVE BaseInv'
  <2>1. hurt' \in SUBSET Token
    BY <1>6, <1>t, SessionOfIsToken DEF RefreshFails
  <2> QED BY <1>6, <1>t, <2>1, BaseEnds DEF RefreshFails, server, SettingOK
<1>7. ASSUME StoreAccess(o) PROVE BaseInv'
  <2>1. OpOK([op[o] EXCEPT !.phase = "storeRefresh"])
    BY <1>r, <1>7, GotoOK DEF StoreAccess, At, OpOK
  <2>2. setting' \in Setting /\ SettingOK'
    BY <1>r, <1>t, <1>7 DEF StoreAccess, Saves, SaveFails, At, OpState, OpOK, Setting, SettingOK, server
  <2>5. torn' \in BOOLEAN /\ (torn => torn')
    BY <1>7, <1>t DEF StoreAccess, SaveFails
  <2>3. CASE Ends(o)
    BY <1>7, <1>t, <2>2, <2>5, <2>3, BaseEnds DEF StoreAccess, server
  <2>4. CASE Goto(o, "storeRefresh")
    BY <1>7, <1>t, <2>1, <2>2, <2>5, <2>4, BaseGoto DEF StoreAccess, At, OnLoop, Writing
  <2> QED BY <1>7, <2>3, <2>4 DEF StoreAccess, SaveFails
<1>8. ASSUME StoreRefresh(o) PROVE BaseInv'
  <2>1. OpOK([op[o] EXCEPT !.phase = "repost"])
    BY <1>r, <1>8, GotoOK DEF StoreRefresh, At, OpOK
  <2>2. setting' \in Setting /\ SettingOK'
    BY <1>r, <1>t, <1>8 DEF StoreRefresh, Saves, SaveFails, At, OpState, OpOK, Setting, SettingOK, server
  <2>5. torn' \in BOOLEAN /\ (torn => torn')
    BY <1>8, <1>t DEF StoreRefresh, SaveFails
  <2>3. CASE Ends(o)
    BY <1>8, <1>t, <2>2, <2>5, <2>3, BaseEnds DEF StoreRefresh, server
  <2>4. CASE Goto(o, "repost")
    BY <1>8, <1>t, <2>1, <2>2, <2>5, <2>4, BaseGoto DEF StoreRefresh, Awaiting, Writing
  <2> QED BY <1>8, <2>3, <2>4 DEF StoreRefresh, SaveFails
<1>9. ASSUME Repost(o) PROVE BaseInv'
  BY <1>9, <1>t, BaseEnds DEF Repost, server, SettingOK
<1> QED BY <1>1, <1>a, <1>b, <1>2, <1>3, <1>4, <1>5, <1>6, <1>7, <1>8, <1>9

LEMMA BaseDisconnects ==
  ASSUME BaseInv, MaxToken \in Nat, NEW o \in Op
  PROVE  \/ \E i \in Instance : Disconnect(o, i)
         \/ ClearEmail(o) \/ ClearAccess(o) \/ ClearRefresh(o)
         => BaseInv'
<1> USE Phases
<1>r. op[o] \in OpState /\ OpOK(op[o])
  BY DEF BaseInv, TypeOK
<1>t. /\ setting \in Setting /\ torn \in BOOLEAN /\ hurt \in SUBSET Token
      /\ current \in [Token -> SUBSET Token] /\ SettingOK
  BY DEF BaseInv, TypeOK
<1>p. \A phase \in {"clearAccess", "clearRefresh"} : OpOK([op[o] EXCEPT !.phase = phase])
  BY <1>r, GotoOK
<1>1. ASSUME NEW i \in Instance, Disconnect(o, i)
      PROVE  BaseInv'
  <2>1. PICK q : q = [Idle EXCEPT !.phase = "clearEmail", !.copy = i]
    OBVIOUS
  <2>2. /\ q.phase = "clearEmail" /\ q.received = Empty /\ q.presented = Empty
        /\ q \in OpState
    BY <2>1 DEF Idle, OpState, OnLoop, Writing
  <2>3. OpOK(q) /\ q.phase \in Writing
    BY <2>2 DEF OpOK, Known2, Writing
  <2>4. BeginsToWrite(o, q) /\ UNCHANGED <<server, hurt>>
    BY <1>1, <2>1 DEF Disconnect
  <2>6. setting' = [setting EXCEPT !.url = None] /\ used' = used
    BY <1>1 DEF Disconnect, Saves, server
  <2>5. setting' \in Setting /\ SettingOK'
    BY <1>t, <2>6 DEF Setting, SettingOK, Known2
  <2> QED BY <2>2, <2>3, <2>4, <2>5, BaseBegins
<1>s. ASSUME ClearEmail(o) \/ ClearAccess(o) \/ ClearRefresh(o)
      PROVE  /\ setting' \in Setting /\ SettingOK' /\ UNCHANGED <<server, hurt>>
             /\ op[o].phase \in Writing
  BY <1>t, <1>s
  DEF ClearEmail, ClearAccess, ClearRefresh, Saves, SaveFails, At, Writing, Setting, SettingOK,
      Known2, server
<1>2. ASSUME ClearEmail(o) PROVE BaseInv'
  BY <1>2, <1>t, <1>p, <1>s, BaseGoto, BaseEnds
  DEF ClearEmail, SaveFails, At, OnLoop, Writing, server
<1>3. ASSUME ClearAccess(o) PROVE BaseInv'
  BY <1>3, <1>t, <1>p, <1>s, BaseGoto, BaseEnds
  DEF ClearAccess, SaveFails, At, OnLoop, Writing, server
<1>4. ASSUME ClearRefresh(o) PROVE BaseInv'
  <2>1. torn' \in BOOLEAN /\ (o \in crossed => torn')
    BY <1>4, LastWriteTears DEF ClearRefresh
  <2>2. Ends(o)
    BY <1>4 DEF ClearRefresh, SaveFails
  <2> QED BY <1>4, <1>t, <1>s, <2>1, <2>2, BaseEnds DEF server
<1> QED BY <1>1, <1>2, <1>3, <1>4

LEMMA BaseNext ==
  ASSUME BaseInv, MaxToken \in Nat, [Next]_vars
  PROVE  BaseInv'
<1>1. ASSUME NEW o \in Op, Continue(o)
      PROVE  BaseInv'
  BY <1>1, BaseConnects, BaseSyncs, BaseDisconnects DEF Continue
<1>5. ASSUME NEW o \in Op, NEW i \in Instance,
             Sync(o, i) \/ Disconnect(o, i) \/ \E a \in Account : Connect(o, i, a)
      PROVE  BaseInv'
  BY <1>5, BaseConnects, BaseSyncs, BaseDisconnects
<1>2. ASSUME NEW i \in Instance, Killed(i)
      PROVE  BaseInv'
  <2>1. /\ \A o \in Op : op'[o] = IF o \in Of(i) THEN Idle ELSE op[o]
        /\ op' \in [Op -> OpState]
    BY <1>2, IdleOK DEF Killed, BaseInv, TypeOK
  <2>2. UNCHANGED <<server, setting>> /\ crossed' = crossed \ Of(i)
    BY <1>2 DEF Killed
  <2>3. torn' \in BOOLEAN /\ (torn => torn')
    BY <1>2 DEF Killed, BaseInv, TypeOK
  <2>4. hurt' \in SUBSET Token
    BY <1>2, SessionOfIsToken DEF Killed, BaseInv, TypeOK, Rotated, Of
  <2>5. TypeOK'
    BY <2>1, <2>2, <2>3, <2>4 DEF BaseInv, TypeOK, server
  <2>6. TokensOK' /\ SettingOK'
    BY <2>2 DEF BaseInv, TokensOK, SettingOK, server
  <2>7. Crossing'
    BY <2>1, <2>2, <2>3, IdleOK DEF BaseInv, Crossing
  <2>8. \A o \in Op : OpOK(op[o])'
    BY <2>1, <2>2, IdleOK DEF BaseInv, OpOK, server
  <2> QED BY <2>5, <2>6, <2>7, <2>8 DEF BaseInv
<1>3. ASSUME NEW s \in Token, SessionEnds(s)
      PROVE  BaseInv'
  <2>1. /\ \A r \in Token : current'[r] \subseteq current[r]
        /\ current' \in [Token -> SUBSET Token] /\ used' = used
    BY <1>3, EndShrinks DEF SessionEnds
  <2>2. UNCHANGED <<issued, setting, op, torn, crossed>> /\ hurt' \in SUBSET Token
    BY <1>3 DEF SessionEnds, BaseInv, TypeOK
  <2>3. TypeOK' /\ TokensOK'
    BY <2>1, <2>2 DEF BaseInv, TypeOK, TokensOK
  <2>4. SettingOK' /\ Crossing' /\ \A o \in Op : OpOK(op[o])'
    BY <2>1, <2>2 DEF BaseInv, SettingOK, Crossing, OpOK
  <2> QED BY <2>3, <2>4 DEF BaseInv
<1>4. CASE UNCHANGED vars
  <2>1. UNCHANGED <<current, used, issued, setting, op, torn, crossed, hurt>>
    BY <1>4 DEF vars, server
  <2>2. TypeOK' /\ TokensOK'
    BY <2>1 DEF BaseInv, TypeOK, TokensOK
  <2>3. SettingOK' /\ Crossing' /\ \A o \in Op : OpOK(op[o])'
    BY <2>1 DEF BaseInv, SettingOK, Crossing, OpOK
  <2> QED BY <2>2, <2>3 DEF BaseInv
<1> QED BY <1>1, <1>2, <1>3, <1>4, <1>5 DEF Next

LEMMA AlwaysBase ==
  ASSUME MaxToken \in Nat
  PROVE  Spec => []BaseInv
<1>1. Init => BaseInv
  BY BaseInit
<1>2. BaseInv /\ [Next]_vars => BaseInv'
  BY BaseNext
<1> QED BY <1>1, <1>2, PTL DEF Spec

(***************************************************************************)
(* Settings, tokens and operations are what they are declared to be.       *)
(***************************************************************************)
THEOREM TypeCorrect ==
  ASSUME MaxToken \in Nat
  PROVE  Spec => []TypeOK
<1>1. BaseInv => TypeOK
  BY DEF BaseInv
<1> QED BY <1>1, AlwaysBase, PTL

-----------------------------------------------------------------------------
\* A write changes the one setting.
LEMMA SavesOne ==
  ASSUME BaseInv, NEW v
  PROVE  /\ Saves("url", v) => /\ setting'.url = v /\ setting'.email = setting.email
                               /\ setting'.access = setting.access /\ setting'.refresh = setting.refresh
         /\ Saves("email", v) => /\ setting'.url = setting.url /\ setting'.email = v
                                 /\ setting'.access = setting.access /\ setting'.refresh = setting.refresh
         /\ Saves("access", v) => /\ setting'.url = setting.url /\ setting'.email = setting.email
                                  /\ setting'.access = v /\ setting'.refresh = setting.refresh
         /\ Saves("refresh", v) => /\ setting'.url = setting.url /\ setting'.email = setting.email
                                   /\ setting'.access = setting.access /\ setting'.refresh = v
BY DEF Saves, BaseInv, TypeOK, Setting

\* What the settings are while the operation p, and no other, is at work on them.
Stage(p) ==
  /\ p.phase \in {"saveUrl", "storeAccess"} /\ ~torn => IsWhole
  /\ p.phase \in {"saveEmail", "saveAccess", "saveRefresh"} => setting.url = p.account
  /\ p.phase \in {"saveAccess", "saveRefresh"} => setting.email = p.account
  /\ p.phase = "saveRefresh" => setting.access = p.received
  /\ p.phase = "storeRefresh" /\ ~torn =>
       setting.url = p.account /\ setting.email = p.account /\ setting.access = p.received
  /\ p.phase \in {"clearEmail", "clearAccess", "clearRefresh"} => setting.url = None
  /\ p.phase \in {"clearAccess", "clearRefresh"} => setting.email = None
  /\ p.phase = "clearRefresh" => setting.access = Empty

WholeInv == SettingsAreWhole /\ \A o \in Op \ crossed : Stage(op[o])

LEMMA WholeInit ==
  ASSUME Init
  PROVE  WholeInv
BY DEF Init, WholeInv, SettingsAreWhole, IsWhole, Stage, Idle

\* The stages are about handlers that write.
LEMMA StageOfOthers ==
  ASSUME NEW p, p.phase \notin Writing
  PROVE  Stage(p) /\ Stage(p)'
BY DEF Stage, Writing

\* What a server adds to what it knows of tokens is of no account to settings.
LEMMA WholeStays ==
  ASSUME BaseInv, MaxToken \in Nat, IsWhole, UNCHANGED setting,
         \A t \in used : issued'[t] = issued[t]
  PROVE  IsWhole'
BY TokenFacts DEF BaseInv, TypeOK, SettingOK, Known2, IsWhole, Connected

\* An operation that does not write, before or after.
LEMMA WholeElsewhere ==
  ASSUME BaseInv, MaxToken \in Nat, WholeInv, NEW o \in Op, op[o].phase \notin Writing,
         UNCHANGED setting,
         \A t \in used : issued'[t] = issued[t],
         NEW q, Becomes(o, q), q.phase \notin Writing,
         torn' = torn
  PROVE  WholeInv'
<1>1. /\ \A p \in Op : op'[p] = IF p = o THEN q ELSE op[p]
      /\ crossed' = crossed \ {o}
  BY DEF BaseInv, TypeOK, Becomes
<1>2. Settled' => Settled
  BY <1>1 DEF Settled
<1>3. IsWhole => IsWhole'
  BY WholeStays
<1>4. SettingsAreWhole'
  BY <1>2, <1>3 DEF WholeInv, SettingsAreWhole
<1>5. ASSUME NEW p \in Op, p \notin crossed' PROVE Stage(op[p])'
  <2>1. CASE p = o
    BY <1>1, <2>1, StageOfOthers
  <2>2. CASE p # o
    <3>1. Stage(op[p]) /\ op'[p] = op[p]
      BY <1>1, <1>5, <2>2 DEF WholeInv
    <3> QED BY <1>3, <3>1 DEF Stage
  <2> QED BY <2>1, <2>2
<1> QED BY <1>4, <1>5 DEF WholeInv

\* The handler o writes and goes on to q, by itself or after another has come
\* between.
LEMMA WholeAtWork ==
  ASSUME BaseInv, NEW o \in Op, op[o].phase \in Writing,
         NEW q, Becomes(o, q), o \in crossed => torn',
         o \notin crossed => Stage(q)' /\ (q.phase \notin Writing /\ ~torn' => IsWhole')
  PROVE  WholeInv'
<1>1. /\ \A p \in Op : op'[p] = IF p = o THEN q ELSE op[p]
      /\ crossed' = IF q.phase \in Writing THEN crossed ELSE crossed \ {o}
  BY DEF BaseInv, TypeOK, Becomes
<1>2. SettingsAreWhole'
  BY <1>1 DEF SettingsAreWhole, Settled
<1>3. ASSUME NEW p \in Op, p \notin crossed' PROVE Stage(op[p])'
  <2>1. CASE p = o
    BY <1>1, <1>3, <2>1, StageOfOthers
  <2>2. CASE p # o
    <3>1. op[p].phase \notin Writing
      BY <1>1, <1>3, <2>2 DEF BaseInv, Crossing
    <3> QED BY <1>1, <2>2, <3>1, StageOfOthers
  <2> QED BY <2>1, <2>2
<1> QED BY <1>2, <1>3 DEF WholeInv

\* A handler that ends after a write that failed has torn the settings.
LEMMA WholeFails ==
  ASSUME BaseInv, NEW o \in Op, op[o].phase \in Writing, SaveFails(o)
  PROVE  WholeInv'
<1>1. Becomes(o, Idle) /\ torn'
  BY DEF SaveFails, Ends
<1> QED BY <1>1, IdleOK, StageOfOthers, WholeAtWork

\* One that others have crossed leaves them torn, whatever it does.
LEMMA TornStays ==
  ASSUME BaseInv, NEW o \in crossed
  PROVE  torn
BY DEF BaseInv, Crossing

\* A handler begins to write.
LEMMA WholeBegins ==
  ASSUME BaseInv, WholeInv, NEW o \in Op, op[o].phase \notin Writing,
         NEW q, BeginsToWrite(o, q), q.phase \in Writing,
         Settled => Stage(q)'
  PROVE  WholeInv'
<1>1. /\ \A p \in Op : op'[p] = IF p = o THEN q ELSE op[p]
      /\ crossed' = IF Writers(o) = {} THEN crossed ELSE crossed \union Writers(o) \union {o}
  BY DEF BaseInv, TypeOK, BeginsToWrite
<1>2. SettingsAreWhole'
  BY <1>1 DEF SettingsAreWhole, Settled
<1>3. ASSUME NEW p \in Op, p \notin crossed' PROVE Stage(op[p])'
  <2>1. CASE p = o
    <3>1. Writers(o) = {}
      BY <1>1, <1>3, <2>1
    <3>2. Settled
      BY <3>1 DEF Settled, Writers
    <3> QED BY <1>1, <2>1, <3>2
  <2>2. CASE p # o
    <3>1. op[p].phase \notin Writing
      BY <1>1, <1>3, <2>2 DEF Writers
    <3> QED BY <1>1, <2>2, <3>1, StageOfOthers
  <2> QED BY <2>1, <2>2
<1> QED BY <1>2, <1>3 DEF WholeInv

\* One that has received tokens begins to store them.
LEMMA WholeReceives ==
  ASSUME BaseInv, MaxToken \in Nat, WholeInv, NEW o \in Op, op[o].phase \notin Writing,
         NEW phase \in {"saveUrl", "storeAccess"},
         BeginsToWrite(o, [op[o] EXCEPT !.phase = phase]), UNCHANGED <<server, setting>>
  PROVE  WholeInv'
<1>1. PICK q : q = [op[o] EXCEPT !.phase = phase]
  OBVIOUS
<1>2. q.phase = phase /\ q.phase \in Writing /\ BeginsToWrite(o, q)
  BY <1>1 DEF BaseInv, TypeOK, OpState, Writing
<1>3. IsWhole => IsWhole'
  BY WholeStays DEF server
<1>4. torn => torn'
  BY DEF BeginsToWrite
<1>5. Settled => Stage(q)'
  <2>1. Settled /\ ~torn' => IsWhole'
    BY <1>3, <1>4 DEF WholeInv, SettingsAreWhole
  <2> QED BY <1>2, <2>1 DEF Stage
<1> QED BY <1>2, <1>5, WholeBegins

LEMMA WholeConnects ==
  ASSUME BaseInv, BaseInv', MaxToken \in Nat, None \notin Account, WholeInv, NEW o \in Op
  PROVE  \/ \E i \in Instance, a \in Account : Connect(o, i, a)
         \/ LoginServed(o) \/ LoginAnswered(o) \/ LoginFails(o)
         \/ SaveUrl(o) \/ SaveEmail(o) \/ SaveAccess(o) \/ SaveRefresh(o)
         => WholeInv'
<1>r. op[o] \in OpState /\ OpOK(op[o]) /\ setting \in Setting
  BY DEF BaseInv, TypeOK
<1>s. (o \notin crossed => Stage(op[o])) /\ (o \in crossed => torn)
  BY TornStays DEF WholeInv
<1>i. Stage(Idle)' /\ Idle.phase \notin Writing
  BY IdleOK, StageOfOthers
<1>1. ASSUME NEW i \in Instance, NEW a \in Account, Connect(o, i, a)
      PROVE  WholeInv'
  <2>1. PICK q : q = [Idle EXCEPT !.phase = "login", !.copy = i, !.account = a]
    OBVIOUS
  <2>2. q.phase \notin Writing
    BY <2>1 DEF Idle, Writing
  <2>3. Becomes(o, q) /\ op[o].phase \notin Writing /\ UNCHANGED <<server, setting, torn>>
    BY <1>1, <2>1 DEF Connect, MayStart, Writing
  <2> QED BY <2>2, <2>3, WholeElsewhere DEF server
<1>2. ASSUME LoginServed(o) PROVE WholeInv'
  <2>1. PICK q : q = [op[o] EXCEPT !.phase = "opened", !.received = Fresh]
    OBVIOUS
  <2>2. q.phase \notin Writing
    BY <1>r, <2>1 DEF OpState, Writing
  <2>3. \A t \in used : issued'[t] = issued[t]
    BY <1>2 DEF LoginServed, Server!Begin, Issue, BaseInv, TypeOK
  <2>4. Becomes(o, q) /\ op[o].phase \notin Writing /\ UNCHANGED <<setting, torn>>
    BY <1>2, <2>1 DEF LoginServed, Writing
  <2> QED BY <2>2, <2>3, <2>4, WholeElsewhere
<1>3. ASSUME LoginAnswered(o) PROVE WholeInv'
  <2>1. /\ BeginsToWrite(o, [op[o] EXCEPT !.phase = "saveUrl"])
        /\ op[o].phase \notin Writing /\ UNCHANGED <<server, setting>>
    BY <1>3 DEF LoginAnswered, At, Writing
  <2> QED BY <2>1, WholeReceives
<1>4. ASSUME LoginFails(o) PROVE WholeInv'
  <2>1. Becomes(o, Idle) /\ op[o].phase \notin Writing /\ UNCHANGED <<server, setting, torn>>
    BY <1>4 DEF LoginFails, Ends, At, Writing
  <2> QED BY <1>i, <2>1, WholeElsewhere DEF server
<1>5. ASSUME SaveUrl(o) PROVE WholeInv'
  <2>1. op[o].phase = "saveUrl" /\ op[o].phase \in Writing /\ UNCHANGED <<server, torn>>
    BY <1>5 DEF SaveUrl, At, Writing
  <2>2. CASE Saves("url", op[o].account) /\ Goto(o, "saveEmail")
    <3>1. PICK q : q = [op[o] EXCEPT !.phase = "saveEmail"]
      OBVIOUS
    <3>2. /\ q.phase = "saveEmail" /\ q.account = op[o].account
          /\ setting'.url = op[o].account /\ Becomes(o, q)
      BY <1>r, <2>2, <3>1, SavesOne DEF OpState, Goto
    <3>3. Stage(q)' /\ q.phase \in Writing
      BY <3>2 DEF Stage, Writing
    <3> QED BY <1>s, <2>1, <3>2, <3>3, WholeAtWork
  <2>3. CASE Ends(o) /\ UNCHANGED setting
    <3>1. o \notin crossed /\ ~torn => IsWhole
      BY <1>s, <2>1 DEF Stage
    <3>2. o \notin crossed /\ ~torn' => IsWhole'
      BY <2>1, <2>3, <3>1, WholeStays DEF server
    <3> QED BY <1>s, <1>i, <2>1, <2>3, <3>2, WholeAtWork DEF Ends
  <2> QED BY <1>5, <2>2, <2>3 DEF SaveUrl
<1>6. ASSUME SaveEmail(o) PROVE WholeInv'
  <2>1. op[o].phase = "saveEmail" /\ op[o].phase \in Writing
    BY <1>6 DEF SaveEmail, At, Writing
  <2>2. CASE Saves("email", op[o].account) /\ Goto(o, "saveAccess") /\ UNCHANGED torn
    <3>1. PICK q : q = [op[o] EXCEPT !.phase = "saveAccess"]
      OBVIOUS
    <3>2. /\ q.phase = "saveAccess" /\ q.account = op[o].account
          /\ setting'.url = setting.url /\ setting'.email = op[o].account /\ Becomes(o, q)
      BY <1>r, <2>2, <3>1, SavesOne DEF OpState, Goto
    <3>3. o \notin crossed => Stage(q)'
      BY <1>s, <2>1, <3>2 DEF Stage
    <3> QED BY <1>s, <2>1, <2>2, <3>2, <3>3, WholeAtWork DEF Writing
  <2> QED BY <1>6, <2>1, <2>2, WholeFails DEF SaveEmail
<1>7. ASSUME SaveAccess(o) PROVE WholeInv'
  <2>1. op[o].phase = "saveAccess" /\ op[o].phase \in Writing
    BY <1>7 DEF SaveAccess, At, Writing
  <2>2. CASE Saves("access", op[o].received) /\ Goto(o, "saveRefresh") /\ UNCHANGED torn
    <3>1. PICK q : q = [op[o] EXCEPT !.phase = "saveRefresh"]
      OBVIOUS
    <3>2. /\ q.phase = "saveRefresh" /\ q.account = op[o].account /\ q.received = op[o].received
          /\ setting'.url = setting.url /\ setting'.email = setting.email
          /\ setting'.access = op[o].received /\ Becomes(o, q)
      BY <1>r, <2>2, <3>1, SavesOne DEF OpState, Goto
    <3>3. o \notin crossed => Stage(q)'
      BY <1>s, <2>1, <3>2 DEF Stage
    <3> QED BY <1>s, <2>1, <2>2, <3>2, <3>3, WholeAtWork DEF Writing
  <2> QED BY <1>7, <2>1, <2>2, WholeFails DEF SaveAccess
<1>8. ASSUME SaveRefresh(o) PROVE WholeInv'
  <2>1. op[o].phase = "saveRefresh" /\ op[o].phase \in Writing /\ UNCHANGED server
    BY <1>8 DEF SaveRefresh, At, Writing
  <2>2. CASE Saves("refresh", op[o].received) /\ Ends(o) /\ torn' = (o \in crossed)
    <3>1. /\ op[o].account \in Account /\ op[o].received # Empty
          /\ issued[op[o].received].account = op[o].account
      BY <1>r, <2>1, Phases DEF OpOK
    <3>2. /\ setting'.url = setting.url /\ setting'.email = setting.email
          /\ setting'.access = setting.access /\ setting'.refresh = op[o].received
      BY <2>2, SavesOne
    <3>3. o \notin crossed => /\ setting.url = op[o].account /\ setting.email = op[o].account
                              /\ setting.access = op[o].received
      BY <1>s, <2>1 DEF Stage
    <3>4. o \notin crossed => IsWhole'
      BY <2>1, <3>1, <3>2, <3>3 DEF IsWhole, Connected, server
    <3>5. o \in crossed => torn'
      BY <2>2
    <3> QED BY <1>i, <2>1, <2>2, <3>4, <3>5, WholeAtWork DEF Ends
  <2> QED BY <1>8, <2>1, <2>2, WholeFails DEF SaveRefresh
<1> QED BY <1>1, <1>2, <1>3, <1>4, <1>5, <1>6, <1>7, <1>8

LEMMA WholeSyncs ==
  ASSUME BaseInv, BaseInv', MaxToken \in Nat, None \notin Account, WholeInv, NEW o \in Op
  PROVE  \/ (\E i \in Instance : Sync(o, i)) \/ ReadAccess(o) \/ ReadRefresh(o) \/ Post(o)
         \/ RefreshRotates(o) \/ RefreshRefused(o) \/ RefreshAnswered(o) \/ RefreshFails(o)
         \/ StoreAccess(o) \/ StoreRefresh(o) \/ Repost(o)
         => WholeInv'
<1>r. op[o] \in OpState /\ OpOK(op[o]) /\ setting \in Setting
  BY DEF BaseInv, TypeOK
<1>s. (o \notin crossed => Stage(op[o])) /\ (o \in crossed => torn)
  BY TornStays DEF WholeInv
<1>i. Stage(Idle)' /\ Idle.phase \notin Writing
  BY IdleOK, StageOfOthers
\* Steps of a handler that writes nothing, before or after.
<1>e. ASSUME NEW q, Becomes(o, q), q.phase \notin Writing, op[o].phase \notin Writing,
             UNCHANGED <<issued, setting, torn>>
      PROVE  WholeInv'
  BY <1>e, WholeElsewhere
<1>n. ASSUME Ends(o), op[o].phase \notin Writing, UNCHANGED <<issued, setting, torn>>
      PROVE  WholeInv'
  BY <1>i, <1>e, <1>n DEF Ends
<1>g. ASSUME NEW phase \in {"readRefresh", "refresh"}, Goto(o, phase), op[o].phase \notin Writing,
             UNCHANGED <<issued, setting, torn>>
      PROVE  WholeInv'
  <2>1. [op[o] EXCEPT !.phase = phase].phase = phase /\ phase \notin Writing
    BY <1>r DEF OpState, Writing
  <2> QED BY <1>e, <1>g, <2>1 DEF Goto
<1>1. ASSUME NEW i \in Instance, Sync(o, i)
      PROVE  WholeInv'
  <2>1. PICK q : q = [Idle EXCEPT !.phase = "readAccess", !.copy = i, !.account = setting.url]
    OBVIOUS
  <2>2. q.phase \notin Writing
    BY <2>1 DEF Idle, Writing
  <2>3. Becomes(o, q) /\ op[o].phase \notin Writing /\ UNCHANGED <<issued, setting, torn>>
    BY <1>1, <2>1 DEF Sync, MayStart, Writing, server
  <2> QED BY <1>e, <2>2, <2>3
<1>a. ASSUME ReadAccess(o) PROVE WholeInv'
  <2>1. op[o].phase \notin Writing /\ UNCHANGED <<issued, setting, torn>>
    BY <1>a DEF ReadAccess, At, Writing, server
  <2> QED BY <1>a, <1>g, <1>n, <2>1 DEF ReadAccess
<1>b. ASSUME ReadRefresh(o) PROVE WholeInv'
  <2>1. op[o].phase \notin Writing /\ UNCHANGED <<issued, setting, torn>>
    BY <1>b DEF ReadRefresh, At, Writing, server
  <2>2. PICK q : q = [op[o] EXCEPT !.phase = "post", !.presented = setting.refresh]
    OBVIOUS
  <2>3. q.phase \notin Writing
    BY <1>r, <2>2 DEF OpState, Writing
  <2> QED BY <1>b, <1>e, <1>n, <2>1, <2>2, <2>3 DEF ReadRefresh
<1>2. ASSUME Post(o) PROVE WholeInv'
  <2>1. op[o].phase \notin Writing /\ UNCHANGED <<issued, setting, torn>>
    BY <1>2 DEF Post, At, Writing, server
  <2> QED BY <1>2, <1>g, <1>n, <2>1 DEF Post
<1>3. ASSUME RefreshRotates(o) PROVE WholeInv'
  <2>1. PICK q : q = [op[o] EXCEPT !.phase = "rotated", !.received = Fresh]
    OBVIOUS
  <2>2. q.phase \notin Writing
    BY <1>r, <2>1 DEF OpState, Writing
  <2>3. \A t \in used : issued'[t] = issued[t]
    BY <1>3 DEF RefreshRotates, Server!Renew, Issue, BaseInv, TypeOK
  <2>4. Becomes(o, q) /\ op[o].phase \notin Writing /\ UNCHANGED <<setting, torn>>
    BY <1>3, <2>1 DEF RefreshRotates, Writing
  <2> QED BY <2>2, <2>3, <2>4, WholeElsewhere
<1>4. ASSUME RefreshRefused(o) PROVE WholeInv'
  BY <1>4, <1>n DEF RefreshRefused, Writing
<1>5. ASSUME RefreshAnswered(o) PROVE WholeInv'
  <2>1. /\ BeginsToWrite(o, [op[o] EXCEPT !.phase = "storeAccess"])
        /\ op[o].phase \notin Writing /\ UNCHANGED <<server, setting>>
    BY <1>5 DEF RefreshAnswered, At, Writing
  <2> QED BY <2>1, WholeReceives
<1>6. ASSUME RefreshFails(o) PROVE WholeInv'
  BY <1>6, <1>n DEF RefreshFails, At, Writing, server
<1>7. ASSUME StoreAccess(o) PROVE WholeInv'
  <2>1. op[o].phase = "storeAccess" /\ op[o].phase \in Writing
    BY <1>7 DEF StoreAccess, At, Writing
  <2>2. CASE Saves("access", op[o].received) /\ Goto(o, "storeRefresh") /\ torn' = (torn \/ Overtaken(o))
    <3>1. PICK q : q = [op[o] EXCEPT !.phase = "storeRefresh"]
      OBVIOUS
    <3>2. /\ q.phase = "storeRefresh" /\ q.account = op[o].account /\ q.received = op[o].received
          /\ setting'.url = setting.url /\ setting'.email = setting.email
          /\ setting'.access = op[o].received /\ Becomes(o, q)
      BY <1>r, <2>2, <3>1, SavesOne DEF OpState, Goto
    <3>3. op[o].account \in Account
      BY <1>r, <2>1, Phases DEF OpOK
    <3>4. ~torn' => ~torn /\ ~Overtaken(o)
      BY <2>2
    <3>5. ASSUME o \notin crossed, ~torn'
          PROVE  setting.url = op[o].account /\ setting.email = op[o].account
      <4>1. ~torn /\ setting.url = op[o].account
        BY <3>4, <3>5 DEF Overtaken
      <4>2. IsWhole
        BY <1>s, <2>1, <3>5, <4>1 DEF Stage
      <4>3. setting.url # None
        BY <3>3, <4>1
      <4>4. setting.url = setting.email
        BY <4>2, <4>3 DEF IsWhole
      <4> QED BY <4>1, <4>4
    <3>6. o \notin crossed => Stage(q)'
      BY <3>2, <3>5 DEF Stage
    <3> QED BY <1>s, <2>1, <3>2, <3>4, <3>6, WholeAtWork DEF Writing
  <2> QED BY <1>7, <2>1, <2>2, WholeFails DEF StoreAccess
<1>8. ASSUME StoreRefresh(o) PROVE WholeInv'
  <2>1. op[o].phase = "storeRefresh" /\ op[o].phase \in Writing /\ UNCHANGED server
    BY <1>8 DEF StoreRefresh, At, Writing
  <2>2. CASE Saves("refresh", op[o].received) /\ Goto(o, "repost") /\ UNCHANGED torn
    <3>1. PICK q : q = [op[o] EXCEPT !.phase = "repost"]
      OBVIOUS
    <3>2. /\ q.phase \notin Writing /\ Becomes(o, q)
          /\ setting'.url = setting.url /\ setting'.email = setting.email
          /\ setting'.access = setting.access /\ setting'.refresh = op[o].received
      BY <1>r, <2>2, <3>1, SavesOne DEF OpState, Goto, Writing
    <3>3. /\ op[o].account \in Account /\ op[o].received # Empty
          /\ issued[op[o].received].account = op[o].account
      BY <1>r, <2>1, Phases DEF OpOK
    <3>4. o \notin crossed /\ ~torn => /\ setting.url = op[o].account /\ setting.email = op[o].account
                                       /\ setting.access = op[o].received
      BY <1>s, <2>1 DEF Stage
    <3>5. o \notin crossed /\ ~torn => IsWhole'
      BY <2>1, <3>2, <3>3, <3>4 DEF IsWhole, Connected, server
    <3>6. Stage(q)'
      BY <3>2, StageOfOthers
    <3> QED BY <1>s, <2>1, <2>2, <3>2, <3>5, <3>6, WholeAtWork
  <2> QED BY <1>8, <2>1, <2>2, WholeFails DEF StoreRefresh
<1>9. ASSUME Repost(o) PROVE WholeInv'
  BY <1>9, <1>n DEF Repost, At, Writing, server
<1> QED BY <1>1, <1>a, <1>b, <1>2, <1>3, <1>4, <1>5, <1>6, <1>7, <1>8, <1>9

LEMMA WholeDisconnects ==
  ASSUME BaseInv, MaxToken \in Nat, WholeInv, NEW o \in Op
  PROVE  \/ \E i \in Instance : Disconnect(o, i)
         \/ ClearEmail(o) \/ ClearAccess(o) \/ ClearRefresh(o)
         => WholeInv'
<1>r. op[o] \in OpState /\ setting \in Setting
  BY DEF BaseInv, TypeOK
<1>s. (o \notin crossed => Stage(op[o])) /\ (o \in crossed => torn)
  BY TornStays DEF WholeInv
<1>1. ASSUME NEW i \in Instance, Disconnect(o, i)
      PROVE  WholeInv'
  <2>1. PICK q : q = [Idle EXCEPT !.phase = "clearEmail", !.copy = i]
    OBVIOUS
  <2>2. q.phase = "clearEmail" /\ q.phase \in Writing
    BY <2>1 DEF Idle, Writing
  <2>3. BeginsToWrite(o, q) /\ op[o].phase \notin Writing /\ setting'.url = None
    BY <1>1, <2>1, SavesOne DEF Disconnect, MayStart, Writing
  <2>4. Stage(q)'
    BY <2>2, <2>3 DEF Stage
  <2> QED BY <2>2, <2>3, <2>4, WholeBegins
<1>2. ASSUME ClearEmail(o) PROVE WholeInv'
  <2>1. op[o].phase = "clearEmail" /\ op[o].phase \in Writing
    BY <1>2 DEF ClearEmail, At, Writing
  <2>2. CASE Saves("email", None) /\ Goto(o, "clearAccess") /\ UNCHANGED torn
    <3>1. PICK q : q = [op[o] EXCEPT !.phase = "clearAccess"]
      OBVIOUS
    <3>2. /\ q.phase = "clearAccess" /\ Becomes(o, q)
          /\ setting'.url = setting.url /\ setting'.email = None
      BY <1>r, <2>2, <3>1, SavesOne DEF OpState, Goto
    <3>3. o \notin crossed => Stage(q)'
      BY <1>s, <2>1, <3>2 DEF Stage
    <3> QED BY <1>s, <2>1, <2>2, <3>2, <3>3, WholeAtWork DEF Writing
  <2> QED BY <1>2, <2>1, <2>2, WholeFails DEF ClearEmail
<1>3. ASSUME ClearAccess(o) PROVE WholeInv'
  <2>1. op[o].phase = "clearAccess" /\ op[o].phase \in Writing
    BY <1>3 DEF ClearAccess, At, Writing
  <2>2. CASE Saves("access", Empty) /\ Goto(o, "clearRefresh") /\ UNCHANGED torn
    <3>1. PICK q : q = [op[o] EXCEPT !.phase = "clearRefresh"]
      OBVIOUS
    <3>2. /\ q.phase = "clearRefresh" /\ Becomes(o, q)
          /\ setting'.url = setting.url /\ setting'.email = setting.email /\ setting'.access = Empty
      BY <1>r, <2>2, <3>1, SavesOne DEF OpState, Goto
    <3>3. o \notin crossed => Stage(q)'
      BY <1>s, <2>1, <3>2 DEF Stage
    <3> QED BY <1>s, <2>1, <2>2, <3>2, <3>3, WholeAtWork DEF Writing
  <2> QED BY <1>3, <2>1, <2>2, WholeFails DEF ClearAccess
<1>4. ASSUME ClearRefresh(o) PROVE WholeInv'
  <2>1. op[o].phase = "clearRefresh" /\ op[o].phase \in Writing
    BY <1>4 DEF ClearRefresh, At, Writing
  <2>2. CASE Saves("refresh", Empty) /\ Ends(o) /\ torn' = (o \in crossed)
    <3>1. o \notin crossed => setting.url = None /\ setting.email = None /\ setting.access = Empty
      BY <1>s, <2>1 DEF Stage
    <3>2. o \notin crossed =>
            setting' = [url |-> None, email |-> None, access |-> Empty, refresh |-> Empty]
      BY <1>r, <2>2, <3>1 DEF Saves, Setting
    <3>3. o \notin crossed => IsWhole'
      BY <3>2 DEF IsWhole
    <3>4. (o \in crossed => torn') /\ Stage(Idle)' /\ Idle.phase \notin Writing
      BY <2>2, IdleOK, StageOfOthers
    <3> QED BY <2>1, <2>2, <3>3, <3>4, WholeAtWork DEF Ends
  <2> QED BY <1>4, <2>1, <2>2, WholeFails DEF ClearRefresh
<1> QED BY <1>1, <1>2, <1>3, <1>4

\* The operations of one copy of the app end where they are.
LEMMA WholeKilled ==
  ASSUME BaseInv, MaxToken \in Nat, WholeInv, NEW i \in Instance, Killed(i)
  PROVE  WholeInv'
<1>1. \A o \in Op : op'[o] = IF o \in Of(i) THEN Idle ELSE op[o]
  BY DEF Killed
<1>2. UNCHANGED <<issued, setting>> /\ crossed' = crossed \ Of(i)
  BY DEF Killed, server
<1>3. IsWhole => IsWhole'
  BY <1>2, WholeStays
<1>4. ~torn' => ~torn /\ \A o \in Of(i) : op[o].phase \notin Writing
  BY DEF Killed
<1>5. SettingsAreWhole'
  <2>1. ~torn' /\ Settled' => Settled
    BY <1>1, <1>4 DEF Settled
  <2> QED BY <1>3, <1>4, <2>1 DEF WholeInv, SettingsAreWhole
<1>6. ASSUME NEW o \in Op, o \notin crossed' PROVE Stage(op[o])'
  <2>1. CASE o \in Of(i)
    BY <1>1, <2>1, IdleOK, StageOfOthers
  <2>2. CASE o \notin Of(i)
    <3>1. Stage(op[o]) /\ op'[o] = op[o]
      BY <1>1, <1>2, <1>6, <2>2 DEF WholeInv
    <3> QED BY <1>2, <1>3, <1>4, <3>1 DEF Stage
  <2> QED BY <2>1, <2>2
<1> QED BY <1>5, <1>6 DEF WholeInv

LEMMA WholeNext ==
  ASSUME BaseInv, BaseInv', MaxToken \in Nat, None \notin Account, WholeInv, [Next]_vars
  PROVE  WholeInv'
<1>1. ASSUME NEW o \in Op, Continue(o)
      PROVE  WholeInv'
  BY <1>1, WholeConnects, WholeSyncs, WholeDisconnects DEF Continue
<1>2. ASSUME NEW o \in Op, NEW i \in Instance,
             Sync(o, i) \/ Disconnect(o, i) \/ \E a \in Account : Connect(o, i, a)
      PROVE  WholeInv'
  BY <1>2, WholeConnects, WholeSyncs, WholeDisconnects
<1>3. ASSUME UNCHANGED <<used, issued, setting, op, torn, crossed>>
      PROVE  WholeInv'
  <2>1. IsWhole => IsWhole'
    BY <1>3, WholeStays
  <2>2. SettingsAreWhole'
    BY <1>3, <2>1 DEF WholeInv, SettingsAreWhole, Settled
  <2>3. \A o \in Op \ crossed : Stage(op[o])'
    BY <1>3, <2>1 DEF WholeInv, Stage
  <2> QED BY <1>3, <2>2, <2>3 DEF WholeInv
<1>4. ASSUME NEW s \in Token, SessionEnds(s)
      PROVE  WholeInv'
  BY <1>3, <1>4, EndShrinks DEF SessionEnds
<1>5. CASE UNCHANGED vars
  BY <1>3, <1>5 DEF vars, server
<1> QED BY <1>1, <1>2, <1>4, <1>5, WholeKilled DEF Next

LEMMA AlwaysWhole ==
  ASSUME MaxToken \in Nat, None \notin Account
  PROVE  Spec => []WholeInv
<1>1. Init => WholeInv
  BY WholeInit
<1>2. BaseInv /\ BaseInv' /\ WholeInv /\ [Next]_vars => WholeInv'
  BY WholeNext
<1> QED BY <1>1, <1>2, AlwaysBase, PTL DEF Spec

(***************************************************************************)
(* saveCloudConfig, clearCloudConfig and the storing of rotated tokens     *)
(* commit one setting at a time.  For any number of overlapping            *)
(* operations, accounts and token pairs the settings are whole whenever no *)
(* handler is at work on them and nothing has torn them.                   *)
(***************************************************************************)
THEOREM SettingsStayWhole ==
  ASSUME MaxToken \in Nat, None \notin Account
  PROVE  Spec => []SettingsAreWhole
<1>1. WholeInv => SettingsAreWhole
  BY DEF WholeInv
<1> QED BY <1>1, AlwaysWhole, PTL

-----------------------------------------------------------------------------
SessionIs(t) == issued[t].session

\* A token that an operation has received and not stored is current, unless
\* something has interfered with its session; nobody else has it.
Unshared(o) ==
  op[o].phase \in Receiving =>
    /\ SessionIs(op[o].received) \in hurt \/ op[o].received \in current[SessionIs(op[o].received)]
    /\ setting.refresh # op[o].received
    /\ \A p \in Op : op[p].presented # op[o].received
    /\ \A p \in Op \ {o} : op[p].phase \in Receiving => op[p].received # op[o].received

AllUnshared == \A o \in Op : Unshared(o)

\* The token t is current, or an operation has exchanged it and is about to
\* store its successor, or something has interfered with its session.
Carried(t) ==
  \/ SessionIs(t) \in hurt \/ t \in current[SessionIs(t)]
  \/ \E o \in Op : op[o].phase \in Rotated /\ op[o].presented = t

StoredIsCarried == ~torn /\ setting.refresh # Empty => Carried(setting.refresh)

TokenInv == AllUnshared /\ StoredIsCarried

LEMMA TokenInit ==
  ASSUME Init
  PROVE  TokenInv
BY DEF Init, TokenInv, AllUnshared, Unshared, StoredIsCarried, Idle, Receiving, Rotated

LEMMA Held ==
  ASSUME BaseInv, MaxToken \in Nat
  PROVE  /\ \A o \in Op : op[o].phase \in Receiving => op[o].received \in used
         /\ \A o \in Op : op[o].presented \in used \union {Empty}
         /\ setting.refresh \in used \union {Empty}
         /\ \A t \in used : SessionIs(t) \in used /\ SessionIs(t) \in Token /\ t \in Token
         /\ Empty \notin used
BY TokenFacts DEF BaseInv, TypeOK, TokensOK, OpOK, SettingOK, Known2, SessionIs

\* The server has no part in the step, or has ended sessions.
LEMMA UnsharedKeeps ==
  ASSUME BaseInv, MaxToken \in Nat, AllUnshared, NEW o \in Op,
         NEW q, op' = [op EXCEPT ![o] = q],
         issued' = issued, hurt \subseteq hurt',
         \A s \in Token : current'[s] = current[s] \/ s \in hurt',
         q.phase \in Receiving => op[o].phase \in Receiving /\ q.received = op[o].received,
         q.presented \in {op[o].presented, setting.refresh, Empty},
         \/ setting'.refresh \in {setting.refresh, Empty}
         \/ /\ op[o].phase \in Receiving /\ q.phase \notin Receiving
            /\ setting'.refresh = op[o].received
  PROVE  AllUnshared'
<1>1. \A p \in Op : op'[p] = IF p = o THEN q ELSE op[p]
  BY DEF BaseInv, TypeOK
<1> SUFFICES ASSUME NEW p \in Op, op'[p].phase \in Receiving
             PROVE  Unshared(p)'
  BY DEF AllUnshared, Unshared
<1>2. op[p].phase \in Receiving /\ op'[p].received = op[p].received /\ Unshared(p)
  BY <1>1 DEF AllUnshared
<1>3. PICK t : t = op[p].received
  OBVIOUS
<1>4. t \in used /\ SessionIs(t) \in Token /\ t # Empty
  BY <1>2, <1>3, Held
<1>5. SessionIs(t)' = SessionIs(t)
  BY DEF SessionIs
<1>6. SessionIs(t)' \in hurt' \/ t \in current'[SessionIs(t)']
  BY <1>2, <1>3, <1>4, <1>5 DEF Unshared
<1>7. setting'.refresh # t
  BY <1>1, <1>2, <1>3, <1>4 DEF Unshared
<1>8. \A r \in Op : op'[r].presented # t
  BY <1>1, <1>2, <1>3, <1>4 DEF Unshared
<1>9. \A r \in Op \ {p} : op'[r].phase \in Receiving => op'[r].received # t
  BY <1>1, <1>2, <1>3 DEF Unshared
<1> QED BY <1>2, <1>3, <1>6, <1>7, <1>8, <1>9 DEF Unshared

\* The same for a token that is stored: what carried it goes on carrying it.
LEMMA CarriedKeeps ==
  ASSUME BaseInv, MaxToken \in Nat, NEW o \in Op,
         NEW q, op' = [op EXCEPT ![o] = q],
         issued' = issued, hurt \subseteq hurt',
         \A s \in Token : current'[s] = current[s] \/ s \in hurt',
         NEW t \in used, Carried(t),
         op[o].phase \in Rotated =>
           \/ q.phase \in Rotated /\ q.presented = op[o].presented
           \/ SessionOf(o) \in hurt'
  PROVE  Carried(t)'
<1>1. \A p \in Op : op'[p] = IF p = o THEN q ELSE op[p]
  BY DEF BaseInv, TypeOK
<1>2. SessionIs(t)' = SessionIs(t) /\ SessionIs(t) \in Token
  BY Held DEF SessionIs
<1>3. CASE SessionIs(t) \in hurt \/ t \in current[SessionIs(t)]
  BY <1>2, <1>3 DEF Carried
<1>4. ASSUME NEW p \in Op, op[p].phase \in Rotated, op[p].presented = t
      PROVE  Carried(t)'
  <2>1. CASE p = o /\ SessionOf(o) \in hurt'
    BY <1>2, <1>4, <2>1 DEF Carried, SessionOf, SessionIs
  <2>2. CASE op'[p].phase \in Rotated /\ op'[p].presented = t
    BY <2>2 DEF Carried
  <2> QED BY <1>1, <1>4, <2>1, <2>2
<1> QED BY <1>3, <1>4 DEF Carried

\* Both, for a step that leaves the refresh token that is stored.
LEMMA TokenKeeps ==
  ASSUME BaseInv, MaxToken \in Nat, TokenInv, NEW o \in Op,
         NEW q, op' = [op EXCEPT ![o] = q],
         issued' = issued, hurt \subseteq hurt',
         \A s \in Token : current'[s] = current[s] \/ s \in hurt',
         q.phase \in Receiving => op[o].phase \in Receiving /\ q.received = op[o].received,
         q.presented \in {op[o].presented, setting.refresh, Empty},
         setting'.refresh = setting.refresh,
         ~torn' => ~torn,
         op[o].phase \in Rotated =>
           \/ q.phase \in Rotated /\ q.presented = op[o].presented
           \/ SessionOf(o) \in hurt'
           \/ torn'
  PROVE  TokenInv'
<1>1. AllUnshared'
  BY UnsharedKeeps DEF TokenInv
<1>2. ASSUME ~torn', setting.refresh # Empty
      PROVE  Carried(setting.refresh)'
  <2>1. PICK t \in used : t = setting.refresh
    BY <1>2, Held
  <2>2. Carried(t)
    BY <1>2, <2>1 DEF TokenInv, StoredIsCarried
  <2>3. Carried(t)'
    BY <1>2, <2>2, CarriedKeeps
  <2>4. setting'.refresh = t
    BY <2>1
  <2> QED BY <2>1, <2>3, <2>4
<1>3. StoredIsCarried'
  <2>1. PICK t : t = setting.refresh
    OBVIOUS
  <2>2. ~torn' /\ t # Empty => Carried(t)'
    BY <1>2, <2>1
  <2> QED BY <2>1, <2>2 DEF StoredIsCarried
<1> QED BY <1>1, <1>3 DEF TokenInv

\* An operation stores the refresh token it has received.
LEMMA TokenStored ==
  ASSUME BaseInv, MaxToken \in Nat, TokenInv, NEW o \in Op, op[o].phase \in Receiving,
         NEW q, op' = [op EXCEPT ![o] = q], q.phase \notin Receiving,
         UNCHANGED <<server, hurt>>,
         q.presented \in {op[o].presented, Empty},
         setting'.refresh = op[o].received
  PROVE  TokenInv'
<1>1. AllUnshared'
  BY UnsharedKeeps DEF TokenInv, server
<1>2. PICK t : t = op[o].received
  OBVIOUS
<1>3. SessionIs(t) \in hurt \/ t \in current[SessionIs(t)]
  BY <1>2 DEF TokenInv, AllUnshared, Unshared
<1>4. Carried(t)'
  BY <1>3 DEF Carried, SessionIs, server
<1> QED BY <1>1, <1>2, <1>4 DEF TokenInv, StoredIsCarried

\* An operation gets a new pair from the server.
LEMMA TokenServed ==
  ASSUME BaseInv, MaxToken \in Nat, TokenInv, NEW o \in Op,
         NEW f \in Token, f \notin used,
         NEW s \in used \union {f}, issued'[f].session = s,
         \A t \in used : issued'[t] = issued[t],
         current' = [current EXCEPT ![s] = {f}],
         \A t \in current[s] : t = op[o].presented,
         UNCHANGED <<setting, torn, hurt>>,
         NEW q, op' = [op EXCEPT ![o] = q],
         q.received = f, q.presented = op[o].presented,
         op[o].phase \notin Receiving,
         q.phase = "rotated" \/ current[s] = {}
  PROVE  TokenInv'
<1>1. \A p \in Op : op'[p] = IF p = o THEN q ELSE op[p]
  BY DEF BaseInv, TypeOK
<1>2. \A t \in used : SessionIs(t)' = SessionIs(t)
  BY DEF SessionIs
<1>3. SessionIs(f)' = s /\ s \in Token
  BY DEF SessionIs, BaseInv, TypeOK
<1>4. \A r \in Token : current'[r] = IF r = s THEN {f} ELSE current[r]
  BY <1>3 DEF BaseInv, TypeOK
<1>5. Unshared(o)'
  <2>1. f \in current'[SessionIs(f)']
    BY <1>3, <1>4
  <2>2. setting'.refresh # f
    BY Held, TokenFacts
  <2>3. \A p \in Op : op'[p].presented # f
    BY <1>1, Held, TokenFacts
  <2>4. \A p \in Op \ {o} : op'[p].phase \in Receiving => op'[p].received # f
    BY <1>1, Held
  <2> QED BY <1>1, <2>1, <2>2, <2>3, <2>4 DEF Unshared
<1>6. ASSUME NEW p \in Op, p # o, op'[p].phase \in Receiving
      PROVE  Unshared(p)'
  <2>1. PICK t : t = op[p].received
    OBVIOUS
  <2>2. /\ op'[p] = op[p] /\ t \in used /\ SessionIs(t) \in Token /\ Unshared(p)
        /\ op[p].phase \in Receiving
    BY <1>1, <1>6, <2>1, Held DEF TokenInv, AllUnshared
  <2>3. \A r \in Op : op[r].presented # t
    BY <2>1, <2>2 DEF Unshared
  <2>4. SessionIs(t)' \in hurt' \/ t \in current'[SessionIs(t)']
    <3>1. SessionIs(t) = s => t \notin current[s]
      BY <2>3
    <3> QED BY <1>2, <1>4, <2>1, <2>2, <3>1 DEF Unshared
  <2>5. setting'.refresh # t
    BY <2>1, <2>2 DEF Unshared
  <2>6. \A r \in Op : op'[r].presented # t
    BY <1>1, <2>3
  <2>7. \A r \in Op \ {p} : op'[r].phase \in Receiving => op'[r].received # t
    BY <1>1, <2>1, <2>2 DEF Unshared
  <2> QED BY <2>1, <2>2, <2>4, <2>5, <2>6, <2>7 DEF Unshared
<1>7. AllUnshared'
  BY <1>5, <1>6 DEF AllUnshared, Unshared
<1>8. ASSUME NEW t \in used, Carried(t)
      PROVE  Carried(t)'
  <2>1. CASE SessionIs(t) \in hurt
    BY <1>2, <2>1 DEF Carried
  <2>2. CASE t \in current[SessionIs(t)] /\ SessionIs(t) # s
    BY <1>2, <1>4, <2>2, Held DEF Carried
  <2>3. CASE t \in current[SessionIs(t)] /\ SessionIs(t) = s
    BY <1>1, <2>3 DEF Carried, Rotated
  <2>4. ASSUME NEW p \in Op, op[p].phase \in Rotated, op[p].presented = t
        PROVE  Carried(t)'
    BY <1>1, <2>4 DEF Carried, Rotated, Receiving
  <2> QED BY <1>8, <2>1, <2>2, <2>3, <2>4 DEF Carried
<1>9. StoredIsCarried'
  <2>1. PICK t : t = setting.refresh
    OBVIOUS
  <2>2. ~torn' /\ t # Empty => t \in used /\ Carried(t)
    BY <2>1, Held DEF TokenInv, StoredIsCarried
  <2>3. ~torn' /\ t # Empty => Carried(t)'
    BY <1>8, <2>2
  <2> QED BY <2>1, <2>3 DEF StoredIsCarried
<1> QED BY <1>7, <1>9 DEF TokenInv

\* A handler that goes on, or ends, and stores no refresh token.
LEMMA TokenGoto ==
  ASSUME BaseInv, MaxToken \in Nat, TokenInv, NEW o \in Op, NEW phase,
         op' = [op EXCEPT ![o] = [op[o] EXCEPT !.phase = phase]],
         UNCHANGED <<server, hurt>>, setting'.refresh = setting.refresh, ~torn' => ~torn,
         phase \in Receiving => op[o].phase \in Receiving,
         op[o].phase \in Rotated => phase \in Rotated
  PROVE  TokenInv'
<1>1. PICK q : q = [op[o] EXCEPT !.phase = phase]
  OBVIOUS
<1>2. q.phase = phase /\ q.received = op[o].received /\ q.presented = op[o].presented
  BY <1>1 DEF BaseInv, TypeOK, OpState
<1> QED BY <1>1, <1>2, TokenKeeps DEF server

LEMMA TokenEnds ==
  ASSUME BaseInv, MaxToken \in Nat, TokenInv, NEW o \in Op, Ends(o),
         issued' = issued, hurt \subseteq hurt',
         \A s \in Token : current'[s] = current[s] \/ s \in hurt',
         setting'.refresh = setting.refresh, ~torn' => ~torn,
         op[o].phase \in Rotated => SessionOf(o) \in hurt' \/ torn'
  PROVE  TokenInv'
<1>1. PICK q : q = Idle
  OBVIOUS
<1>2. q.phase \notin Receiving /\ q.presented = Empty
  BY <1>1, Phases DEF Idle
<1> QED BY <1>1, <1>2, TokenKeeps DEF Ends, Becomes

LEMMA TokenFails ==
  ASSUME BaseInv, MaxToken \in Nat, TokenInv, NEW o \in Op, SaveFails(o), UNCHANGED <<server, hurt>>
  PROVE  TokenInv'
<1>1. Ends(o) /\ torn' /\ setting' = setting
  BY DEF SaveFails
<1> QED BY <1>1, TokenEnds DEF server

\* A handler that begins to write what it has received.
LEMMA TokenBegins ==
  ASSUME BaseInv, MaxToken \in Nat, TokenInv, NEW o \in Op, NEW phase,
         BeginsToWrite(o, [op[o] EXCEPT !.phase = phase]), UNCHANGED <<server, setting, hurt>>,
         phase \in Receiving => op[o].phase \in Receiving,
         op[o].phase \in Rotated => phase \in Rotated
  PROVE  TokenInv'
<1>1. op' = [op EXCEPT ![o] = [op[o] EXCEPT !.phase = phase]] /\ (~torn' => ~torn)
  BY DEF BeginsToWrite
<1> QED BY <1>1, TokenGoto

\* Only the server acts, and ends sessions.
LEMMA TokenElsewhere ==
  ASSUME BaseInv, MaxToken \in Nat, TokenInv, UNCHANGED <<issued, setting, op, torn>>,
         hurt \subseteq hurt', \A s \in Token : current'[s] = current[s] \/ s \in hurt'
  PROVE  TokenInv'
<1>1. \A t \in used : SessionIs(t)' = SessionIs(t) /\ SessionIs(t) \in Token
  BY Held DEF SessionIs
<1>2. ASSUME NEW o \in Op, op'[o].phase \in Receiving
      PROVE  Unshared(o)'
  <2>1. PICK t \in used : t = op[o].received
    BY <1>2, Held
  <2>2. Unshared(o) /\ op[o].phase \in Receiving
    BY <1>2 DEF TokenInv, AllUnshared
  <2>3. SessionIs(t)' \in hurt' \/ t \in current'[SessionIs(t)']
    BY <1>1, <2>1, <2>2 DEF Unshared
  <2> QED BY <2>1, <2>2, <2>3 DEF Unshared
<1>3. ASSUME NEW t \in used, Carried(t)
      PROVE  Carried(t)'
  BY <1>1, <1>3 DEF Carried
<1>4. StoredIsCarried'
  <2>1. PICK t : t = setting.refresh
    OBVIOUS
  <2>2. ~torn' /\ t # Empty => t \in used /\ Carried(t)
    BY <2>1, Held DEF TokenInv, StoredIsCarried
  <2>3. ~torn' /\ t # Empty => Carried(t)'
    BY <1>3, <2>2
  <2> QED BY <2>1, <2>3 DEF StoredIsCarried
<1> QED BY <1>2, <1>4 DEF TokenInv, AllUnshared, Unshared

LEMMA TokenConnects ==
  ASSUME BaseInv, MaxToken \in Nat, TokenInv, NEW o \in Op
  PROVE  \/ \E i \in Instance, a \in Account : Connect(o, i, a)
         \/ LoginServed(o) \/ LoginAnswered(o) \/ LoginFails(o)
         \/ SaveUrl(o) \/ SaveEmail(o) \/ SaveAccess(o) \/ SaveRefresh(o)
         => TokenInv'
<1> USE Phases
<1>r. op[o] \in OpState
  BY DEF BaseInv, TypeOK
<1>1. ASSUME NEW i \in Instance, NEW a \in Account, Connect(o, i, a)
      PROVE  TokenInv'
  <2>1. PICK q : q = [Idle EXCEPT !.phase = "login", !.copy = i, !.account = a]
    OBVIOUS
  <2>2. q.presented = Empty /\ q.phase \notin Receiving /\ op[o].phase \notin Rotated
    BY <1>1, <2>1 DEF Idle, Connect, MayStart
  <2>3. op' = [op EXCEPT ![o] = q] /\ UNCHANGED <<current, issued, setting, torn, hurt>>
    BY <1>1, <2>1 DEF Connect, Becomes, server
  <2> QED BY <2>2, <2>3, TokenKeeps
<1>2. ASSUME LoginServed(o) PROVE TokenInv'
  <2>1. PICK f \in Token : f = Fresh
    BY <1>2 DEF LoginServed
  <2>2. PICK q : q = [op[o] EXCEPT !.phase = "opened", !.received = f]
    OBVIOUS
  <2>3. /\ f \notin used /\ used' = used \union {f} /\ op[o].phase = "login"
        /\ current' = [current EXCEPT ![f] = {f}] /\ op' = [op EXCEPT ![o] = q]
        /\ UNCHANGED <<setting, torn, hurt>>
    BY <1>2, <2>1, <2>2 DEF LoginServed, Server!Begin, Becomes
  <2>4. issued'[f].session = f /\ \A t \in used : issued'[t] = issued[t]
    BY <1>2, <2>1, <2>3 DEF LoginServed, Issue, BaseInv, TypeOK
  <2>5. current[f] = {}
    BY <2>3 DEF BaseInv, TypeOK, TokensOK
  <2>6. q.received = f /\ q.presented = op[o].presented /\ op[o].phase \notin Receiving
    BY <1>r, <2>2, <2>3 DEF OpState
  <2>7. f \in used \union {f} /\ \A t \in current[f] : t = op[o].presented
    BY <2>5
  <2> QED BY <2>3, <2>4, <2>5, <2>6, <2>7, TokenServed
<1>3. ASSUME LoginAnswered(o) PROVE TokenInv'
  BY <1>3, TokenBegins DEF LoginAnswered, At
<1>4. ASSUME LoginFails(o) PROVE TokenInv'
  BY <1>4, TokenEnds DEF LoginFails, At, server
<1>5. ASSUME SaveUrl(o) PROVE TokenInv'
  <2>1. op[o].phase = "saveUrl" /\ UNCHANGED <<server, torn, hurt>>
    BY <1>5 DEF SaveUrl, At
  <2>2. CASE Saves("url", op[o].account) /\ Goto(o, "saveEmail")
    BY <2>1, <2>2, SavesOne, TokenGoto DEF Goto, Becomes
  <2>3. CASE Ends(o) /\ UNCHANGED setting
    BY <2>1, <2>3, TokenEnds DEF server
  <2> QED BY <1>5, <2>2, <2>3 DEF SaveUrl
<1>6. ASSUME SaveEmail(o) PROVE TokenInv'
  <2>1. op[o].phase = "saveEmail" /\ UNCHANGED <<server, hurt>>
    BY <1>6 DEF SaveEmail, At
  <2>2. CASE Saves("email", op[o].account) /\ Goto(o, "saveAccess") /\ UNCHANGED torn
    BY <2>1, <2>2, SavesOne, TokenGoto DEF Goto, Becomes
  <2> QED BY <1>6, <2>1, <2>2, TokenFails DEF SaveEmail
<1>7. ASSUME SaveAccess(o) PROVE TokenInv'
  <2>1. op[o].phase = "saveAccess" /\ UNCHANGED <<server, hurt>>
    BY <1>7 DEF SaveAccess, At
  <2>2. CASE Saves("access", op[o].received) /\ Goto(o, "saveRefresh") /\ UNCHANGED torn
    BY <2>1, <2>2, SavesOne, TokenGoto DEF Goto, Becomes
  <2> QED BY <1>7, <2>1, <2>2, TokenFails DEF SaveAccess
<1>8. ASSUME SaveRefresh(o) PROVE TokenInv'
  <2>1. op[o].phase = "saveRefresh" /\ UNCHANGED <<server, hurt>>
    BY <1>8 DEF SaveRefresh, At
  <2>2. CASE Saves("refresh", op[o].received) /\ Ends(o)
    <3>1. PICK q : q = Idle
      OBVIOUS
    <3>2. q.phase \notin Receiving /\ q.presented = Empty
      BY <3>1 DEF Idle
    <3>3. op' = [op EXCEPT ![o] = q] /\ setting'.refresh = op[o].received
      BY <2>2, <3>1, SavesOne DEF Ends, Becomes
    <3> QED BY <2>1, <3>2, <3>3, TokenStored
  <2> QED BY <1>8, <2>1, <2>2, TokenFails DEF SaveRefresh
<1> QED BY <1>1, <1>2, <1>3, <1>4, <1>5, <1>6, <1>7, <1>8

LEMMA TokenSyncs ==
  ASSUME BaseInv, MaxToken \in Nat, TokenInv, NEW o \in Op
  PROVE  \/ (\E i \in Instance : Sync(o, i)) \/ ReadAccess(o) \/ ReadRefresh(o) \/ Post(o)
         \/ RefreshRotates(o) \/ RefreshRefused(o) \/ RefreshAnswered(o) \/ RefreshFails(o)
         \/ StoreAccess(o) \/ StoreRefresh(o) \/ Repost(o)
         => TokenInv'
<1> USE Phases
<1>r. op[o] \in OpState
  BY DEF BaseInv, TypeOK
<1>1. ASSUME NEW i \in Instance, Sync(o, i)
      PROVE  TokenInv'
  <2>1. PICK q : q = [Idle EXCEPT !.phase = "readAccess", !.copy = i, !.account = setting.url]
    OBVIOUS
  <2>2. q.presented = Empty /\ q.phase \notin Receiving /\ op[o].phase \notin Rotated
    BY <1>1, <2>1 DEF Idle, Sync, MayStart
  <2>3. op' = [op EXCEPT ![o] = q] /\ UNCHANGED <<current, issued, setting, torn, hurt>>
    BY <1>1, <2>1 DEF Sync, Becomes, server
  <2> QED BY <2>2, <2>3, TokenKeeps
<1>a. ASSUME ReadAccess(o) PROVE TokenInv'
  <2>1. op[o].phase = "readAccess" /\ UNCHANGED <<server, setting, torn, hurt>>
    BY <1>a DEF ReadAccess, At
  <2>2. CASE Goto(o, "readRefresh")
    <3>1. op' = [op EXCEPT ![o] = [op[o] EXCEPT !.phase = "readRefresh"]]
      BY <2>2 DEF Goto, Becomes
    <3>2. "readRefresh" \notin Receiving /\ op[o].phase \notin Rotated
      BY <2>1
    <3> QED BY <2>1, <3>1, <3>2, TokenGoto
  <2>3. CASE Ends(o)
    BY <2>1, <2>3, TokenEnds DEF server
  <2> QED BY <1>a, <2>2, <2>3 DEF ReadAccess
<1>b. ASSUME ReadRefresh(o) PROVE TokenInv'
  <2>1. op[o].phase = "readRefresh" /\ UNCHANGED <<server, setting, torn, hurt>>
    BY <1>b DEF ReadRefresh, At
  <2>2. PICK q : q = [op[o] EXCEPT !.phase = "post", !.presented = setting.refresh]
    OBVIOUS
  <2>3. CASE Becomes(o, q)
    <3>1. q.presented = setting.refresh /\ q.phase \notin Receiving /\ op[o].phase \notin Rotated
      BY <1>r, <2>1, <2>2 DEF OpState
    <3> QED BY <2>1, <2>3, <3>1, TokenKeeps DEF Becomes, server
  <2>4. CASE Ends(o)
    BY <2>1, <2>4, TokenEnds DEF server
  <2> QED BY <1>b, <2>2, <2>3, <2>4 DEF ReadRefresh
<1>2. ASSUME Post(o) PROVE TokenInv'
  <2>1. op[o].phase = "post" /\ UNCHANGED <<server, setting, torn, hurt>>
    BY <1>2 DEF Post, At
  <2>2. CASE Goto(o, "refresh")
    <3>1. op' = [op EXCEPT ![o] = [op[o] EXCEPT !.phase = "refresh"]]
      BY <2>2 DEF Goto, Becomes
    <3>2. "refresh" \notin Receiving /\ op[o].phase \notin Rotated
      BY <2>1
    <3> QED BY <2>1, <3>1, <3>2, TokenGoto
  <2>3. CASE Ends(o)
    BY <2>1, <2>3, TokenEnds DEF server
  <2> QED BY <1>2, <2>2, <2>3 DEF Post
<1>3. ASSUME RefreshRotates(o) PROVE TokenInv'
  <2>1. PICK f \in Token : f = Fresh
    BY <1>3 DEF RefreshRotates
  <2>2. PICK s, r : s = SessionOf(o) /\ r = op[o].presented
    OBVIOUS
  <2>3. PICK q : q = [op[o] EXCEPT !.phase = "rotated", !.received = f]
    OBVIOUS
  <2>4. /\ f \notin used /\ op[o].phase = "refresh" /\ r \in current[s]
        /\ current' = [current EXCEPT ![s] = {f}] /\ op' = [op EXCEPT ![o] = q]
        /\ UNCHANGED <<setting, torn, hurt>>
    BY <1>3, <2>1, <2>2, <2>3 DEF RefreshRotates, Server!Renew, IsCurrent, Becomes
  <2>5. s \in Token
    BY <2>2, <2>4, SessionOfIsToken
  <2>6. s \in used /\ \A t \in current[s] : t = r
    BY <2>4, <2>5 DEF BaseInv, TokensOK
  <2>7. issued'[f].session = s /\ \A t \in used : issued'[t] = issued[t]
    BY <1>3, <2>1, <2>2, <2>4 DEF RefreshRotates, Issue, BaseInv, TypeOK
  <2>8. q.phase = "rotated" /\ q.received = f /\ q.presented = op[o].presented
    BY <1>r, <2>3 DEF OpState
  <2> QED BY <2>2, <2>3, <2>4, <2>6, <2>7, <2>8, TokenServed
<1>4. ASSUME RefreshRefused(o) PROVE TokenInv'
  <2>1. \A s \in Token : current'[s] = current[s] \/ s \in hurt'
    BY <1>4, EndShrinks DEF RefreshRefused
  <2> QED BY <1>4, <2>1, TokenEnds DEF RefreshRefused
<1>5. ASSUME RefreshAnswered(o) PROVE TokenInv'
  BY <1>5, TokenBegins DEF RefreshAnswered, At
<1>6. ASSUME RefreshFails(o) PROVE TokenInv'
  <2>1. hurt \subseteq hurt' /\ (op[o].phase \in Rotated => SessionOf(o) \in hurt')
    BY <1>6 DEF RefreshFails, At
  <2> QED BY <1>6, <2>1, TokenEnds DEF RefreshFails, server
<1>7. ASSUME StoreAccess(o) PROVE TokenInv'
  <2>1. op[o].phase = "storeAccess" /\ UNCHANGED <<server, hurt>>
    BY <1>7 DEF StoreAccess, At
  <2>2. CASE /\ Saves("access", op[o].received) /\ Goto(o, "storeRefresh")
             /\ torn' = (torn \/ Overtaken(o))
    <3>1. ~torn' => ~torn
      BY <2>2
    <3>2. setting'.refresh = setting.refresh
      BY <2>2, SavesOne
    <3> QED BY <2>1, <2>2, <3>1, <3>2, TokenGoto DEF Goto, Becomes
  <2> QED BY <1>7, <2>1, <2>2, TokenFails DEF StoreAccess
<1>8. ASSUME StoreRefresh(o) PROVE TokenInv'
  <2>1. op[o].phase = "storeRefresh" /\ UNCHANGED <<server, hurt>>
    BY <1>8 DEF StoreRefresh, At
  <2>2. CASE Saves("refresh", op[o].received) /\ Goto(o, "repost")
    <3>1. PICK q : q = [op[o] EXCEPT !.phase = "repost"]
      OBVIOUS
    <3>2. q.phase \notin Receiving /\ q.presented = op[o].presented
      BY <1>r, <3>1 DEF OpState
    <3>3. op' = [op EXCEPT ![o] = q] /\ setting'.refresh = op[o].received
      BY <2>2, <3>1, SavesOne DEF Goto, Becomes
    <3> QED BY <2>1, <3>2, <3>3, TokenStored
  <2> QED BY <1>8, <2>1, <2>2, TokenFails DEF StoreRefresh
<1>9. ASSUME Repost(o) PROVE TokenInv'
  BY <1>9, TokenEnds DEF Repost, At, server
<1> QED BY <1>1, <1>a, <1>b, <1>2, <1>3, <1>4, <1>5, <1>6, <1>7, <1>8, <1>9

LEMMA TokenDisconnects ==
  ASSUME BaseInv, MaxToken \in Nat, TokenInv, NEW o \in Op
  PROVE  \/ \E i \in Instance : Disconnect(o, i)
         \/ ClearEmail(o) \/ ClearAccess(o) \/ ClearRefresh(o)
         => TokenInv'
<1> USE Phases
<1>1. ASSUME NEW i \in Instance, Disconnect(o, i)
      PROVE  TokenInv'
  <2>1. PICK q : q = [Idle EXCEPT !.phase = "clearEmail", !.copy = i]
    OBVIOUS
  <2>2. q.presented = Empty /\ q.phase \notin Receiving /\ op[o].phase \notin Rotated
    BY <1>1, <2>1 DEF Idle, Disconnect, MayStart
  <2>3. op' = [op EXCEPT ![o] = q] /\ (~torn' => ~torn)
    BY <1>1, <2>1 DEF Disconnect, BeginsToWrite
  <2>4. setting'.refresh = setting.refresh /\ UNCHANGED <<current, issued, hurt>>
    BY <1>1, SavesOne DEF Disconnect, server
  <2> QED BY <2>2, <2>3, <2>4, TokenKeeps
<1>2. ASSUME ClearEmail(o) PROVE TokenInv'
  <2>1. op[o].phase = "clearEmail" /\ UNCHANGED <<server, hurt>>
    BY <1>2 DEF ClearEmail, At
  <2>2. CASE Saves("email", None) /\ Goto(o, "clearAccess") /\ UNCHANGED torn
    <3>1. op' = [op EXCEPT ![o] = [op[o] EXCEPT !.phase = "clearAccess"]]
      BY <2>2 DEF Goto, Becomes
    <3>2. "clearAccess" \notin Receiving /\ op[o].phase \notin Rotated
      BY <2>1
    <3>3. setting'.refresh = setting.refresh /\ (~torn' => ~torn)
      BY <2>2, SavesOne
    <3> QED BY <2>1, <3>1, <3>2, <3>3, TokenGoto
  <2> QED BY <1>2, <2>1, <2>2, TokenFails DEF ClearEmail
<1>3. ASSUME ClearAccess(o) PROVE TokenInv'
  <2>1. op[o].phase = "clearAccess" /\ UNCHANGED <<server, hurt>>
    BY <1>3 DEF ClearAccess, At
  <2>2. CASE Saves("access", Empty) /\ Goto(o, "clearRefresh") /\ UNCHANGED torn
    <3>1. op' = [op EXCEPT ![o] = [op[o] EXCEPT !.phase = "clearRefresh"]]
      BY <2>2 DEF Goto, Becomes
    <3>2. "clearRefresh" \notin Receiving /\ op[o].phase \notin Rotated
      BY <2>1
    <3>3. setting'.refresh = setting.refresh /\ (~torn' => ~torn)
      BY <2>2, SavesOne
    <3> QED BY <2>1, <3>1, <3>2, <3>3, TokenGoto
  <2> QED BY <1>3, <2>1, <2>2, TokenFails DEF ClearAccess
<1>4. ASSUME ClearRefresh(o) PROVE TokenInv'
  <2>1. UNCHANGED <<server, hurt>>
    BY <1>4 DEF ClearRefresh
  <2>2. CASE Saves("refresh", Empty) /\ Ends(o)
    <3>1. PICK q : q = Idle
      OBVIOUS
    <3>2. q.phase \notin Receiving /\ q.presented = Empty
      BY <3>1 DEF Idle
    <3>3. op' = [op EXCEPT ![o] = q] /\ setting'.refresh = Empty
      BY <2>2, <3>1, SavesOne DEF Ends, Becomes
    <3>4. AllUnshared'
      BY <2>1, <3>2, <3>3, UnsharedKeeps DEF server, TokenInv
    <3> QED BY <3>3, <3>4 DEF TokenInv, StoredIsCarried
  <2> QED BY <1>4, <2>1, <2>2, TokenFails DEF ClearRefresh
<1> QED BY <1>1, <1>2, <1>3, <1>4

\* A copy of the app is killed while an answer may be under way.
LEMMA TokenKilled ==
  ASSUME BaseInv, MaxToken \in Nat, TokenInv, NEW i \in Instance, Killed(i)
  PROVE  TokenInv'
<1> USE Phases
<1>1. \A o \in Op : op'[o] = IF o \in Of(i) THEN Idle ELSE op[o]
  BY DEF Killed
<1>2. UNCHANGED <<current, issued, setting>> /\ hurt \subseteq hurt'
  BY DEF Killed, server
<1>3. ASSUME NEW o \in Op, op'[o].phase \in Receiving
      PROVE  Unshared(o)'
  <2>1. op[o].phase \in Receiving /\ op'[o] = op[o] /\ Unshared(o)
    BY <1>1, <1>3 DEF Idle, TokenInv, AllUnshared
  <2>2. PICK t \in used : t = op[o].received
    BY <2>1, Held
  <2>3. t # Empty /\ \A p \in Op : op[p].presented # t
    BY <2>1, <2>2, Held DEF Unshared
  <2>4. \A p \in Op : op'[p].presented # t
    BY <1>1, <2>3 DEF Idle
  <2>5. \A p \in Op \ {o} : op'[p].phase \in Receiving => op'[p].received # t
    BY <1>1, <2>1, <2>2 DEF Idle, Unshared
  <2>6. setting'.refresh # t /\ (SessionIs(t)' \in hurt' \/ t \in current'[SessionIs(t)'])
    BY <1>2, <2>1, <2>2 DEF Unshared, SessionIs
  <2> QED BY <2>1, <2>2, <2>4, <2>5, <2>6 DEF Unshared
<1>4. ASSUME ~torn', NEW t \in used, Carried(t)
      PROVE  Carried(t)'
  <2>1. SessionIs(t)' = SessionIs(t)
    BY <1>2 DEF SessionIs
  <2>2. CASE SessionIs(t) \in hurt \/ t \in current[SessionIs(t)]
    BY <1>2, <2>1, <2>2 DEF Carried
  <2>3. ASSUME NEW p \in Op, op[p].phase \in Rotated, op[p].presented = t
        PROVE  Carried(t)'
    <3>1. CASE p \in Of(i)
      <4>1. op[p].phase = "rotated"
        BY <1>4, <2>3, <3>1 DEF Killed, Writing
      <4>2. SessionIs(t) \in hurt'
        BY <2>3, <3>1, <4>1 DEF Killed, SessionOf, SessionIs
      <4> QED BY <2>1, <4>2 DEF Carried
    <3>2. CASE p \notin Of(i)
      BY <1>1, <2>3, <3>2 DEF Carried
    <3> QED BY <3>1, <3>2
  <2> QED BY <1>4, <2>2, <2>3 DEF Carried
<1>5. StoredIsCarried'
  <2>1. PICK t : t = setting.refresh
    OBVIOUS
  <2>2. ~torn' => ~torn
    BY DEF Killed
  <2>3. ~torn' /\ t # Empty => t \in used /\ Carried(t)
    BY <2>1, <2>2, Held DEF TokenInv, StoredIsCarried
  <2>4. ~torn' /\ t # Empty => Carried(t)'
    BY <1>4, <2>3
  <2>5. setting'.refresh = t
    BY <1>2, <2>1
  <2> QED BY <2>4, <2>5 DEF StoredIsCarried
<1> QED BY <1>3, <1>5 DEF TokenInv, AllUnshared, Unshared

LEMMA TokenNext ==
  ASSUME BaseInv, MaxToken \in Nat, TokenInv, [Next]_vars
  PROVE  TokenInv'
<1>1. ASSUME NEW o \in Op, Continue(o)
      PROVE  TokenInv'
  BY <1>1, TokenConnects, TokenSyncs, TokenDisconnects DEF Continue
<1>2. ASSUME NEW o \in Op, NEW i \in Instance,
             Sync(o, i) \/ Disconnect(o, i) \/ \E a \in Account : Connect(o, i, a)
      PROVE  TokenInv'
  BY <1>2, TokenConnects, TokenSyncs, TokenDisconnects
<1>3. ASSUME NEW s \in Token, SessionEnds(s)
      PROVE  TokenInv'
  <2>1. \A r \in Token : current'[r] = current[r] \/ r \in hurt'
    BY <1>3, EndShrinks DEF SessionEnds
  <2> QED BY <1>3, <2>1, TokenElsewhere DEF SessionEnds
<1>4. CASE UNCHANGED vars
  BY <1>4, TokenElsewhere DEF vars, server
<1> QED BY <1>1, <1>2, <1>3, <1>4, TokenKilled DEF Next

LEMMA AlwaysToken ==
  ASSUME MaxToken \in Nat
  PROVE  Spec => []TokenInv
<1>1. BaseInv /\ TokenInv /\ [Next]_vars => TokenInv'
  BY TokenNext
<1> QED BY <1>1, TokenInit, AlwaysBase, PTL DEF Spec

(***************************************************************************)
(* refreshSession rotates the stored token on the server and stores the    *)
(* successor later.  Whenever no handler is at work on the settings, the   *)
(* stored token is the one its session can be renewed with, unless a       *)
(* refresh is under way, an answer was lost or the session was ended.      *)
(***************************************************************************)
THEOREM StoredIsCurrent ==
  ASSUME MaxToken \in Nat, None \notin Account
  PROVE  Spec => []StoredTokenIsCurrent
<1>1. WholeInv /\ TokenInv => StoredTokenIsCurrent
  <2> SUFFICES ASSUME WholeInv, TokenInv, Settled, ~torn, Connected
               PROVE  \/ SessionIs(setting.refresh) \in hurt
                      \/ setting.refresh \in current[SessionIs(setting.refresh)]
                      \/ \E o \in Op : /\ op[o].phase = "rotated"
                                       /\ op[o].presented = setting.refresh
    BY DEF StoredTokenIsCurrent, SessionIs
  <2>1. setting.refresh # Empty
    BY DEF WholeInv, SettingsAreWhole, IsWhole, Connected
  <2>2. Carried(setting.refresh)
    BY <2>1 DEF TokenInv, StoredIsCarried
  <2>3. \A o \in Op : op[o].phase \in Rotated => op[o].phase = "rotated"
    BY Phases DEF Settled, Writing
  <2> QED BY <2>2, <2>3 DEF Carried
<1> QED BY <1>1, AlwaysWhole, AlwaysToken, PTL

(***************************************************************************)
(* cloudSync presents the refresh token it read before its first fetch.    *)
(* The server ends the session over it only if another sync has presented  *)
(* the same token, or the settings have changed since.                     *)
(***************************************************************************)
THEOREM SyncsKeep ==
  ASSUME MaxToken \in Nat
  PROVE  Spec => SyncsKeepTheSession
<1>1. ASSUME BaseInv, TokenInv, NEW o \in Op, RefreshRefused(o), Known(o),
             SessionOf(o) \notin hurt, ~torn, ~Overtaken(o)
      PROVE  \E p \in Op \ {o} : /\ op[p].phase \in {"rotated", "storeAccess", "storeRefresh"}
                                 /\ op[p].presented = op[o].presented
  <2>1. op[o].phase = "refresh" /\ ~IsCurrent(o)
    BY <1>1 DEF RefreshRefused
  <2>2. setting.refresh = op[o].presented /\ setting.refresh # Empty
    BY <1>1, <2>1 DEF Overtaken, BaseInv, OpOK
  <2>3. Carried(setting.refresh)
    BY <1>1, <2>2 DEF TokenInv, StoredIsCarried
  <2>4. PICK p \in Op : op[p].phase \in Rotated /\ op[p].presented = op[o].presented
    BY <1>1, <2>1, <2>2, <2>3 DEF Carried, SessionOf, SessionIs, IsCurrent
  <2> QED BY <2>1, <2>4, Phases
<1>2. BaseInv /\ TokenInv =>
        \A o \in Op :
          RefreshRefused(o) /\ Known(o) /\ SessionOf(o) \notin hurt /\ ~torn
            => \/ Overtaken(o)
               \/ \E p \in Op \ {o} : op[p].phase \in {"rotated", "storeAccess", "storeRefresh"}
                                    /\ op[p].presented = op[o].presented
  BY <1>1
<1> QED BY <1>2, AlwaysBase, AlwaysToken, PTL DEF SyncsKeepTheSession

-----------------------------------------------------------------------------
(* LocalEvidence.                                                          *)

\* Both modules count with the same operator.
LEMMA SameCount == \A S : Evidence!Cardinality(S) = Cardinality(S)
BY DEF Evidence!Cardinality, Cardinality

LEMMA BucketFacts ==
  /\ Evidence!After["settings"] = "logs" /\ Evidence!After["logs"] = "network"
  /\ Evidence!After["network"] = "snapshot"
  /\ Evidence!Cardinality(Evidence!Bucket) = 3
<1>1. Cardinality({"settings", "logs", "network"}) = 3
  <2>1. Cardinality({"settings"}) = 1 /\ IsFiniteSet({"settings"})
    BY FS_Singleton
  <2>2. Cardinality({"settings"} \union {"logs"}) = 2 /\ IsFiniteSet({"settings"} \union {"logs"})
    BY <2>1, FS_AddElement
  <2>3. Cardinality(({"settings"} \union {"logs"}) \union {"network"}) = 3
    BY <2>2, FS_AddElement
  <2>4. ({"settings"} \union {"logs"}) \union {"network"} = {"settings", "logs", "network"}
    OBVIOUS
  <2> QED BY <2>3, <2>4
<1> QED BY <1>1, SameCount DEF Evidence!After, Evidence!Bucket

-----------------------------------------------------------------------------
Busy(c) == c.kind # "idle"

\* One copy of the app at a time, unless a second one has been seen.
OneApp == ~shared => \A i, j \in open : i = j

\* A call belongs to an open copy and has a number of its own, and nothing is
\* stored under a number that has not been given.
Begun ==
  /\ \A i \in Instance : /\ Busy(call[i]) => i \in open /\ call[i].id \in 1..calls
                         /\ ~Busy(call[i]) => call[i] = Evidence!Idle
  /\ \A i, j \in Instance : Busy(call[i]) /\ Busy(call[j]) /\ i # j => call[i].id # call[j].id
  /\ \A r \in rows : r.call <= calls
  /\ \A e \in ledger \union trail : e.call <= calls

\* How much a call can have counted, and when it is at work on a file.
WithFile == {"writing", "hashing", "filing"}
Within(c) ==
  /\ c.phase \in WithFile => c.path \in Evidence!Path
  /\ c.phase \notin WithFile => c.path = None
  /\ c.phase = "settings" => c.count = 0
  /\ c.phase \in WithFile \union {"logs"} => c.count <= 1
  /\ c.phase = "network" => c.count <= 2

EvidenceBase ==
  /\ Evidence!TypeOK /\ IsFiniteSet(rows) /\ OneApp /\ Begun
  /\ \A i \in Instance : Within(call[i])

-----------------------------------------------------------------------------
(***************************************************************************)
(* What a step of one copy does, with the record of its call as n: the     *)
(* actions of LocalEvidence, Launch apart, without their EXCEPTs.          *)
(***************************************************************************)
SameCall(c, n) == n.kind = c.kind /\ n.id = c.id /\ n.framework = c.framework
records == <<rows, snapshots, ledger, trail>>

Stops(i, c, n) ==
  /\ n = Evidence!Idle
  /\ open' = open \/ open' = open \ {i}
  /\ \/ files' = files
     \/ Busy(c) /\ c.phase = "writing" /\ files' = [files EXCEPT ![c.path] = Torn]
  /\ UNCHANGED <<calls, records>>

Starts(i, c, n) ==
  /\ i \in open /\ ~Busy(c) /\ Busy(n)
  /\ calls < MaxCalls /\ calls' = calls + 1 /\ n.id = calls + 1
  /\ n.phase \in {"settings", "logs"} /\ n.path = None /\ n.count = 0
  /\ UNCHANGED <<open, files, records>>

Skips(i, c, n) ==
  /\ \E b \in Evidence!Bucket : c.phase = b /\ n.phase = Evidence!After[b]
  /\ SameCall(c, n) /\ n.count = c.count /\ n.path = c.path
  /\ UNCHANGED <<open, calls, files, records>>

Names(i, c, n) ==
  /\ c.phase = "logs" /\ n.phase = "writing"
  /\ SameCall(c, n) /\ n.count = c.count
  /\ n.path \in Evidence!Path /\ files[n.path] = None
  /\ UNCHANGED <<open, calls, files, records>>

Writes(i, c, n) ==
  /\ c.phase = "writing" /\ n.phase = "hashing"
  /\ SameCall(c, n) /\ n.count = c.count /\ n.path = c.path
  /\ files' = [files EXCEPT ![c.path] = c.id]
  /\ UNCHANGED <<open, calls, records>>

Hashes(i, c, n) ==
  /\ c.phase = "hashing" /\ n.phase = "filing"
  /\ SameCall(c, n) /\ n.count = c.count /\ n.path = c.path
  /\ n.hash = files[c.path]
  /\ UNCHANGED <<open, calls, files, records>>

RowOf(c, b) == [call |-> c.id, framework |-> c.framework, collected |-> c.kind = "collection",
                bucket |-> b, path |-> c.path, hash |-> c.hash]

Adds(i, c, n) ==
  /\ \E b \in Evidence!Bucket :
       /\ <<c.phase, b>> \in {<<"settings", "settings">>, <<"filing", "logs">>,
                              <<"network", "network">>}
       /\ rows' = rows \union {RowOf(c, b)}
       /\ \/ n = Evidence!Idle
          \/ /\ SameCall(c, n) /\ n.count = c.count + 1 /\ n.path = None
             /\ n.phase = Evidence!After[b]
  /\ UNCHANGED <<open, calls, files, snapshots, ledger, trail>>

Snapshots(i, c, n) ==
  /\ c.phase = "snapshot" /\ n.phase = "ledger"
  /\ SameCall(c, n) /\ n.count = c.count /\ n.path = c.path
  /\ snapshots' = snapshots \union {<<c.id, c.framework>>}
  /\ UNCHANGED <<open, calls, files, rows, ledger, trail>>

Logs(i, c, n) ==
  /\ c.phase = "ledger" /\ n.phase = "trail"
  /\ SameCall(c, n) /\ n.count = c.count /\ n.path = c.path
  /\ ledger' = ledger \union {Evidence!RecordOf(c)}
  /\ UNCHANGED <<open, calls, files, rows, snapshots, trail>>

Chains(i, c, n) ==
  /\ c.phase = "trail"
  /\ trail' = trail \/ trail' = trail \union {Evidence!RecordOf(c)}
  /\ \/ n = Evidence!Idle
     \/ /\ n.kind = c.kind /\ n.id = c.id /\ n.framework = c.framework + 1
        /\ n.phase = "settings" /\ n.count = 0 /\ n.path = c.path
  /\ UNCHANGED <<open, calls, files, rows, snapshots, ledger>>

GoesOn(i, c, n) ==
  /\ Busy(c)
  /\ \/ Skips(i, c, n) \/ Names(i, c, n) \/ Writes(i, c, n) \/ Hashes(i, c, n)
     \/ Adds(i, c, n) \/ Snapshots(i, c, n) \/ Logs(i, c, n) \/ Chains(i, c, n)

CopyStep(i, n) ==
  /\ call' = [call EXCEPT ![i] = n] /\ shared' = shared
  /\ Stops(i, call[i], n) \/ Starts(i, call[i], n) \/ GoesOn(i, call[i], n)

\* saveEvidenceFile finds a name that is free, if there is one.
LEMMA FreePathIsFree ==
  ASSUME Evidence!EvidenceConstants, NEW name \in Name, files[<<name, MaxNumber>>] = None
  PROVE  Evidence!FreePath(name) \in Evidence!Path /\ files[Evidence!FreePath(name)] = None
<1> DEFINE Free == {n \in Nat : n <= MaxNumber /\ files[<<name, n>>] = None}
           Below == OpToRel(<, Nat)
           P(n) == /\ files[<<name, n>>] = None
                   /\ \A m \in 0..(n - 1) : files[<<name, m>>] # None
<1>1. MaxNumber \in Free
  BY DEF Evidence!EvidenceConstants
<1>2. PICK n \in Free : \A m \in Nat : m < n => m \notin Free
  <2>1. IsWellFoundedOn(Below, Nat)
    BY NatLessThanWellFounded
  <2>2. \A k, m \in Nat : m < k => <<m, k>> \in Below
    BY DEF OpToRel
  <2> HIDE DEF Below
  <2>3. PICK n \in Free : \A m \in Free : <<m, n>> \notin Below
    BY <1>1, <2>1, WFMin
  <2> QED BY <2>2, <2>3
<1>3. n \in 0..MaxNumber /\ P(n)
  <2>1. n \in Nat /\ n <= MaxNumber /\ files[<<name, n>>] = None
    BY <1>2
  <2>2. ASSUME NEW m \in 0..(n - 1)
        PROVE  files[<<name, m>>] # None
    <3>1. m \in Nat /\ m < n /\ m <= MaxNumber
      BY <2>1 DEF Evidence!EvidenceConstants
    <3> QED BY <1>2, <3>1
  <2> QED BY <2>1, <2>2 DEF Evidence!EvidenceConstants
<1> DEFINE m == CHOOSE k \in 0..MaxNumber : P(k)
<1>4. m \in 0..MaxNumber /\ P(m)
  BY <1>3
<1>5. Evidence!FreePath(name) = <<name, m>>
  BY DEF Evidence!FreePath
<1> HIDE DEF m
<1> QED BY <1>4, <1>5 DEF Evidence!Path

LEMMA EvidenceIdle ==
  ASSUME Evidence!EvidenceConstants
  PROVE  /\ Evidence!Idle \in Evidence!CallState /\ ~Busy(Evidence!Idle) /\ Within(Evidence!Idle)
         /\ Evidence!Idle.framework = 1 /\ Evidence!Idle.path = None
<1>1. Evidence!Cardinality(Evidence!Bucket) = 3
  BY BucketFacts
<1>2. /\ Evidence!Idle \in Evidence!CallState /\ ~Busy(Evidence!Idle)
      /\ Evidence!Idle.framework = 1 /\ Evidence!Idle.path = None
  BY <1>1 DEF Evidence!Idle, Evidence!CallState, Evidence!Kind, Evidence!Phase, Evidence!Bytes,
              Evidence!Bucket, Evidence!EvidenceConstants, Busy
<1>3. Within(Evidence!Idle)
  BY DEF Evidence!Idle, Within, WithFile
<1> QED BY <1>2, <1>3

LEMMA BeginsStarts ==
  ASSUME Evidence!EvidenceConstants, EvidenceBase, NEW i \in Instance, NEW c \in Evidence!CallState,
         Busy(c), c.phase \in {"settings", "logs"}, c.path = None, c.count = 0,
         Evidence!Begins(i, c)
  PROVE  \E n \in Evidence!CallState : CopyStep(i, n)
<1> DEFINE n == [c EXCEPT !.id = calls + 1]
<1>1. /\ i \in open /\ ~Busy(call[i]) /\ calls < MaxCalls /\ calls' = calls + 1
      /\ call' = [call EXCEPT ![i] = n]
      /\ UNCHANGED <<open, shared, files, records>>
  BY EvidenceIdle DEF Evidence!Begins, Evidence!stored, records
<1>2. calls + 1 \in 0..MaxCalls
  BY <1>1 DEF EvidenceBase, Evidence!TypeOK, Evidence!EvidenceConstants
<1>3. /\ n \in Evidence!CallState /\ n.id = calls + 1 /\ n.kind = c.kind /\ n.phase = c.phase
      /\ n.path = c.path /\ n.count = c.count
  BY <1>2 DEF Evidence!CallState
<1> HIDE DEF n
<1>4. CopyStep(i, n)
  BY <1>1, <1>3 DEF CopyStep, Starts, Busy
<1> QED BY <1>3, <1>4

LEMMA EvidenceStarts ==
  ASSUME Evidence!EvidenceConstants, EvidenceBase, NEW i \in Instance,
         \/ \E found \in Finding, first, last \in 1..Frameworks :
              Evidence!Collect(i, found, first, last)
         \/ \E f \in 1..Frameworks : Evidence!Upload(i, f) \/ Evidence!Note(i, f)
  PROVE  \E n \in Evidence!CallState : CopyStep(i, n)
<1>0. Evidence!Idle \in Evidence!CallState
  BY EvidenceIdle
<1>1. ASSUME NEW found \in Finding, NEW first \in 1..Frameworks, NEW last \in 1..Frameworks,
             Evidence!Collect(i, found, first, last)
      PROVE  \E n \in Evidence!CallState : CopyStep(i, n)
  <2> DEFINE c == [Evidence!Idle EXCEPT !.kind = "collection", !.found = found,
                                        !.framework = first, !.last = last]
  <2>1. found \in SUBSET Evidence!Bucket
    BY DEF Evidence!EvidenceConstants
  <2>2. /\ c \in Evidence!CallState /\ c.kind = "collection" /\ c.phase = "settings"
        /\ c.path = None /\ c.count = 0
    BY <1>0, <2>1 DEF Evidence!CallState, Evidence!Kind, Evidence!Idle
  <2>3. Evidence!Begins(i, c)
    BY <1>1 DEF Evidence!Collect
  <2> HIDE DEF c
  <2> QED BY <2>2, <2>3, BeginsStarts DEF Busy
<1>2. ASSUME NEW f \in 1..Frameworks, Evidence!Upload(i, f)
      PROVE  \E n \in Evidence!CallState : CopyStep(i, n)
  <2> DEFINE c == [Evidence!Idle EXCEPT !.kind = "upload", !.phase = "logs",
                                        !.framework = f, !.last = f, !.found = {"logs"}]
  <2>1. /\ c \in Evidence!CallState /\ c.kind = "upload" /\ c.phase = "logs"
        /\ c.path = None /\ c.count = 0
    BY <1>0 DEF Evidence!CallState, Evidence!Kind, Evidence!Phase, Evidence!Bucket, Evidence!Idle
  <2>2. Evidence!Begins(i, c)
    BY <1>2 DEF Evidence!Upload
  <2> HIDE DEF c
  <2> QED BY <2>1, <2>2, BeginsStarts DEF Busy
<1>3. ASSUME NEW f \in 1..Frameworks, Evidence!Note(i, f)
      PROVE  \E n \in Evidence!CallState : CopyStep(i, n)
  <2> DEFINE c == [Evidence!Idle EXCEPT !.kind = "note", !.framework = f, !.last = f,
                                        !.found = {"settings"}]
  <2>1. /\ c \in Evidence!CallState /\ c.kind = "note" /\ c.phase = "settings"
        /\ c.path = None /\ c.count = 0
    BY <1>0 DEF Evidence!CallState, Evidence!Kind, Evidence!Bucket, Evidence!Idle
  <2>2. Evidence!Begins(i, c)
    BY <1>3 DEF Evidence!Note
  <2> HIDE DEF c
  <2> QED BY <2>1, <2>2, BeginsStarts DEF Busy
<1> QED BY <1>1, <1>2, <1>3

LEMMA EvidenceStops ==
  ASSUME Evidence!EvidenceConstants, EvidenceBase, NEW i \in Instance,
         Evidence!Exit(i) \/ Evidence!Fails(i)
  PROVE  CopyStep(i, Evidence!Idle)
BY DEF Evidence!Exit, Evidence!Fails, Evidence!Ends, Evidence!At, CopyStep, Stops, Busy, records

\* The phase of a call changes and nothing else of it.
LEMMA PhaseChanges ==
  ASSUME NEW c \in Evidence!CallState, NEW p \in Evidence!Phase
  PROVE  LET n == [c EXCEPT !.phase = p]
         IN  /\ n \in Evidence!CallState /\ n.phase = p /\ SameCall(c, n) /\ n.count = c.count
             /\ n.path = c.path /\ n.hash = c.hash /\ n.last = c.last
BY DEF Evidence!CallState, SameCall

LEMMA GotoChanges ==
  ASSUME EvidenceBase, NEW i \in Instance, NEW p \in Evidence!Phase, Evidence!Goto(i, p)
  PROVE  \E n \in Evidence!CallState :
           /\ call' = [call EXCEPT ![i] = n] /\ n.phase = p /\ SameCall(call[i], n)
           /\ n.count = call[i].count /\ n.path = call[i].path
<1> DEFINE n == [call[i] EXCEPT !.phase = p]
<1>1. call[i] \in Evidence!CallState
  BY DEF EvidenceBase, Evidence!TypeOK
<1>2. call' = [call EXCEPT ![i] = n]
  BY DEF EvidenceBase, Evidence!TypeOK, Evidence!Goto
<1>3. /\ n \in Evidence!CallState /\ n.phase = p /\ SameCall(call[i], n)
      /\ n.count = call[i].count /\ n.path = call[i].path
  BY <1>1, PhaseChanges
<1> HIDE DEF n
<1> QED BY <1>2, <1>3

\* addEvidence, and what the call does next.
LEMMA FilesAdds ==
  ASSUME Evidence!EvidenceConstants, EvidenceBase, NEW i \in Instance, NEW b \in Evidence!Bucket,
         <<call[i].phase, b>> \in {<<"settings", "settings">>, <<"filing", "logs">>,
                                   <<"network", "network">>},
         Busy(call[i]), Evidence!Files(i, b)
  PROVE  \E n \in Evidence!CallState : CopyStep(i, n)
<1> DEFINE c == call[i]
<1>1. c \in Evidence!CallState /\ call \in [Instance -> Evidence!CallState] /\ Within(c)
  BY DEF EvidenceBase, Evidence!TypeOK
<1>2. rows' = rows \union {RowOf(c, b)} /\ UNCHANGED <<open, shared, calls, files, snapshots, ledger, trail>>
  BY DEF Evidence!Files, RowOf
<1>3. CASE c.kind \in {"upload", "note"}
  <2>1. call' = [call EXCEPT ![i] = Evidence!Idle]
    BY <1>3 DEF Evidence!Files
  <2>2. CopyStep(i, Evidence!Idle)
    BY <1>2, <2>1 DEF CopyStep, GoesOn, Adds
  <2> QED BY <2>2, EvidenceIdle
<1>4. CASE c.kind \notin {"upload", "note"}
  <2> DEFINE n == [c EXCEPT !.count = c.count + 1, !.path = None, !.hash = None,
                            !.phase = Evidence!After[b]]
  <2>1. call' = [call EXCEPT ![i] = n]
    BY <1>1, <1>4 DEF Evidence!Files
  <2>2. c.count + 1 \in 0..Evidence!Cardinality(Evidence!Bucket)
    BY <1>1, BucketFacts DEF Within, WithFile, Evidence!CallState
  <2>3. Evidence!After[b] \in Evidence!Phase
    BY BucketFacts DEF Evidence!Bucket, Evidence!Phase
  <2>4. /\ n \in Evidence!CallState /\ SameCall(c, n) /\ n.count = c.count + 1 /\ n.path = None
        /\ n.phase = Evidence!After[b]
    BY <1>1, <2>2, <2>3 DEF Evidence!CallState, Evidence!Bytes, SameCall
  <2> HIDE DEF n
  <2>5. CopyStep(i, n)
    BY <1>2, <2>1, <2>4 DEF CopyStep, GoesOn, Adds
  <2> QED BY <2>4, <2>5
<1> QED BY <1>3, <1>4

LEMMA EvidenceGoesOn ==
  ASSUME Evidence!EvidenceConstants, EvidenceBase, NEW i \in Instance,
         \/ Evidence!Skip(i) \/ Evidence!AddEvidence(i)
         \/ Evidence!ChooseName(i) \/ Evidence!Write(i) \/ Evidence!Hash(i)
         \/ Evidence!AddFileEvidence(i) \/ Evidence!StoreSystemEvidence(i)
         \/ Evidence!LogAudit(i) \/ Evidence!Chain(i)
  PROVE  \E n \in Evidence!CallState : CopyStep(i, n)
<1> DEFINE c == call[i]
<1>0. c \in Evidence!CallState /\ call \in [Instance -> Evidence!CallState] /\ Within(c)
  BY DEF EvidenceBase, Evidence!TypeOK
<1>p. {"writing", "hashing", "filing", "snapshot", "ledger", "trail", "settings"} \subseteq Evidence!Phase
      /\ \A b \in Evidence!Bucket : Evidence!After[b] \in Evidence!Phase
  BY BucketFacts DEF Evidence!Bucket, Evidence!Phase
<1>1. CASE Evidence!Skip(i)
  <2>1. PICK b \in Evidence!Bucket : Evidence!At(i, b) /\ Evidence!Goto(i, Evidence!After[b])
    BY <1>1 DEF Evidence!Skip
  <2>2. PICK n \in Evidence!CallState :
           /\ call' = [call EXCEPT ![i] = n] /\ n.phase = Evidence!After[b]
           /\ SameCall(c, n) /\ n.count = c.count /\ n.path = c.path
    BY <1>p, <2>1, GotoChanges
  <2>3. CopyStep(i, n)
    BY <1>1, <2>1, <2>2
       DEF CopyStep, GoesOn, Skips, Busy, Evidence!Skip, Evidence!At, Evidence!stored, records
  <2> QED BY <2>3
<1>2. CASE Evidence!AddEvidence(i) \/ Evidence!AddFileEvidence(i)
  <2>1. PICK b \in Evidence!Bucket :
          /\ Busy(c) /\ Evidence!Files(i, b)
          /\ <<c.phase, b>> \in {<<"settings", "settings">>, <<"filing", "logs">>,
                                 <<"network", "network">>}
    BY <1>2 DEF Evidence!AddEvidence, Evidence!AddFileEvidence, Evidence!At, Evidence!Bucket, Busy
  <2> QED BY <2>1, FilesAdds
<1>3. CASE Evidence!ChooseName(i)
  <2>1. PICK name \in Name :
          /\ files[<<name, MaxNumber>>] = None
          /\ call' = [call EXCEPT ![i].path = Evidence!FreePath(name), ![i].phase = "writing"]
    BY <1>3 DEF Evidence!ChooseName
  <2> DEFINE path == Evidence!FreePath(name)
             n == [c EXCEPT !.path = path, !.phase = "writing"]
  <2>2. path \in Evidence!Path /\ files[path] = None
    BY <2>1, FreePathIsFree
  <2>3. call' = [call EXCEPT ![i] = n]
    BY <1>0, <2>1
  <2> HIDE DEF path
  <2>4. /\ n \in Evidence!CallState /\ n.phase = "writing" /\ SameCall(c, n)
        /\ n.count = c.count /\ n.path = path
    BY <1>0, <1>p, <2>2 DEF Evidence!CallState, SameCall
  <2> HIDE DEF n
  <2>5. CopyStep(i, n)
    BY <1>3, <2>2, <2>3, <2>4
       DEF CopyStep, GoesOn, Names, Busy, Evidence!ChooseName, Evidence!At, Evidence!stored, records
  <2> QED BY <2>4, <2>5
<1>4. CASE Evidence!Write(i)
  <2>1. PICK n \in Evidence!CallState :
           /\ call' = [call EXCEPT ![i] = n] /\ n.phase = "hashing"
           /\ SameCall(c, n) /\ n.count = c.count /\ n.path = c.path
    BY <1>p, <1>4, GotoChanges DEF Evidence!Write
  <2>2. CopyStep(i, n)
    BY <1>4, <2>1 DEF CopyStep, GoesOn, Writes, Busy, Evidence!Write, Evidence!At, records
  <2> QED BY <2>2
<1>5. CASE Evidence!Hash(i)
  <2> DEFINE hash == files[c.path]
             n == [c EXCEPT !.hash = hash, !.phase = "filing"]
  <2>1. call' = [call EXCEPT ![i] = n]
    BY <1>0, <1>5 DEF Evidence!Hash
  <2>2. hash \in Evidence!Bytes
    BY <1>0, <1>5 DEF Evidence!Hash, Evidence!At, Within, WithFile, EvidenceBase, Evidence!TypeOK
  <2> HIDE DEF hash
  <2>3. /\ n \in Evidence!CallState /\ n.phase = "filing" /\ SameCall(c, n)
        /\ n.count = c.count /\ n.path = c.path /\ n.hash = hash
    BY <1>0, <1>p, <2>2 DEF Evidence!CallState, SameCall
  <2> HIDE DEF n
  <2>4. CopyStep(i, n)
    BY <1>5, <2>1, <2>3
       DEF CopyStep, GoesOn, Hashes, Busy, Evidence!Hash, Evidence!At, Evidence!stored, records, hash
  <2> QED BY <2>3, <2>4
<1>6. CASE Evidence!StoreSystemEvidence(i)
  <2>1. PICK n \in Evidence!CallState :
           /\ call' = [call EXCEPT ![i] = n] /\ n.phase = "ledger"
           /\ SameCall(c, n) /\ n.count = c.count /\ n.path = c.path
    BY <1>p, <1>6, GotoChanges DEF Evidence!StoreSystemEvidence
  <2>2. CopyStep(i, n)
    BY <1>6, <2>1 DEF CopyStep, GoesOn, Snapshots, Busy, Evidence!StoreSystemEvidence, Evidence!At
  <2> QED BY <2>2
<1>7. CASE Evidence!LogAudit(i)
  <2>1. PICK n \in Evidence!CallState :
           /\ call' = [call EXCEPT ![i] = n] /\ n.phase = "trail"
           /\ SameCall(c, n) /\ n.count = c.count /\ n.path = c.path
    BY <1>p, <1>7, GotoChanges DEF Evidence!LogAudit
  <2>2. CopyStep(i, n)
    BY <1>7, <2>1 DEF CopyStep, GoesOn, Logs, Busy, Evidence!LogAudit, Evidence!At
  <2> QED BY <2>2
<1>8. CASE Evidence!Chain(i)
  <2>1. /\ Busy(c) /\ c.phase = "trail"
        /\ trail' = trail \/ trail' = trail \union {Evidence!RecordOf(c)}
        /\ UNCHANGED <<open, shared, calls, files, rows, snapshots, ledger>>
    BY <1>8 DEF Evidence!Chain, Evidence!At, Busy
  <2>2. CASE c.framework < c.last
    <3> DEFINE n == [c EXCEPT !.framework = c.framework + 1, !.phase = "settings", !.count = 0]
    <3>1. call' = [call EXCEPT ![i] = n]
      BY <1>0, <1>8, <2>2 DEF Evidence!Chain, Evidence!Proceeds
    <3>2. /\ n \in Evidence!CallState /\ n.kind = c.kind /\ n.id = c.id
          /\ n.framework = c.framework + 1 /\ n.phase = "settings" /\ n.count = 0
          /\ n.path = c.path
      <4>1. c.framework + 1 \in 1..Frameworks /\ 0 \in 0..Evidence!Cardinality(Evidence!Bucket)
        BY <1>0, <2>2, BucketFacts DEF Evidence!CallState, Evidence!EvidenceConstants
      <4> QED BY <1>0, <1>p, <4>1 DEF Evidence!CallState
    <3> HIDE DEF n
    <3>3. CopyStep(i, n)
      BY <2>1, <3>1, <3>2 DEF CopyStep, GoesOn, Chains
    <3> QED BY <3>2, <3>3
  <2>3. CASE ~(c.framework < c.last)
    <3>1. call' = [call EXCEPT ![i] = Evidence!Idle]
      BY <1>8, <2>3 DEF Evidence!Chain, Evidence!Proceeds
    <3>2. CopyStep(i, Evidence!Idle)
      BY <2>1, <3>1 DEF CopyStep, GoesOn, Chains
    <3> QED BY <3>2, EvidenceIdle
  <2> QED BY <2>2, <2>3
<1> QED BY <1>1, <1>2, <1>3, <1>4, <1>5, <1>6, <1>7, <1>8

\* Every step is one of a copy, or a launch, or none.
LEMMA EvidenceMoves ==
  ASSUME Evidence!EvidenceConstants, EvidenceBase, [Evidence!Next]_(Evidence!vars)
  PROVE  \/ UNCHANGED <<open, shared, calls, call, files, records>>
         \/ \E i \in Instance : Evidence!Launch(i)
         \/ \E i \in Instance, n \in Evidence!CallState : CopyStep(i, n)
<1>1. CASE UNCHANGED Evidence!vars
  BY <1>1 DEF Evidence!vars, Evidence!stored, records
<1>2. CASE Evidence!Next
  <2>1. PICK i \in Instance :
      \/ Evidence!Launch(i) \/ Evidence!Exit(i)
      \/ \E found \in Finding, first, last \in 1..Frameworks :
           Evidence!Collect(i, found, first, last)
      \/ \E f \in 1..Frameworks : Evidence!Upload(i, f) \/ Evidence!Note(i, f)
      \/ Evidence!Skip(i) \/ Evidence!AddEvidence(i)
      \/ Evidence!ChooseName(i) \/ Evidence!Write(i) \/ Evidence!Hash(i)
      \/ Evidence!AddFileEvidence(i)
      \/ Evidence!StoreSystemEvidence(i) \/ Evidence!LogAudit(i)
      \/ Evidence!Chain(i) \/ Evidence!Fails(i)
    BY <1>2 DEF Evidence!Next
  <2> QED BY <2>1, EvidenceStarts, EvidenceStops, EvidenceGoesOn, EvidenceIdle
<1> QED BY <1>1, <1>2

-----------------------------------------------------------------------------
LEMMA EvidenceBaseInit ==
  ASSUME Evidence!EvidenceConstants, Evidence!Init
  PROVE  EvidenceBase
<1>1. Evidence!TypeOK
  <2>1. /\ open = {} /\ shared = FALSE /\ calls = 0 /\ rows = {} /\ snapshots = {}
        /\ ledger = {} /\ trail = {}
    BY DEF Evidence!Init
  <2>2. call \in [Instance -> Evidence!CallState]
    BY EvidenceIdle DEF Evidence!Init
  <2>3. files \in [Evidence!Path -> Evidence!Bytes]
    BY DEF Evidence!Init, Evidence!Bytes
  <2>4. calls \in 0..MaxCalls
    BY <2>1 DEF Evidence!EvidenceConstants
  <2>5. shared \in BOOLEAN
    BY <2>1
  <2> QED BY <2>1, <2>2, <2>3, <2>4, <2>5, Zenon DEF Evidence!TypeOK
<1>2. IsFiniteSet(rows)
  BY FS_EmptySet DEF Evidence!Init
<1>3. OneApp /\ Begun /\ \A i \in Instance : Within(call[i])
  BY EvidenceIdle DEF Evidence!Init, OneApp, Begun
<1> QED BY <1>1, <1>2, <1>3 DEF EvidenceBase

LEMMA RowOfType ==
  ASSUME Evidence!EvidenceConstants, EvidenceBase, NEW i \in Instance, Busy(call[i]),
         NEW b \in Evidence!Bucket
  PROVE  /\ RowOf(call[i], b) \in Evidence!Row
         /\ RowOf(call[i], b).call = call[i].id /\ RowOf(call[i], b).framework = call[i].framework
         /\ RowOf(call[i], b).bucket = b
         /\ RowOf(call[i], b).path = call[i].path /\ RowOf(call[i], b).hash = call[i].hash
<1>1. call[i] \in Evidence!CallState /\ call[i].id \in 1..MaxCalls
  BY DEF EvidenceBase, Evidence!TypeOK, Begun, Evidence!EvidenceConstants
<1> QED BY <1>1 DEF RowOf, Evidence!Row, Evidence!CallState

LEMMA RecordOfType ==
  ASSUME Evidence!EvidenceConstants, EvidenceBase, NEW i \in Instance, Busy(call[i])
  PROVE  /\ Evidence!RecordOf(call[i]) \in Evidence!Record
         /\ Evidence!RecordOf(call[i]).call = call[i].id
         /\ Evidence!RecordOf(call[i]).framework = call[i].framework
         /\ Evidence!RecordOf(call[i]).count = call[i].count
<1>1. call[i] \in Evidence!CallState /\ call[i].id \in 1..MaxCalls
  BY DEF EvidenceBase, Evidence!TypeOK, Begun, Evidence!EvidenceConstants
<1> QED BY <1>1 DEF Evidence!RecordOf, Evidence!Record, Evidence!CallState

\* What is stored grows, by what belongs to the call of the copy that steps.
Grows(i) ==
  /\ rows \subseteq rows' /\ \A r \in rows' \ rows : r.call = call[i].id
  /\ ledger \subseteq ledger' /\ trail \subseteq trail'
  /\ \A e \in (ledger' \union trail') \ (ledger \union trail) : e.call = call[i].id
  /\ snapshots \subseteq snapshots'
  /\ \A p \in Evidence!Path : files[p] # None => files'[p] # None

LEMMA StepGrows ==
  ASSUME Evidence!EvidenceConstants, EvidenceBase, NEW i \in Instance, NEW n \in Evidence!CallState,
         CopyStep(i, n)
  PROVE  /\ call' \in [Instance -> Evidence!CallState] /\ call'[i] = n
         /\ \A j \in Instance \ {i} : call'[j] = call[j]
         /\ i \in open => open \ {i} \subseteq open'
         /\ open' \subseteq open /\ (Busy(n) => i \in open')
         /\ calls \in 0..MaxCalls /\ calls' \in {calls, calls + 1} /\ calls' \in 0..MaxCalls
         /\ shared' = shared
         /\ Grows(i)
         /\ UNCHANGED records \/ Busy(call[i])
<1> DEFINE c == call[i]
<1>0. /\ call \in [Instance -> Evidence!CallState] /\ calls \in 0..MaxCalls
      /\ files \in [Evidence!Path -> Evidence!Bytes] /\ open \in SUBSET Instance
      /\ Busy(c) => i \in open /\ c.id \in 1..calls
  BY DEF EvidenceBase, Evidence!TypeOK, Begun
<1>i. ~Busy(Evidence!Idle)
  BY EvidenceIdle
<1>1. /\ call' \in [Instance -> Evidence!CallState] /\ call'[i] = n
      /\ \A j \in Instance \ {i} : call'[j] = call[j]
      /\ shared' = shared
  BY <1>0 DEF CopyStep
<1>2. /\ i \in open => open \ {i} \subseteq open'
      /\ open' \subseteq open /\ (Busy(n) => i \in open')
      /\ calls' \in {calls, calls + 1} /\ calls' \in 0..MaxCalls
  BY <1>0, <1>i DEF CopyStep, Stops, Starts, GoesOn, Skips, Names, Writes, Hashes, Adds, Snapshots,
               Logs, Chains, Evidence!EvidenceConstants
<1>3. UNCHANGED records \/ Busy(c)
  BY DEF CopyStep, Stops, Starts, GoesOn
<1>4. /\ snapshots \subseteq snapshots' /\ rows \subseteq rows'
      /\ ledger \subseteq ledger' /\ trail \subseteq trail'
  BY DEF CopyStep, Stops, Starts, GoesOn, Skips, Names, Writes, Hashes, Adds, Snapshots, Logs,
         Chains, records
<1>5. ASSUME NEW r \in rows' \ rows PROVE r.call = c.id
  <2>1. Busy(c) /\ \E b \in Evidence!Bucket : rows' = rows \union {RowOf(c, b)}
    BY <1>5 DEF CopyStep, Stops, Starts, GoesOn, Skips, Names, Writes, Hashes, Adds, Snapshots,
                Logs, Chains, records
  <2> QED BY <1>5, <2>1, RowOfType
<1>6. ASSUME NEW e \in (ledger' \union trail') \ (ledger \union trail) PROVE e.call = c.id
  <2>1. Busy(c) /\ e = Evidence!RecordOf(c)
    BY <1>6 DEF CopyStep, Stops, Starts, GoesOn, Skips, Names, Writes, Hashes, Adds, Snapshots,
                Logs, Chains, records
  <2> QED BY <2>1, RecordOfType
<1>7. ASSUME NEW p \in Evidence!Path, files[p] # None PROVE files'[p] # None
  <2>1. \/ files' = files
        \/ files' = [files EXCEPT ![c.path] = Torn]
        \/ Busy(c) /\ files' = [files EXCEPT ![c.path] = c.id]
    BY DEF CopyStep, Stops, Starts, GoesOn, Skips, Names, Writes, Hashes, Adds, Snapshots, Logs,
           Chains
  <2>2. Busy(c) => c.id # None
    BY <1>0 DEF Evidence!EvidenceConstants
  <2> QED BY <1>0, <1>7, <2>1, <2>2 DEF Evidence!EvidenceConstants
<1> QED BY <1>0, <1>1, <1>2, <1>3, <1>4, <1>5, <1>6, <1>7 DEF Grows

LEMMA EvidenceBaseStep ==
  ASSUME Evidence!EvidenceConstants, EvidenceBase, NEW i \in Instance, NEW n \in Evidence!CallState,
         CopyStep(i, n)
  PROVE  EvidenceBase'
<1> DEFINE c == call[i]
<1>0. /\ call \in [Instance -> Evidence!CallState] /\ calls \in 0..MaxCalls
      /\ files \in [Evidence!Path -> Evidence!Bytes] /\ open \in SUBSET Instance
      /\ rows \in SUBSET Evidence!Row /\ ledger \in SUBSET Evidence!Record
      /\ trail \in SUBSET Evidence!Record
      /\ snapshots \in SUBSET ((1..MaxCalls) \X (1..Frameworks))
      /\ Busy(c) => i \in open /\ c.id \in 1..calls
      /\ IsFiniteSet(rows) /\ Within(c) /\ c \in Evidence!CallState
  BY DEF EvidenceBase, Evidence!TypeOK, Begun
<1>1. /\ call' \in [Instance -> Evidence!CallState] /\ call'[i] = n
      /\ \A j \in Instance \ {i} : call'[j] = call[j]
      /\ i \in open => open \ {i} \subseteq open'
      /\ open' \subseteq open /\ (Busy(n) => i \in open')
      /\ calls' \in {calls, calls + 1} /\ calls' \in 0..MaxCalls
      /\ shared' = shared
      /\ UNCHANGED records \/ Busy(c)
  BY StepGrows
<1>2. Evidence!TypeOK'
  <2>1. files' \in [Evidence!Path -> Evidence!Bytes]
    <3>1. \/ files' = files
          \/ files' = [files EXCEPT ![c.path] = Torn]
          \/ Busy(c) /\ files' = [files EXCEPT ![c.path] = c.id]
      BY DEF CopyStep, Stops, Starts, GoesOn, Skips, Names, Writes, Hashes, Adds, Snapshots, Logs,
             Chains
    <3>2. /\ Torn \in Evidence!Bytes
          /\ Busy(c) => c.id \in Evidence!Bytes
      BY <1>0 DEF Evidence!Bytes, Evidence!EvidenceConstants
    <3> QED BY <1>0, <3>1, <3>2
  <2>2. rows' \in SUBSET Evidence!Row
    <3>1. \/ rows' = rows
          \/ Busy(c) /\ \E b \in Evidence!Bucket : rows' = rows \union {RowOf(c, b)}
      BY DEF CopyStep, Stops, Starts, GoesOn, Skips, Names, Writes, Hashes, Adds, Snapshots, Logs,
             Chains, records
    <3> QED BY <1>0, <3>1, RowOfType
  <2>3. ledger' \in SUBSET Evidence!Record /\ trail' \in SUBSET Evidence!Record
    <3>1. \/ ledger' = ledger /\ trail' = trail
          \/ Busy(c) /\ ledger' \subseteq ledger \union {Evidence!RecordOf(c)}
                     /\ trail' \subseteq trail \union {Evidence!RecordOf(c)}
      BY DEF CopyStep, Stops, Starts, GoesOn, Skips, Names, Writes, Hashes, Adds, Snapshots, Logs,
             Chains, records
    <3> QED BY <1>0, <3>1, RecordOfType
  <2>4. snapshots' \in SUBSET ((1..MaxCalls) \X (1..Frameworks))
    <3>1. \/ snapshots' = snapshots
          \/ Busy(c) /\ snapshots' = snapshots \union {<<c.id, c.framework>>}
      BY DEF CopyStep, Stops, Starts, GoesOn, Skips, Names, Writes, Hashes, Adds, Snapshots, Logs,
             Chains, records
    <3> QED BY <1>0, <3>1 DEF Evidence!CallState
  <2> QED BY <1>0, <1>1, <2>1, <2>2, <2>3, <2>4
          DEF EvidenceBase, Evidence!TypeOK, Evidence!CallState, Evidence!Row, Evidence!Record,
              Evidence!Path, Evidence!Bytes, Evidence!Kind, Evidence!Phase, Evidence!Bucket
<1>3. IsFiniteSet(rows')
  <2>1. \/ rows' = rows
        \/ \E b \in Evidence!Bucket : rows' = rows \union {RowOf(c, b)}
    BY DEF CopyStep, Stops, Starts, GoesOn, Skips, Names, Writes, Hashes, Adds, Snapshots, Logs,
           Chains, records
  <2> QED BY <1>0, <2>1, FS_AddElement
<1>4. OneApp'
  BY <1>1 DEF EvidenceBase, OneApp
<1>5. Begun'
  <2>1. Busy(n) => n.id \in 1..calls' /\ (n.id = calls + 1 \/ (Busy(c) /\ n.id = c.id))
    <3>1. Busy(n) => \/ n.id = calls + 1 /\ calls' = calls + 1
                     \/ Busy(c) /\ n.id = c.id
      BY EvidenceIdle
         DEF CopyStep, Stops, Starts, GoesOn, Skips, Names, Writes, Hashes, Adds, Snapshots, Logs,
             Chains, SameCall
    <3>3. Busy(c) => c.id \in 1..calls'
      BY <1>0, <1>1 DEF Evidence!EvidenceConstants
    <3>4. CASE n.id = calls + 1 /\ calls' = calls + 1
      <4>1. calls \in Nat
        BY <1>0 DEF Evidence!EvidenceConstants
      <4> QED BY <3>4, <4>1
    <3>5. CASE Busy(c) /\ n.id = c.id
      BY <3>3, <3>5
    <3> QED BY <3>1, <3>4, <3>5
  <2>2. ~Busy(n) => n = Evidence!Idle
    BY <1>0 DEF CopyStep, Stops, Starts, GoesOn, Skips, Names, Writes, Hashes, Adds, Snapshots,
                Logs, Chains, SameCall, Busy
  <2>3. ASSUME NEW j \in Instance
        PROVE  /\ Busy(call'[j]) => j \in open' /\ call'[j].id \in 1..calls'
               /\ ~Busy(call'[j]) => call'[j] = Evidence!Idle
    <3>1. CASE j = i
      BY <1>1, <2>1, <2>2, <3>1
    <3>2. CASE j # i
      <4>1. /\ Busy(call[j]) => j \in open /\ call[j].id \in 1..calls
            /\ ~Busy(call[j]) => call[j] = Evidence!Idle
        BY DEF EvidenceBase, Begun
      <4>2. open \ {i} \subseteq open'
        BY DEF CopyStep, Stops, Starts, GoesOn, Skips, Names, Writes, Hashes, Adds, Snapshots,
               Logs, Chains
      <4> QED BY <1>0, <1>1, <3>2, <4>1, <4>2
    <3> QED BY <3>1, <3>2
  <2>4. ASSUME NEW j \in Instance \ {i}, Busy(call[j]), Busy(n)
        PROVE  call[j].id # n.id
    <3>1. call[j].id \in 1..calls /\ (Busy(c) => call[j].id # c.id)
      BY <2>4 DEF EvidenceBase, Begun
    <3> QED BY <1>0, <2>1, <2>4, <3>1
  <2>5. \A j, k \in Instance :
          Busy(call'[j]) /\ Busy(call'[k]) /\ j # k => call'[j].id # call'[k].id
    <3>1. TAKE j, k \in Instance
    <3>2. HAVE Busy(call'[j]) /\ Busy(call'[k]) /\ j # k
    <3>3. CASE j = i
      BY <1>1, <2>4, <3>2, <3>3
    <3>4. CASE k = i
      BY <1>1, <2>4, <3>2, <3>4
    <3>5. CASE j # i /\ k # i
      BY <1>1, <3>2, <3>5 DEF EvidenceBase, Begun
    <3> QED BY <3>3, <3>4, <3>5
  <2>6. /\ \A r \in rows' : r.call <= calls'
        /\ \A e \in ledger' \union trail' : e.call <= calls'
    <3>1. Busy(c) => c.id <= calls'
      BY <1>0, <1>1
    <3>2. /\ \A r \in rows' : r \in rows \/ (r.call = c.id /\ Busy(c))
          /\ \A e \in ledger' \union trail' :
               e \in ledger \union trail \/ (e.call = c.id /\ Busy(c))
      BY <1>1, StepGrows DEF Grows, records
    <3>3. /\ \A r \in rows : r.call <= calls' /\ r.call \in Int
          /\ \A e \in ledger \union trail : e.call <= calls' /\ e.call \in Int
      <4>1. /\ \A r \in rows : r.call <= calls /\ r.call \in Int
            /\ \A e \in ledger \union trail : e.call <= calls /\ e.call \in Int
        BY <1>0 DEF EvidenceBase, Begun, Evidence!Row, Evidence!Record
      <4> QED BY <1>0, <1>1, <4>1
    <3> QED BY <3>1, <3>2, <3>3
  <2> QED BY <2>3, <2>5, <2>6 DEF Begun, Busy, Evidence!Idle
<1>6. Within(n)
  <2>1. c.count \in 0..3 /\ None = None
    BY <1>0, BucketFacts DEF Evidence!CallState
  <2>2. CASE n = Evidence!Idle
    BY <2>2, EvidenceIdle
  <2>3. CASE Starts(i, c, n) \/ (Chains(i, c, n) /\ n # Evidence!Idle)
    BY <1>0, <2>3 DEF Starts, Chains, Within, WithFile
  <2>4. CASE Skips(i, c, n) \/ (Adds(i, c, n) /\ n # Evidence!Idle)
    <3>1. PICK b \in Evidence!Bucket :
            /\ n.phase = Evidence!After[b] /\ n.path = None /\ n.count \in 0..4
            /\ \/ c.phase = b /\ n.count = c.count
               \/ /\ n.count = c.count + 1
                  /\ <<c.phase, b>> \in {<<"settings", "settings">>, <<"filing", "logs">>,
                                         <<"network", "network">>}
      BY <1>0, <2>1, <2>4 DEF Skips, Adds, Within, WithFile, Evidence!Bucket, SameCall
    <3>2. b = "settings" => n.phase = "logs" /\ n.count <= 1
      BY <1>0, <2>1, <3>1, BucketFacts DEF Within, WithFile
    <3>3. b = "logs" => n.phase = "network" /\ n.count <= 2
      BY <1>0, <2>1, <3>1, BucketFacts DEF Within, WithFile
    <3>4. b = "network" => n.phase = "snapshot"
      BY <3>1, BucketFacts
    <3> QED BY <3>1, <3>2, <3>3, <3>4 DEF Within, WithFile, Evidence!Bucket
  <2>5. CASE \/ Names(i, c, n) \/ Writes(i, c, n) \/ Hashes(i, c, n) \/ Snapshots(i, c, n)
             \/ Logs(i, c, n)
    BY <1>0, <2>1, <2>5 DEF Names, Writes, Hashes, Snapshots, Logs, Within, WithFile
  <2> QED BY <2>2, <2>3, <2>4, <2>5 DEF CopyStep, Stops, GoesOn
<1>7. \A j \in Instance : Within(call'[j])
  BY <1>1, <1>6 DEF EvidenceBase
<1>8. (\A j \in Instance : Within(call[j]))'
  BY <1>7 DEF Within, WithFile, Evidence!Path
<1> QED BY <1>2, <1>3, <1>4, <1>5, <1>8 DEF EvidenceBase

\* A launch changes nothing but which copies are open.
LEMMA LaunchSteps ==
  ASSUME NEW i \in Instance, Evidence!Launch(i)
  PROVE  /\ open' = open \union {i} /\ shared' = (shared \/ open # {})
         /\ UNCHANGED <<calls, call, files, records>>
BY DEF Evidence!Launch, Evidence!stored, records

LEMMA BaseKeeps ==
  ASSUME EvidenceBase, UNCHANGED <<calls, call, files, records>>,
         open \subseteq open', open' \in SUBSET Instance, shared' \in BOOLEAN, OneApp'
  PROVE  EvidenceBase'
<1>1. Evidence!TypeOK'
  BY DEF EvidenceBase, Evidence!TypeOK, records, Evidence!CallState, Evidence!Row, Evidence!Record,
         Evidence!Path, Evidence!Bytes, Evidence!Kind, Evidence!Phase, Evidence!Bucket
<1>2. Begun'
  BY DEF EvidenceBase, Begun, Busy, records, Evidence!Idle
<1>3. (IsFiniteSet(rows) /\ \A i \in Instance : Within(call[i]))'
  BY DEF EvidenceBase, Within, WithFile, records, Evidence!Path
<1> QED BY <1>1, <1>2, <1>3 DEF EvidenceBase

LEMMA EvidenceBaseNext ==
  ASSUME Evidence!EvidenceConstants, EvidenceBase, [Evidence!Next]_(Evidence!vars)
  PROVE  EvidenceBase'
<1>1. CASE UNCHANGED <<open, shared, calls, call, files, records>>
  <2>1. OneApp' /\ open' \in SUBSET Instance /\ shared' \in BOOLEAN
    BY <1>1 DEF EvidenceBase, OneApp, Evidence!TypeOK
  <2> QED BY <1>1, <2>1, BaseKeeps
<1>2. ASSUME NEW i \in Instance, Evidence!Launch(i)
      PROVE  EvidenceBase'
  <2>1. /\ open' = open \union {i} /\ shared' = (shared \/ open # {})
        /\ UNCHANGED <<calls, call, files, records>>
    BY <1>2, LaunchSteps
  <2>2. OneApp'
    BY <2>1 DEF OneApp
  <2>3. open' \in SUBSET Instance /\ shared' \in BOOLEAN
    BY <2>1 DEF EvidenceBase, Evidence!TypeOK
  <2> QED BY <2>1, <2>2, <2>3, BaseKeeps
<1> QED BY <1>1, <1>2, EvidenceMoves, EvidenceBaseStep

LEMMA AlwaysEvidenceBase ==
  ASSUME Evidence!EvidenceConstants
  PROVE  Evidence!Spec => []EvidenceBase
BY EvidenceBaseInit, EvidenceBaseNext, PTL DEF Evidence!Spec

(***************************************************************************)
(* The rows, the files, the three records and the calls under way keep     *)
(* their types.  A file always has a name that was free when it was chosen *)
(* and a collection never counts more items than there are buckets.        *)
(***************************************************************************)
THEOREM EvidenceTypes ==
  ASSUME Evidence!EvidenceConstants
  PROVE  Evidence!Spec => []Evidence!TypeOK
<1>1. EvidenceBase => Evidence!TypeOK
  BY DEF EvidenceBase
<1> QED BY <1>1, AlwaysEvidenceBase, PTL

-----------------------------------------------------------------------------
\* The file of a call under way is as far as the call says.
FileKept(c) ==
  /\ c.phase \in {"hashing", "filing"} => files[c.path] # None
  /\ ~shared => /\ c.phase = "writing" => files[c.path] = None
                /\ c.phase = "hashing" => files[c.path] = c.id
                /\ c.phase = "filing" => files[c.path] = c.id /\ c.hash = c.id

FilesInv == Evidence!RowsKeepTheirFiles /\ \A i \in Instance : FileKept(call[i])

LEMMA FilesInit ==
  ASSUME Evidence!EvidenceConstants, Evidence!Init
  PROVE  FilesInv
<1>1. Evidence!Idle.phase = "settings"
  BY DEF Evidence!Idle
<1> QED BY <1>1 DEF Evidence!Init, FilesInv, Evidence!RowsKeepTheirFiles, FileKept

LEMMA FilesStay ==
  ASSUME FilesInv, UNCHANGED <<call, files, rows>>, shared => shared'
  PROVE  FilesInv'
BY DEF FilesInv, Evidence!RowsKeepTheirFiles, FileKept

\* Nobody else is at work, as long as one copy is open at a time.
LEMMA Alone ==
  ASSUME EvidenceBase, ~shared, NEW i \in open, NEW j \in Instance \ {i}
  PROVE  call[j] = Evidence!Idle
BY DEF EvidenceBase, OneApp, Begun

LEMMA FilesStep ==
  ASSUME Evidence!EvidenceConstants, EvidenceBase, FilesInv, NEW i \in Instance,
         NEW n \in Evidence!CallState, CopyStep(i, n)
  PROVE  FilesInv'
<1> DEFINE c == call[i]
<1>0. /\ files \in [Evidence!Path -> Evidence!Bytes] /\ rows \in SUBSET Evidence!Row
      /\ Busy(c) => i \in open /\ c.id \in Int
      /\ Within(c) /\ FileKept(c) /\ c \in Evidence!CallState
      /\ \A r \in rows : r.path # None => r.path \in Evidence!Path /\ files[r.path] # None
      /\ \A r \in rows : r.path # None /\ ~shared => files[r.path] = r.call /\ r.hash = r.call
  BY DEF EvidenceBase, Evidence!TypeOK, Begun, FilesInv, Evidence!RowsKeepTheirFiles, Evidence!Row
<1>1. /\ call'[i] = n /\ \A j \in Instance \ {i} : call'[j] = call[j]
      /\ shared' = shared
      /\ \A p \in Evidence!Path : files[p] # None => files'[p] # None
  BY StepGrows DEF Grows
<1>2. \/ files' = files
      \/ /\ Busy(c) /\ c.phase = "writing" /\ c.path \in Evidence!Path
         /\ \A p \in Evidence!Path \ {c.path} : files'[p] = files[p]
  BY <1>0 DEF CopyStep, Stops, Starts, GoesOn, Skips, Names, Writes, Hashes, Adds, Snapshots, Logs,
              Chains, Within, WithFile
\* One copy open: a file that is there stays as it is.
<1>3. ~shared => \A p \in Evidence!Path : files[p] # None => files'[p] = files[p]
  BY <1>0, <1>2 DEF FileKept
<1>4. Evidence!RowsKeepTheirFiles'
  <2>1. SUFFICES ASSUME NEW r \in rows', r.path # None
                 PROVE  /\ files'[r.path] # None
                        /\ ~shared => files'[r.path] = r.call /\ r.hash = r.call
    BY <1>1 DEF Evidence!RowsKeepTheirFiles
  <2>2. CASE r \in rows
    BY <1>0, <1>1, <1>3, <2>1, <2>2
  <2>3. CASE r \notin rows
    <3>1. PICK b \in Evidence!Bucket :
            /\ Busy(c) /\ r = RowOf(c, b) /\ files' = files
            /\ c.phase \in {"settings", "filing", "network"}
      BY <2>3 DEF CopyStep, Stops, Starts, GoesOn, Skips, Names, Writes, Hashes, Adds, Snapshots,
                  Logs, Chains, records
    <3>2. r.path = c.path /\ r.call = c.id /\ r.hash = c.hash
      BY <3>1, RowOfType
    <3>3. c.phase = "filing"
      BY <1>0, <2>1, <3>1, <3>2 DEF Within, WithFile
    <3> QED BY <1>0, <3>1, <3>2, <3>3 DEF FileKept
  <2> QED BY <2>2, <2>3
<1>5. ASSUME NEW j \in Instance \ {i}
      PROVE  FileKept(call[j])'
  <2>1. FileKept(call[j]) /\ call'[j] = call[j] /\ Within(call[j])
    BY <1>1 DEF FilesInv, EvidenceBase
  <2>2. call[j].phase \in {"hashing", "filing"} => files'[call[j].path] # None
    BY <1>1, <2>1 DEF FileKept, Within, WithFile
  <2>3. CASE files' = files
    BY <1>1, <2>1, <2>3 DEF FileKept
  <2>4. CASE Busy(c) /\ ~shared
    <3>1. call[j].phase = "settings"
      BY <1>0, <2>4, Alone DEF Evidence!Idle
    <3> QED BY <2>1, <3>1 DEF FileKept
  <2>5. CASE shared
    BY <1>1, <2>1, <2>2, <2>5 DEF FileKept
  <2> QED BY <1>2, <2>3, <2>4, <2>5
<1>6. FileKept(n)'
  <2>1. CASE n.phase \notin WithFile
    BY <2>1 DEF FileKept, WithFile
  <2>2. CASE n.phase \in WithFile
    <3>1. Evidence!Idle.phase = "settings"
      BY DEF Evidence!Idle
    <3>2. /\ Evidence!After["settings"] = "logs" /\ Evidence!After["logs"] = "network"
          /\ Evidence!After["network"] = "snapshot"
      BY BucketFacts
    <3>3. GoesOn(i, c, n) /\ (Names(i, c, n) \/ Writes(i, c, n) \/ Hashes(i, c, n))
      BY <2>2, <3>1, <3>2
         DEF CopyStep, Stops, Starts, GoesOn, Skips, Adds, Snapshots, Logs, Chains, WithFile,
             Evidence!Bucket
    <3>4. CASE Names(i, c, n)
      BY <1>1, <3>4 DEF Names, FileKept
    <3>5. CASE Writes(i, c, n)
      <4>1. c.path \in Evidence!Path /\ n.path = c.path /\ n.id = c.id /\ n.phase = "hashing"
            /\ files'[c.path] = c.id /\ c.id # None
        BY <1>0, <3>3, <3>5 DEF Writes, Within, WithFile, SameCall, GoesOn, Evidence!EvidenceConstants
      <4> QED BY <4>1 DEF FileKept
    <3>6. CASE Hashes(i, c, n)
      BY <1>0, <1>1, <3>6 DEF Hashes, FileKept, SameCall
    <3> QED BY <3>3, <3>4, <3>5, <3>6
  <2> QED BY <2>1, <2>2
<1> QED BY <1>1, <1>4, <1>5, <1>6 DEF FilesInv

LEMMA FilesNext ==
  ASSUME Evidence!EvidenceConstants, EvidenceBase, FilesInv, [Evidence!Next]_(Evidence!vars)
  PROVE  FilesInv'
<1>1. ASSUME NEW i \in Instance, Evidence!Launch(i)
      PROVE  FilesInv'
  BY <1>1, LaunchSteps, FilesStay DEF records
<1>2. CASE UNCHANGED <<open, shared, calls, call, files, records>>
  BY <1>2, FilesStay DEF records
<1> QED BY <1>1, <1>2, EvidenceMoves, FilesStep

(***************************************************************************)
(* No row loses its file, and with one copy of the app at a time the file  *)
(* holds the very bytes that were collected and hashed: for any number of  *)
(* names, of numbers behind them and of calls, whichever of them fail or   *)
(* are killed half-way through writing a file.                             *)
(***************************************************************************)
THEOREM RowsKeepFiles ==
  ASSUME Evidence!EvidenceConstants
  PROVE  Evidence!Spec => []RowsKeepTheirFiles
<1>1. FilesInv => RowsKeepTheirFiles
  BY DEF FilesInv, RowsKeepTheirFiles
<1> QED BY <1>1, AlwaysEvidenceBase, FilesInit, FilesNext, PTL DEF Evidence!Spec

-----------------------------------------------------------------------------
\* What is stored of a call, in given rows R, ledger L, trail T and snapshots S.
RowsOf(R, k, f) == {r \in R : r.call = k /\ r.framework = f}
Accounted(L, k, f) == \E e \in L : e.call = k /\ e.framework = f

\* The buckets that are behind a collection.
Done(phase) == IF phase = "settings" THEN {}
               ELSE IF phase \in WithFile \union {"logs"} THEN {"settings"}
               ELSE IF phase = "network" THEN {"settings", "logs"} ELSE Evidence!Bucket

\* What a call under way has stored: rows of the framework it has come to, from
\* the buckets behind it and as many as it counts; and for every framework
\* before, its entry.
RowsSoFar(c, R, L) ==
  /\ c.count = Cardinality(RowsOf(R, c.id, c.framework))
  /\ \A r \in R : r.call = c.id =>
       /\ r.framework <= c.framework
       /\ r.framework = c.framework => r.bucket \in Done(c.phase)
       /\ r.framework < c.framework => Accounted(L, c.id, r.framework)
EntriesSoFar(c, L, T, S) ==
  /\ \A e \in L \union T : e.call = c.id =>
       /\ e.framework <= c.framework
       /\ e.framework = c.framework => c.phase = "trail"
  /\ c.phase \in {"ledger", "trail"} => <<c.id, c.framework>> \in S
  /\ c.phase = "trail" => Evidence!RecordOf(c) \in L

EntryOK(e, R, S) == /\ <<e.call, e.framework>> \in S
                    /\ e.count = Cardinality(RowsOf(R, e.call, e.framework))

\* Rows of a framework without an entry are of the last one the call came to.
RowsOK(R, L) ==
  \A r \in R, s \in R :
    r.call = s.call /\ s.collected /\ ~Accounted(L, s.call, s.framework)
      => r.framework <= s.framework

RecordsInv ==
  /\ \A e \in ledger \union trail : EntryOK(e, rows, snapshots)
  /\ RowsOK(rows, ledger)
  /\ \A i \in Instance : Busy(call[i]) => /\ RowsSoFar(call[i], rows, ledger)
                                          /\ EntriesSoFar(call[i], ledger, trail, snapshots)

LEMMA RecordsMatch == RecordsInv => Evidence!RecordsMatchRows
<1> SUFFICES ASSUME RecordsInv PROVE Evidence!RecordsMatchRows
  OBVIOUS
<1>1. \A e \in ledger \union trail :
        /\ <<e.call, e.framework>> \in snapshots
        /\ e.count = Evidence!Cardinality({r \in rows : r.call = e.call /\ r.framework = e.framework})
  BY SameCount DEF RecordsInv, EntryOK, RowsOf
<1>2. ASSUME NEW r \in rows, NEW f \in Evidence!Unaccounted(r.call)
      PROVE  r.framework <= f
  <2>1. /\ \E s \in rows : s.call = r.call /\ s.framework = f /\ s.collected
        /\ \A e \in ledger : <<e.call, e.framework>> # <<r.call, f>>
    BY <1>2 DEF Evidence!Unaccounted
  <2>2. PICK s \in rows : s.call = r.call /\ s.framework = f /\ s.collected
    BY <2>1
  <2>3. ~Accounted(ledger, s.call, s.framework)
    BY <2>1, <2>2 DEF Accounted
  <2> QED BY <2>2, <2>3 DEF RecordsInv, RowsOK
<1> QED BY <1>1, <1>2 DEF Evidence!RecordsMatchRows

LEMMA RecordsInit ==
  ASSUME Evidence!EvidenceConstants, Evidence!Init
  PROVE  RecordsInv
BY EvidenceIdle DEF Evidence!Init, RecordsInv, RowsOK

LEMMA RecordsStay ==
  ASSUME RecordsInv, UNCHANGED <<call, records>>
  PROVE  RecordsInv'
BY DEF RecordsInv, records, EntryOK, RowsOK, RowsSoFar, EntriesSoFar, RowsOf, Accounted, Done,
       Busy, WithFile, Evidence!RecordOf, Evidence!Bucket

\* Types, as far as the numbers need them.
LEMMA RecordTypes ==
  ASSUME EvidenceBase
  PROVE  /\ \A r \in rows : r.call \in Int /\ r.framework \in Int
         /\ \A e \in ledger \union trail : e.call \in Int /\ e.framework \in Int
         /\ \A i \in Instance : call[i].framework \in Int /\ call[i].id \in Int
         /\ \A k, f : /\ IsFiniteSet(RowsOf(rows, k, f))
                      /\ Cardinality(RowsOf(rows, k, f)) \in Nat
<1>1. /\ rows \in SUBSET Evidence!Row /\ ledger \in SUBSET Evidence!Record
      /\ trail \in SUBSET Evidence!Record /\ call \in [Instance -> Evidence!CallState]
      /\ IsFiniteSet(rows)
  BY DEF EvidenceBase, Evidence!TypeOK
<1>2. \A k, f : IsFiniteSet(RowsOf(rows, k, f)) /\ Cardinality(RowsOf(rows, k, f)) \in Nat
  <2>1. \A k, f : RowsOf(rows, k, f) \subseteq rows
    BY DEF RowsOf
  <2> QED BY <1>1, <2>1, FS_Subset, FS_CardinalityType
<1> QED BY <1>1, <1>2 DEF Evidence!Row, Evidence!Record, Evidence!CallState

\* What is stored of other calls stays what it is.
LEMMA OthersStay ==
  ASSUME Evidence!EvidenceConstants, EvidenceBase, NEW i \in Instance, NEW n \in Evidence!CallState,
         CopyStep(i, n), NEW k, Busy(call[i]) => k # call[i].id
  PROVE  /\ \A f : RowsOf(rows', k, f) = RowsOf(rows, k, f)
         /\ \A r \in rows' : r.call = k => r \in rows
         /\ \A e \in ledger' \union trail' : e.call = k => e \in ledger \union trail
         /\ \A f : Accounted(ledger, k, f) => Accounted(ledger', k, f)
<1>1. Grows(i) /\ (UNCHANGED records \/ Busy(call[i]))
  BY StepGrows
<1>2. /\ \A r \in rows' : r.call = k => r \in rows
      /\ \A e \in ledger' \union trail' : e.call = k => e \in ledger \union trail
      /\ rows \subseteq rows' /\ ledger \subseteq ledger'
  BY <1>1 DEF Grows, records
<1>3. \A f : RowsOf(rows', k, f) = RowsOf(rows, k, f)
  BY <1>2 DEF RowsOf
<1>4. \A f : Accounted(ledger, k, f) => Accounted(ledger', k, f)
  BY <1>2 DEF Accounted
<1> QED BY <1>2, <1>3, <1>4

LEMMA OthersOnRecord ==
  ASSUME Evidence!EvidenceConstants, EvidenceBase, RecordsInv, NEW i \in Instance,
         NEW n \in Evidence!CallState, CopyStep(i, n), NEW j \in Instance \ {i}, Busy(call[j])
  PROVE  /\ RowsSoFar(call[j], rows', ledger')
         /\ EntriesSoFar(call[j], ledger', trail', snapshots')
<1> DEFINE c == call[j]
<1>1. /\ RowsSoFar(c, rows, ledger) /\ EntriesSoFar(c, ledger, trail, snapshots)
      /\ Grows(i)
  BY StepGrows DEF RecordsInv
<1>2. Busy(call[i]) => c.id # call[i].id
  BY DEF EvidenceBase, Begun
<1>3. /\ \A f : RowsOf(rows', c.id, f) = RowsOf(rows, c.id, f)
      /\ \A r \in rows' : r.call = c.id => r \in rows
      /\ \A e \in ledger' \union trail' : e.call = c.id => e \in ledger \union trail
      /\ \A f : Accounted(ledger, c.id, f) => Accounted(ledger', c.id, f)
  BY <1>2, OthersStay
<1>4. ledger \subseteq ledger' /\ snapshots \subseteq snapshots'
  BY <1>1 DEF Grows
<1> HIDE DEF c
<1>5. RowsSoFar(c, rows', ledger')
  BY <1>1, <1>3 DEF RowsSoFar
<1>6. EntriesSoFar(c, ledger', trail', snapshots')
  BY <1>1, <1>3, <1>4 DEF EntriesSoFar
<1> QED BY <1>5, <1>6 DEF c

\* A call that starts has stored nothing.
LEMMA StartsOnRecord ==
  ASSUME Evidence!EvidenceConstants, EvidenceBase, NEW i \in Instance, NEW n \in Evidence!CallState,
         Starts(i, call[i], n)
  PROVE  RowsSoFar(n, rows', ledger') /\ EntriesSoFar(n, ledger', trail', snapshots')
<1>1. /\ n.id = calls + 1 /\ n.count = 0 /\ n.phase \in {"settings", "logs"}
      /\ rows' = rows /\ ledger' = ledger /\ trail' = trail
  BY DEF Starts, records
<1>2. /\ \A r \in rows : r.call # n.id
      /\ \A e \in ledger \union trail : e.call # n.id
  <2>1. calls \in Int
    BY DEF EvidenceBase, Evidence!TypeOK
  <2> QED BY <1>1, <2>1, RecordTypes DEF EvidenceBase, Begun
<1>3. RowsOf(rows, n.id, n.framework) = {}
  BY <1>2 DEF RowsOf
<1> QED BY <1>1, <1>2, <1>3, FS_EmptySet DEF RowsSoFar, EntriesSoFar

LEMMA DoneGrows ==
  ASSUME NEW b \in Evidence!Bucket
  PROVE  /\ Done(b) \union {b} \subseteq Done(Evidence!After[b]) /\ b \notin Done(b)
         /\ Evidence!After[b] \notin {"ledger", "trail"}
         /\ Done("filing") = Done("logs")
BY BucketFacts DEF Done, WithFile, Evidence!Bucket

\* A step that stores no row and no entry.
LEMMA MovesOnRecord ==
  ASSUME NEW c, NEW n, NEW R, NEW L, NEW T, NEW S, NEW S2,
         RowsSoFar(c, R, L), EntriesSoFar(c, L, T, S),
         SameCall(c, n), n.count = c.count, Done(c.phase) \subseteq Done(n.phase),
         c.phase # "trail", n.phase # "trail",
         n.phase = "ledger" => <<c.id, c.framework>> \in S2
  PROVE  RowsSoFar(n, R, L) /\ EntriesSoFar(n, L, T, S2)
BY DEF RowsSoFar, EntriesSoFar, SameCall

LEMMA AddsOnRecord ==
  ASSUME Evidence!EvidenceConstants, EvidenceBase, RecordsInv, NEW i \in Instance,
         NEW n \in Evidence!CallState, Busy(call[i]), Adds(i, call[i], n), Busy(n)
  PROVE  RowsSoFar(n, rows', ledger') /\ EntriesSoFar(n, ledger', trail', snapshots')
<1> DEFINE c == call[i]
<1>1. PICK b \in Evidence!Bucket :
        /\ <<c.phase, b>> \in {<<"settings", "settings">>, <<"filing", "logs">>,
                               <<"network", "network">>}
        /\ rows' = rows \union {RowOf(c, b)}
        /\ SameCall(c, n) /\ n.count = c.count + 1 /\ n.phase = Evidence!After[b]
        /\ UNCHANGED <<snapshots, ledger, trail>>
  BY EvidenceIdle DEF Adds
<1>2. /\ RowOf(c, b).call = c.id /\ RowOf(c, b).framework = c.framework /\ RowOf(c, b).bucket = b
  BY RowOfType
<1>3. RowsSoFar(c, rows, ledger) /\ EntriesSoFar(c, ledger, trail, snapshots)
  BY DEF RecordsInv
<1>4. /\ Done(c.phase) = Done(b) /\ c.phase # "trail"
      /\ Done(b) \union {b} \subseteq Done(n.phase) /\ b \notin Done(b)
      /\ n.phase \notin {"ledger", "trail"}
  BY <1>1, DoneGrows DEF Evidence!Bucket
<1>5. /\ IsFiniteSet(RowsOf(rows, c.id, c.framework))
      /\ c.framework \in Int
  BY RecordTypes
<1> DEFINE row == RowOf(c, b)
<1> HIDE DEF c, row
<1>6. RowsOf(rows', c.id, c.framework) = RowsOf(rows, c.id, c.framework) \union {row}
  BY <1>1, <1>2 DEF RowsOf, row
<1>7. row \notin RowsOf(rows, c.id, c.framework)
  BY <1>2, <1>3, <1>4 DEF RowsOf, RowsSoFar, row
<1>8. n.count = Cardinality(RowsOf(rows', n.id, n.framework))
  <2>1. Cardinality(RowsOf(rows', c.id, c.framework)) = c.count + 1
    BY <1>3, <1>5, <1>6, <1>7, FS_AddElement DEF RowsSoFar
  <2> QED BY <1>1, <2>1 DEF SameCall
<1>9. ASSUME NEW r \in rows', r.call = n.id
      PROVE  /\ r.framework <= n.framework
             /\ r.framework = n.framework => r.bucket \in Done(n.phase)
             /\ r.framework < n.framework => Accounted(ledger', n.id, r.framework)
  <2>1. CASE r \in rows
    BY <1>1, <1>3, <1>4, <1>9, <2>1 DEF RowsSoFar, SameCall
  <2>2. CASE r = row
    BY <1>1, <1>2, <1>4, <1>5, <2>2 DEF SameCall, row
  <2> QED BY <1>1, <2>1, <2>2 DEF row
<1>10. EntriesSoFar(n, ledger', trail', snapshots')
  BY <1>1, <1>3, <1>4 DEF EntriesSoFar, SameCall
<1> QED BY <1>8, <1>9, <1>10 DEF RowsSoFar

LEMMA GoesOnRecord ==
  ASSUME Evidence!EvidenceConstants, EvidenceBase, RecordsInv, NEW i \in Instance,
         NEW n \in Evidence!CallState, GoesOn(i, call[i], n), Busy(n)
  PROVE  RowsSoFar(n, rows', ledger') /\ EntriesSoFar(n, ledger', trail', snapshots')
<1> DEFINE c == call[i]
<1>0. /\ Busy(c) /\ n # Evidence!Idle
      /\ RowsSoFar(c, rows, ledger) /\ EntriesSoFar(c, ledger, trail, snapshots)
  BY EvidenceIdle DEF GoesOn, RecordsInv
<1>1. CASE Skips(i, c, n)
  <2>1. PICK b \in Evidence!Bucket : c.phase = b /\ n.phase = Evidence!After[b]
    BY <1>1 DEF Skips
  <2>2. Done(c.phase) \subseteq Done(n.phase) /\ n.phase \notin {"ledger", "trail"}
        /\ c.phase # "trail"
    BY <2>1, DoneGrows DEF Evidence!Bucket
  <2>3. SameCall(c, n) /\ n.count = c.count /\ UNCHANGED records
    BY <1>1 DEF Skips
  <2> QED BY <1>0, <2>2, <2>3, MovesOnRecord DEF records
<1>2. CASE Names(i, c, n) \/ Writes(i, c, n) \/ Hashes(i, c, n)
  <2>1. Done(c.phase) = Done(n.phase) /\ n.phase \notin {"ledger", "trail"} /\ c.phase # "trail"
    BY <1>2 DEF Names, Writes, Hashes, Done, WithFile
  <2>2. SameCall(c, n) /\ n.count = c.count /\ UNCHANGED records
    BY <1>2 DEF Names, Writes, Hashes
  <2> QED BY <1>0, <2>1, <2>2, MovesOnRecord DEF records
<1>3. CASE Adds(i, c, n)
  BY <1>0, <1>3, AddsOnRecord
<1>4. CASE Snapshots(i, c, n)
  <2>1. Done(c.phase) = Done(n.phase) /\ n.phase = "ledger" /\ c.phase = "snapshot"
    BY <1>4 DEF Snapshots, Done, WithFile
  <2>2. /\ SameCall(c, n) /\ n.count = c.count /\ UNCHANGED <<rows, ledger, trail>>
        /\ <<c.id, c.framework>> \in snapshots'
    BY <1>4 DEF Snapshots
  <2> QED BY <1>0, <2>1, <2>2, MovesOnRecord
<1>5. CASE Logs(i, c, n)
  <2>1. /\ c.phase = "ledger" /\ n.phase = "trail" /\ SameCall(c, n) /\ n.count = c.count
        /\ ledger' = ledger \union {Evidence!RecordOf(c)}
        /\ UNCHANGED <<rows, snapshots, trail>>
    BY <1>5 DEF Logs
  <2>2. /\ Evidence!RecordOf(n) = Evidence!RecordOf(c)
        /\ Evidence!RecordOf(c).framework = c.framework
    BY <2>1 DEF SameCall, Evidence!RecordOf
  <2>3. Done(c.phase) = Done(n.phase)
    BY <2>1 DEF Done, WithFile
  <2>4. \A k, f : Accounted(ledger, k, f) => Accounted(ledger', k, f)
    BY <2>1 DEF Accounted
  <2>5. c.framework \in Int
    BY RecordTypes
  <2> HIDE DEF c
  <2>6. RowsSoFar(n, rows', ledger')
    BY <1>0, <2>1, <2>3, <2>4 DEF RowsSoFar, SameCall
  <2>7. EntriesSoFar(n, ledger', trail', snapshots')
    BY <1>0, <2>1, <2>2, <2>5 DEF EntriesSoFar, SameCall
  <2> QED BY <2>6, <2>7
<1>6. CASE Chains(i, c, n)
  <2>1. /\ c.phase = "trail" /\ n.phase = "settings" /\ n.id = c.id /\ n.count = 0
        /\ n.framework = c.framework + 1
        /\ trail' \subseteq trail \union {Evidence!RecordOf(c)}
        /\ UNCHANGED <<rows, snapshots, ledger>>
    BY <1>0, <1>6 DEF Chains
  <2>2. /\ Evidence!RecordOf(c).framework = c.framework /\ Evidence!RecordOf(c).call = c.id
    BY DEF Evidence!RecordOf
  <2>3. /\ c.framework \in Int /\ \A r \in rows : r.framework \in Int
        /\ \A e \in ledger \union trail : e.framework \in Int
    BY RecordTypes
  <2> HIDE DEF c
  <2>4. \A r \in rows : r.call = n.id => r.framework <= c.framework
    BY <1>0, <2>1 DEF RowsSoFar
  <2>5. Accounted(ledger, c.id, c.framework)
    BY <1>0, <2>1, <2>2 DEF EntriesSoFar, Accounted
  <2>6. RowsOf(rows, n.id, n.framework) = {}
    BY <2>1, <2>3, <2>4 DEF RowsOf
  <2>7. RowsSoFar(n, rows', ledger')
    <3>1. \A r \in rows : r.call = n.id =>
            r.framework < n.framework /\ Accounted(ledger, n.id, r.framework)
      BY <1>0, <2>1, <2>3, <2>4, <2>5 DEF RowsSoFar
    <3>2. n.framework \in Int
      BY <2>1, <2>3
    <3>3. \A r \in rows : r.call = n.id =>
            r.framework <= n.framework /\ r.framework # n.framework
      BY <2>3, <3>1, <3>2
    <3>4. n.count = Cardinality(RowsOf(rows, n.id, n.framework))
      BY <2>1, <2>6, FS_EmptySet
    <3> QED BY <2>1, <3>1, <3>3, <3>4 DEF RowsSoFar
  <2>8. EntriesSoFar(n, ledger', trail', snapshots')
    <3>1. ASSUME NEW e \in ledger' \union trail', e.call = n.id
          PROVE  e.framework <= c.framework /\ e.framework \in Int
      <4>1. CASE e \in ledger \union trail
        BY <1>0, <2>1, <2>3, <3>1, <4>1 DEF EntriesSoFar
      <4>2. CASE e = Evidence!RecordOf(c)
        BY <2>2, <2>3, <4>2
      <4> QED BY <2>1, <4>1, <4>2
    <3> QED BY <2>1, <2>3, <3>1 DEF EntriesSoFar
  <2> QED BY <2>7, <2>8
<1> QED BY <1>1, <1>2, <1>3, <1>4, <1>5, <1>6 DEF GoesOn

\* The entries that are there keep the rows they speak of.
LEMMA EntriesKeep ==
  ASSUME Evidence!EvidenceConstants, EvidenceBase, RecordsInv, NEW i \in Instance,
         NEW n \in Evidence!CallState, CopyStep(i, n), NEW e \in ledger' \union trail'
  PROVE  EntryOK(e, rows', snapshots')
<1> DEFINE c == call[i]
<1>0. Busy(c) => RowsSoFar(c, rows, ledger) /\ EntriesSoFar(c, ledger, trail, snapshots)
  BY DEF RecordsInv
<1>1. snapshots \subseteq snapshots' /\ (UNCHANGED records \/ Busy(c))
  BY StepGrows DEF Grows
<1>2. CASE Busy(c) => e.call # c.id
  <2>1. /\ \A f : RowsOf(rows', e.call, f) = RowsOf(rows, e.call, f)
        /\ e \in ledger \union trail
    BY <1>2, OthersStay
  <2> QED BY <1>1, <2>1 DEF RecordsInv, EntryOK
<1>3. CASE Busy(c) /\ e.call = c.id
  <2>1. CASE e \in ledger \union trail
    <3>1. CASE rows' = rows
      BY <1>1, <2>1, <3>1 DEF RecordsInv, EntryOK
    <3>2. CASE rows' # rows
      <4>1. PICK b \in Evidence!Bucket :
              /\ rows' = rows \union {RowOf(c, b)} /\ c.phase \in {"settings", "filing", "network"}
        BY <3>2 DEF CopyStep, Stops, Starts, GoesOn, Skips, Names, Writes, Hashes, Adds, Snapshots,
                    Logs, Chains, records
      <4>2. e.framework # c.framework
        BY <1>0, <1>3, <2>1, <4>1 DEF EntriesSoFar
      <4>3. RowOf(c, b).framework = c.framework
        BY <1>3, RowOfType
      <4>4. RowsOf(rows', e.call, e.framework) = RowsOf(rows, e.call, e.framework)
        BY <4>1, <4>2, <4>3 DEF RowsOf
      <4> QED BY <1>1, <2>1, <4>4 DEF RecordsInv, EntryOK
    <3> QED BY <3>1, <3>2
  <2>2. CASE e \notin ledger \union trail
    <3>1. /\ e = Evidence!RecordOf(c) /\ c.phase \in {"ledger", "trail"} /\ rows' = rows
      BY <2>2 DEF CopyStep, Stops, Starts, GoesOn, Skips, Names, Writes, Hashes, Adds, Snapshots,
                  Logs, Chains, records
    <3>2. e.call = c.id /\ e.framework = c.framework /\ e.count = c.count
      BY <1>3, <3>1, RecordOfType
    <3> QED BY <1>0, <1>1, <1>3, <3>1, <3>2 DEF RowsSoFar, EntriesSoFar, EntryOK
  <2> QED BY <2>1, <2>2
<1> QED BY <1>2, <1>3

LEMMA RowsKeepEntries ==
  ASSUME Evidence!EvidenceConstants, EvidenceBase, RecordsInv, NEW i \in Instance,
         NEW n \in Evidence!CallState, CopyStep(i, n)
  PROVE  RowsOK(rows', ledger')
<1> DEFINE c == call[i]
<1>1. SUFFICES ASSUME NEW r \in rows', NEW s \in rows', r.call = s.call, s.collected,
                      ~Accounted(ledger', s.call, s.framework)
               PROVE  r.framework <= s.framework
  BY DEF RowsOK
<1>2. CASE Busy(c) => s.call # c.id
  <2>1. r \in rows /\ s \in rows /\ ~Accounted(ledger, s.call, s.framework)
    BY <1>1, <1>2, OthersStay
  <2> QED BY <1>1, <2>1 DEF RecordsInv, RowsOK
<1>3. CASE Busy(c) /\ s.call = c.id
  <2>1. RowsSoFar(c, rows, ledger) /\ c.framework \in Int /\ \A q \in rows : q.framework \in Int
    BY <1>3, RecordTypes DEF RecordsInv
  <2>2. \A q \in rows' \ rows : q.framework = c.framework
    <3>1. \/ rows' = rows
          \/ \E b \in Evidence!Bucket : rows' = rows \union {RowOf(c, b)}
      BY DEF CopyStep, Stops, Starts, GoesOn, Skips, Names, Writes, Hashes, Adds, Snapshots, Logs,
             Chains, records
    <3> QED BY <1>3, <3>1, RowOfType
  <2>3. \A f : Accounted(ledger, c.id, f) => Accounted(ledger', c.id, f)
    <3>1. ledger \subseteq ledger'
      BY StepGrows DEF Grows
    <3> QED BY <3>1 DEF Accounted
  <2> HIDE DEF c
  <2>4. r.framework <= c.framework /\ r.framework \in Int
    BY <1>1, <1>3, <2>1, <2>2 DEF RowsSoFar
  <2>5. s.framework = c.framework
    BY <1>1, <1>3, <2>1, <2>2, <2>3 DEF RowsSoFar
  <2> QED BY <2>1, <2>4, <2>5
<1> QED BY <1>2, <1>3

LEMMA RecordsStep ==
  ASSUME Evidence!EvidenceConstants, EvidenceBase, RecordsInv, NEW i \in Instance,
         NEW n \in Evidence!CallState, CopyStep(i, n)
  PROVE  RecordsInv'
<1>1. call'[i] = n /\ \A j \in Instance \ {i} : call'[j] = call[j]
  BY StepGrows
<1>2. ASSUME NEW j \in Instance, Busy(call'[j])
      PROVE  /\ RowsSoFar(call'[j], rows', ledger')
             /\ EntriesSoFar(call'[j], ledger', trail', snapshots')
  <2>1. CASE j # i
    BY <1>1, <1>2, <2>1, OthersOnRecord
  <2>2. CASE j = i
    BY <1>1, <1>2, <2>2, StartsOnRecord, GoesOnRecord, EvidenceIdle DEF CopyStep, Stops
  <2> QED BY <2>1, <2>2
<1>3. \A e \in ledger' \union trail' : EntryOK(e, rows', snapshots')
  BY EntriesKeep
<1>4. RowsOK(rows', ledger')
  BY RowsKeepEntries
<1> QED BY <1>2, <1>3, <1>4
        DEF RecordsInv, EntryOK, RowsOK, RowsSoFar, EntriesSoFar, RowsOf, Accounted, Done, Busy,
            WithFile, Evidence!RecordOf, Evidence!Bucket

LEMMA RecordsNext ==
  ASSUME Evidence!EvidenceConstants, EvidenceBase, RecordsInv, [Evidence!Next]_(Evidence!vars)
  PROVE  RecordsInv'
<1>1. ASSUME NEW i \in Instance, Evidence!Launch(i)
      PROVE  RecordsInv'
  BY <1>1, LaunchSteps, RecordsStay
<1> QED BY <1>1, RecordsStay, EvidenceMoves, RecordsStep

(***************************************************************************)
(* Every entry of the ledger and of the trail has its snapshot and exactly *)
(* the rows it counts, and at most the last framework a run came to has    *)
(* rows without an entry: for any number of copies of the app, calls and   *)
(* frameworks, although nothing of it is one transaction.  What carries it *)
(* is that a call under way has stored neither more nor less than what it  *)
(* has counted (RowsSoFar).                                                *)
(***************************************************************************)
THEOREM RecordsAreMatched ==
  ASSUME Evidence!EvidenceConstants
  PROVE  Evidence!Spec => []RecordsMatchRows
BY RecordsMatch, AlwaysEvidenceBase, RecordsInit, RecordsNext, PTL DEF Evidence!Spec, RecordsMatchRows
=============================================================================
