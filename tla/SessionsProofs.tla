--------------------------- MODULE SessionsProofs ---------------------------
(***************************************************************************)
(* Theorems about Sessions, for any number of requests, addresses, users   *)
(* and tokens.                                                             *)
(*                                                                         *)
(* The types and the owners of the tokens hold for any number of workers,  *)
(* from AInv: a user id is handed out once, and the id that a request      *)
(* carries can only be the id of the address it carries (GoodCall).  What  *)
(* rotation promises is stated for one worker and holds from LInv: at most *)
(* one request holds the event loop (Loop), so that the token it is about  *)
(* to rotate is still live (Rotating).                                     *)
(***************************************************************************)
EXTENDS Sessions, TLAPS

\* Tokens that have not been made are not in the table.
Fresh == \A t \in Token : t >= nextToken => token[t].status = "absent"

Rows ==
  \A t \in Token :
    IF token[t].status = "absent"
      THEN token[t].user = Null /\ token[t].family = Null
      ELSE token[t].user \in User /\ token[t].family < nextToken

Accounts ==
  /\ \A e \in Email : account[e].id < nextUser
  /\ \A e \in Email : account[e].link # Null => account[e].id # Null
  /\ \A e, f \in Email : account[e].id = account[f].id /\ account[e].id # Null => e = f

GoodCall(n) ==
  /\ n.user < nextUser
  /\ n.phase \notin {"idle", "registering"} => n.user # Null
  /\ n.phase \in {"rotating", "replayed"} => n.token \in Token
  /\ \A f \in Email : account[f].id = n.user /\ n.user # Null => f = n.email

AInv ==
  /\ TypeOK /\ Fresh /\ Rows /\ TokensHaveOwners /\ Accounts
  /\ \A c \in Call : GoodCall(call[c])

-----------------------------------------------------------------------------
LEMMA Bounds ==
  /\ MaxUser \in Nat \ {0} /\ MaxToken \in Nat \ {0} /\ MaxLink \in Nat
  /\ User \subseteq Nat \ {0} /\ Token \subseteq Nat \ {0} /\ Link \subseteq Nat \ {0}
BY BoundsAssumption DEF User, Token, Link

LEMMA Types ==
  ASSUME TypeOK
  PROVE  /\ nextUser \in Nat \ {0} /\ nextToken \in Nat \ {0} /\ nextLink \in Nat \ {0}
         /\ \A e \in Email : account[e] \in Account /\ account[e].id \in Nat
         /\ \A t \in Token : token[t] \in TokenState
         /\ \A c \in Call : call[c] \in CallState /\ call[c].user \in Nat /\ call[c].email \in Email
<1>1. nextUser \in Nat \ {0} /\ nextToken \in Nat \ {0} /\ nextLink \in Nat \ {0}
  BY Bounds DEF TypeOK
<1>2. \A e \in Email : account[e] \in Account /\ account[e].id \in User \union {Null}
  BY DEF TypeOK, Account
<1>3. \A t \in Token : token[t] \in TokenState
  BY DEF TypeOK
<1>4. \A c \in Call : /\ call[c] \in CallState /\ call[c].user \in User \union {Null}
                      /\ call[c].email \in Email
  BY DEF TypeOK, CallState
<1>5. User \union {Null} \subseteq Nat
  BY Bounds DEF Null
<1> QED
  BY <1>1, <1>2, <1>3, <1>4, <1>5

LEMMA NewCallState ==
  ASSUME NEW p \in {"idle"} \union Await \union OnLoop, NEW e \in Email, NEW u \in User \union {Null},
         NEW t \in Token \union {Null}, NEW k \in Link \union {Null}
  PROVE  /\ At(p, e, u, t, k) \in CallState /\ At(p, e, u, t, k).phase = p
         /\ At(p, e, u, t, k).email = e /\ At(p, e, u, t, k).user = u
         /\ At(p, e, u, t, k).token = t
BY DEF At, CallState

LEMMA IdleIsGood ==
  ASSUME TypeOK, NEW e \in Email
  PROVE  /\ Idle(e) \in CallState /\ GoodCall(Idle(e))
         /\ Idle(e).phase = "idle" /\ Idle(e).user = Null
<1>1. "idle" \in {"idle"} \union Await \union OnLoop /\ Null \in User \union {Null}
      /\ Null \in Token \union {Null} /\ Null \in Link \union {Null}
  OBVIOUS
<1>2. /\ Idle(e) \in CallState /\ Idle(e).phase = "idle" /\ Idle(e).user = Null
  BY <1>1, NewCallState DEF Idle
<1> QED
  BY <1>2, Types DEF GoodCall, Null

LEMMA OneCallMoves ==
  ASSUME TypeOK, NEW c \in Call, NEW n \in CallState, call' = [call EXCEPT ![c] = n]
  PROVE  /\ call' \in [Call -> CallState] /\ call'[c] = n
         /\ \A d \in Call \ {c} : call'[d] = call[d]
BY DEF TypeOK

LEMMA EndsMoves ==
  ASSUME TypeOK, NEW c \in Call, Ends(c)
  PROVE  /\ call' = [call EXCEPT ![c] = Idle(call[c].email)]
         /\ call[c].email \in Email
         /\ Idle(call[c].email) \in CallState /\ GoodCall(Idle(call[c].email))
         /\ Idle(call[c].email).phase = "idle"
<1>1. call[c].email \in Email
  BY Types
<1>2. call' = [call EXCEPT ![c] = Idle(call[c].email)]
  BY DEF Ends, TypeOK
<1> QED
  BY <1>1, <1>2, IdleIsGood

\* Accounts that keep their ids or go leave every request as good as it was.
LEMMA CallsStayGood ==
  ASSUME AInv, NEW c \in Call, NEW n \in CallState, call' = [call EXCEPT ![c] = n],
         GoodCall(n), nextUser' = nextUser,
         \A e \in Email : account'[e].id \in {account[e].id, Null}
  PROVE  call' \in [Call -> CallState] /\ \A d \in Call : GoodCall(call[d])'
<1>1. /\ call' \in [Call -> CallState] /\ call'[c] = n
      /\ \A d \in Call \ {c} : call'[d] = call[d]
  BY OneCallMoves DEF AInv
<1>2. \A d \in Call : GoodCall(call[d])
  BY DEF AInv
<1>3. \A d \in Call : GoodCall(call[d])'
  BY <1>1, <1>2 DEF GoodCall
<1> QED
  BY <1>1, <1>3

\* Rows that keep their owner, their family and whether they are there
LEMMA RowsStay ==
  ASSUME AInv, nextToken' = nextToken,
         \A e \in Email : account'[e].id = account[e].id,
         \A t \in Token : /\ token'[t].user = token[t].user
                          /\ token'[t].family = token[t].family
                          /\ token'[t].email = token[t].email
                          /\ token'[t].status = "absent" <=> token[t].status = "absent"
  PROVE  Fresh' /\ Rows' /\ TokensHaveOwners'
<1>1. Fresh' /\ Rows'
  BY DEF AInv, Fresh, Rows
<1>2. TokensHaveOwners'
  BY Types DEF AInv, TokensHaveOwners, TokenState
<1> QED
  BY <1>1, <1>2

LEMMA InitAInv == Init => AInv
<1> SUFFICES ASSUME Init PROVE AInv
  OBVIOUS
<1> USE Bounds
<1>1. PICK e \in Email :
        /\ account = [x \in Email |-> IF x = e THEN [NoAccount EXCEPT !.id = 1] ELSE NoAccount]
        /\ token = [t \in Token |-> IF t = 1 THEN Row(e, 1, Null, FALSE) ELSE Absent(e)]
        /\ call = [c \in Call |-> Idle(e)]
        /\ nextUser = 2 /\ nextToken = 2 /\ nextLink = 1 /\ expiredTo = 0
  BY DEF Init
<1>2. 1 \in User /\ 1 \in Token
  BY DEF User, Token
<1>3. Row(e, 1, Null, FALSE) \in TokenState /\ Absent(e) \in TokenState
  BY <1>2 DEF Row, Absent, TokenState
<1>4. [NoAccount EXCEPT !.id = 1] \in Account /\ NoAccount \in Account
  BY <1>2 DEF NoAccount, Account
<1>5. Idle(e) \in CallState
  BY NewCallState DEF Idle
<1>6. TypeOK
  <2>1. account \in [Email -> Account]
    BY <1>1, <1>4
  <2>2. token \in [Token -> TokenState] /\ call \in [Call -> CallState]
    BY <1>1, <1>3, <1>5
  <2>3. /\ nextUser \in 1..(MaxUser + 1) /\ nextToken \in 1..(MaxToken + 1)
        /\ nextLink \in 1..(MaxLink + 1) /\ expiredTo \in 0..MaxToken
    BY <1>1
  <2> QED
    BY <2>1, <2>2, <2>3 DEF TypeOK
<1>7. Fresh /\ Rows
  BY <1>1, <1>2 DEF Fresh, Rows, Row, Absent, Null
<1>8. TokensHaveOwners /\ Accounts
  BY <1>1, <1>2 DEF TokensHaveOwners, Accounts, Row, Absent, NoAccount, Null
<1>9. \A c \in Call : GoodCall(call[c])
  BY <1>1, <1>6, IdleIsGood
<1> QED
  BY <1>6, <1>7, <1>8, <1>9 DEF AInv

-----------------------------------------------------------------------------
\* Requests that only move on
LEMMA CallStep ==
  ASSUME AInv, NEW c \in Call, NEW n \in CallState, GoodCall(n), call' = [call EXCEPT ![c] = n],
         UNCHANGED <<account, token, nextUser, nextToken, nextLink, expiredTo>>
  PROVE  AInv'
<1>1. call' \in [Call -> CallState] /\ \A d \in Call : GoodCall(call[d])'
  BY CallsStayGood
<1>2. TypeOK'
  BY <1>1 DEF AInv, TypeOK
<1>3. Fresh' /\ Rows' /\ TokensHaveOwners'
  BY RowsStay
<1>4. Accounts'
  BY DEF AInv, Accounts
<1> QED
  BY <1>1, <1>2, <1>3, <1>4 DEF AInv

\* A request that names an account by its address carries that account's id.
LEMMA LookedUp ==
  ASSUME AInv, NEW e \in Email, account[e].id # Null,
         NEW p \in Await \union OnLoop, NEW t \in Token \union {Null},
         p \in {"rotating", "replayed"} => t \in Token, NEW k \in Link \union {Null}
  PROVE  At(p, e, account[e].id, t, k) \in CallState /\ GoodCall(At(p, e, account[e].id, t, k))
<1>1. account[e].id \in User \union {Null} /\ account[e].id < nextUser
  BY DEF AInv, TypeOK, Account, Accounts
<1>2. /\ At(p, e, account[e].id, t, k) \in CallState
      /\ At(p, e, account[e].id, t, k).phase = p /\ At(p, e, account[e].id, t, k).email = e
      /\ At(p, e, account[e].id, t, k).user = account[e].id /\ At(p, e, account[e].id, t, k).token = t
  <2>1. p \in {"idle"} \union Await \union OnLoop
    OBVIOUS
  <2> QED
    BY <1>1, <2>1, NewCallState
<1>3. \A f \in Email : account[f].id = account[e].id => f = e
  BY DEF AInv, Accounts
<1> QED
  BY <1>1, <1>2, <1>3 DEF GoodCall

LEMMA LookupSteps ==
  ASSUME AInv, NEW c \in Call, NEW e \in Email,
         \/ LoginVerify(c, e) \/ RegisterCheck(c, e) \/ ResetLookup(c, e) \/ DeleteVerify(c, e)
  PROVE  AInv'
<1> USE DEF Await, OnLoop
<1>0. Null \in Token \union {Null} /\ Null \in Link \union {Null} /\ Null \in User \union {Null}
  OBVIOUS
<1>1. CASE LoginVerify(c, e)
  BY <1>0, <1>1, LookedUp, CallStep DEF LoginVerify
<1>2. CASE RegisterCheck(c, e)
  <2> DEFINE n == At("registering", e, Null, Null, Null)
  <2>1. n \in CallState /\ n.phase = "registering" /\ n.user = Null
    BY <1>0, NewCallState
  <2>2. GoodCall(n)
    BY <2>1, Types DEF AInv, GoodCall, Null
  <2> QED
    BY <1>2, <2>1, <2>2, CallStep DEF RegisterCheck
<1>3. CASE ResetLookup(c, e)
  <2> DEFINE p == IF account[e].expired THEN "clearing" ELSE "hashing"
  <2>1. account[e].id # Null /\ account[e].link \in Link \union {Null}
    BY <1>3 DEF ResetLookup, AInv, Accounts, TypeOK, Account
  <2>2. p \in Await \union OnLoop /\ p \notin {"rotating", "replayed"}
    OBVIOUS
  <2>3. call' = [call EXCEPT ![c] = At(p, e, account[e].id, Null, account[e].link)]
    BY <1>3 DEF ResetLookup
  <2> HIDE DEF p
  <2> QED
    BY <1>0, <1>3, <2>1, <2>2, <2>3, LookedUp, CallStep DEF ResetLookup
<1>4. CASE DeleteVerify(c, e)
  BY <1>0, <1>4, LookedUp, CallStep DEF DeleteVerify
<1> QED
  BY <1>1, <1>2, <1>3, <1>4

\* What RefreshLookup makes of the request
LEMMA RefreshLookupMoves ==
  ASSUME AInv, NEW c \in Call, NEW t \in Token, RefreshLookup(c, t)
  PROVE  \E n \in CallState :
           /\ GoodCall(n) /\ call' = [call EXCEPT ![c] = n] /\ n.token = t
           /\ n.phase = "replayed" \/ (n.phase = "rotating" /\ Live(t))
<1> DEFINE r == token[t]
<1>1. r \in TokenState /\ r.email \in Email /\ r.user \in User \union {Null}
  BY Types DEF AInv, TokenState
<1>2. Null \in Link \union {Null} /\ t \in Token \union {Null}
      /\ "replayed" \in {"idle"} \union Await \union OnLoop
      /\ "rotating" \in {"idle"} \union Await \union OnLoop
  BY DEF OnLoop
<1>3. CASE r.status = "revoked" /\ call' = [call EXCEPT ![c] = At("replayed", r.email, r.user, t, Null)]
  <2> DEFINE n == At("replayed", r.email, r.user, t, Null)
  <2>1. n \in CallState /\ n.phase = "replayed" /\ n.token = t
    BY <1>1, <1>2, NewCallState
  <2>2. r.user = account[r.email].id /\ r.user # Null
    BY <1>3, Bounds DEF AInv, TokensHaveOwners, Rows, Null
  <2>3. GoodCall(n)
    BY <1>1, <1>2, <2>2, LookedUp DEF OnLoop
  <2> QED
    BY <1>3, <2>1, <2>3
<1>4. CASE /\ r.status = "live" /\ account[r.email].id # Null
           /\ call' = [call EXCEPT ![c] = At("rotating", r.email, account[r.email].id, t, Null)]
  <2> DEFINE n == At("rotating", r.email, account[r.email].id, t, Null)
  <2>1. account[r.email].id \in User \union {Null}
    BY <1>1 DEF AInv, TypeOK, Account
  <2>2. n \in CallState /\ n.phase = "rotating" /\ n.token = t
    BY <1>1, <1>2, <2>1, NewCallState
  <2>3. GoodCall(n)
    BY <1>1, <1>2, <1>4, LookedUp DEF OnLoop
  <2> QED
    BY <1>4, <2>2, <2>3 DEF Live
<1> QED
  BY <1>3, <1>4 DEF RefreshLookup

LEMMA RefreshLookupStep ==
  ASSUME AInv, NEW c \in Call, NEW t \in Token, RefreshLookup(c, t) PROVE AInv'
BY RefreshLookupMoves, CallStep DEF RefreshLookup

LEMMA AbandonSteps ==
  ASSUME AInv, NEW c \in Call, Crash(c) \/ ResetFails(c) PROVE AInv'
<1>1. Ends(c) /\ UNCHANGED <<account, token, nextUser, nextToken, nextLink, expiredTo>>
  BY DEF Crash, ResetFails
<1> QED
  BY <1>1, EndsMoves, CallStep DEF AInv

-----------------------------------------------------------------------------
\* A new row for the account that the request names
LEMMA RowAdded ==
  ASSUME AInv, NEW c \in Call, Ends(c), NEW T \in SUBSET Token,
         NEW e \in Email, NEW u \in User, account[e].id = u,
         NEW f \in Token \union {Null}, f < nextToken, NEW k \in BOOLEAN,
         nextToken <= MaxToken, nextToken' = nextToken + 1,
         token' = [Revoked(T) EXCEPT ![nextToken] = Row(e, u, Family(f), k)],
         UNCHANGED <<account, nextUser, nextLink, expiredTo>>
  PROVE  AInv'
<1> DEFINE r == Row(e, u, Family(f), k)
<1>1. nextToken \in Token /\ Token \subseteq Nat /\ nextToken \in Nat
  BY Types, Bounds DEF AInv, Token
<1>2. /\ r \in TokenState /\ r.status = "live" /\ r.email = e /\ r.user = u
      /\ r.family \in Token /\ r.family < nextToken + 1
  <2>1. Family(f) \in Token /\ Family(f) < nextToken + 1
    BY <1>1 DEF Family
  <2> QED
    BY <2>1 DEF Row, TokenState
<1> HIDE DEF r
<1>3. /\ token' \in [Token -> TokenState] /\ token'[nextToken] = r
      /\ \A t \in Token \ {nextToken} :
           /\ token'[t].user = token[t].user /\ token'[t].family = token[t].family
           /\ token'[t].email = token[t].email
           /\ token'[t].status = "absent" <=> token[t].status = "absent"
  <2>1. Revoked(T) \in [Token -> TokenState]
    BY DEF AInv, TypeOK, Revoked, TokenState
  <2>2. \A t \in Token :
           /\ Revoked(T)[t].user = token[t].user /\ Revoked(T)[t].family = token[t].family
           /\ Revoked(T)[t].email = token[t].email
           /\ Revoked(T)[t].status = "absent" <=> token[t].status = "absent"
    BY DEF AInv, TypeOK, Revoked, TokenState
  <2>3. token' = [Revoked(T) EXCEPT ![nextToken] = r]
    BY DEF r
  <2> QED
    BY <1>1, <1>2, <2>1, <2>2, <2>3
<1>4. /\ call' = [call EXCEPT ![c] = Idle(call[c].email)]
      /\ Idle(call[c].email) \in CallState /\ GoodCall(Idle(call[c].email))
  BY EndsMoves DEF AInv
<1>5. call' \in [Call -> CallState] /\ \A d \in Call : GoodCall(call[d])'
  BY <1>4, CallsStayGood
<1>6. TypeOK'
  <2>1. nextToken' \in 1..(MaxToken + 1)
    BY <1>1, Bounds DEF Token
  <2> QED
    BY <1>3, <1>5, <2>1 DEF AInv, TypeOK
<1>7. Fresh'
  BY <1>1, <1>3 DEF AInv, Fresh
<1>8. Rows'
  <2> SUFFICES ASSUME NEW t \in Token
               PROVE  IF token'[t].status = "absent"
                        THEN token'[t].user = Null /\ token'[t].family = Null
                        ELSE token'[t].user \in User /\ token'[t].family < nextToken'
    BY DEF Rows
  <2>1. CASE t = nextToken
    BY <1>2, <1>3, <2>1
  <2>2. CASE t # nextToken
    <3>1. token[t].family \in Token \union {Null}
      BY Types DEF AInv, TokenState
    <3>2. token[t].family \in Nat
      BY <3>1, Bounds DEF Null
    <3> QED
      BY <1>1, <1>3, <2>2, <3>2 DEF AInv, Rows
  <2> QED
    BY <2>1, <2>2
<1>9. TokensHaveOwners'
  BY <1>2, <1>3 DEF AInv, TokensHaveOwners
<1>10. Accounts'
  BY DEF AInv, Accounts
<1> QED
  BY <1>5, <1>6, <1>7, <1>8, <1>9, <1>10 DEF AInv

\* login and register: a token for a new family, if the user is still there
LEMMA IssueStep ==
  ASSUME AInv, NEW c \in Call, call[c].phase \in {"verified", "mailing"},
         Issue(call[c].email, call[c].user), Ends(c),
         UNCHANGED <<account, nextUser, nextLink, expiredTo>>
  PROVE  AInv'
<1> DEFINE e == call[c].email
           u == call[c].user
<1>1. e \in Email /\ u \in User /\ \A f \in Email : account[f].id = u => f = e
  BY DEF AInv, TypeOK, CallState, GoodCall
<1>2. CASE Exists(u)
  <2>1. account[e].id = u
    BY <1>1, <1>2 DEF Exists
  <2>2. Added(e, u, Null, FALSE)
    BY <1>2 DEF Issue
  <2>3. token = Revoked({})
    BY DEF AInv, TypeOK, Revoked
  <2>4. Null < nextToken
    BY Types DEF AInv, Null
  <2>5. /\ nextToken <= MaxToken /\ nextToken' = nextToken + 1
        /\ token' = [Revoked({}) EXCEPT ![nextToken] = Row(e, u, Family(Null), FALSE)]
    BY <2>2, <2>3 DEF Added
  <2> HIDE DEF e, u
  <2> QED
    BY <1>1, <2>1, <2>4, <2>5, RowAdded
<1>3. CASE ~Exists(u)
  BY <1>3, EndsMoves, CallStep DEF Issue, AInv
<1> QED
  BY <1>2, <1>3

LEMMA RotateStep == ASSUME AInv, NEW c \in Call, RefreshRotate(c) PROVE AInv'
<1> DEFINE e == call[c].email
           u == call[c].user
           t == call[c].token
           r == token[t]
<1>1. /\ e \in Email /\ u \in User /\ t \in Token
      /\ \A f \in Email : account[f].id = u => f = e
  BY DEF AInv, TypeOK, CallState, GoodCall, RefreshRotate, Resumes
<1>2. CASE r.status = "absent" \/ ~Exists(u)
  <2>1. Ends(c) /\ UNCHANGED <<account, token, nextUser, nextToken, nextLink, expiredTo>>
    BY <1>2 DEF RefreshRotate
  <2> QED
    BY <2>1, EndsMoves, CallStep DEF AInv
<1>3. CASE r.status # "absent" /\ Exists(u)
  <2>1. account[e].id = u
    BY <1>1, <1>3 DEF Exists
  <2>2. r.family \in Token \union {Null} /\ r.family < nextToken /\ r.carried \in BOOLEAN
    BY <1>1, <1>3, Types DEF AInv, Rows, TokenState
  <2>3. /\ nextToken <= MaxToken /\ nextToken' = nextToken + 1
        /\ token' = [Revoked({t}) EXCEPT ![nextToken] = Row(e, u, Family(r.family), r.carried)]
        /\ Ends(c) /\ UNCHANGED <<account, nextUser, nextLink, expiredTo>>
    BY <1>3 DEF RefreshRotate
  <2>4. {t} \in SUBSET Token
    BY <1>1
  <2> HIDE DEF e, u, r, t
  <2> QED
    BY <1>1, <2>1, <2>2, <2>3, <2>4, RowAdded
<1> QED
  BY <1>2, <1>3

-----------------------------------------------------------------------------
\* Rows are revoked; accounts may lose their links.
LEMMA RevokeStep ==
  ASSUME AInv, call' \in [Call -> CallState], \A d \in Call : GoodCall(call[d])',
         token' \in [Token -> TokenState],
         \A t \in Token : /\ token'[t].user = token[t].user
                          /\ token'[t].family = token[t].family
                          /\ token'[t].email = token[t].email
                          /\ token'[t].status = "absent" <=> token[t].status = "absent",
         account' \in [Email -> Account],
         \A e \in Email : /\ account'[e].id = account[e].id
                          /\ account'[e].link # Null => account[e].id # Null,
         nextLink' \in 1..(MaxLink + 1), expiredTo' \in 0..MaxToken,
         UNCHANGED <<nextUser, nextToken>>
  PROVE  AInv'
<1>1. TypeOK'
  BY DEF AInv, TypeOK
<1>2. Fresh' /\ Rows' /\ TokensHaveOwners'
  BY RowsStay
<1>3. Accounts'
  BY DEF AInv, Accounts
<1> QED
  BY <1>1, <1>2, <1>3 DEF AInv

LEMMA CallsUnmoved ==
  ASSUME AInv, call' = call, nextUser' = nextUser,
         \A e \in Email : account'[e].id = account[e].id
  PROVE  call' \in [Call -> CallState] /\ \A d \in Call : GoodCall(call[d])'
BY DEF AInv, TypeOK, GoodCall

LEMMA CallEnds ==
  ASSUME AInv, NEW c \in Call, Ends(c), nextUser' = nextUser,
         \A e \in Email : account'[e].id \in {account[e].id, Null}
  PROVE  call' \in [Call -> CallState] /\ \A d \in Call : GoodCall(call[d])'
<1>1. /\ call' = [call EXCEPT ![c] = Idle(call[c].email)]
      /\ Idle(call[c].email) \in CallState /\ GoodCall(Idle(call[c].email))
  BY EndsMoves DEF AInv
<1> QED
  BY <1>1, CallsStayGood

LEMMA RevokedRows ==
  ASSUME TypeOK, NEW T
  PROVE  /\ Revoked(T) \in [Token -> TokenState]
         /\ \A t \in Token :
              /\ Revoked(T)[t].user = token[t].user /\ Revoked(T)[t].family = token[t].family
              /\ Revoked(T)[t].email = token[t].email /\ Revoked(T)[t].carried = token[t].carried
              /\ Revoked(T)[t].status = "absent" <=> token[t].status = "absent"
              /\ Revoked(T)[t].status = "live" <=> token[t].status = "live" /\ t \notin T
              /\ token[t].status = "revoked" => Revoked(T)[t].status = "revoked"
BY DEF TypeOK, Revoked, TokenState

LEMMA EvictedRows ==
  ASSUME AInv, NEW u \in User
  PROVE  /\ EvictedBy(u) \in [Token -> TokenState]
         /\ \A t \in Token :
              /\ EvictedBy(u)[t].user = token[t].user /\ EvictedBy(u)[t].family = token[t].family
              /\ EvictedBy(u)[t].email = token[t].email
              /\ EvictedBy(u)[t].status = "absent" <=> token[t].status = "absent"
              /\ EvictedBy(u)[t].status = "live" <=> token[t].status = "live" /\ token[t].user # u
              /\ token[t].user = u => EvictedBy(u)[t].status = "revoked"
              /\ token[t].user # u => EvictedBy(u)[t] = token[t]
<1>1. \A t \in Token : token[t].user = u => token[t].status # "absent"
  BY Bounds DEF AInv, Rows, Null
<1> QED
  BY <1>1 DEF AInv, TypeOK, EvictedBy, TokenState

LEMMA Unchanging ==
  ASSUME AInv
  PROVE  /\ nextLink \in 1..(MaxLink + 1) /\ expiredTo \in 0..MaxToken
         /\ account \in [Email -> Account] /\ token \in [Token -> TokenState]
         /\ \A e \in Email : account[e].link # Null => account[e].id # Null
BY DEF AInv, TypeOK, Accounts

LEMMA ReuseStep == ASSUME AInv, NEW c \in Call, RefreshReuse(c) PROVE AInv'
<1>1. Ends(c) /\ UNCHANGED <<account, nextUser, nextToken, nextLink, expiredTo>>
  BY DEF RefreshReuse
<1>2. call' \in [Call -> CallState] /\ \A d \in Call : GoodCall(call[d])'
  BY <1>1, CallEnds
<1>3. token' = token \/ \E T : token' = Revoked(T)
  BY DEF RefreshReuse
<1>4. /\ token' \in [Token -> TokenState]
      /\ \A t \in Token : /\ token'[t].user = token[t].user
                          /\ token'[t].family = token[t].family
                          /\ token'[t].email = token[t].email
                          /\ token'[t].status = "absent" <=> token[t].status = "absent"
  BY <1>3, RevokedRows, Unchanging DEF AInv
<1> QED
  BY <1>1, <1>2, <1>4, Unchanging, RevokeStep

LEMMA LogoutStep == ASSUME AInv, NEW c \in Call, NEW t \in Token, Logout(c, t) PROVE AInv'
<1>1. token' = Revoked({t}) /\ UNCHANGED <<account, call, nextUser, nextToken, nextLink, expiredTo>>
  BY DEF Logout
<1>2. call' \in [Call -> CallState] /\ \A d \in Call : GoodCall(call[d])'
  BY <1>1, CallsUnmoved
<1>3. /\ token' \in [Token -> TokenState]
      /\ \A s \in Token : /\ token'[s].user = token[s].user
                          /\ token'[s].family = token[s].family
                          /\ token'[s].email = token[s].email
                          /\ token'[s].status = "absent" <=> token[s].status = "absent"
  BY <1>1, RevokedRows DEF AInv
<1> QED
  BY <1>1, <1>2, <1>3, Unchanging, RevokeStep

\* Only links and their expiry change.
LEMMA LinkStep ==
  ASSUME AInv, call' \in [Call -> CallState], \A d \in Call : GoodCall(call[d])',
         NEW e \in Email, NEW k \in Link \union {Null}, k # Null => account[e].id # Null,
         NEW x \in BOOLEAN,
         account' = [account EXCEPT ![e].link = k, ![e].expired = x],
         nextLink' \in 1..(MaxLink + 1),
         UNCHANGED <<token, nextUser, nextToken, expiredTo>>
  PROVE  AInv'
<1> DEFINE a == [account[e] EXCEPT !.link = k, !.expired = x]
<1>1. account[e] \in Account
  BY DEF AInv, TypeOK
<1>2. a \in Account /\ a.id = account[e].id /\ a.link = k
  BY <1>1 DEF Account
<1>3. account' = [account EXCEPT ![e] = a]
  BY DEF AInv, TypeOK
<1> HIDE DEF a
<1>4. account' \in [Email -> Account]
      /\ \A f \in Email : /\ account'[f].id = account[f].id
                          /\ account'[f].link # Null => account[f].id # Null
  BY <1>2, <1>3, Unchanging
<1> QED
  BY <1>4, Unchanging, RevokeStep

\* An UPDATE of links leaves every id.
LEMMA LinksKeepIds ==
  ASSUME TypeOK, NEW e \in Email, NEW k, NEW x,
         account' = [account EXCEPT ![e].link = k, ![e].expired = x]
  PROVE  \A f \in Email : account'[f].id = account[f].id
<1>1. account[e] \in Account
  BY DEF TypeOK
<1> DEFINE a == [account[e] EXCEPT !.link = k, !.expired = x]
<1>2. a.id = account[e].id
  BY <1>1 DEF Account
<1>3. account' = [account EXCEPT ![e] = a]
  BY DEF TypeOK
<1> HIDE DEF a
<1> QED
  BY <1>2, <1>3 DEF TypeOK

LEMMA ForgotPasswordStep ==
  ASSUME AInv, NEW c \in Call, NEW e \in Email, ForgotPassword(c, e) PROVE AInv'
<1>1. /\ account[e].id # Null /\ nextLink <= MaxLink /\ nextLink' = nextLink + 1
      /\ account' = [account EXCEPT ![e].link = nextLink, ![e].expired = FALSE]
      /\ UNCHANGED <<token, call, nextUser, nextToken, expiredTo>>
  BY DEF ForgotPassword
<1>2. nextLink \in Link /\ nextLink' \in 1..(MaxLink + 1)
  BY <1>1, Bounds, Unchanging DEF Link
<1>3. call' \in [Call -> CallState] /\ \A d \in Call : GoodCall(call[d])'
  BY <1>1, LinksKeepIds, CallsUnmoved DEF AInv
<1>4. nextLink \in Link \union {Null} /\ FALSE \in BOOLEAN
  BY <1>2
<1> QED
  BY <1>1, <1>2, <1>3, <1>4, LinkStep

LEMMA LinkExpiresStep == ASSUME AInv, NEW e \in Email, LinkExpires(e) PROVE AInv'
<1>1. /\ account[e].link # Null /\ account' = [account EXCEPT ![e].expired = TRUE]
      /\ UNCHANGED <<token, call, nextUser, nextToken, nextLink, expiredTo>>
  BY DEF LinkExpires
<1>2. account[e] \in Account /\ account[e].link \in Link \union {Null}
  BY DEF AInv, TypeOK, Account
<1>3. account' = [account EXCEPT ![e].link = account[e].link, ![e].expired = TRUE]
  <2>1. [account[e] EXCEPT !.expired = TRUE]
          = [account[e] EXCEPT !.link = account[e].link, !.expired = TRUE]
    BY <1>2 DEF Account
  <2> QED
    BY <1>1, <2>1 DEF AInv, TypeOK
<1>4. account[e].link # Null => account[e].id # Null
  BY Unchanging
<1>5. call' \in [Call -> CallState] /\ \A d \in Call : GoodCall(call[d])'
  BY <1>1, <1>3, LinksKeepIds, CallsUnmoved DEF AInv
<1>6. nextLink' \in 1..(MaxLink + 1)
  BY <1>1, Unchanging
<1> QED
  BY <1>1, <1>2, <1>3, <1>4, <1>5, <1>6, LinkStep

LEMMA ResetClearStep == ASSUME AInv, NEW c \in Call, ResetClear(c) PROVE AInv'
<1> DEFINE e == call[c].email
<1>1. Ends(c) /\ UNCHANGED <<token, nextUser, nextToken, nextLink, expiredTo>>
  BY DEF ResetClear
<1>2. e \in Email
  BY Types DEF AInv
<1>3. CASE StillThere(c)
  <2>1. account' = [account EXCEPT ![e].link = Null, ![e].expired = FALSE]
    BY <1>3 DEF ResetClear, ClearedLink
  <2> HIDE DEF e
  <2>2. \A f \in Email : account'[f].id = account[f].id
    BY <1>2, <2>1, LinksKeepIds DEF AInv
  <2>3. call' \in [Call -> CallState] /\ \A d \in Call : GoodCall(call[d])'
    BY <1>1, <2>2, CallEnds
  <2>4. nextLink' \in 1..(MaxLink + 1)
    BY <1>1, Unchanging
  <2> QED
    BY <1>1, <1>2, <2>1, <2>3, <2>4, LinkStep
<1>4. CASE ~StillThere(c)
  BY <1>1, <1>4, EndsMoves, CallStep DEF ResetClear, AInv
<1> QED
  BY <1>3, <1>4

LEMMA ResetApplyStep == ASSUME AInv, NEW c \in Call, ResetApply(c) PROVE AInv'
<1> DEFINE e == call[c].email
           u == call[c].user
           a == [account[e] EXCEPT !.link = Null, !.expired = FALSE]
<1>1. /\ Ends(c) /\ token' = EvictedBy(u)
      /\ account' = [account EXCEPT ![e].link = Null, ![e].expired = FALSE]
      /\ UNCHANGED <<nextUser, nextToken, nextLink, expiredTo>>
  BY DEF ResetApply, ClearedLink
<1>2. e \in Email /\ u \in User
  BY DEF AInv, TypeOK, CallState, GoodCall, ResetApply, Resumes
<1> HIDE DEF e, u
<1>3. account[e] \in Account
  BY <1>2 DEF AInv, TypeOK
<1>4. a \in Account /\ a.id = account[e].id /\ a.link = Null
  BY <1>3 DEF Account
<1>5. account' = [account EXCEPT ![e] = a]
  BY <1>1, <1>2 DEF AInv, TypeOK
<1> HIDE DEF a
<1>6. account' \in [Email -> Account]
      /\ \A f \in Email : /\ account'[f].id = account[f].id
                          /\ account'[f].link # Null => account[f].id # Null
  BY <1>4, <1>5, Unchanging
<1>7. call' \in [Call -> CallState] /\ \A d \in Call : GoodCall(call[d])'
  BY <1>1, <1>6, CallEnds
<1>8. /\ token' \in [Token -> TokenState]
      /\ \A t \in Token : /\ token'[t].user = token[t].user
                          /\ token'[t].family = token[t].family
                          /\ token'[t].email = token[t].email
                          /\ token'[t].status = "absent" <=> token[t].status = "absent"
  BY <1>1, <1>2, EvictedRows
<1>9. nextLink' \in 1..(MaxLink + 1) /\ expiredTo' \in 0..MaxToken
  BY <1>1, Unchanging
<1> QED
  BY <1>1, <1>6, <1>7, <1>8, <1>9, RevokeStep

LEMMA TokenExpiresStep == ASSUME AInv, TokenExpires PROVE AInv'
<1>1. expiredTo' = expiredTo + 1 /\ expiredTo + 1 < nextToken
      /\ UNCHANGED <<account, token, call, nextUser, nextToken, nextLink>>
  BY DEF TokenExpires
<1>2. expiredTo' \in 0..MaxToken /\ nextLink' \in 1..(MaxLink + 1)
  BY <1>1, Bounds DEF AInv, TypeOK
<1>3. call' \in [Call -> CallState] /\ \A d \in Call : GoodCall(call[d])'
  BY <1>1, CallsUnmoved
<1> QED
  BY <1>1, <1>2, <1>3, Unchanging, RevokeStep

-----------------------------------------------------------------------------
\* A new account: its id is nobody else's.
LEMMA RegisterCreateStep == ASSUME AInv, NEW c \in Call, RegisterCreate(c) PROVE AInv'
<1> DEFINE e == call[c].email
           n == At("mailing", e, nextUser, Null, Null)
           a == [NoAccount EXCEPT !.id = nextUser]
<1>1. e \in Email
  BY Types DEF AInv
<1>2. CASE account[e].id # Null
  BY <1>2, EndsMoves, CallStep DEF RegisterCreate, AInv
<1>3. CASE account[e].id = Null
  <2>1. /\ nextUser <= MaxUser /\ nextUser' = nextUser + 1
        /\ account' = [account EXCEPT ![e] = a] /\ call' = [call EXCEPT ![c] = n]
        /\ UNCHANGED <<token, nextToken, nextLink, expiredTo>>
    BY <1>3 DEF RegisterCreate
  <2>2. nextUser \in User /\ nextUser \in Nat \ {0} /\ nextUser' \in 1..(MaxUser + 1)
    BY <2>1, Types, Bounds DEF AInv, User
  <2>3. a \in Account /\ a.id = nextUser /\ a.link = Null
    BY <2>2 DEF NoAccount, Account
  <2>4. n \in CallState /\ n.phase = "mailing" /\ n.email = e /\ n.user = nextUser
    <3>1. /\ "mailing" \in {"idle"} \union Await \union OnLoop /\ nextUser \in User \union {Null}
          /\ Null \in Token \union {Null} /\ Null \in Link \union {Null}
      BY <2>2 DEF Await
    <3> HIDE DEF e
    <3> QED
      BY <1>1, <3>1, NewCallState
  <2> HIDE DEF n, a, e
  <2>5. /\ call' \in [Call -> CallState] /\ call'[c] = n
        /\ \A d \in Call \ {c} : call'[d] = call[d]
    BY <2>1, <2>4, OneCallMoves DEF AInv
  <2>6. /\ account' \in [Email -> Account] /\ account'[e] = a
        /\ \A f \in Email \ {e} : account'[f] = account[f]
    BY <1>1, <2>1, <2>3 DEF AInv, TypeOK
  <2>7. \A f \in Email : account[f].id \in Nat /\ account[f].id < nextUser
    BY Types DEF AInv, Accounts
  <2>8. TypeOK'
    BY <2>1, <2>2, <2>5, <2>6 DEF AInv, TypeOK
  <2>9. Fresh' /\ Rows'
    BY <2>1 DEF AInv, Fresh, Rows
  <2>10. TokensHaveOwners'
    <3> SUFFICES ASSUME NEW t \in Token, token[t].status # "absent"
                 PROVE  account'[token[t].email].id = token[t].user
      BY <2>1 DEF TokensHaveOwners
    <3>1. account[token[t].email].id = token[t].user /\ token[t].user # Null
      BY Bounds DEF AInv, TokensHaveOwners, Rows, Null
    <3>2. token[t].email \in Email
      BY Types DEF AInv, TokenState
    <3> QED
      BY <1>3, <2>6, <3>1, <3>2
  <2>11. Accounts'
    <3>1. \A f \in Email : account'[f].id < nextUser' /\ (account'[f].link # Null => account'[f].id # Null)
      BY <2>1, <2>2, <2>3, <2>6, <2>7 DEF AInv, Accounts
    <3>2. \A f, g \in Email : account'[f].id = account'[g].id /\ account'[f].id # Null => f = g
      BY <2>3, <2>6, <2>7 DEF AInv, Accounts
    <3> QED
      BY <3>1, <3>2 DEF Accounts
  <2>12. \A d \in Call : GoodCall(call[d])'
    <3>1. GoodCall(call[c])'
      <4>1. \A f \in Email : account'[f].id = n.user => f = e
        BY <2>4, <2>6, <2>7
      <4> QED
        BY <2>1, <2>2, <2>4, <2>5, <4>1 DEF GoodCall, Null
    <3>2. ASSUME NEW d \in Call \ {c} PROVE GoodCall(call[d])'
      <4>1. GoodCall(call[d]) /\ call[d].user \in Nat
        BY Types DEF AInv
      <4>2. \A f \in Email : account'[f].id = call[d].user /\ call[d].user # Null => f = call[d].email
        BY <2>3, <2>6, <4>1 DEF GoodCall
      <4> QED
        BY <2>1, <2>2, <2>5, <4>1, <4>2 DEF GoodCall
    <3> QED
      BY <3>1, <3>2
  <2> QED
    BY <2>8, <2>9, <2>10, <2>11, <2>12 DEF AInv
<1> QED
  BY <1>2, <1>3

\* An account goes, with its tokens.
LEMMA DeleteApplyStep == ASSUME AInv, NEW c \in Call, DeleteApply(c) PROVE AInv'
<1> DEFINE e == call[c].email
           u == call[c].user
<1>1. /\ Ends(c) /\ UNCHANGED <<nextUser, nextToken, nextLink, expiredTo>>
      /\ token' = [t \in Token |-> IF token[t].user = u THEN Absent(e) ELSE token[t]]
      /\ account' = IF account[e].id = u THEN [account EXCEPT ![e] = NoAccount] ELSE account
  BY DEF DeleteApply, StillThere
<1>2. e \in Email /\ u \in User
  BY DEF AInv, TypeOK, CallState, GoodCall, DeleteApply, Resumes
<1> HIDE DEF e, u
<1>3. NoAccount \in Account /\ NoAccount.id = Null /\ NoAccount.link = Null
  BY DEF NoAccount, Account
<1>4. /\ account' \in [Email -> Account]
      /\ \A f \in Email : account'[f] = account[f] \/ (account'[f] = NoAccount /\ account[f].id = u)
  BY <1>1, <1>3 DEF AInv, TypeOK
<1>5. Absent(e) \in TokenState /\ Absent(e).status = "absent" /\ Absent(e).user = Null
      /\ Absent(e).family = Null
  BY <1>2 DEF Absent, TokenState
<1>6. /\ token' \in [Token -> TokenState]
      /\ \A t \in Token : token'[t] = Absent(e) \/ (token'[t] = token[t] /\ token[t].user # u)
  BY <1>1, <1>5 DEF AInv, TypeOK
<1>7. call' \in [Call -> CallState] /\ \A d \in Call : GoodCall(call[d])'
  <2>1. \A f \in Email : account'[f].id \in {account[f].id, Null}
    BY <1>3, <1>4
  <2> QED
    BY <1>1, <2>1, CallEnds
<1>8. TypeOK'
  BY <1>1, <1>4, <1>6, <1>7 DEF AInv, TypeOK
<1>9. Fresh'
  BY <1>1, <1>5, <1>6 DEF AInv, Fresh
<1>10. Rows'
  BY <1>1, <1>5, <1>6 DEF AInv, Rows
<1>11. TokensHaveOwners'
  <2> SUFFICES ASSUME NEW t \in Token, token'[t].status # "absent"
               PROVE  account'[token'[t].email].id = token'[t].user
    BY DEF TokensHaveOwners
  <2>1. token'[t] = token[t] /\ token[t].user # u
    BY <1>5, <1>6
  <2>2. account[token[t].email].id = token[t].user /\ token[t].email \in Email
    BY <2>1, Types DEF AInv, TokensHaveOwners, TokenState
  <2> QED
    BY <1>4, <2>1, <2>2
<1>12. Accounts'
  <2>1. Null < nextUser
    BY Types DEF AInv, Null
  <2>2. \A f \in Email : account'[f].id < nextUser' /\ (account'[f].link # Null => account'[f].id # Null)
    BY <1>1, <1>3, <1>4, <2>1 DEF AInv, Accounts
  <2>3. \A f, g \in Email : account'[f].id = account'[g].id /\ account'[f].id # Null => f = g
    BY <1>3, <1>4 DEF AInv, Accounts
  <2> QED
    BY <2>2, <2>3 DEF Accounts
<1> QED
  BY <1>7, <1>8, <1>9, <1>10, <1>11, <1>12 DEF AInv

-----------------------------------------------------------------------------
LEMMA NextAInv == AInv /\ [Next]_vars => AInv'
<1> SUFFICES ASSUME AInv, [Next]_vars PROVE AInv'
  OBVIOUS
<1>1. ASSUME NEW c \in Call, Begin(c) PROVE AInv'
  BY <1>1, LookupSteps, ForgotPasswordStep, RefreshLookupStep, LogoutStep DEF Begin
<1>2. ASSUME NEW c \in Call, LoginIssue(c) \/ RegisterIssue(c) PROVE AInv'
  BY <1>2, IssueStep DEF LoginIssue, RegisterIssue, Resumes
<1>3. ASSUME NEW c \in Call, Continue(c) PROVE AInv'
  BY <1>2, <1>3, RegisterCreateStep, ReuseStep, RotateStep, ResetClearStep, ResetApplyStep,
     AbandonSteps, DeleteApplyStep DEF Continue
<1>4. ASSUME NEW c \in Call, Crash(c) PROVE AInv'
  BY <1>4, AbandonSteps
<1>5. CASE UNCHANGED vars
  BY <1>5 DEF vars, AInv, TypeOK, Fresh, Rows, TokensHaveOwners, Accounts, GoodCall
<1> QED
  BY <1>1, <1>3, <1>4, <1>5, LinkExpiresStep, TokenExpiresStep DEF Next

LEMMA Invariance == Spec => []AInv
BY InitAInv, NextAInv, PTL DEF Spec

(***************************************************************************)
(* The variables keep their types.                                         *)
(***************************************************************************)
THEOREM TypeCorrect == Spec => []TypeOK
<1>1. AInv => TypeOK
  BY DEF AInv
<1> QED
  BY <1>1, Invariance, PTL

(***************************************************************************)
(* However logins, registrations, refreshes, resets and deletions of any   *)
(* number of workers interleave, every row of refresh_tokens belongs to    *)
(* the user who has its address now.                                       *)
(***************************************************************************)
THEOREM TokensOwned == Spec => []TokensHaveOwners
<1>1. AInv => TokensHaveOwners
  BY DEF AInv
<1> QED
  BY <1>1, Invariance, PTL

-----------------------------------------------------------------------------
(***************************************************************************)
(* One worker                                                              *)
(***************************************************************************)
Loop ==
  \A c, d \in Call : call[c].phase \in OnLoop /\ call[d].phase \in OnLoop => c = d

Rotating == \A c \in Call : call[c].phase = "rotating" => Live(call[c].token)

LInv == AInv /\ Loop /\ Rotating /\ OneLiveTokenPerFamily /\ ResetEndsSessions

\* What RotatingSessions sees
Now == [f \in Token |-> {t \in Token : Live(t) /\ token[t].family = f}]
Used == 1..(nextToken - 1)

\* What a step of one worker has to show of the table
TableStep ==
  /\ OneLiveTokenPerFamily' /\ ResetEndsSessions'
  /\ Sessions!Next \/ (Now' = Now /\ Used' = Used)

LEMMA InitLInv == Init => LInv /\ Sessions!Init
<1> SUFFICES ASSUME Init PROVE LInv /\ Sessions!Init
  OBVIOUS
<1>1. AInv
  BY InitAInv
<1>2. PICK e \in Email :
        /\ token = [t \in Token |-> IF t = 1 THEN Row(e, 1, Null, FALSE) ELSE Absent(e)]
        /\ call = [c \in Call |-> Idle(e)] /\ nextToken = 2
  BY DEF Init
<1>3. Loop /\ Rotating
  <2>1. \A c \in Call : call[c].phase = "idle"
    BY <1>2 DEF Idle, At
  <2> QED
    BY <2>1 DEF Loop, Rotating, OnLoop
<1>4. \A t \in Token : ~token[t].carried /\ token[t].family = Null
  BY <1>2 DEF Row, Absent
<1>5. OneLiveTokenPerFamily /\ ResetEndsSessions
  BY <1>4 DEF OneLiveTokenPerFamily, ResetEndsSessions
<1>6. Sessions!Init
  <2>1. 1..(nextToken - 1) \in SUBSET Token
    BY <1>2, Bounds DEF Token
  <2>2. \A f, t \in Token : token[t].family # f
    BY <1>4, Bounds DEF Null
  <2>3. [f \in Token |-> {t \in Token : Live(t) /\ token[t].family = f}] = [s \in Token |-> {}]
    BY <2>2
  <2> QED
    BY <2>1, <2>3 DEF Sessions!Init
<1> QED
  BY <1>1, <1>3, <1>5, <1>6 DEF LInv

-----------------------------------------------------------------------------
LEMMA TableKept ==
  ASSUME LInv, token' = token, nextToken' = nextToken PROVE TableStep
BY DEF LInv, TableStep, OneLiveTokenPerFamily, ResetEndsSessions, Live, Now, Used

\* Rows that go, or are revoked, only end sessions.
LEMMA TableNarrowed ==
  ASSUME LInv, nextToken' = nextToken,
         \A t \in Token : /\ Live(t)' => Live(t) /\ token'[t].family = token[t].family
                          /\ token'[t].carried => token'[t].status = "revoked"
  PROVE  TableStep
<1>1. OneLiveTokenPerFamily'
  BY DEF LInv, OneLiveTokenPerFamily
<1>2. ResetEndsSessions'
  BY DEF ResetEndsSessions
<1> DEFINE S == {f \in Token : Now'[f] = {}}
<1>3. ASSUME NEW f \in Token PROVE Now'[f] = IF f \in S THEN {} ELSE Now[f]
  <2>1. Now'[f] \subseteq Now[f]
    BY DEF Now
  <2>2. ASSUME NEW t \in Now'[f] PROVE Now[f] \subseteq Now'[f]
    <3>1. t \in Token /\ Live(t) /\ token[t].family = f /\ f # Null
      BY Bounds DEF Now, Null
    <3>2. \A s \in Now[f] : s = t
      BY <3>1 DEF LInv, OneLiveTokenPerFamily, Now
    <3> QED
      BY <3>2
  <2> QED
    BY <2>1, <2>2
<1>4. Now' = [f \in Token |-> IF f \in S THEN {} ELSE Now[f]]
  BY <1>3 DEF Now
<1>5. S \in SUBSET Token /\ Used' = Used
  BY DEF Used
<1> HIDE DEF S
<1>6. PICK Z \in SUBSET Token : Z = S
  BY <1>5
<1>7. Sessions!End(Z)
  BY <1>4, <1>5, <1>6 DEF Sessions!End, Now, Used
<1> QED
  BY <1>1, <1>2, <1>7 DEF TableStep, Sessions!Next

\* A new row begins a session, or renews the one whose live token it replaces.
LEMMA TableGrown ==
  ASSUME LInv, NEW T \in SUBSET Token, NEW e, NEW u, NEW f \in Token \union {Null},
         nextToken <= MaxToken, nextToken' = nextToken + 1,
         token' = [Revoked(T) EXCEPT ![nextToken] = Row(e, u, Family(f), FALSE)],
         \A t \in T : token[t].family = f,
         f # Null => \E t \in T : Live(t)
  PROVE  TableStep
<1> DEFINE r == Row(e, u, Family(f), FALSE)
           g == Family(f)
<1>1. nextToken \in Token /\ nextToken \in Nat /\ Token \subseteq Nat \ {0}
  BY Types, Bounds DEF LInv, AInv, Token
<1>2. r.status = "live" /\ r.family = g /\ ~r.carried
  BY DEF Row
<1> HIDE DEF r
<1>3. /\ token'[nextToken] = r
      /\ \A t \in Token \ {nextToken} : token'[t] = Revoked(T)[t]
  <2>1. Revoked(T) \in [Token -> TokenState]
    BY RevokedRows DEF LInv, AInv
  <2> QED
    BY <1>1, <2>1 DEF r
<1>4. \A t \in Token \ {nextToken} :
        /\ Live(t)' <=> Live(t) /\ t \notin T
        /\ token'[t].family = token[t].family /\ token'[t].carried = token[t].carried
        /\ token[t].status = "revoked" => token'[t].status = "revoked"
  BY <1>3, RevokedRows DEF LInv, AInv, Live
<1>5. /\ token'[nextToken].status = "live" /\ token'[nextToken].family = g
      /\ token[nextToken].status = "absent"
  <2>1. token'[nextToken].status = "live" /\ token'[nextToken].family = g
    BY <1>2, <1>3
  <2>2. token[nextToken].status = "absent"
    BY <1>1 DEF LInv, AInv, Fresh
  <2> QED
    BY <2>1, <2>2
<1>6. g \in Token /\ (f # Null => g = f) /\ (f = Null => g = nextToken)
  BY <1>1 DEF Family
<1>7. \A t \in Token : token[t].family # nextToken
  <2>1. ASSUME NEW t \in Token, token[t].family = nextToken PROVE FALSE
    BY <1>1, <2>1 DEF LInv, AInv, Rows, Null
  <2> QED
    BY <2>1
\* Whatever was live in the session is revoked.
<1>8. ASSUME NEW t \in Token, Live(t), token[t].family = g PROVE t \in T
  <2>1. f # Null
    BY <1>6, <1>7, <1>8
  <2>2. PICK s \in T : Live(s) /\ token[s].family = f
    BY <2>1
  <2> QED
    BY <1>6, <1>8, <2>1, <2>2 DEF LInv, OneLiveTokenPerFamily
<1>9. Now'[g] = {nextToken}
  <2>1. Now'[g] = {t \in Token : token'[t].status = "live" /\ token'[t].family = g}
    BY <1>6 DEF Now, Live
  <2>2. ASSUME NEW t \in Token \ {nextToken}, token'[t].status = "live", token'[t].family = g
        PROVE  FALSE
    BY <1>4, <1>8, <2>2 DEF Live
  <2> HIDE DEF g
  <2> QED
    BY <1>1, <1>5, <2>1, <2>2
<1>10. \A s \in Token \ {g} : Now'[s] = Now[s]
  <2> SUFFICES ASSUME NEW s \in Token \ {g} PROVE Now'[s] = Now[s]
    OBVIOUS
  <2>1. ASSUME NEW t \in Token PROVE t \in Now'[s] <=> t \in Now[s]
    <3>1. CASE t = nextToken
      BY <1>5, <3>1 DEF Now, Live
    <3>2. CASE t # nextToken
      <4>1. t \in T => token[t].family # s
        BY <1>1, <1>6 DEF Null
      <4> QED
        BY <1>4, <3>2, <4>1 DEF Now
    <3> QED
      BY <3>1, <3>2
  <2> QED
    BY <2>1 DEF Now
<1>11. Now' = [Now EXCEPT ![g] = {nextToken}]
  BY <1>6, <1>9, <1>10 DEF Now
<1>12. nextToken \notin Used /\ Used' = Used \union {nextToken}
  BY <1>1 DEF Used
<1>13. Sessions!Next
  <2>0. PICK n \in Token : n = nextToken
    BY <1>1
  <2>1. CASE f = Null
    <3>1. Sessions!Begin(n)
      BY <1>6, <1>11, <1>12, <2>0, <2>1 DEF Sessions!Begin, Now, Used
    <3> QED
      BY <3>1 DEF Sessions!Next
  <2>2. CASE f # Null
    <3>1. f \in Token /\ Now[f] # {}
      BY <2>2 DEF Now
    <3>2. Sessions!Renew(f, n)
      BY <1>6, <1>11, <1>12, <2>0, <2>2, <3>1 DEF Sessions!Renew, Now, Used
    <3> QED
      BY <3>1, <3>2 DEF Sessions!Next
  <2> QED
    BY <2>1, <2>2
<1>14. OneLiveTokenPerFamily'
  <2> SUFFICES ASSUME NEW s \in Token, NEW t \in Token, Live(s)', Live(t)',
                      token'[s].family = token'[t].family, token'[s].family # Null
               PROVE  s = t
    BY DEF OneLiveTokenPerFamily
  <2>0. ASSUME NEW x \in Token \ {nextToken}, token'[x].status = "live"
        PROVE  token'[x].family # g
    BY <1>4, <1>8, <2>0 DEF Live
  <2>1. CASE s = nextToken \/ t = nextToken
    <3>1. token'[s].status = "live" /\ token'[t].status = "live"
      BY DEF Live
    <3> HIDE DEF g
    <3> QED
      BY <1>5, <2>0, <2>1, <3>1
  <2>2. CASE s # nextToken /\ t # nextToken
    BY <1>4, <2>2 DEF LInv, OneLiveTokenPerFamily
  <2> QED
    BY <2>1, <2>2
<1>15. ResetEndsSessions'
  BY <1>2, <1>3, <1>4 DEF LInv, ResetEndsSessions
<1> QED
  BY <1>13, <1>14, <1>15 DEF TableStep

-----------------------------------------------------------------------------
\* A request moves: it takes the loop only when nobody has it, and while
\* somebody has it nobody else touches the table.
LEMMA LoopMoves ==
  ASSUME LInv, ~Scaled, NEW c \in Call, NEW n \in CallState, call' = [call EXCEPT ![c] = n],
         \/ MayRun(c) /\ (n.phase = "rotating" => Live(n.token)')
         \/ n.phase \notin OnLoop /\ token' = token
  PROVE  Loop' /\ Rotating'
<1>1. /\ call'[c] = n /\ \A d \in Call \ {c} : call'[d] = call[d]
  BY OneCallMoves DEF LInv, AInv
<1>2. CASE MayRun(c) /\ (n.phase = "rotating" => Live(n.token)')
  <2>1. \A d \in Call \ {c} : call[d].phase \notin OnLoop
    BY <1>2 DEF MayRun
  <2> QED
    BY <1>1, <1>2, <2>1 DEF Loop, Rotating, OnLoop
<1>3. CASE n.phase \notin OnLoop /\ token' = token
  BY <1>1, <1>3 DEF LInv, Loop, Rotating, OnLoop, Live
<1> QED
  BY <1>2, <1>3

\* A request that runs ends.
LEMMA LoopEnds ==
  ASSUME LInv, ~Scaled, NEW c \in Call, Ends(c), MayRun(c) \/ token' = token
  PROVE  Loop' /\ Rotating'
<1>1. /\ call' = [call EXCEPT ![c] = Idle(call[c].email)]
      /\ Idle(call[c].email) \in CallState /\ Idle(call[c].email).phase = "idle"
  BY EndsMoves DEF LInv, AInv
<1>2. "idle" \notin OnLoop /\ "idle" # "rotating"
  BY DEF OnLoop
<1> QED
  BY <1>1, <1>2, LoopMoves

LEMMA LoopKept ==
  ASSUME LInv, call' = call, token' = token PROVE Loop' /\ Rotating'
BY DEF LInv, Loop, Rotating, Live

-----------------------------------------------------------------------------
\* Every step of one worker, action by action
OneWorkerStep == Loop' /\ Rotating' /\ TableStep

LEMMA QuietCall ==
  ASSUME LInv, ~Scaled, NEW c \in Call, NEW n \in CallState, call' = [call EXCEPT ![c] = n],
         n.phase \notin OnLoop \/ (MayRun(c) /\ n.phase # "rotating"),
         UNCHANGED <<token, nextToken>>
  PROVE  OneWorkerStep
BY LoopMoves, TableKept DEF OneWorkerStep

LEMMA LookupsOneWorker ==
  ASSUME LInv, ~Scaled, NEW c \in Call, NEW e \in Email,
         \/ LoginVerify(c, e) \/ RegisterCheck(c, e) \/ ForgotPassword(c, e)
         \/ ResetLookup(c, e) \/ DeleteVerify(c, e)
  PROVE  OneWorkerStep
<1> DEFINE a == account[e]
           p == IF a.expired THEN "clearing" ELSE "hashing"
<1>0. /\ Null \in Token \union {Null} /\ Null \in Link \union {Null} /\ Null \in User \union {Null}
      /\ a.id \in User \union {Null} /\ a.link \in Link \union {Null}
  BY DEF LInv, AInv, TypeOK, Account
<1>1. /\ At("verified", e, a.id, Null, Null) \in CallState
      /\ At("confirmed", e, a.id, Null, Null) \in CallState
      /\ At("registering", e, Null, Null, Null) \in CallState
      /\ At(p, e, a.id, Null, a.link) \in CallState
  <2>1. {"verified", "confirmed", "registering", p} \subseteq {"idle"} \union Await \union OnLoop
    BY DEF Await, OnLoop
  <2> HIDE DEF a, p
  <2> QED
    BY <1>0, <2>1 DEF At, CallState
<1> USE DEF At
<1>2. CASE LoginVerify(c, e)
  BY <1>1, <1>2, QuietCall DEF LoginVerify, OnLoop
<1>3. CASE RegisterCheck(c, e)
  BY <1>1, <1>3, QuietCall DEF RegisterCheck, OnLoop
<1>4. CASE ForgotPassword(c, e)
  BY <1>4, LoopKept, TableKept DEF ForgotPassword, OneWorkerStep
<1>5. CASE ResetLookup(c, e)
  <2> DEFINE n == At(p, e, a.id, Null, a.link)
  <2>1. MayRun(c) /\ UNCHANGED <<token, nextToken>> /\ call' = [call EXCEPT ![c] = n]
    BY <1>5 DEF ResetLookup, Begins
  <2>2. n.phase # "rotating" /\ n \in CallState
    BY <1>1
  <2> HIDE DEF n
  <2> QED
    BY <2>1, <2>2, QuietCall
<1>6. CASE DeleteVerify(c, e)
  BY <1>1, <1>6, QuietCall DEF DeleteVerify, OnLoop
<1> QED
  BY <1>2, <1>3, <1>4, <1>5, <1>6

LEMMA RefreshLookupOneWorker ==
  ASSUME LInv, ~Scaled, NEW c \in Call, NEW t \in Token, RefreshLookup(c, t) PROVE OneWorkerStep
<1>1. MayRun(c) /\ UNCHANGED <<token, nextToken>>
  BY DEF RefreshLookup, Begins
<1>2. PICK n \in CallState :
        /\ call' = [call EXCEPT ![c] = n] /\ n.token = t
        /\ n.phase = "rotating" => Live(t)
  BY RefreshLookupMoves DEF LInv
<1>3. n.phase = "rotating" => Live(n.token)'
  BY <1>1, <1>2 DEF Live
<1>4. Loop' /\ Rotating'
  BY <1>1, <1>2, <1>3, LoopMoves
<1> QED
  BY <1>1, <1>4, TableKept DEF OneWorkerStep

LEMMA LogoutOneWorker ==
  ASSUME LInv, ~Scaled, NEW c \in Call, NEW t \in Token, Logout(c, t) PROVE OneWorkerStep
<1>1. /\ MayRun(c) /\ call[c].phase = "idle" /\ token' = Revoked({t})
      /\ UNCHANGED <<call, nextToken>>
  BY DEF Logout, Begins
<1>2. call[c] \in CallState /\ call' = [call EXCEPT ![c] = call[c]]
  BY <1>1 DEF LInv, AInv, TypeOK
<1>3. Loop' /\ Rotating'
  BY <1>1, <1>2, LoopMoves
<1>4. TableStep
  BY <1>1, RevokedRows, TableNarrowed DEF LInv, AInv, ResetEndsSessions, Live
<1> QED
  BY <1>3, <1>4 DEF OneWorkerStep

LEMMA IssuesOneWorker ==
  ASSUME LInv, ~Scaled, NEW c \in Call, LoginIssue(c) \/ RegisterIssue(c) PROVE OneWorkerStep
<1> DEFINE e == call[c].email
           u == call[c].user
<1>1. MayRun(c) /\ Ends(c) /\ Issue(e, u)
  BY DEF LoginIssue, RegisterIssue, Resumes
<1>2. Loop' /\ Rotating'
  BY <1>1, LoopEnds
<1> HIDE DEF e, u
<1>3. TableStep
  <2>1. CASE Exists(u)
    <3>1. token = Revoked({})
      BY DEF LInv, AInv, TypeOK, Revoked
    <3>2. /\ nextToken <= MaxToken /\ nextToken' = nextToken + 1
          /\ token' = [Revoked({}) EXCEPT ![nextToken] = Row(e, u, Family(Null), FALSE)]
      BY <1>1, <2>1, <3>1 DEF Issue, Added
    <3>3. {} \in SUBSET Token /\ Null \in Token \union {Null} /\ \A t \in {} : token[t].family = Null
      OBVIOUS
    <3> QED
      BY <3>2, <3>3, TableGrown
  <2>2. CASE ~Exists(u)
    BY <1>1, <2>2, TableKept DEF Issue
  <2> QED
    BY <2>1, <2>2
<1> QED
  BY <1>2, <1>3 DEF OneWorkerStep

LEMMA RegisterCreateOneWorker ==
  ASSUME LInv, ~Scaled, NEW c \in Call, RegisterCreate(c) PROVE OneWorkerStep
<1>1. MayRun(c) /\ UNCHANGED <<token, nextToken>>
  BY DEF RegisterCreate, Resumes
<1>2. CASE Ends(c)
  BY <1>1, <1>2, LoopEnds, TableKept DEF OneWorkerStep
<1>3. CASE ~Ends(c)
  <2> DEFINE n == At("mailing", call[c].email, nextUser, Null, Null)
  <2>1. call' = [call EXCEPT ![c] = n] /\ nextUser <= MaxUser
    BY <1>3 DEF RegisterCreate
  <2>2. /\ "mailing" \in {"idle"} \union Await \union OnLoop /\ nextUser \in User \union {Null}
        /\ Null \in Token \union {Null} /\ Null \in Link \union {Null}
        /\ call[c].email \in Email
    BY <2>1, Types, Bounds DEF LInv, AInv, Await, User
  <2>3. n \in CallState /\ n.phase = "mailing"
    BY <2>2, NewCallState
  <2>4. n.phase \notin OnLoop
    BY <2>3 DEF OnLoop
  <2> HIDE DEF n
  <2> QED
    BY <1>1, <2>1, <2>3, <2>4, QuietCall
<1> QED
  BY <1>2, <1>3

LEMMA ReuseOneWorker ==
  ASSUME LInv, ~Scaled, NEW c \in Call, RefreshReuse(c) PROVE OneWorkerStep
<1>1. MayRun(c) /\ Ends(c) /\ nextToken' = nextToken /\ (token' = token \/ \E T : token' = Revoked(T))
  BY DEF RefreshReuse, Resumes
<1>2. Loop' /\ Rotating'
  BY <1>1, LoopEnds
<1>3. ASSUME NEW T, token' = Revoked(T) PROVE TableStep
  BY <1>1, <1>3, RevokedRows, TableNarrowed DEF LInv, AInv, ResetEndsSessions, Live
<1> QED
  BY <1>1, <1>2, <1>3, TableKept DEF OneWorkerStep

\* The token that is rotated is live: it is not a token that a reset ended,
\* and it is the only live one of its family.
LEMMA RotateOneWorker ==
  ASSUME LInv, ~Scaled, NEW c \in Call, RefreshRotate(c) PROVE OneWorkerStep
<1> DEFINE t == call[c].token
           r == token[t]
<1>1. MayRun(c) /\ Ends(c) /\ call[c].phase = "rotating"
  BY DEF RefreshRotate, Resumes
<1>2. Loop' /\ Rotating'
  BY <1>1, LoopEnds
<1>3. t \in Token /\ Live(t)
  BY <1>1 DEF LInv, AInv, GoodCall, Rotating
<1>4. r.family \in Token \union {Null} /\ ~r.carried /\ r.carried = FALSE
  BY <1>3, Types DEF LInv, AInv, ResetEndsSessions, TokenState, Live
<1>5. TableStep
  <2>1. CASE UNCHANGED <<token, nextToken>>
    BY <2>1, TableKept
  <2>2. CASE /\ nextToken <= MaxToken /\ nextToken' = nextToken + 1
             /\ token' = [Revoked({t}) EXCEPT ![nextToken] =
                            Row(call[c].email, call[c].user, Family(r.family), r.carried)]
    <3>1. PICK T \in SUBSET Token, f \in Token \union {Null}, e \in {call[c].email}, u \in {call[c].user} :
            /\ T = {t} /\ f = r.family
            /\ token' = [Revoked(T) EXCEPT ![nextToken] = Row(e, u, Family(f), FALSE)]
      BY <1>3, <1>4, <2>2
    <3>2. (\A x \in T : token[x].family = f) /\ \E x \in T : Live(x)
      BY <1>3, <3>1
    <3>3. nextToken <= MaxToken /\ nextToken' = nextToken + 1
      BY <2>2
    <3> HIDE DEF r, t
    <3> QED
      BY <3>1, <3>2, <3>3, TableGrown
  <2> QED
    BY <2>1, <2>2 DEF RefreshRotate
<1> QED
  BY <1>2, <1>5 DEF OneWorkerStep

LEMMA ResetsOneWorker ==
  ASSUME LInv, ~Scaled, NEW c \in Call, ResetClear(c) \/ ResetApply(c) \/ ResetFails(c)
  PROVE  OneWorkerStep
<1>1. MayRun(c) /\ Ends(c) /\ nextToken' = nextToken
  BY DEF ResetClear, ResetApply, ResetFails, Resumes
<1>2. Loop' /\ Rotating'
  BY <1>1, LoopEnds
<1>3. CASE token' = token
  BY <1>1, <1>2, <1>3, TableKept DEF OneWorkerStep
<1>4. CASE ResetApply(c)
  <2>1. call[c].user \in User /\ token' = EvictedBy(call[c].user)
    BY <1>4 DEF LInv, AInv, TypeOK, CallState, GoodCall, ResetApply, Resumes
  <2>2. \A t \in Token : /\ Live(t)' => Live(t) /\ token'[t].family = token[t].family
                         /\ token'[t].carried => token'[t].status = "revoked"
    BY <2>1, EvictedRows DEF LInv, ResetEndsSessions, Live
  <2> QED
    BY <1>1, <1>2, <2>2, TableNarrowed DEF OneWorkerStep
<1> QED
  BY <1>3, <1>4 DEF ResetClear, ResetFails

LEMMA DeleteOneWorker ==
  ASSUME LInv, ~Scaled, NEW c \in Call, DeleteApply(c) PROVE OneWorkerStep
<1> DEFINE a == Absent(call[c].email)
<1>1. /\ MayRun(c) /\ Ends(c) /\ nextToken' = nextToken
      /\ token' = [t \in Token |-> IF token[t].user = call[c].user THEN a ELSE token[t]]
  BY DEF DeleteApply, Resumes
<1>2. Loop' /\ Rotating'
  BY <1>1, LoopEnds
<1>3. a.status = "absent" /\ ~a.carried
  BY DEF Absent
<1> HIDE DEF a
<1>4. \A t \in Token : /\ Live(t)' => Live(t) /\ token'[t].family = token[t].family
                       /\ token'[t].carried => token'[t].status = "revoked"
  BY <1>1, <1>3 DEF LInv, ResetEndsSessions, Live
<1> QED
  BY <1>1, <1>2, <1>4, TableNarrowed DEF OneWorkerStep

LEMMA NextLInv ==
  ASSUME ~Scaled, LInv, [Next]_vars
  PROVE  LInv' /\ (Sessions!Next \/ (Now' = Now /\ Used' = Used))
<1>1. AInv'
  BY NextAInv DEF LInv
<1>2. OneWorkerStep
  <2>1. ASSUME NEW c \in Call, Begin(c) PROVE OneWorkerStep
    BY <2>1, LookupsOneWorker, RefreshLookupOneWorker, LogoutOneWorker DEF Begin
  <2>2. ASSUME NEW c \in Call, Continue(c) PROVE OneWorkerStep
    BY <2>2, IssuesOneWorker, RegisterCreateOneWorker, ReuseOneWorker, RotateOneWorker,
       ResetsOneWorker, DeleteOneWorker DEF Continue
  <2>3. ASSUME NEW c \in Call, Crash(c) PROVE OneWorkerStep
    BY <2>3, LoopEnds, TableKept DEF Crash, OneWorkerStep
  <2>4. ASSUME NEW e \in Email, LinkExpires(e) PROVE OneWorkerStep
    BY <2>4, LoopKept, TableKept DEF LinkExpires, OneWorkerStep
  <2>5. CASE TokenExpires \/ UNCHANGED vars
    BY <2>5, LoopKept, TableKept DEF TokenExpires, vars, OneWorkerStep
  <2> QED
    BY <2>1, <2>2, <2>3, <2>4, <2>5 DEF Next
<1> QED
  BY <1>1, <1>2 DEF LInv, OneWorkerStep, TableStep

(***************************************************************************)
(* With one worker a family never has two live tokens, however often and   *)
(* in whichever order its tokens are presented.                            *)
(***************************************************************************)
THEOREM OneLiveToken == ASSUME ~Scaled PROVE Spec => []OneLiveTokenPerFamily
<1>1. Init => LInv
  BY InitLInv
<1>2. LInv /\ [Next]_vars => LInv'
  BY NextLInv
<1>3. LInv => OneLiveTokenPerFamily
  BY DEF LInv
<1> QED
  BY <1>1, <1>2, <1>3, PTL DEF Spec

(***************************************************************************)
(* With one worker a password reset ends every session that is there, and  *)
(* none of them comes back through a token that was exchanged.             *)
(***************************************************************************)
THEOREM ResetEnds == ASSUME ~Scaled PROVE Spec => []ResetEndsSessions
<1>1. Init => LInv
  BY InitLInv
<1>2. LInv /\ [Next]_vars => LInv'
  BY NextLInv
<1>3. LInv => ResetEndsSessions
  BY DEF LInv
<1> QED
  BY <1>1, <1>2, <1>3, PTL DEF Spec

(***************************************************************************)
(* With one worker the table of refresh tokens implements the sessions of  *)
(* RotatingSessions: a session that has ended stays ended.                 *)
(***************************************************************************)
THEOREM SessionRefinement == ASSUME ~Scaled PROVE Spec => ImplementsSessions
<1>1. Init => LInv /\ Sessions!Init
  BY InitLInv
<1>2. LInv /\ [Next]_vars => LInv'
  BY NextLInv
<1>3. LInv /\ [Next]_vars =>
        [Sessions!Next]_<<[f \in Token |-> {t \in Token : Live(t) /\ token[t].family = f}],
                          1..(nextToken - 1)>>
  BY NextLInv DEF Now, Used
<1> QED
  BY <1>1, <1>2, <1>3, PTL DEF Spec, ImplementsSessions, Sessions!Spec
=============================================================================
