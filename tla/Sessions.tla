------------------------------ MODULE Sessions ------------------------------
(***************************************************************************)
(* Accounts, refresh tokens and password resets of the backend: login,     *)
(* registration, rotation with reuse detection, logout, forgotten          *)
(* passwords and account deletion.                                         *)
(*                                                                         *)
(* The handlers are coroutines.  Within one worker process a handler keeps *)
(* the event loop until it awaits: the bcrypt work, which runs in a        *)
(* thread, or the sending of a mail.  With several worker processes        *)
(* (Scaled) handlers interleave at every database statement as well.       *)
(*                                                                         *)
(* The database is PostgreSQL: ON DELETE CASCADE and the foreign key of    *)
(* refresh_tokens are enforced.  Passwords are not modelled; a login or a  *)
(* deletion with the wrong one changes nothing here.  users.is_active is   *)
(* never cleared by the program and is left out.                           *)
(***************************************************************************)
EXTENDS Integers, FiniteSets

CONSTANTS Call,      \* request slots: the requests handled at the same time
          Email,     \* the addresses accounts are made for
          Scaled,    \* TRUE: more than one worker process
          MaxUser,   \* bound: the largest users.id
          MaxToken,  \* bound: the number of refresh tokens
          MaxLink    \* bound: the number of reset links mailed

ASSUME ScaledAssumption == Scaled \in BOOLEAN
ASSUME BoundsAssumption == MaxUser \in Nat \ {0} /\ MaxToken \in Nat \ {0} /\ MaxLink \in Nat
ASSUME EmailAssumption == Email # {}

User  == 1..MaxUser
Token == 1..MaxToken
Link  == 1..MaxLink
Null  == 0   \* no user, no token, no family, no link

VARIABLES account,    \* account[e]: the row of users with address e
          token,      \* token[t]: the row of refresh_tokens with jti t
          call,       \* the request each slot is handling
          nextUser,   \* the sequence behind users.id
          nextToken,  \* tokens below it have been made
          nextLink,   \* reset links below it have been mailed
          expiredTo   \* tokens up to it are past expires_at

vars == <<account, token, call, nextUser, nextToken, nextLink, expiredTo>>

Account == [id : User \union {Null}, link : Link \union {Null}, expired : BOOLEAN]
NoAccount == [id |-> Null, link |-> Null, expired |-> FALSE]

\* "carried" is a history field: the token was there when a password reset of
\* its account went through, or was exchanged for a token that was.
TokenState == [status : {"absent", "live", "revoked"}, email : Email,
               user : User \union {Null}, family : Token \union {Null},
               carried : BOOLEAN]

Await  == {"verified", "hashing", "registering", "mailing", "confirmed"}
OnLoop == {"rotating", "replayed", "clearing"}

CallState == [phase : {"idle"} \union Await \union OnLoop, email : Email,
              user : User \union {Null}, token : Token \union {Null},
              link : Link \union {Null}]

TypeOK ==
  /\ account \in [Email -> Account]
  /\ token \in [Token -> TokenState]
  /\ call \in [Call -> CallState]
  /\ nextUser \in 1..(MaxUser + 1)
  /\ nextToken \in 1..(MaxToken + 1)
  /\ nextLink \in 1..(MaxLink + 1)
  /\ expiredTo \in 0..MaxToken

At(phase, e, u, t, k) ==
  [phase |-> phase, email |-> e, user |-> u, token |-> t, link |-> k]
Idle(e) == At("idle", e, Null, Null, Null)

Row(e, u, f, carried) ==
  [status |-> "live", email |-> e, user |-> u, family |-> f, carried |-> carried]
Absent(e) ==
  [status |-> "absent", email |-> e, user |-> Null, family |-> Null, carried |-> FALSE]

\* One account exists, with a token from before rotation: its family is NULL.
Init ==
  \E e \in Email :
    /\ account = [x \in Email |-> IF x = e THEN [NoAccount EXCEPT !.id = 1] ELSE NoAccount]
    /\ token = [t \in Token |-> IF t = 1 THEN Row(e, 1, Null, FALSE) ELSE Absent(e)]
    /\ call = [c \in Call |-> Idle(e)]
    /\ nextUser = 2 /\ nextToken = 2 /\ nextLink = 1 /\ expiredTo = 0

-----------------------------------------------------------------------------
\* Nobody else is between two awaits on the event loop that c runs on.
MayRun(c) == Scaled \/ \A d \in Call \ {c} : call[d].phase \notin OnLoop

Begins(c) == call[c].phase = "idle" /\ MayRun(c)
Resumes(c, phase) == call[c].phase = phase /\ MayRun(c)
Ends(c) == call' = [call EXCEPT ![c] = Idle(@.email)]

Exists(u) == \E e \in Email : account[e].id = u

\* _issue_refresh_token: family_id or uuid4().  A family is named after the
\* token that founds it.
Family(f) == IF f = Null THEN nextToken ELSE f

Added(e, u, f, carried) ==
  /\ nextToken <= MaxToken
  /\ nextToken' = nextToken + 1
  /\ token' = [token EXCEPT ![nextToken] = Row(e, u, Family(f), carried)]

\* The INSERT fails on the foreign key when the user is gone: a 500.
Issue(e, u) ==
  IF Exists(u) THEN Added(e, u, Null, FALSE) ELSE UNCHANGED <<token, nextToken>>

\* SET revoked_at on those rows that do not have it yet
Revoked(T) ==
  [t \in Token |-> IF t \in T /\ token[t].status = "live"
                     THEN [token[t] EXCEPT !.status = "revoked"] ELSE token[t]]

-----------------------------------------------------------------------------
\* login: a thread reads the user and verifies the password.
LoginVerify(c, e) ==
  /\ call[c].phase = "idle"
  /\ account[e].id # Null
  /\ call' = [call EXCEPT ![c] = At("verified", e, account[e].id, Null, Null)]
  /\ UNCHANGED <<account, token, nextUser, nextToken, nextLink, expiredTo>>

LoginIssue(c) ==
  /\ Resumes(c, "verified")
  /\ Issue(call[c].email, call[c].user)
  /\ Ends(c)
  /\ UNCHANGED <<account, nextUser, nextLink, expiredTo>>

\* register: no account has the address; the password is hashed in a thread.
RegisterCheck(c, e) ==
  /\ Begins(c)
  /\ account[e].id = Null
  /\ call' = [call EXCEPT ![c] = At("registering", e, Null, Null, Null)]
  /\ UNCHANGED <<account, token, nextUser, nextToken, nextLink, expiredTo>>

\* The first commit, which fails on the unique address if it is taken by now.
RegisterCreate(c) ==
  /\ Resumes(c, "registering")
  /\ LET e == call[c].email IN
     IF account[e].id = Null
       THEN /\ nextUser <= MaxUser
            /\ nextUser' = nextUser + 1
            /\ account' = [account EXCEPT ![e] = [NoAccount EXCEPT !.id = nextUser]]
            /\ call' = [call EXCEPT ![c] = At("mailing", e, nextUser, Null, Null)]
       ELSE Ends(c) /\ UNCHANGED <<account, nextUser>>
  /\ UNCHANGED <<token, nextToken, nextLink, expiredTo>>

\* After the mail: the second commit.
RegisterIssue(c) ==
  /\ Resumes(c, "mailing")
  /\ Issue(call[c].email, call[c].user)
  /\ Ends(c)
  /\ UNCHANGED <<account, nextUser, nextLink, expiredTo>>

-----------------------------------------------------------------------------
\* Mutation of RefreshLookup: revoked_at is not asked for.
LookupIgnoringRevocation(c, t) ==
  /\ Begins(c)
  /\ t > expiredTo
  /\ LET r == token[t] IN
     /\ r.status # "absent" /\ account[r.email].id # Null
     /\ call' = [call EXCEPT ![c] = At("rotating", r.email, account[r.email].id, t, Null)]
  /\ UNCHANGED <<account, token, nextUser, nextToken, nextLink, expiredTo>>

\* refresh: the signature and exp of the token hold, and its row is looked up.
\* A revoked row takes the reuse branch; a live one needs the user of the
\* address in the token.  Everything else is a 401 that changes nothing.
RefreshLookup(c, t) ==
  /\ Begins(c)
  /\ t > expiredTo
  /\ LET r == token[t] IN
     \/ /\ r.status = "revoked"
        /\ call' = [call EXCEPT ![c] = At("replayed", r.email, r.user, t, Null)]
     \/ /\ r.status = "live" /\ account[r.email].id # Null
        /\ call' = [call EXCEPT ![c] = At("rotating", r.email, account[r.email].id, t, Null)]
  /\ UNCHANGED <<account, token, nextUser, nextToken, nextLink, expiredTo>>

\* Revoke the whole family of the presented row, unless it has none.
RefreshReuse(c) ==
  /\ Resumes(c, "replayed")
  /\ LET f == token[call[c].token].family IN
     token' = IF f = Null THEN token ELSE Revoked({t \in Token : token[t].family = f})
  /\ Ends(c)
  /\ UNCHANGED <<account, nextUser, nextToken, nextLink, expiredTo>>

\* Mutation of RefreshRotate: the presented row is left live.
RotateWithoutRevoking(c) ==
  /\ Resumes(c, "rotating")
  /\ LET r == token[call[c].token] IN Added(r.email, call[c].user, r.family, r.carried)
  /\ Ends(c)
  /\ UNCHANGED <<account, nextUser, nextLink, expiredTo>>

\* Revoke the presented row and add its successor in one commit.  The UPDATE
\* goes by the primary key: it fails if the row is gone, and does not ask
\* whether somebody else has revoked it by now.
RefreshRotate(c) ==
  /\ Resumes(c, "rotating")
  /\ LET t == call[c].token
         r == token[t]
     IN IF r.status = "absent" \/ ~Exists(call[c].user)
          THEN UNCHANGED <<token, nextToken>>
          ELSE /\ nextToken <= MaxToken
               /\ nextToken' = nextToken + 1
               /\ token' = [Revoked({t}) EXCEPT ![nextToken] =
                              Row(call[c].email, call[c].user, Family(r.family), r.carried)]
  /\ Ends(c)
  /\ UNCHANGED <<account, nextUser, nextLink, expiredTo>>

\* logout: only the token that is supplied.  Its lookup and its UPDATE act like
\* one step: revoking a row that has been revoked meanwhile leaves it revoked.
Logout(c, t) ==
  /\ Begins(c)
  /\ t > expiredTo /\ token[t].status = "live"
  /\ token' = Revoked({t})
  /\ UNCHANGED <<account, call, nextUser, nextToken, nextLink, expiredTo>>

-----------------------------------------------------------------------------
\* forgot_password: a new link replaces the one before, and lives one hour.
ForgotPassword(c, e) ==
  /\ Begins(c)
  /\ account[e].id # Null
  /\ nextLink <= MaxLink
  /\ nextLink' = nextLink + 1
  /\ account' = [account EXCEPT ![e].link = nextLink, ![e].expired = FALSE]
  /\ UNCHANGED <<token, call, nextUser, nextToken, expiredTo>>

\* reset_password: the user is looked up by the link.  An expired link is
\* cleared; for another the new password is hashed in a thread.
ResetLookup(c, e) ==
  /\ Begins(c)
  /\ account[e].link # Null
  /\ call' = [call EXCEPT ![c] = At(IF account[e].expired THEN "clearing" ELSE "hashing",
                                    e, account[e].id, Null, account[e].link)]
  /\ UNCHANGED <<account, token, nextUser, nextToken, nextLink, expiredTo>>

\* The user that the request has loaded still has its row.
StillThere(c) == account[call[c].email].id = call[c].user

ClearedLink(e) == account' = [account EXCEPT ![e].link = Null, ![e].expired = FALSE]

ResetClear(c) ==
  /\ Resumes(c, "clearing")
  /\ IF StillThere(c) THEN ClearedLink(call[c].email) ELSE UNCHANGED account
  /\ Ends(c)
  /\ UNCHANGED <<token, nextUser, nextToken, nextLink, expiredTo>>

\* Mutation of EvictedBy: logout's rule, one token only.
OneEvictedBy(u) ==
  [t \in Token |-> IF token[t].user # u THEN token[t]
                   ELSE [token[t] EXCEPT !.carried = TRUE,
                          !.status = IF t = nextToken - 1 THEN "revoked" ELSE @]]

EvictedBy(u) ==
  [t \in Token |-> IF token[t].user # u THEN token[t]
                   ELSE [token[t] EXCEPT !.status = "revoked", !.carried = TRUE]]

\* The new password, the cleared link and the revoked tokens in one commit.
\* What the account's link has become meanwhile is not asked.
ResetApply(c) ==
  /\ Resumes(c, "hashing")
  /\ StillThere(c)
  /\ ClearedLink(call[c].email)
  /\ token' = EvictedBy(call[c].user)
  /\ Ends(c)
  /\ UNCHANGED <<nextUser, nextToken, nextLink, expiredTo>>

\* The UPDATE finds no row: the account was deleted while the thread worked.
ResetFails(c) ==
  /\ Resumes(c, "hashing")
  /\ ~StillThere(c)
  /\ Ends(c)
  /\ UNCHANGED <<account, token, nextUser, nextToken, nextLink, expiredTo>>

-----------------------------------------------------------------------------
\* delete_account: the bearer's user is loaded, the password verified in a
\* thread.
DeleteVerify(c, e) ==
  /\ Begins(c)
  /\ account[e].id # Null
  /\ call' = [call EXCEPT ![c] = At("confirmed", e, account[e].id, Null, Null)]
  /\ UNCHANGED <<account, token, nextUser, nextToken, nextLink, expiredTo>>

\* Mutation of DeleteApply: the user's tokens are left behind.
DeleteUserOnly(c) ==
  /\ Resumes(c, "confirmed")
  /\ account' = IF StillThere(c) THEN [account EXCEPT ![call[c].email] = NoAccount]
                                 ELSE account
  /\ Ends(c)
  /\ UNCHANGED <<token, nextUser, nextToken, nextLink, expiredTo>>

\* One commit takes the user's tokens and the user.  A second deletion of the
\* same user finds nothing to delete.
DeleteApply(c) ==
  /\ Resumes(c, "confirmed")
  /\ account' = IF StillThere(c) THEN [account EXCEPT ![call[c].email] = NoAccount]
                                 ELSE account
  /\ token' = [t \in Token |-> IF token[t].user = call[c].user THEN Absent(call[c].email)
                                                              ELSE token[t]]
  /\ Ends(c)
  /\ UNCHANGED <<nextUser, nextToken, nextLink, expiredTo>>

-----------------------------------------------------------------------------
\* The process that handles a request dies; what was not committed is lost.
Crash(c) ==
  /\ call[c].phase # "idle"
  /\ Ends(c)
  /\ UNCHANGED <<account, token, nextUser, nextToken, nextLink, expiredTo>>

\* Tokens live equally long, so they expire in the order they were made.
TokenExpires ==
  /\ expiredTo + 1 < nextToken
  /\ expiredTo' = expiredTo + 1
  /\ UNCHANGED <<account, token, call, nextUser, nextToken, nextLink>>

LinkExpires(e) ==
  /\ account[e].link # Null /\ ~account[e].expired
  /\ account' = [account EXCEPT ![e].expired = TRUE]
  /\ UNCHANGED <<token, call, nextUser, nextToken, nextLink, expiredTo>>

Begin(c) ==
  \/ \E e \in Email : \/ LoginVerify(c, e) \/ RegisterCheck(c, e) \/ ForgotPassword(c, e)
                      \/ ResetLookup(c, e) \/ DeleteVerify(c, e)
  \/ \E t \in Token : RefreshLookup(c, t) \/ Logout(c, t)

Continue(c) ==
  \/ LoginIssue(c) \/ RegisterCreate(c) \/ RegisterIssue(c)
  \/ RefreshReuse(c) \/ RefreshRotate(c)
  \/ ResetClear(c) \/ ResetApply(c) \/ ResetFails(c) \/ DeleteApply(c)

Next ==
  \/ \E c \in Call : Begin(c) \/ Continue(c) \/ Crash(c)
  \/ \E e \in Email : LinkExpires(e)
  \/ TokenExpires

Spec == Init /\ [][Next]_vars

-----------------------------------------------------------------------------
Live(t) == token[t].status = "live"

(***************************************************************************)
(* Every row of refresh_tokens belongs to the user who has its address     *)
(* now.  refresh looks its user up by the address in the token, while the  *)
(* row names a user id: after an account was deleted and its address       *)
(* registered again the two must not meet, whatever login, registration or *)
(* deletion was in flight.                                                 *)
(***************************************************************************)
TokensHaveOwners ==
  \A t \in Token : token[t].status # "absent" => account[token[t].email].id = token[t].user

(***************************************************************************)
(* A family never has two live tokens: each is rotated into one successor. *)
(***************************************************************************)
OneLiveTokenPerFamily ==
  \A s, t \in Token :
    Live(s) /\ Live(t) /\ token[s].family = token[t].family /\ token[s].family # Null => s = t

(***************************************************************************)
(* A password reset ends the sessions that were there: no token that was   *)
(* there when the reset went through, and no token such a token is later   *)
(* exchanged for, is live.                                                 *)
(***************************************************************************)
ResetEndsSessions ==
  \A t \in Token : token[t].carried => token[t].status = "revoked"

\* The families as the sessions of RotatingSessions.
Sessions ==
  INSTANCE RotatingSessions WITH
    current <- [f \in Token |-> {t \in Token : Live(t) /\ token[t].family = f}],
    used <- 1..(nextToken - 1)

(***************************************************************************)
(* Rotation, reuse detection, logout, reset and deletion implement the     *)
(* sessions of RotatingSessions: a family in which nothing is live any     *)
(* more never comes back to life, whoever presents which of its tokens.    *)
(***************************************************************************)
ImplementsSessions == Sessions!Spec

(***************************************************************************)
(* password.py: "Single-use semantics: a consumed token can never be       *)
(* replayed."  A reset goes through only with the link that is stored at   *)
(* that moment.                                                            *)
(***************************************************************************)
ResetLinkIsSingleUse ==
  [][\A c \in Call : ResetApply(c) => account[call[c].email].link = call[c].link]_vars
=============================================================================
