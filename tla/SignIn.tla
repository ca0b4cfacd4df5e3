------------------------------- MODULE SignIn -------------------------------
(***************************************************************************)
(* Who gets in: the login throttle, registration and the verification of   *)
(* e-mail addresses.                                                       *)
(*                                                                         *)
(* The handlers are coroutines of one worker process, the deployment the   *)
(* throttle's in-memory storage is made for.  A login awaits the password  *)
(* check in a thread between asking the throttle and telling it; register  *)
(* awaits the hash and, like resend-verification, the mail.                *)
(*                                                                         *)
(* The throttle goes by the address in lower case, an account by the       *)
(* address as typed.  A failure is kept by its age, in ticks; past the     *)
(* window all ages are alike.  The pruning beyond 10,000 addresses removes *)
(* empty queues only, which is no change.                                  *)
(***************************************************************************)
EXTENDS Integers, Sequences, FiniteSets

CONSTANTS Call,     \* request slots: the requests handled at the same time
          Email,    \* the addresses that are typed
          Lower,    \* Lower[e]: the address without its case
          Max,      \* MAX_FAILED_ATTEMPTS
          Window,   \* WINDOW_SECONDS, in ticks
          MaxUser,  \* bound: the largest users.id
          MaxLink   \* bound: the number of verification links made

ASSUME CallAssumption == IsFiniteSet(Call)
ASSUME LimitsAssumption == Max \in Nat \ {0} /\ Window \in Nat
ASSUME BoundsAssumption == MaxUser \in Nat \ {0} /\ MaxLink \in Nat \ {0}

None == 0   \* no user, no link
User == 1..MaxUser
Link == 1..MaxLink
Name == {Lower[e] : e \in Email}

VARIABLES failures,  \* failures[n]: the ages of the failed logins, oldest first
          account,   \* account[e]: the row of users with address e
          call,      \* the request each slot is handling
          nextUser,  \* the sequence behind users.id
          nextLink,  \* links below it have been made
          mailed     \* mailed[k]: the user whose mail with link k arrived

vars == <<failures, account, call, nextUser, nextLink, mailed>>

\* A token as it is presented or stored: the link itself or its SHA-256.
Token == [form : {"plain", "hashed", "rehashed"}, link : Link \union {None}]
NoToken == [form |-> "plain", link |-> None]
Plain(k) == [form |-> "plain", link |-> k]
Hash(v) == [v EXCEPT !.form = IF @ = "plain" THEN "hashed" ELSE "rehashed"]

Account == [id : User \union {None}, verified : BOOLEAN, token : Token]
NoAccount == [id |-> None, verified |-> FALSE, token |-> NoToken]

CallState == [phase : {"idle", "checking", "hashing", "mailing"}, email : Email,
              right : BOOLEAN, user : User \union {None}, link : Link \union {None}]

TypeOK ==
  /\ failures \in [Name -> Seq(0..(Window + 1))]
  /\ account \in [Email -> Account]
  /\ call \in [Call -> CallState]
  /\ nextUser \in 1..(MaxUser + 1) /\ nextLink \in 1..(MaxLink + 1)
  /\ mailed \in [Link -> User \union {None}]

At(phase, e, right, u, k) ==
  [phase |-> phase, email |-> e, right |-> right, user |-> u, link |-> k]
Idle(e) == At("idle", e, FALSE, None, None)
Ends(c) == call' = [call EXCEPT ![c] = Idle(@.email)]

\* One account, from before tokens were hashed: its link is stored as it is
\* and was mailed.
Init ==
  /\ failures = [n \in Name |-> <<>>]
  /\ \E e \in Email :
       /\ account = [x \in Email |-> IF x = e THEN [id |-> 1, verified |-> FALSE, token |-> Plain(1)]
                                              ELSE NoAccount]
       /\ call = [c \in Call |-> Idle(e)]
  /\ nextUser = 2 /\ nextLink = 2
  /\ mailed = [k \in Link |-> IF k = 1 THEN 1 ELSE None]

-----------------------------------------------------------------------------
\* _recent_failures drops the oldest ones that are past the window.
Recent(q) == LET stale == {i \in 1..Len(q) : q[i] > Window}
             IN SubSeq(q, Cardinality(stale) + 1, Len(q))

\* Mutation of Throttled: one failure too many.
ThrottledLate(q) == Len(q) > Max

Throttled(q) == Len(q) >= Max

\* Mutation of LoginAdmit: a throttled attempt renews the oldest failure.
LoginAdmitCounting(c, e, right) ==
  /\ call[c].phase = "idle"
  /\ LET n == Lower[e]
         q == Recent(failures[n])
     IN IF Throttled(q)
          THEN failures' = [failures EXCEPT ![n] = Append(SubSeq(q, 2, Len(q)), 0)] /\ UNCHANGED call
          ELSE /\ failures' = [failures EXCEPT ![n] = q]
               /\ call' = [call EXCEPT ![c] = At("checking", e, right, None, None)]
  /\ UNCHANGED <<account, nextUser, nextLink, mailed>>

\* login: is_throttled.  A throttled attempt is a 401 that leaves no trace;
\* any other goes to a thread, with the right password or not.
LoginAdmit(c, e, right) ==
  /\ call[c].phase = "idle"
  /\ LET n == Lower[e]
         q == Recent(failures[n])
     IN /\ failures' = [failures EXCEPT ![n] = q]
        /\ IF Throttled(q)
             THEN UNCHANGED call
             ELSE call' = [call EXCEPT ![c] = At("checking", e, right, None, None)]
  /\ UNCHANGED <<account, nextUser, nextLink, mailed>>

\* authenticate_user found the account and the password right: clear_failures.
\* Without an account, or with the wrong password: record_failure.
LoginAnswer(c) ==
  /\ call[c].phase = "checking"
  /\ LET n == Lower[call[c].email]
         in == call[c].right /\ account[call[c].email].id # None
     IN failures' = [failures EXCEPT ![n] = IF in THEN <<>> ELSE Append(@, 0)]
  /\ Ends(c)
  /\ UNCHANGED <<account, nextUser, nextLink, mailed>>

-----------------------------------------------------------------------------
\* register: nobody has the address; the password is hashed in a thread.
RegisterCheck(c, e) ==
  /\ call[c].phase = "idle"
  /\ account[e].id = None
  /\ call' = [call EXCEPT ![c] = At("hashing", e, FALSE, None, None)]
  /\ UNCHANGED <<failures, account, nextUser, nextLink, mailed>>

\* The commit fails on the unique address if it is taken by now.
RegisterCreate(c) ==
  /\ call[c].phase = "hashing"
  /\ LET e == call[c].email IN
     IF account[e].id # None
       THEN Ends(c) /\ UNCHANGED <<account, nextUser, nextLink>>
       ELSE /\ nextUser <= MaxUser /\ nextLink <= MaxLink
            /\ account' = [account EXCEPT ![e] = [id |-> nextUser, verified |-> FALSE,
                                                  token |-> Hash(Plain(nextLink))]]
            /\ call' = [call EXCEPT ![c] = At("mailing", e, FALSE, nextUser, nextLink)]
            /\ nextUser' = nextUser + 1 /\ nextLink' = nextLink + 1
  /\ UNCHANGED <<failures, mailed>>

\* resend_verification: a new link replaces the one that is stored.
Resend(c, e) ==
  /\ call[c].phase = "idle"
  /\ account[e].id # None /\ ~account[e].verified
  /\ nextLink <= MaxLink
  /\ account' = [account EXCEPT ![e].token = Hash(Plain(nextLink))]
  /\ call' = [call EXCEPT ![c] = At("mailing", e, FALSE, account[e].id, nextLink)]
  /\ nextLink' = nextLink + 1
  /\ UNCHANGED <<failures, nextUser, mailed>>

\* The mail arrives, or it does not: a failure is logged and swallowed.
Mail(c, arrives) ==
  /\ call[c].phase = "mailing"
  /\ mailed' = IF arrives THEN [mailed EXCEPT ![call[c].link] = call[c].user] ELSE mailed
  /\ Ends(c)
  /\ UNCHANGED <<failures, account, nextUser, nextLink>>

\* Mutation of Matches: the scan for plain tokens compares every row.
MatchesAnyRow(v) ==
  LET Holding(t) == {e \in Email : account[e].id # None /\ account[e].token = t} IN
  Holding(Hash(v)) \union Holding(v)

\* The rows a presented token verifies: the one with its hash, or else one
\* whose stored token does not look like a hash and is the presented one.
Matches(v) ==
  LET Holding(t) == {e \in Email : account[e].id # None /\ account[e].token = t} IN
  IF Holding(Hash(v)) # {} THEN Holding(Hash(v))
  ELSE {e \in Holding(v) : account[e].token.form = "plain"}

\* A token is presented as it was mailed or as a row holds it.
Presentable ==
  {v \in Token : /\ v.link # None
                 /\ \/ v.form = "plain" /\ mailed[v.link] # None
                    \/ v.form = "hashed" /\ \E e \in Email : account[e].token = v}

VerifyEmail(v) ==
  /\ \E e \in Matches(v) :
       account' = [account EXCEPT ![e].verified = TRUE, ![e].token = NoToken]
  /\ UNCHANGED <<failures, call, nextUser, nextLink, mailed>>

DeleteAccount(e) ==
  /\ account[e].id # None
  /\ account' = [account EXCEPT ![e] = NoAccount]
  /\ UNCHANGED <<failures, call, nextUser, nextLink, mailed>>

-----------------------------------------------------------------------------
\* Time passes for every failure.
Tick ==
  /\ failures' = [n \in Name |-> [i \in 1..Len(failures[n]) |->
                    IF failures[n][i] <= Window THEN failures[n][i] + 1 ELSE failures[n][i]]]
  /\ UNCHANGED <<account, call, nextUser, nextLink, mailed>>

\* The worker restarts: its requests and its memory of failures are gone.
Restart ==
  /\ failures' = [n \in Name |-> <<>>]
  /\ call' = [c \in Call |-> Idle(call[c].email)]
  /\ UNCHANGED <<account, nextUser, nextLink, mailed>>

Next ==
  \/ \E c \in Call :
       \/ \E e \in Email : \/ RegisterCheck(c, e) \/ Resend(c, e)
                           \/ \E right \in BOOLEAN : LoginAdmit(c, e, right)
       \/ LoginAnswer(c) \/ RegisterCreate(c)
       \/ \E arrives \in BOOLEAN : Mail(c, arrives)
  \/ \E v \in Presentable : VerifyEmail(v)
  \/ \E e \in Email : DeleteAccount(e)
  \/ Tick \/ Restart

Spec == Init /\ [][Next]_vars
FairSpec == Spec /\ WF_vars(Tick)

-----------------------------------------------------------------------------
(***************************************************************************)
(* The throttle counts late: whoever is being checked has already passed   *)
(* it.  All the same the failures on record for an address exceed the      *)
(* maximum by less than the number of requests that are handled at once.   *)
(***************************************************************************)
BoundedGuessing ==
  \A n \in Name : Len(failures[n]) < Max + Cardinality(Call)

Locked(n) == Throttled(Recent(failures[n]))

(***************************************************************************)
(* login_throttle.py: "no permanent lockout".  However often the address   *)
(* is tried meanwhile, it is again and again let through.                  *)
(***************************************************************************)
ThrottleLifts == \A n \in Name : []<>~Locked(n)

(***************************************************************************)
(* A verified account got a mail: none of the links of an account deleted  *)
(* before, none that a newer one replaced before it arrived and nothing    *)
(* that only the database holds verifies the account of an address.        *)
(***************************************************************************)
VerifiedMeansMailed ==
  \A e \in Email : account[e].verified => \E k \in Link : mailed[k] = account[e].id
=============================================================================
