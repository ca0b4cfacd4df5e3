--------------------------- MODULE AccountsProofs ---------------------------
(***************************************************************************)
(* Proofs about what surrounds an account.  Signing in: the variables keep *)
(* their types, the throttle lets through a bounded number of guesses      *)
(* however many requests are handled at once, and only its own mail        *)
(* verifies the address of an account.  Then RoleAssignment and Licences,  *)
(* as instances: only an outdated count takes the last admin, and a paid   *)
(* gate was earned.                                                        *)
(***************************************************************************)
EXTENDS Accounts, FiniteSetTheorems, SequenceTheorems, TLAPS

Age == 0..(Window + 1)

LEMMA NoneFacts == None \notin User /\ None \notin Link /\ None = 0
BY BoundsAssumption DEF None, User, Link

-----------------------------------------------------------------------------
\* What _recent_failures keeps is no more than there was.
LEMMA RecentShortens ==
  ASSUME NEW q \in Seq(Age)
  PROVE  Recent(q) \in Seq(Age) /\ Len(Recent(q)) \in 0..Len(q)
<1> DEFINE stale == {i \in 1..Len(q) : q[i] > Window}
           m == Cardinality(stale) + 1
<1>1. Len(q) \in Nat /\ q \in [1..Len(q) -> Age]
  BY LenProperties
<1>2. IsFiniteSet(1..Len(q))
  BY <1>1, FS_Interval
<1>3. Cardinality(stale) \in Nat
  BY <1>2, FS_Subset, FS_CardinalityType
<1>4. Recent(q) = SubSeq(q, m, Len(q))
  BY DEF Recent
<1> HIDE DEF m, stale
<1>5. m \in Nat \ {0}
  BY <1>3 DEF m
<1>6. \A i \in m..Len(q) : q[i] \in Age
  BY <1>1, <1>5
<1>7. /\ SubSeq(q, m, Len(q)) \in Seq(Age)
      /\ Len(SubSeq(q, m, Len(q))) = IF m <= Len(q) THEN Len(q) - m + 1 ELSE 0
  BY <1>1, <1>5, <1>6, SubSeqProperties
<1> QED BY <1>1, <1>4, <1>5, <1>7

\* A failure more, and the failures as they age.
LEMMA Recorded ==
  ASSUME NEW q \in Seq(Age)
  PROVE  Append(q, 0) \in Seq(Age) /\ Len(Append(q, 0)) = Len(q) + 1
BY LimitsAssumption, AppendProperties DEF Age

Aged(q) == [i \in 1..Len(q) |-> IF q[i] <= Window THEN q[i] + 1 ELSE q[i]]

LEMMA AgedKeepsLength ==
  ASSUME NEW q \in Seq(Age)
  PROVE  Aged(q) \in Seq(Age) /\ Len(Aged(q)) = Len(q)
<1>1. Len(q) \in Nat /\ \A i \in 1..Len(q) : q[i] \in Age
  BY LenProperties
<1>2. \A i \in 1..Len(q) : (IF q[i] <= Window THEN q[i] + 1 ELSE q[i]) \in Age
  BY <1>1, LimitsAssumption DEF Age
<1> QED BY <1>1, <1>2 DEF Aged

LEMMA NoFailures == <<>> \in Seq(Age) /\ Len(<<>>) = 0
BY EmptySeq

-----------------------------------------------------------------------------
LEMMA TypeInit == Init => TypeOK
<1> SUFFICES ASSUME Init PROVE TypeOK
  OBVIOUS
<1>1. PICK e \in Email :
        /\ account = [x \in Email |-> IF x = e THEN [id |-> 1, verified |-> FALSE, token |-> Plain(1)]
                                               ELSE NoAccount]
        /\ call = [c \in Call |-> Idle(e)]
  BY DEF Init
<1>2. 1 \in User /\ 1 \in Link /\ 2 \in 1..(MaxUser + 1) /\ 2 \in 1..(MaxLink + 1)
  BY BoundsAssumption DEF User, Link
<1>3. account \in [Email -> Account]
  BY <1>1, <1>2 DEF NoAccount, NoToken, Account, Token, Plain
<1>4. call \in [Call -> CallState]
  BY <1>1 DEF Idle, At, CallState
<1>5. failures \in [Name -> Seq(Age)]
  BY NoFailures DEF Init
<1>6. mailed \in [Link -> User \union {None}]
  BY <1>2 DEF Init
<1> QED BY <1>2, <1>3, <1>4, <1>5, <1>6 DEF Init, TypeOK, Age

LEMMA EndsType == TypeOK => \A c \in Call : Ends(c) => call' \in [Call -> CallState]
<1> SUFFICES ASSUME TypeOK, NEW c \in Call, Ends(c) PROVE call' \in [Call -> CallState]
  OBVIOUS
<1>1. Idle(call[c].email) \in CallState
  BY DEF TypeOK, Idle, At, CallState
<1> QED BY <1>1 DEF Ends, TypeOK

LEMMA NameOf == \A e \in Email : Lower[e] \in Name
BY DEF Name

LEMMA TypeNext == TypeOK /\ [Next]_vars => TypeOK'
<1> SUFFICES ASSUME TypeOK, [Next]_vars PROVE TypeOK'
  OBVIOUS
<1> USE NameOf
<1>t. failures \in [Name -> Seq(Age)]
  BY DEF TypeOK, Age
<1>f. ASSUME NEW n \in Name, NEW q \in Seq(Age), failures' = [failures EXCEPT ![n] = q]
      PROVE  failures' \in [Name -> Seq(0..(Window + 1))]
  BY <1>f, <1>t DEF Age
<1>a. ASSUME NEW phase \in {"checking", "hashing", "mailing"}, NEW e \in Email,
             NEW right \in BOOLEAN, NEW u \in User \union {None}, NEW k \in Link \union {None}
      PROVE  At(phase, e, right, u, k) \in CallState
  BY DEF At, CallState
<1>h. ASSUME NEW k \in Link PROVE Hash(Plain(k)) \in Token
  BY DEF Hash, Plain, Token
<1>1. ASSUME NEW c \in Call, NEW e \in Email, NEW right \in BOOLEAN, LoginAdmit(c, e, right)
      PROVE  TypeOK'
  <2>1. Recent(failures[Lower[e]]) \in Seq(Age)
    BY <1>t, RecentShortens
  <2>2. failures' \in [Name -> Seq(0..(Window + 1))]
    BY <1>1, <1>f, <2>1 DEF LoginAdmit
  <2>3. call' = call \/ call' = [call EXCEPT ![c] = At("checking", e, right, None, None)]
    BY <1>1 DEF LoginAdmit
  <2>4. At("checking", e, right, None, None) \in CallState
    BY DEF At, CallState
  <2>5. call' \in [Call -> CallState]
    BY <2>3, <2>4 DEF TypeOK
  <2> QED BY <1>1, <2>2, <2>5 DEF LoginAdmit, TypeOK
<1>2. ASSUME NEW c \in Call, LoginAnswer(c)
      PROVE  TypeOK'
  <2>1. PICK n \in Name : n = Lower[call[c].email]
    BY DEF TypeOK, CallState
  <2>2. \/ failures' = [failures EXCEPT ![n] = <<>>]
        \/ failures' = [failures EXCEPT ![n] = Append(failures[n], 0)]
    BY <1>2, <2>1 DEF LoginAnswer
  <2>3. failures' \in [Name -> Seq(0..(Window + 1))]
    BY <2>2, <1>t, <1>f, NoFailures, Recorded
  <2> QED BY <1>2, <2>3, EndsType DEF LoginAnswer, TypeOK
<1>3. ASSUME NEW c \in Call, NEW e \in Email, RegisterCheck(c, e)
      PROVE  TypeOK'
  BY <1>3, <1>a DEF RegisterCheck, TypeOK
<1>4. ASSUME NEW c \in Call, RegisterCreate(c)
      PROVE  TypeOK'
  <2>1. PICK e \in Email : e = call[c].email
    BY DEF TypeOK, CallState
  <2>2. CASE account[e].id # None
    BY <1>4, <2>1, <2>2, EndsType DEF RegisterCreate, TypeOK
  <2>3. CASE account[e].id = None
    <3>1. /\ nextUser <= MaxUser /\ nextLink <= MaxLink
          /\ account' = [account EXCEPT ![e] = [id |-> nextUser, verified |-> FALSE,
                                                token |-> Hash(Plain(nextLink))]]
          /\ call' = [call EXCEPT ![c] = At("mailing", e, FALSE, nextUser, nextLink)]
          /\ nextUser' = nextUser + 1 /\ nextLink' = nextLink + 1
      BY <1>4, <2>1, <2>3 DEF RegisterCreate
    <3>2. nextUser \in User /\ nextLink \in Link
      BY <3>1, BoundsAssumption DEF TypeOK, User, Link
    <3>3. account' \in [Email -> Account]
      BY <3>1, <3>2, <1>h DEF TypeOK, Account
    <3>4. call' \in [Call -> CallState]
      BY <3>1, <3>2, <1>a DEF TypeOK
    <3>5. nextUser' \in 1..(MaxUser + 1) /\ nextLink' \in 1..(MaxLink + 1)
      BY <3>1, BoundsAssumption DEF TypeOK
    <3> QED BY <1>4, <3>3, <3>4, <3>5 DEF RegisterCreate, TypeOK
  <2> QED BY <2>2, <2>3
<1>5. ASSUME NEW c \in Call, NEW e \in Email, Resend(c, e)
      PROVE  TypeOK'
  <2>1. nextLink \in Link /\ nextLink' \in 1..(MaxLink + 1)
    BY <1>5, BoundsAssumption DEF Resend, TypeOK, Link
  <2>2. account' \in [Email -> Account]
    BY <1>5, <2>1, <1>h DEF Resend, TypeOK, Account
  <2>3. call' \in [Call -> CallState]
    <3>1. account[e].id \in User \union {None}
      BY DEF TypeOK, Account
    <3> QED BY <1>5, <2>1, <3>1, <1>a DEF Resend, TypeOK
  <2> QED BY <1>5, <2>1, <2>2, <2>3 DEF Resend, TypeOK
<1>6. ASSUME NEW c \in Call, NEW arrives \in BOOLEAN, Mail(c, arrives)
      PROVE  TypeOK'
  <2>1. call[c].user \in User \union {None}
    BY DEF TypeOK, CallState
  <2>2. mailed' \in [Link -> User \union {None}]
    BY <1>6, <2>1 DEF Mail, TypeOK
  <2> QED BY <1>6, <2>2, EndsType DEF Mail, TypeOK
<1>7. ASSUME NEW v \in Presentable, VerifyEmail(v)
      PROVE  TypeOK'
  <2>1. PICK e \in Matches(v) :
          account' = [account EXCEPT ![e].verified = TRUE, ![e].token = NoToken]
    BY <1>7 DEF VerifyEmail
  <2>2. NoToken \in Token
    BY DEF NoToken, Token
  <2>3. account' \in [Email -> Account]
    BY <2>1, <2>2 DEF TypeOK, Account
  <2> QED BY <1>7, <2>3 DEF VerifyEmail, TypeOK
<1>8. ASSUME NEW e \in Email, DeleteAccount(e)
      PROVE  TypeOK'
  <2>1. NoAccount \in Account
    BY DEF NoAccount, NoToken, Account, Token
  <2> QED BY <1>8, <2>1 DEF DeleteAccount, TypeOK
<1>9. CASE Tick
  <2>1. failures' = [n \in Name |-> Aged(failures[n])]
    BY <1>9 DEF Tick, Aged
  <2>2. failures' \in [Name -> Seq(0..(Window + 1))]
    BY <2>1, <1>t, AgedKeepsLength DEF Age
  <2> QED BY <1>9, <2>2 DEF Tick, TypeOK
<1>10. CASE Restart
  <2>1. failures' \in [Name -> Seq(0..(Window + 1))]
    BY <1>10, NoFailures DEF Restart, Age
  <2>2. call' \in [Call -> CallState]
    BY <1>10 DEF Restart, TypeOK, Idle, At, CallState
  <2> QED BY <1>10, <2>1, <2>2 DEF Restart, TypeOK
<1>11. CASE UNCHANGED vars
  BY <1>11 DEF vars, TypeOK
<1> QED BY <1>1, <1>2, <1>3, <1>4, <1>5, <1>6, <1>7, <1>8, <1>9, <1>10, <1>11 DEF Next

(***************************************************************************)
(* The failures, accounts, requests, links and mails stay what they are.   *)
(***************************************************************************)
THEOREM TypeCorrect == Spec => []TypeOK
BY TypeInit, TypeNext, PTL DEF Spec

-----------------------------------------------------------------------------
\* The log-ins for the address n that have passed the throttle and wait for
\* the password check.
InFlight(n) == {c \in Call : call[c].phase = "checking" /\ Lower[call[c].email] = n}

\* Whoever is in flight may yet fail, and is counted as if.
GuessInv ==
  \A n \in Name :
    Len(failures[n]) + Cardinality(InFlight(n)) <= Max - 1 + Cardinality(Call)

LEMMA InFlightCount ==
  \A n \in Name : /\ Cardinality(InFlight(n)) \in Nat
                  /\ Cardinality(InFlight(n)) <= Cardinality(Call)
                  /\ IsFiniteSet(InFlight(n))
<1> TAKE n \in Name
<1>1. InFlight(n) \in SUBSET Call
  BY DEF InFlight
<1> QED BY <1>1, CallAssumption, FS_Subset, FS_CardinalityType

LEMMA CallCount == Cardinality(Call) \in Nat
BY CallAssumption, FS_CardinalityType

LEMMA FailureCount == TypeOK => \A n \in Name : Len(failures[n]) \in Nat
BY LenProperties DEF TypeOK

LEMMA GuessInit == Init => GuessInv
<1> SUFFICES ASSUME Init, NEW n \in Name
             PROVE  Len(failures[n]) + Cardinality(InFlight(n)) <= Max - 1 + Cardinality(Call)
  BY DEF GuessInv
<1>1. Len(failures[n]) = 0
  BY NoFailures DEF Init
<1> QED BY <1>1, InFlightCount, CallCount, LimitsAssumption

\* No more failures and nobody new in flight.
LEMMA GuessShrinks ==
  ASSUME TypeOK, TypeOK', GuessInv, NEW n \in Name,
         Len(failures'[n]) <= Len(failures[n]),
         InFlight(n)' \subseteq InFlight(n)
  PROVE  Len(failures'[n]) + Cardinality(InFlight(n)') <= Max - 1 + Cardinality(Call)
<1>1. PICK S, T : S = InFlight(n) /\ T = InFlight(n)'
  OBVIOUS
<1>2. IsFiniteSet(S) /\ Cardinality(S) \in Nat
  BY <1>1, InFlightCount
<1>3. T \in SUBSET S
  BY <1>1
<1>4. IsFiniteSet(T) /\ Cardinality(T) <= Cardinality(S) /\ Cardinality(T) \in Nat
  BY <1>2, <1>3, FS_Subset, FS_CardinalityType
<1>5. Len(failures[n]) \in Nat /\ Len(failures'[n]) \in Nat
  BY FailureCount, LenProperties DEF TypeOK
<1>6. Len(failures[n]) + Cardinality(S) <= Max - 1 + Cardinality(Call)
  BY <1>1 DEF GuessInv
<1> QED BY <1>1, <1>2, <1>4, <1>5, <1>6, CallCount, LimitsAssumption

LEMMA GuessNext == TypeOK /\ TypeOK' /\ GuessInv /\ [Next]_vars => GuessInv'
<1> SUFFICES ASSUME TypeOK, TypeOK', GuessInv, [Next]_vars PROVE GuessInv'
  OBVIOUS
<1>t. failures \in [Name -> Seq(Age)]
  BY DEF TypeOK, Age
\* A request that is not being checked, before or after.
<1>q. ASSUME UNCHANGED failures,
             \A c \in Call : call'[c].phase = "checking" => call'[c] = call[c]
      PROVE  GuessInv'
  <2>1. ASSUME NEW n \in Name PROVE InFlight(n)' \subseteq InFlight(n)
    BY <1>q DEF InFlight
  <2>2. \A n \in Name : Len(failures'[n]) <= Len(failures[n])
    BY <1>q, FailureCount
  <2> QED BY <2>1, <2>2, GuessShrinks DEF GuessInv
<1>1. ASSUME NEW c \in Call, NEW e \in Email, NEW right \in BOOLEAN, LoginAdmit(c, e, right)
      PROVE  GuessInv'
  <2>1. PICK m, q : m = Lower[e] /\ q = Recent(failures[m])
    OBVIOUS
  <2>2. m \in Name /\ failures' = [failures EXCEPT ![m] = q]
    BY <1>1, <2>1, NameOf DEF LoginAdmit
  <2>3. q \in Seq(Age) /\ Len(q) \in 0..Len(failures[m])
    BY <1>t, <2>1, <2>2, RecentShortens
  <2>4. Len(q) \in Nat /\ \A n \in Name : Len(failures[n]) \in Nat
    BY <2>2, <2>3, FailureCount
  <2>5. \A n \in Name : Len(failures'[n]) <= Len(failures[n])
    BY <2>2, <2>3, <2>4, <1>t
  <2>6. CASE Throttled(q)
    <3>1. call' = call
      BY <1>1, <2>1, <2>6 DEF LoginAdmit
    <3>2. ASSUME NEW n \in Name PROVE InFlight(n)' \subseteq InFlight(n)
      BY <3>1 DEF InFlight
    <3> QED BY <2>5, <3>2, GuessShrinks DEF GuessInv
  <2>7. CASE ~Throttled(q)
    <3>1. call' = [call EXCEPT ![c] = At("checking", e, right, None, None)]
      BY <1>1, <2>1, <2>7 DEF LoginAdmit
    <3>2. ASSUME NEW n \in Name, n # m
          PROVE  Len(failures'[n]) + Cardinality(InFlight(n)') <= Max - 1 + Cardinality(Call)
      <4>1. InFlight(n)' \subseteq InFlight(n)
        BY <2>1, <3>1, <3>2 DEF InFlight, At, TypeOK
      <4> QED BY <2>5, <4>1, GuessShrinks
    <3>3. Len(failures'[m]) + Cardinality(InFlight(m)') <= Max - 1 + Cardinality(Call)
      <4>1. PICK T : T = InFlight(m)'
        OBVIOUS
      <4>2. T \in SUBSET Call
        BY <4>1 DEF InFlight
      <4>3. Cardinality(T) \in Nat /\ Cardinality(T) <= Cardinality(Call)
        BY <4>2, CallAssumption, FS_Subset, FS_CardinalityType
      <4>4. failures'[m] = q /\ Len(q) <= Max - 1
        BY <2>2, <2>4, <2>7, <1>t, LimitsAssumption DEF Throttled
      <4> QED BY <2>4, <4>1, <4>3, <4>4, CallCount, LimitsAssumption
    <3> QED BY <3>2, <3>3 DEF GuessInv
  <2> QED BY <2>6, <2>7
<1>2. ASSUME NEW c \in Call, LoginAnswer(c)
      PROVE  GuessInv'
  <2>1. PICK m \in Name : m = Lower[call[c].email]
    BY NameOf DEF TypeOK, CallState
  <2>2. \/ failures' = [failures EXCEPT ![m] = <<>>]
        \/ failures' = [failures EXCEPT ![m] = Append(failures[m], 0)]
    BY <1>2, <2>1 DEF LoginAnswer
  <2>3. call[c].phase = "checking" /\ call' = [call EXCEPT ![c] = Idle(call[c].email)]
    BY <1>2 DEF LoginAnswer, Ends
  <2>4. ASSUME NEW n \in Name PROVE InFlight(n)' = InFlight(n) \ {c}
    BY <2>3 DEF InFlight, Idle, At, TypeOK
  <2>5. ASSUME NEW n \in Name, n # m
        PROVE  Len(failures'[n]) + Cardinality(InFlight(n)') <= Max - 1 + Cardinality(Call)
    <3>1. Len(failures'[n]) <= Len(failures[n])
      BY <2>2, <2>5, FailureCount, <1>t
    <3> QED BY <2>4, <3>1, GuessShrinks
  <2>6. Len(failures'[m]) + Cardinality(InFlight(m)') <= Max - 1 + Cardinality(Call)
    <3>1. PICK S, T : S = InFlight(m) /\ T = InFlight(m)'
      OBVIOUS
    <3>2. c \in S /\ T = S \ {c}
      BY <2>1, <2>3, <2>4, <3>1 DEF InFlight
    <3>3. IsFiniteSet(S) /\ Cardinality(S) \in Nat
      BY <3>1, InFlightCount
    <3>4. Cardinality(T) = Cardinality(S) - 1
      BY <3>2, <3>3, FS_RemoveElement
    <3>5. Len(failures[m]) \in Nat /\ Len(failures'[m]) <= Len(failures[m]) + 1
      BY <2>2, <1>t, FailureCount, NoFailures, Recorded
    <3>6. Len(failures'[m]) \in Nat
      BY LenProperties DEF TypeOK
    <3>7. Len(failures[m]) + Cardinality(S) <= Max - 1 + Cardinality(Call)
      BY <3>1 DEF GuessInv
    <3> QED BY <3>1, <3>3, <3>4, <3>5, <3>6, <3>7, CallCount, LimitsAssumption
  <2> QED BY <2>5, <2>6 DEF GuessInv
<1>3. ASSUME NEW c \in Call, NEW e \in Email, RegisterCheck(c, e) \/ Resend(c, e)
      PROVE  GuessInv'
  <2>1. \A d \in Call : call'[d].phase = "checking" => call'[d] = call[d]
    BY <1>3 DEF RegisterCheck, Resend, At, TypeOK
  <2> QED BY <1>3, <1>q, <2>1 DEF RegisterCheck, Resend
<1>4. ASSUME NEW c \in Call, RegisterCreate(c)
      PROVE  GuessInv'
  <2>1. \A d \in Call : call'[d].phase = "checking" => call'[d] = call[d]
    BY <1>4 DEF RegisterCreate, Ends, Idle, At, TypeOK
  <2> QED BY <1>4, <1>q, <2>1 DEF RegisterCreate
<1>5. ASSUME NEW c \in Call, NEW arrives \in BOOLEAN, Mail(c, arrives)
      PROVE  GuessInv'
  <2>1. \A d \in Call : call'[d].phase = "checking" => call'[d] = call[d]
    BY <1>5 DEF Mail, Ends, Idle, At, TypeOK
  <2> QED BY <1>5, <1>q, <2>1 DEF Mail
<1>6. ASSUME NEW v \in Presentable, VerifyEmail(v)
      PROVE  GuessInv'
  BY <1>6, <1>q DEF VerifyEmail
<1>7. ASSUME NEW e \in Email, DeleteAccount(e)
      PROVE  GuessInv'
  BY <1>7, <1>q DEF DeleteAccount
<1>8. CASE Tick
  <2>1. \A n \in Name : failures'[n] = Aged(failures[n])
    BY <1>8 DEF Tick, Aged
  <2>2. \A n \in Name : Len(failures'[n]) <= Len(failures[n])
    BY <2>1, <1>t, AgedKeepsLength, FailureCount
  <2>3. ASSUME NEW n \in Name PROVE InFlight(n)' \subseteq InFlight(n)
    BY <1>8 DEF Tick, InFlight
  <2> QED BY <2>2, <2>3, GuessShrinks DEF GuessInv
<1>9. CASE Restart
  <2>1. \A n \in Name : Len(failures'[n]) <= Len(failures[n])
    BY <1>9, NoFailures, FailureCount DEF Restart
  <2>2. ASSUME NEW n \in Name PROVE InFlight(n)' \subseteq InFlight(n)
    BY <1>9 DEF Restart, InFlight, Idle, At
  <2> QED BY <2>1, <2>2, GuessShrinks DEF GuessInv
<1>10. CASE UNCHANGED vars
  BY <1>10, <1>q DEF vars
<1> QED BY <1>1, <1>2, <1>3, <1>4, <1>5, <1>6, <1>7, <1>8, <1>9, <1>10 DEF Next

(***************************************************************************)
(* login asks is_throttled before the password check moves to a thread and *)
(* calls record_failure after it.  For every maximum, every window and any *)
(* number of addresses and requests, the failures on record for an address *)
(* exceed the maximum by less than the number of requests handled at once. *)
(***************************************************************************)
THEOREM GuessingBounded == Spec => []BoundedGuessing
<1>1. TypeOK /\ GuessInv => BoundedGuessing
  <2> SUFFICES ASSUME TypeOK, GuessInv, NEW n \in Name
               PROVE  Len(failures[n]) < Max + Cardinality(Call)
    BY DEF BoundedGuessing
  <2>1. Len(failures[n]) + Cardinality(InFlight(n)) <= Max - 1 + Cardinality(Call)
    BY DEF GuessInv
  <2> QED BY <2>1, InFlightCount, FailureCount, CallCount, LimitsAssumption
<1> QED BY <1>1, GuessInit, GuessNext, TypeCorrect, PTL DEF Spec

-----------------------------------------------------------------------------
\* Whom a link is for, by the rows that hold it, the mails being sent with it
\* and the mails that arrived.
SaidOf(k) ==
  {u \in User :
     \/ \E e \in Email : account[e].token.link = k /\ account[e].id = u
     \/ \E c \in Call : call[c].phase = "mailing" /\ call[c].link = k /\ call[c].user = u
     \/ mailed[k] = u}

\* They agree, and nothing is said of a link that has not been made.
LinkInv ==
  /\ \A k \in Link : \A u, w \in SaidOf(k) : u = w
  /\ \A k \in Link : k >= nextLink => SaidOf(k) = {}

\* No row holds the hash of a hash; a row without an account holds nothing; a
\* mail being sent has a link and a user.
RowInv ==
  /\ \A e \in Email : /\ account[e].token.form # "rehashed"
                      /\ account[e].id = None => account[e] = NoAccount
  /\ \A c \in Call : call[c].phase = "mailing" => call[c].link # None /\ call[c].user # None

MailInv == LinkInv /\ RowInv /\ VerifiedMeansMailed

LEMMA MailInit == Init => MailInv
<1> SUFFICES ASSUME Init PROVE MailInv
  OBVIOUS
<1>1. PICK e \in Email :
        /\ account = [x \in Email |-> IF x = e THEN [id |-> 1, verified |-> FALSE, token |-> Plain(1)]
                                               ELSE NoAccount]
        /\ call = [c \in Call |-> Idle(e)]
  BY DEF Init
<1>2. nextLink = 2 /\ mailed = [k \in Link |-> IF k = 1 THEN 1 ELSE None]
  BY DEF Init
<1>3. ASSUME NEW k \in Link, NEW u \in SaidOf(k) PROVE k = 1 /\ u = 1
  BY <1>1, <1>2, <1>3, NoneFacts DEF SaidOf, Plain, NoAccount, NoToken, Idle, At
<1>4. LinkInv
  <2>1. \A k \in Link : \A u, w \in SaidOf(k) : u = w
    BY <1>3
  <2>2. \A k \in Link : k >= nextLink => SaidOf(k) = {}
    BY <1>2, <1>3
  <2> QED BY <2>1, <2>2 DEF LinkInv
<1>5. RowInv
  BY <1>1, NoneFacts DEF RowInv, Plain, NoAccount, NoToken, Idle, At
<1>6. VerifiedMeansMailed
  BY <1>1 DEF VerifiedMeansMailed, NoAccount
<1> QED BY <1>4, <1>5, <1>6 DEF MailInv

\* Nothing new is said of any link.
LEMMA LinksStay ==
  ASSUME TypeOK, TypeOK', LinkInv, nextLink' >= nextLink,
         \A k \in Link : SaidOf(k)' \subseteq SaidOf(k)
  PROVE  LinkInv'
<1>1. PICK n, m : n = nextLink /\ m = nextLink'
  OBVIOUS
<1>2. n \in Int /\ m \in Int /\ m >= n
  BY <1>1 DEF TypeOK
<1>3. \A k \in Link : k \in Int
  BY DEF Link
<1>4. \A k \in Link : \A u, w \in SaidOf(k)' : u = w
  BY DEF LinkInv
<1>5. \A k \in Link : k >= m => SaidOf(k)' = {}
  BY <1>1, <1>2, <1>3 DEF LinkInv
<1> QED BY <1>1, <1>4, <1>5 DEF LinkInv

\* The next link is made, for one user.
LEMMA LinkMade ==
  ASSUME TypeOK, TypeOK', LinkInv, nextLink \in Link, nextLink' = nextLink + 1, NEW u,
         \A k \in Link : \A w \in SaidOf(k)' : w \in SaidOf(k) \/ (k = nextLink /\ w = u)
  PROVE  LinkInv'
<1>1. PICK n : n = nextLink
  OBVIOUS
<1>2. n \in Int /\ \A k \in Link : k \in Int
  BY <1>1 DEF Link
<1>3. SaidOf(n) = {}
  BY <1>1, <1>2 DEF LinkInv
<1>4. ASSUME NEW k \in Link, NEW v \in SaidOf(k)', NEW w \in SaidOf(k)' PROVE v = w
  BY <1>1, <1>3, <1>4 DEF LinkInv
<1>5. \A k \in Link : k >= n + 1 => SaidOf(k)' = {}
  BY <1>1, <1>2 DEF LinkInv
<1> QED BY <1>1, <1>4, <1>5 DEF LinkInv

\* The rows a presented token verifies hold its link, and the link was mailed.
LEMMA MatchesAreMailed ==
  ASSUME TypeOK, RowInv, NEW v \in Presentable, NEW e \in Matches(v)
  PROVE  e \in Email /\ account[e].id # None /\ v.link \in Link
         /\ account[e].token.link = v.link /\ mailed[v.link] # None
<1> DEFINE Holding(t) == {x \in Email : account[x].id # None /\ account[x].token = t}
<1>1. v \in Token /\ v.link \in Link
  BY DEF Presentable, Token
<1>2. Matches(v) = IF Holding(Hash(v)) # {} THEN Holding(Hash(v))
                   ELSE {x \in Holding(v) : account[x].token.form = "plain"}
  BY DEF Matches
<1>3. e \in Email /\ account[e].id # None
  BY <1>2
<1>4. CASE account[e].token = Hash(v)
  <2>1. v.form = "plain"
    BY <1>1, <1>3, <1>4 DEF Hash, Token, RowInv
  <2>2. Hash(v).link = v.link
    BY <1>1 DEF Hash, Token
  <2> QED BY <1>1, <1>3, <1>4, <2>1, <2>2 DEF Presentable
<1>5. CASE account[e].token = v /\ v.form = "plain"
  BY <1>1, <1>3, <1>5 DEF Presentable
<1> QED BY <1>2, <1>4, <1>5

LEMMA MailNext == TypeOK /\ TypeOK' /\ MailInv /\ [Next]_vars => MailInv'
<1> SUFFICES ASSUME TypeOK, TypeOK', MailInv, [Next]_vars PROVE MailInv'
  OBVIOUS
<1> USE DEF MailInv
<1>n. nextLink \in Int
  BY DEF TypeOK
\* Requests that leave accounts and mails alone and send none.
<1>q. ASSUME UNCHANGED <<account, mailed, nextLink>>,
             \A c \in Call : call'[c].phase = "mailing" => call'[c] = call[c]
      PROVE  MailInv'
  <2>1. ASSUME NEW k \in Link PROVE SaidOf(k)' \subseteq SaidOf(k)
    BY <1>q DEF SaidOf
  <2>2. LinkInv'
    BY <1>q, <1>n, <2>1, LinksStay
  <2>3. RowInv' /\ VerifiedMeansMailed'
    BY <1>q DEF RowInv, VerifiedMeansMailed
  <2> QED BY <2>2, <2>3
<1>1. ASSUME NEW c \in Call, NEW e \in Email, NEW right \in BOOLEAN, LoginAdmit(c, e, right)
      PROVE  MailInv'
  <2>1. \A d \in Call : call'[d].phase = "mailing" => call'[d] = call[d]
    BY <1>1 DEF LoginAdmit, At, TypeOK
  <2> QED BY <1>1, <1>q, <2>1 DEF LoginAdmit
<1>2. ASSUME NEW c \in Call, LoginAnswer(c)
      PROVE  MailInv'
  <2>1. \A d \in Call : call'[d].phase = "mailing" => call'[d] = call[d]
    BY <1>2 DEF LoginAnswer, Ends, Idle, At, TypeOK
  <2> QED BY <1>2, <1>q, <2>1 DEF LoginAnswer
<1>3. ASSUME NEW c \in Call, NEW e \in Email, RegisterCheck(c, e)
      PROVE  MailInv'
  <2>1. \A d \in Call : call'[d].phase = "mailing" => call'[d] = call[d]
    BY <1>3 DEF RegisterCheck, At, TypeOK
  <2> QED BY <1>3, <1>q, <2>1 DEF RegisterCheck
\* A link is made for the account e: its row holds it and a mail is sent.
<1>l. ASSUME NEW c \in Call, NEW e \in Email, NEW u \in User, NEW ver \in BOOLEAN,
             nextLink \in Link, nextLink' = nextLink + 1, UNCHANGED mailed,
             account'[e].id = u, account'[e].verified = ver,
             account'[e].token = Hash(Plain(nextLink)),
             \A x \in Email \ {e} : account'[x] = account[x],
             call' = [call EXCEPT ![c] = At("mailing", e, FALSE, u, nextLink)],
             ver => account[e].verified /\ account[e].id = u
      PROVE  MailInv'
  <2>1. Hash(Plain(nextLink)).link = nextLink /\ Hash(Plain(nextLink)).form = "hashed"
    BY DEF Hash, Plain
  <2>2. \A x \in Email : IF x = e THEN /\ account'[x].id = u /\ account'[x].verified = ver
                                       /\ account'[x].token = Hash(Plain(nextLink))
                                  ELSE account'[x] = account[x]
    BY <1>l
  <2>3. \A d \in Call : IF d = c THEN call'[d].link = nextLink /\ call'[d].user = u
                                 ELSE call'[d] = call[d]
    BY <1>l DEF At, TypeOK
  <2>4. ASSUME NEW k \in Link, NEW w \in SaidOf(k)'
        PROVE  w \in SaidOf(k) \/ (k = nextLink /\ w = u)
    BY <1>l, <2>1, <2>2, <2>3, <2>4 DEF SaidOf
  <2>5. LinkInv'
    BY <1>l, <2>4, LinkMade
  <2>6. u # None /\ nextLink # None
    BY <1>l, NoneFacts
  <2>7. RowInv'
    BY <2>1, <2>2, <2>3, <2>6 DEF RowInv
  <2>8. VerifiedMeansMailed'
    BY <1>l, <2>2 DEF VerifiedMeansMailed
  <2> QED BY <2>5, <2>7, <2>8
<1>4. ASSUME NEW c \in Call, RegisterCreate(c)
      PROVE  MailInv'
  <2>1. PICK e \in Email : e = call[c].email
    BY DEF TypeOK, CallState
  <2>2. CASE account[e].id # None
    <3>1. \A d \in Call : call'[d].phase = "mailing" => call'[d] = call[d]
      BY <1>4, <2>1, <2>2 DEF RegisterCreate, Ends, Idle, At, TypeOK
    <3> QED BY <1>4, <1>q, <2>1, <2>2, <3>1 DEF RegisterCreate
  <2>3. CASE account[e].id = None
    <3>1. /\ nextUser <= MaxUser /\ nextLink <= MaxLink
          /\ account' = [account EXCEPT ![e] = [id |-> nextUser, verified |-> FALSE,
                                                token |-> Hash(Plain(nextLink))]]
          /\ call' = [call EXCEPT ![c] = At("mailing", e, FALSE, nextUser, nextLink)]
          /\ nextLink' = nextLink + 1 /\ UNCHANGED mailed
      BY <1>4, <2>1, <2>3 DEF RegisterCreate
    <3>2. nextUser \in User /\ nextLink \in Link
      BY <3>1, BoundsAssumption DEF TypeOK, User, Link
    <3>3. /\ account'[e].id = nextUser /\ account'[e].verified = FALSE
          /\ account'[e].token = Hash(Plain(nextLink))
          /\ \A x \in Email \ {e} : account'[x] = account[x]
      BY <3>1 DEF TypeOK
    <3> QED BY <1>l, <3>1, <3>2, <3>3
  <2> QED BY <2>2, <2>3
<1>5. ASSUME NEW c \in Call, NEW e \in Email, Resend(c, e)
      PROVE  MailInv'
  <2>1. PICK u \in User : u = account[e].id
    BY <1>5 DEF Resend, TypeOK, Account
  <2>2. nextLink \in Link
    BY <1>5, BoundsAssumption DEF Resend, TypeOK, Link
  <2>3. /\ call' = [call EXCEPT ![c] = At("mailing", e, FALSE, u, nextLink)]
        /\ nextLink' = nextLink + 1 /\ UNCHANGED mailed
    BY <1>5, <2>1 DEF Resend
  <2>4. /\ account'[e].id = u /\ account'[e].verified = FALSE
        /\ account'[e].token = Hash(Plain(nextLink))
        /\ \A x \in Email \ {e} : account'[x] = account[x]
    BY <1>5, <2>1 DEF Resend, TypeOK, Account
  <2> QED BY <1>l, <2>2, <2>3, <2>4
<1>6. ASSUME NEW c \in Call, NEW arrives \in BOOLEAN, Mail(c, arrives)
      PROVE  MailInv'
  <2>1. /\ \A d \in Call : call'[d].phase = "mailing" => call'[d] = call[d]
        /\ account' = account /\ nextLink' = nextLink
    BY <1>6 DEF Mail, Ends, Idle, At, TypeOK
  <2>2. CASE ~arrives
    BY <1>6, <1>q, <2>1, <2>2 DEF Mail
  <2>3. CASE arrives
    <3>1. PICK k, u : k = call[c].link /\ u = call[c].user
      OBVIOUS
    <3>2. k \in Link /\ u \in User /\ u # None
      BY <1>6, <3>1 DEF Mail, RowInv, TypeOK, CallState
    <3>3. mailed' = [mailed EXCEPT ![k] = u] /\ u \in SaidOf(k)
      BY <1>6, <2>3, <3>1, <3>2 DEF Mail, SaidOf
    <3>4. \A j \in Link : mailed'[j] = IF j = k THEN u ELSE mailed[j]
      BY <3>3 DEF TypeOK
    <3>5. ASSUME NEW j \in Link PROVE SaidOf(j)' \subseteq SaidOf(j)
      BY <2>1, <3>2, <3>3, <3>4 DEF SaidOf
    <3>6. LinkInv'
      BY <2>1, <3>5, <1>n, LinksStay
    <3>7. mailed[k] = None \/ mailed[k] = u
      <4>1. mailed[k] # None => mailed[k] \in SaidOf(k)
        BY <3>2 DEF SaidOf, TypeOK
      <4> QED BY <3>2, <3>3, <4>1 DEF LinkInv
    <3>8. VerifiedMeansMailed'
      <4> SUFFICES ASSUME NEW e \in Email, account[e].verified
                   PROVE  \E j \in Link : mailed'[j] = account[e].id
        BY <2>1 DEF VerifiedMeansMailed
      <4>1. PICK j \in Link : mailed[j] = account[e].id
        BY DEF VerifiedMeansMailed
      <4>2. account[e].id # None
        BY DEF RowInv, NoAccount
      <4>3. mailed'[j] = mailed[j]
        BY <3>4, <3>7, <4>1, <4>2
      <4> QED BY <4>1, <4>3
    <3>9. RowInv'
      BY <2>1 DEF RowInv
    <3> QED BY <3>6, <3>8, <3>9
  <2> QED BY <2>2, <2>3
<1>7. ASSUME NEW v \in Presentable, VerifyEmail(v)
      PROVE  MailInv'
  <2>1. PICK e \in Matches(v) :
          account' = [account EXCEPT ![e].verified = TRUE, ![e].token = NoToken]
    BY <1>7 DEF VerifyEmail
  <2>2. PICK k : k = v.link
    OBVIOUS
  <2>3. /\ e \in Email /\ account[e].id # None /\ k \in Link
        /\ account[e].token.link = k /\ mailed[k] # None
    BY <2>2, MatchesAreMailed
  <2>4. \A x \in Email : IF x = e THEN /\ account'[x].id = account[x].id
                                       /\ account'[x].token = NoToken
                                  ELSE account'[x] = account[x]
    BY <2>1, <2>3 DEF TypeOK, Account
  <2>5. UNCHANGED <<call, mailed, nextLink>>
    BY <1>7 DEF VerifyEmail
  <2>6. ASSUME NEW j \in Link PROVE SaidOf(j)' \subseteq SaidOf(j)
    BY <2>4, <2>5, NoneFacts DEF SaidOf, NoToken
  <2>7. LinkInv'
    BY <2>5, <2>6, <1>n, LinksStay
  <2>8. mailed[k] = account[e].id
    <3>1. account[e].id \in SaidOf(k)
      BY <2>3 DEF SaidOf, TypeOK, Account
    <3>2. mailed[k] \in SaidOf(k)
      BY <2>3 DEF SaidOf, TypeOK
    <3> QED BY <2>3, <3>1, <3>2 DEF LinkInv
  <2>9. VerifiedMeansMailed'
    BY <2>3, <2>4, <2>5, <2>8 DEF VerifiedMeansMailed
  <2>10. RowInv'
    BY <2>3, <2>4, <2>5 DEF RowInv, NoToken
  <2> QED BY <2>7, <2>9, <2>10
<1>8. ASSUME NEW e \in Email, DeleteAccount(e)
      PROVE  MailInv'
  <2>1. \A x \in Email : account'[x] = IF x = e THEN NoAccount ELSE account[x]
    BY <1>8 DEF DeleteAccount, TypeOK
  <2>2. UNCHANGED <<call, mailed, nextLink>>
    BY <1>8 DEF DeleteAccount
  <2>3. ASSUME NEW j \in Link PROVE SaidOf(j)' \subseteq SaidOf(j)
    BY <2>1, <2>2, NoneFacts DEF SaidOf, NoAccount, NoToken
  <2>4. LinkInv'
    BY <2>2, <2>3, <1>n, LinksStay
  <2>5. VerifiedMeansMailed'
    BY <2>1, <2>2 DEF VerifiedMeansMailed, NoAccount
  <2>6. ASSUME NEW x \in Email
        PROVE  /\ account'[x].token.form # "rehashed"
               /\ account'[x].id = None => account'[x] = NoAccount
    <3>1. CASE x = e
      <4>1. account'[x] = NoAccount
        BY <2>1, <3>1
      <4>2. NoAccount.token.form = "plain"
        BY DEF NoAccount, NoToken
      <4> QED BY <4>1, <4>2
    <3>2. CASE x # e
      BY <2>1, <3>2 DEF RowInv
    <3> QED BY <3>1, <3>2
  <2>7. RowInv'
    BY <2>2, <2>6 DEF RowInv
  <2> QED BY <2>4, <2>5, <2>7
<1>9. CASE Tick
  BY <1>9, <1>q DEF Tick
<1>10. CASE Restart
  <2>1. \A c \in Call : call'[c].phase # "mailing"
    BY <1>10 DEF Restart, Idle, At
  <2> QED BY <1>10, <1>q, <2>1 DEF Restart
<1>11. CASE UNCHANGED vars
  BY <1>11, <1>q DEF vars
<1> QED BY <1>1, <1>2, <1>3, <1>4, <1>5, <1>6, <1>7, <1>8, <1>9, <1>10, <1>11 DEF Next

(***************************************************************************)
(* verify_email never verifies an account by the mail of another: not with *)
(* a link of an account deleted since or of one registered at the same     *)
(* time, not with what the database holds of a link, for any number of     *)
(* addresses, links and requests.                                          *)
(***************************************************************************)
THEOREM OnlyMailVerifies == Spec => []VerifiedMeansMailed
<1>1. MailInv => VerifiedMeansMailed
  BY DEF MailInv
<1> QED BY <1>1, MailInit, MailNext, TypeCorrect, PTL DEF Spec

-----------------------------------------------------------------------------
(* RoleAssignment.                                                         *)

\* Both modules count with the operator of FiniteSets.
LEMMA RoleCounts == \A S : Roles!Cardinality(S) = Cardinality(S)
BY DEF Roles!Cardinality, Cardinality

LEMMA RoleTypeInit ==
  ASSUME Roles!Init
  PROVE  Roles!TypeOK
<1>1. PICK u \in Member :
        roleCall = [c \in Call |-> [phase |-> "idle", actor |-> u, target |-> u, new |-> "admin",
                                    seen |-> Roles!NoRole, counted |-> {}]]
  BY DEF Roles!Init
<1>2. roleCall \in [Call -> Roles!CallState]
  BY <1>1 DEF Roles!CallState, Roles!Role
<1> QED BY <1>2 DEF Roles!Init, Roles!TypeOK

\* A step of one request on the way to its answer.
LEMMA RoleCallSteps ==
  ASSUME Roles!TypeOK, NEW c \in Call, NEW s \in Roles!CallState,
         roleCall' = [roleCall EXCEPT ![c] = s]
  PROVE  roleCall' \in [Call -> Roles!CallState]
BY DEF Roles!TypeOK

LEMMA RoleGotoType ==
  ASSUME Roles!TypeOK, NEW c \in Call,
         NEW p \in {"idle", "authorised", "counting", "loaded", "writing", "committed"},
         Roles!Goto(c, p)
  PROVE  roleCall' \in [Call -> Roles!CallState]
BY DEF Roles!TypeOK, Roles!Goto, Roles!CallState

LEMMA RoleTypeNext ==
  ASSUME Roles!TypeOK, [Roles!Next]_(Roles!vars)
  PROVE  Roles!TypeOK'
<1>0. /\ role \in [Member -> Roles!Role \union {Roles!NoRole}]
      /\ roleCall \in [Call -> Roles!CallState]
      /\ Roles!Admins \subseteq Member
  BY DEF Roles!TypeOK, Roles!Admins
<1>u. CASE UNCHANGED Roles!vars
  BY <1>u DEF Roles!vars, Roles!TypeOK
<1>1. ASSUME NEW c \in Call, NEW a \in Member, NEW t \in Member, NEW r \in Roles!Role,
             Roles!Authorise(c, a, t, r)
      PROVE  Roles!TypeOK'
  <2>1. [phase |-> "authorised", actor |-> a, target |-> t, new |-> r,
         seen |-> Roles!NoRole, counted |-> {}] \in Roles!CallState
    BY DEF Roles!CallState
  <2>2. roleCall' \in [Call -> Roles!CallState]
    BY <1>0, <1>1, <2>1 DEF Roles!Authorise
  <2> QED BY <1>1, <2>2 DEF Roles!Authorise, Roles!TypeOK
<1>2. ASSUME NEW c \in Call, Roles!LoadTarget(c)
      PROVE  Roles!TypeOK'
  <2>1. roleCall[c].target \in Member
    BY <1>0 DEF Roles!CallState
  <2>2. CASE Roles!Goto(c, "idle") \/ Roles!Goto(c, "loaded")
    BY <1>2, <2>2, RoleGotoType DEF Roles!LoadTarget, Roles!TypeOK
  <2>3. CASE ~(Roles!Goto(c, "idle") \/ Roles!Goto(c, "loaded"))
    <3> DEFINE held == role[roleCall[c].target]
    <3>1. held \in Roles!Role \union {Roles!NoRole}
      BY <1>0, <2>1
    <3>2. PICK p \in {"counting", "loaded"} :
            roleCall' = [roleCall EXCEPT ![c].seen = held, ![c].phase = p]
      BY <1>2, <2>3 DEF Roles!LoadTarget
    <3> HIDE DEF held
    <3>3. roleCall' \in [Call -> Roles!CallState]
      BY <1>0, <3>1, <3>2 DEF Roles!CallState
    <3> QED BY <1>2, <3>3 DEF Roles!LoadTarget, Roles!TypeOK
  <2> QED BY <2>2, <2>3
<1>3. ASSUME NEW c \in Call, Roles!CountAdmins(c)
      PROVE  Roles!TypeOK'
  <2>1. PICK p \in {"idle", "loaded"} :
          roleCall' = [roleCall EXCEPT ![c].phase = p, ![c].counted = Roles!Admins]
    BY <1>3, RoleCounts DEF Roles!CountAdmins
  <2>2. roleCall' \in [Call -> Roles!CallState]
    BY <1>0, <2>1 DEF Roles!CallState
  <2> QED BY <1>3, <2>2 DEF Roles!CountAdmins, Roles!TypeOK
<1>4. ASSUME NEW c \in Call, Roles!LoadRow(c)
      PROVE  Roles!TypeOK'
  <2>1. roleCall[c].target \in Member /\ roleCall[c].seen \in Roles!Role \union {Roles!NoRole}
    BY <1>0 DEF Roles!CallState
  <2>2. PICK s \in Roles!Role \union {Roles!NoRole} :
          roleCall' = [roleCall EXCEPT ![c].phase = "writing", ![c].seen = s]
    BY <1>0, <1>4, <2>1 DEF Roles!LoadRow
  <2>3. roleCall' \in [Call -> Roles!CallState]
    BY <1>0, <2>2 DEF Roles!CallState
  <2> QED BY <1>4, <2>3 DEF Roles!LoadRow, Roles!TypeOK
<1>5. ASSUME NEW c \in Call, Roles!Write(c)
      PROVE  Roles!TypeOK'
  <2>1. roleCall[c].target \in Member /\ roleCall[c].new \in Roles!Role
    BY <1>0 DEF Roles!CallState
  <2>2. role' \in [Member -> Roles!Role \union {Roles!NoRole}]
    BY <1>0, <1>5, <2>1 DEF Roles!Write
  <2>3. Roles!Goto(c, "idle") \/ Roles!Goto(c, "committed")
    BY <1>5 DEF Roles!Write
  <2> QED BY <1>5, <2>2, <2>3, RoleGotoType DEF Roles!Write, Roles!TypeOK
<1>6. ASSUME NEW c \in Call, Roles!Log(c)
      PROVE  Roles!TypeOK'
  <2>1. roleCall[c].target \in Member /\ roleCall[c].new \in Roles!Role
    BY <1>0 DEF Roles!CallState
  <2> QED BY <1>6, <2>1, RoleGotoType DEF Roles!Log, Roles!TypeOK
<1>7. ASSUME NEW c \in Call, Roles!Crash(c)
      PROVE  Roles!TypeOK'
  BY <1>7, RoleGotoType DEF Roles!Crash, Roles!TypeOK
<1>8. ASSUME NEW u \in Member, Roles!DeleteAccount(u)
      PROVE  Roles!TypeOK'
  BY <1>8 DEF Roles!DeleteAccount, Roles!TypeOK
<1> QED
  BY <1>u, <1>1, <1>2, <1>3, <1>4, <1>5, <1>6, <1>7, <1>8 DEF Roles!Next, Roles!Assign

(***************************************************************************)
(* Users, roles, the log and the requests stay what they are.              *)
(***************************************************************************)
THEOREM RoleTypes == Roles!Spec => []Roles!TypeOK
BY RoleTypeInit, RoleTypeNext, PTL DEF Roles!Spec

\* A request that may go on to write has counted more than one admin, or none
\* because its target was no admin when it looked.
CountedEnough ==
  \A c \in Call :
    /\ roleCall[c].phase \in {"authorised", "counting"} => roleCall[c].counted = {}
    /\ roleCall[c].phase \in {"loaded", "writing"} => Cardinality(roleCall[c].counted) # 1

LEMMA CountedInit ==
  ASSUME Roles!Init
  PROVE  CountedEnough
BY DEF Roles!Init, CountedEnough

LEMMA CountedNext ==
  ASSUME Roles!TypeOK, CountedEnough, [Roles!Next]_(Roles!vars)
  PROVE  CountedEnough'
<1>e. Cardinality({}) # 1
  BY FS_EmptySet
<1>0. roleCall \in [Call -> Roles!CallState]
  BY DEF Roles!TypeOK
<1>g. ASSUME NEW c \in Call, NEW p \in {"idle", "committed", "loaded"}, Roles!Goto(c, p),
             p = "loaded" => roleCall[c].phase = "authorised"
      PROVE  CountedEnough'
  <2>1. /\ roleCall'[c].phase = p /\ roleCall'[c].counted = roleCall[c].counted
        /\ \A d \in Call \ {c} : roleCall'[d] = roleCall[d]
    BY <1>0, <1>g DEF Roles!Goto, Roles!CallState
  <2> QED BY <1>e, <1>g, <2>1 DEF CountedEnough
<1>u. CASE UNCHANGED Roles!vars
  BY <1>u DEF Roles!vars, CountedEnough
<1>1. ASSUME NEW c \in Call, NEW a \in Member, NEW t \in Member, NEW r \in Roles!Role,
             Roles!Authorise(c, a, t, r)
      PROVE  CountedEnough'
  BY <1>0, <1>1 DEF Roles!Authorise, CountedEnough
<1>2. ASSUME NEW c \in Call, Roles!LoadTarget(c)
      PROVE  CountedEnough'
  <2>1. CASE Roles!Goto(c, "idle") \/ Roles!Goto(c, "loaded")
    BY <1>2, <1>g, <2>1 DEF Roles!LoadTarget
  <2>2. CASE ~(Roles!Goto(c, "idle") \/ Roles!Goto(c, "loaded"))
    <3>1. /\ roleCall'[c].counted = roleCall[c].counted /\ roleCall[c].phase = "authorised"
          /\ \A d \in Call \ {c} : roleCall'[d] = roleCall[d]
      BY <1>0, <1>2, <2>2 DEF Roles!LoadTarget, Roles!CallState
    <3> QED BY <1>e, <3>1 DEF CountedEnough
  <2> QED BY <2>1, <2>2
<1>3. ASSUME NEW c \in Call, Roles!CountAdmins(c)
      PROVE  CountedEnough'
  <2> DEFINE p == IF Cardinality(Roles!Admins) <= 1 THEN "idle" ELSE "loaded"
  <2>1. roleCall' = [roleCall EXCEPT ![c].phase = p, ![c].counted = Roles!Admins]
    BY <1>3, RoleCounts DEF Roles!CountAdmins
  <2>3. p = "loaded" => Cardinality(Roles!Admins) # 1
    OBVIOUS
  <2>4. p \in {"idle", "loaded"}
    OBVIOUS
  <2> HIDE DEF p
  <2>2. /\ roleCall'[c].counted = Roles!Admins /\ roleCall'[c].phase = p
        /\ \A d \in Call \ {c} : roleCall'[d] = roleCall[d]
    BY <1>0, <2>1 DEF Roles!CallState
  <2> QED BY <2>2, <2>3, <2>4 DEF CountedEnough
<1>4. ASSUME NEW c \in Call, Roles!LoadRow(c)
      PROVE  CountedEnough'
  <2>1. /\ roleCall'[c].counted = roleCall[c].counted /\ roleCall[c].phase = "loaded"
        /\ roleCall'[c].phase = "writing"
        /\ \A d \in Call \ {c} : roleCall'[d] = roleCall[d]
    BY <1>0, <1>4 DEF Roles!LoadRow, Roles!CallState
  <2> QED BY <2>1 DEF CountedEnough
<1>5. ASSUME NEW c \in Call, Roles!Write(c) \/ Roles!Log(c) \/ Roles!Crash(c)
      PROVE  CountedEnough'
  <2>1. PICK p \in {"idle", "committed"} : Roles!Goto(c, p)
    BY <1>5 DEF Roles!Write, Roles!Log, Roles!Crash
  <2>2. p # "loaded"
    OBVIOUS
  <2> QED BY <1>g, <2>1, <2>2
<1>6. ASSUME NEW u \in Member, Roles!DeleteAccount(u)
      PROVE  CountedEnough'
  BY <1>6 DEF Roles!DeleteAccount, CountedEnough
<1> QED
  BY <1>u, <1>1, <1>2, <1>3, <1>4, <1>5, <1>6 DEF Roles!Next, Roles!Assign

LEMMA LastAdminWasNotCounted ==
  ASSUME Roles!TypeOK, CountedEnough, NEW c \in Call, Roles!Write(c),
         Roles!Admins # {}, Roles!Admins' = {}
  PROVE  roleCall[c].counted # Roles!Admins
<1> DEFINE t == roleCall[c].target
<1>1. role \in [Member -> Roles!Role \union {Roles!NoRole}] /\ t \in Member
  BY DEF Roles!TypeOK, Roles!CallState
<1>2. role' = [role EXCEPT ![t] = roleCall[c].new]
  BY DEF Roles!Write, Roles!Admins
<1>3. Roles!Admins \subseteq {t}
  BY <1>1, <1>2 DEF Roles!Admins
<1>4. Roles!Admins = {t}
  BY <1>3
<1> HIDE DEF t
<1>6. Cardinality(Roles!Admins) = 1
  BY <1>4, FS_Singleton
<1>5. roleCall[c].phase = "writing"
  BY DEF Roles!Write
<1> QED BY <1>4, <1>5, <1>6 DEF CountedEnough

(***************************************************************************)
(* The guard of rbac.py does what it is for as long as its count holds: for*)
(* any number of users and requests, a demotion takes the last admin only  *)
(* if the admins are no longer the ones that it counted.                   *)
(***************************************************************************)
THEOREM AccurateCounts == Roles!Spec => AccurateCountKeepsAnAdmin
<1>1. ASSUME Roles!TypeOK, CountedEnough, [Roles!Next]_(Roles!vars)
      PROVE  [\A c \in Call : Roles!Write(c) /\ Roles!Admins # {} /\ Roles!Admins' = {}
                                => roleCall[c].counted # Roles!Admins]_(Roles!vars)
  BY <1>1, LastAdminWasNotCounted
<1> QED
  BY <1>1, RoleTypes, CountedInit, CountedNext, PTL
  DEF Roles!Spec, AccurateCountKeepsAnAdmin, Roles!AccurateCountKeepsAnAdmin

\* Between its count and its write a request alone has the admins it counted,
\* and a target that was none is none.
StillCounted ==
  \A c \in Call :
    roleCall[c].phase \in {"loaded", "writing"} /\ roleCall[c].new # "admin" =>
      IF roleCall[c].counted = {} THEN role[roleCall[c].target] # "admin"
                                  ELSE roleCall[c].counted = Roles!Admins

AdminInv == Roles!Admins # {} /\ StillCounted

LEMMA AdminInit ==
  ASSUME Roles!Init
  PROVE  AdminInv
BY DEF Roles!Init, AdminInv, StillCounted, Roles!Admins

LEMMA AdminNext ==
  ASSUME NEW c, Call = {c}, Deletable = {},
         Roles!TypeOK, CountedEnough, AdminInv, [Roles!Next]_(Roles!vars)
  PROVE  AdminInv'
<1>0. /\ role \in [Member -> Roles!Role \union {Roles!NoRole}]
      /\ roleCall \in [Call -> Roles!CallState] /\ c \in Call
  BY DEF Roles!TypeOK
<1>1. \/ UNCHANGED Roles!vars
      \/ \E a, t \in Member, r \in Roles!Role : Roles!Authorise(c, a, t, r)
      \/ Roles!LoadTarget(c) \/ Roles!CountAdmins(c) \/ Roles!LoadRow(c) \/ Roles!Write(c)
      \/ Roles!Log(c) \/ Roles!Crash(c)
  BY DEF Roles!Next, Roles!Assign, Roles!DeleteAccount
<1>k. ASSUME UNCHANGED role,
             roleCall'[c].phase \in {"loaded", "writing"} /\ roleCall'[c].new # "admin" =>
               /\ roleCall[c].phase \in {"loaded", "writing"}
               /\ roleCall'[c].new = roleCall[c].new /\ roleCall'[c].target = roleCall[c].target
               /\ roleCall'[c].counted = roleCall[c].counted
      PROVE  AdminInv'
  <2>1. Roles!Admins' = Roles!Admins
    BY <1>k DEF Roles!Admins
  <2> QED BY <1>k, <2>1 DEF AdminInv, StillCounted
<1>u. CASE UNCHANGED Roles!vars
  BY <1>u, <1>k DEF Roles!vars
<1>2. CASE \E a, t \in Member, r \in Roles!Role : Roles!Authorise(c, a, t, r)
  <2>1. UNCHANGED role /\ roleCall'[c].phase = "authorised"
    BY <1>0, <1>2 DEF Roles!Authorise
  <2> QED BY <1>k, <2>1
<1>3. CASE Roles!LoadTarget(c)
  <2>1. CASE roleCall'[c].phase = "loaded" /\ roleCall'[c].new # "admin"
    <3>1. /\ roleCall[c].phase = "authorised" /\ UNCHANGED role
          /\ roleCall'[c].target = roleCall[c].target
          /\ roleCall'[c].counted = roleCall[c].counted
          /\ role[roleCall[c].target] # "admin"
      BY <1>0, <1>3, <2>1 DEF Roles!LoadTarget, Roles!Goto, Roles!CallState
    <3>2. roleCall[c].counted = {}
      BY <3>1, <1>0 DEF CountedEnough
    <3> QED BY <2>1, <3>1, <3>2 DEF AdminInv, StillCounted, Roles!Admins
  <2>2. CASE ~(roleCall'[c].phase = "loaded" /\ roleCall'[c].new # "admin")
    <3>1. UNCHANGED role /\ roleCall'[c].phase # "writing"
      BY <1>0, <1>3 DEF Roles!LoadTarget, Roles!Goto, Roles!CallState
    <3> QED BY <1>k, <2>2, <3>1
  <2> QED BY <2>1, <2>2
<1>4. CASE Roles!CountAdmins(c)
  <2>1. /\ UNCHANGED role /\ roleCall'[c].counted = Roles!Admins
    BY <1>0, <1>4 DEF Roles!CountAdmins, Roles!CallState
  <2>2. Roles!Admins' = Roles!Admins
    BY <2>1 DEF Roles!Admins
  <2> QED BY <2>1, <2>2 DEF AdminInv, StillCounted
<1>5. CASE Roles!LoadRow(c)
  <2>1. /\ UNCHANGED role /\ roleCall[c].phase = "loaded"
        /\ roleCall'[c].new = roleCall[c].new /\ roleCall'[c].target = roleCall[c].target
        /\ roleCall'[c].counted = roleCall[c].counted
    BY <1>0, <1>5 DEF Roles!LoadRow, Roles!CallState
  <2> QED BY <1>k, <2>1
<1>6. CASE Roles!Write(c)
  <2>1. roleCall'[c].phase \in {"committed", "idle"} /\ roleCall[c].phase = "writing"
    BY <1>0, <1>6 DEF Roles!Write, Roles!Goto, Roles!CallState
  <2>2. Roles!Admins' # {}
    <3>1. SUFFICES ASSUME Roles!Admins' = {}
                   PROVE  FALSE
      OBVIOUS
    <3>2. roleCall[c].counted # Roles!Admins
      BY <1>0, <1>6, <3>1, LastAdminWasNotCounted DEF AdminInv
    <3>3. /\ role' = [role EXCEPT ![roleCall[c].target] = roleCall[c].new]
          /\ roleCall[c].new # "admin"
      BY <1>0, <1>6, <3>1 DEF Roles!Write, Roles!Admins, AdminInv, Roles!CallState
    <3>4. role[roleCall[c].target] # "admin"
      BY <1>0, <2>1, <3>2, <3>3 DEF AdminInv, StillCounted
    <3> QED BY <1>0, <3>1, <3>3, <3>4 DEF AdminInv, Roles!Admins
  <2> QED BY <2>1, <2>2 DEF AdminInv, StillCounted
<1>7. CASE Roles!Log(c) \/ Roles!Crash(c)
  <2>1. UNCHANGED role /\ roleCall'[c].phase = "idle"
    BY <1>0, <1>7 DEF Roles!Log, Roles!Crash, Roles!Goto, Roles!CallState
  <2> QED BY <1>k, <2>1
<1> QED BY <1>1, <1>u, <1>2, <1>3, <1>4, <1>5, <1>6, <1>7

(***************************************************************************)
(* And where nothing can make the count outdated, one request at a time and*)
(* no account that may be deleted, there always is an admin.               *)
(***************************************************************************)
THEOREM LastAdminStays ==
  ASSUME NEW c, Call = {c}, Deletable = {}
  PROVE  Roles!Spec => [](Roles!Admins # {})
<1>1. AdminInv => Roles!Admins # {}
  BY DEF AdminInv
<1> QED
  BY <1>1, RoleTypes, CountedInit, CountedNext, AdminInit, AdminNext, PTL DEF Roles!Spec

-----------------------------------------------------------------------------
(* Licences.                                                               *)

LEMMA LicenceTypeInit ==
  ASSUME Licence!LicenceConstants, Licence!Init
  PROVE  Licence!TypeOK
<1>1. Licence!Nobody \in Licence!Holding
  BY DEF Licence!LicenceConstants, Licence!Nobody, Licence!Holding, Licence!Tier
<1>2. Licence!NothingShown \in [tier : Licence!Tier, live : BOOLEAN, lapsed : BOOLEAN]
  BY DEF Licence!NothingShown, Licence!Tier
<1> QED BY <1>1, <1>2 DEF Licence!Init, Licence!TypeOK, Licence!LicenceConstants

LEMMA LicenceTypeNext ==
  ASSUME Licence!LicenceConstants, Licence!TypeOK, [Licence!Next]_(Licence!vars)
  PROVE  Licence!TypeOK'
<1> USE DEF Licence!TypeOK
<1>u. CASE UNCHANGED Licence!vars
  BY <1>u DEF Licence!vars
<1>0. Licence!Nobody \in Licence!Holding
  BY DEF Licence!LicenceConstants, Licence!Nobody, Licence!Holding, Licence!Tier
<1>1. ASSUME NEW a \in Address, Licence!Register(a)
      PROVE  Licence!TypeOK'
  <2>1. [Licence!Nobody EXCEPT !.exists = TRUE] \in Licence!Holding
    BY <1>0 DEF Licence!Holding
  <2> QED BY <1>1, <2>1 DEF Licence!Register
<1>2. ASSUME NEW a \in Address, NEW k \in Key, Licence!Activate(a, k)
      PROVE  Licence!TypeOK'
  <2>1. [holder[a] EXCEPT !.tier = k.tier, !.key = k, !.on = day] \in Licence!Holding
    BY DEF Licence!Holding, Licence!LicenceConstants
  <2>2. holder' = [holder EXCEPT ![a] = [@ EXCEPT !.tier = k.tier, !.key = k, !.on = day]]
    BY <1>2 DEF Licence!Activate
  <2> QED BY <1>2, <2>1, <2>2 DEF Licence!Activate
<1>3. ASSUME NEW a \in Address, Licence!DeleteAccount(a)
      PROVE  Licence!TypeOK'
  BY <1>0, <1>3 DEF Licence!DeleteAccount
<1>4. ASSUME NEW a \in Address, Licence!LicenseInfo(a)
      PROVE  Licence!TypeOK'
  <2> DEFINE k == holder[a].key
             live == Licence!ValidOn(k, day)
  <2>1. holder[a].tier \in Licence!Tier
    BY DEF Licence!Holding
  <2>2. live \in BOOLEAN /\ (k # Licence!NoKey /\ ~live) \in BOOLEAN
    BY DEF Licence!ValidOn
  <2>3. shown' = [tier |-> holder[a].tier, live |-> live, lapsed |-> k # Licence!NoKey /\ ~live]
    BY <1>4 DEF Licence!LicenseInfo
  <2> HIDE DEF live, k
  <2>4. shown' \in [tier : Licence!Tier, live : BOOLEAN, lapsed : BOOLEAN]
    BY <2>1, <2>2, <2>3
  <2> QED BY <1>4, <2>4 DEF Licence!LicenseInfo
<1>5. ASSUME Licence!NextDay
      PROVE  Licence!TypeOK'
  BY <1>5 DEF Licence!NextDay, Licence!LicenceConstants
<1> QED BY <1>u, <1>1, <1>2, <1>3, <1>4, <1>5 DEF Licence!Next

(***************************************************************************)
(* Accounts, the day and what license-info said stay what they are.        *)
(***************************************************************************)
THEOREM LicenceTypes ==
  ASSUME Licence!LicenceConstants
  PROVE  Licence!Spec => []Licence!TypeOK
BY LicenceTypeInit, LicenceTypeNext, PTL DEF Licence!Spec

\* A paid tier came with the key that is stored beside it.
Earned ==
  \A a \in Address :
    LET h == holder[a] IN
    h.tier # "free" => /\ h.key.genuine /\ h.key.tier = h.tier
                       /\ h.key.email \in {Licence!Unnamed, LowerAddress[a]}
                       /\ h.on <= h.key.until + Grace /\ h.on <= day

LEMMA EarnedInit ==
  ASSUME Licence!Init
  PROVE  Earned
BY DEF Licence!Init, Licence!Nobody, Earned

LEMMA EarnedNext ==
  ASSUME Licence!LicenceConstants, Licence!TypeOK, Earned, [Licence!Next]_(Licence!vars)
  PROVE  Earned'
<1>0. /\ holder \in [Address -> Licence!Holding] /\ day \in Nat
  BY DEF Licence!LicenceConstants, Licence!TypeOK
<1>u. CASE UNCHANGED Licence!vars
  BY <1>u DEF Licence!vars, Earned
<1>1. ASSUME NEW a \in Address, Licence!Register(a) \/ Licence!DeleteAccount(a)
      PROVE  Earned'
  <2>1. /\ holder'[a].tier = "free" /\ day' = day
        /\ \A b \in Address \ {a} : holder'[b] = holder[b]
    BY <1>0, <1>1 DEF Licence!Register, Licence!DeleteAccount, Licence!Nobody
  <2> QED BY <2>1 DEF Earned
<1>2. ASSUME NEW a \in Address, NEW k \in Key, Licence!Activate(a, k)
      PROVE  Earned'
  <2>1. /\ holder'[a].tier = k.tier /\ holder'[a].key = k /\ holder'[a].on = day /\ day' = day
        /\ \A b \in Address \ {a} : holder'[b] = holder[b]
    BY <1>0, <1>2 DEF Licence!Activate, Licence!Holding
  <2>2. k.genuine /\ k.email \in {Licence!Unnamed, LowerAddress[a]} /\ day <= k.until + Grace
    BY <1>0, <1>2 DEF Licence!Activate, Licence!MayActivate, Licence!ValidOn, Licence!LicenceConstants
  <2> QED BY <1>0, <2>1, <2>2 DEF Earned
<1>4. ASSUME NEW a \in Address, Licence!LicenseInfo(a)
      PROVE  Earned'
  BY <1>4 DEF Licence!LicenseInfo, Earned
<1>5. ASSUME Licence!NextDay
      PROVE  Earned'
  <2>1. \A a \in Address : holder[a].on \in Nat
    BY <1>0 DEF Licence!Holding
  <2> QED BY <1>0, <1>5, <2>1 DEF Licence!NextDay, Earned
<1> QED BY <1>u, <1>1, <1>2, <1>4, <1>5 DEF Licence!Next

(***************************************************************************)
(* Whoever passes a paid gate has a genuine key of that tier, for the      *)
(* account's address or for none, accepted within its grace period         *)
(* (activate_license): for any addresses, keys and days of grace, also     *)
(* negative ones.                                                          *)
(***************************************************************************)
THEOREM TiersEarned ==
  ASSUME Licence!LicenceConstants
  PROVE  Licence!Spec => []TierIsEarned
<1>1. Earned => TierIsEarned
  BY DEF Earned, TierIsEarned, Licence!TierIsEarned, Licence!PassesPro
<1> QED BY <1>1, LicenceTypes, EarnedInit, EarnedNext, PTL DEF Licence!Spec
=============================================================================
