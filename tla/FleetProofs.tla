---------------------------- MODULE FleetProofs ----------------------------
(***************************************************************************)
(* Theorems about MachineRegistry, for any number of requests, hosts and   *)
(* any limit, and about Scheduler, for any resolution of the week.         *)
(*                                                                         *)
(* MachineRegistry: a request that has passed the count but not yet        *)
(* inserted is a machine to come (Counted).  Machines that are there and   *)
(* machines to come together never exceed the limit by as many as there    *)
(* are requests; with one worker at most one request is in between, and    *)
(* nothing is exceeded.                                                    *)
(*                                                                         *)
(* Scheduler: ScheduleInv relates the runs to the task row.  What keeps    *)
(* the next time right is that the configuration a run is about to write   *)
(* the time from is the one in the row (ReadConfig), and what keeps a slot *)
(* from being started twice is that a started slot has an unfinished run   *)
(* (StartedOnce).  That calcNextRunAt gives the first matching tick is     *)
(* CalcIsNextSlot.                                                         *)
(***************************************************************************)
EXTENDS Fleet, FiniteSetTheorems, TLAPS

Counted == {c \in Call : call[c].phase = "counted"}

Overshoot == Cardinality(machine) + Cardinality(Counted) <= Limit + Cardinality(Call) - 1

Exact ==
  /\ \A c, d \in Call : call[c].phase \in OnLoop /\ call[d].phase \in OnLoop => c = d
  /\ \A c \in Counted : Cardinality(machine) < Limit
  /\ WithinLimit

-----------------------------------------------------------------------------
LEMMA Assumptions ==
  /\ IsFiniteSet(Call) /\ Call # {} /\ IsFiniteSet(Host) /\ Limit \in Nat \ {0}
BY CallAssumption, HostAssumption, LimitAssumption

LEMMA OneCallMoves ==
  ASSUME TypeOK, NEW c \in Call, NEW n \in CallState, call' = [call EXCEPT ![c] = n]
  PROVE  /\ call' \in [Call -> CallState] /\ call'[c] = n
         /\ \A d \in Call \ {c} : call'[d] = call[d]
BY DEF TypeOK

\* A request goes to a phase and keeps its host.
LEMMA GotoMoves ==
  ASSUME TypeOK, NEW c \in Call, NEW p \in {"idle", "stored", "refused"} \union OnLoop, Goto(c, p)
  PROVE  /\ call' \in [Call -> CallState] /\ call'[c].phase = p /\ call'[c].host = call[c].host
         /\ \A d \in Call \ {c} : call'[d] = call[d]
<1> DEFINE n == [call[c] EXCEPT !.phase = p]
<1>1. call[c] \in CallState
  BY DEF TypeOK
<1>2. n \in CallState /\ n.phase = p /\ n.host = call[c].host
  BY <1>1 DEF CallState
<1>3. call' = [call EXCEPT ![c] = n]
  BY DEF TypeOK, Goto
<1> HIDE DEF n
<1> QED
  BY <1>2, <1>3, OneCallMoves

(***************************************************************************)
(* What one request does, as far as the limit is concerned.                *)
(***************************************************************************)
Step(c) ==
  /\ call' \in [Call -> CallState] /\ \A d \in Call \ {c} : call'[d] = call[d]
  /\ \/ machine' = machine /\ call'[c].phase # "counted"
     \/ /\ machine' = machine /\ call'[c].phase = "counted"
        /\ Cardinality(machine) < Limit
     \/ /\ call[c].phase = "counted" /\ call'[c].phase # "counted"
        /\ \E h \in Host \ machine : machine' = machine \union {h}
  /\ MayRun(c) \/ (machine' = machine /\ call'[c].phase \notin OnLoop)

LEMMA StoreType ==
  ASSUME TypeOK, NEW c \in Call, Store(c)
  PROVE  snapshot' \in [Host -> Call \union {NoCall}]
BY DEF TypeOK, Store

LEMMA CallSteps ==
  ASSUME TypeOK, NEW c \in Call,
         Sync(c) \/ Crash(c) \/ \E h \in Host : Lookup(c, h)
  PROVE  TypeOK' /\ Step(c)
<1> DEFINE All == {"idle", "stored", "refused"} \union OnLoop
<1>1. call[c] \in CallState /\ call[c].host \in Host
  BY DEF TypeOK, CallState
<1>2. {"idle", "stored", "refused", "new", "counted", "known", "conflict", "again"} \subseteq All
  BY DEF OnLoop
<1> HIDE DEF All
<1>3. ASSUME NEW h \in Host, Lookup(c, h) PROVE TypeOK' /\ Step(c)
  <2> DEFINE n == [phase |-> IF h \in machine THEN "known" ELSE "new", host |-> h]
  <2>1. n \in CallState /\ n.phase # "counted"
    BY <1>2 DEF CallState, All
  <2>2. call' = [call EXCEPT ![c] = n] /\ MayRun(c) /\ UNCHANGED <<machine, snapshot, exists>>
    BY <1>3 DEF Lookup
  <2> HIDE DEF n
  <2>3. /\ call' \in [Call -> CallState] /\ call'[c] = n
        /\ \A d \in Call \ {c} : call'[d] = call[d]
    BY <2>1, <2>2, OneCallMoves
  <2> QED
    BY <2>1, <2>2, <2>3 DEF TypeOK, Step
<1>4. ASSUME Count(c) PROVE TypeOK' /\ Step(c)
  <2>1. PICK p \in {"refused", "counted"} :
          Goto(c, p) /\ (p = "counted" => ~(Cardinality(machine) >= Limit))
    BY <1>4 DEF Count
  <2>2. /\ call' \in [Call -> CallState] /\ call'[c].phase = p
        /\ \A d \in Call \ {c} : call'[d] = call[d]
    BY <1>2, <2>1, GotoMoves DEF All
  <2>3. MayRun(c) /\ UNCHANGED <<machine, snapshot, exists>>
    BY <1>4 DEF Count, At
  <2>4. Cardinality(machine) \in Nat
    BY Assumptions, FS_Subset, FS_CardinalityType DEF TypeOK
  <2>5. p = "counted" => Cardinality(machine) < Limit
    BY <2>1, <2>4, Assumptions
  <2> QED
    BY <2>1, <2>2, <2>3, <2>5 DEF TypeOK, Step
<1>5. ASSUME Insert(c) PROVE TypeOK' /\ Step(c)
  <2>1. MayRun(c) /\ call[c].phase = "counted" /\ exists' = exists
    BY <1>5 DEF Insert, At
  <2>2. CASE Goto(c, "conflict") /\ UNCHANGED <<machine, snapshot>>
    <3>1. /\ call' \in [Call -> CallState] /\ call'[c].phase = "conflict"
          /\ \A d \in Call \ {c} : call'[d] = call[d]
      BY <1>2, <2>2, GotoMoves DEF All
    <3> QED
      BY <2>1, <2>2, <3>1 DEF TypeOK, Step
  <2>3. CASE /\ call[c].host \notin machine /\ machine' = machine \union {call[c].host}
             /\ Store(c) /\ Goto(c, "stored")
    <3>1. /\ call' \in [Call -> CallState] /\ call'[c].phase = "stored"
          /\ \A d \in Call \ {c} : call'[d] = call[d]
      BY <1>2, <2>3, GotoMoves DEF All
    <3>2. TypeOK'
      BY <1>1, <2>1, <2>3, <3>1, StoreType DEF TypeOK
    <3> QED
      BY <1>1, <2>1, <2>3, <3>1, <3>2 DEF Step
  <2> QED
    BY <1>5, <2>2, <2>3 DEF Insert
<1>6. ASSUME Update(c) PROVE TypeOK' /\ Step(c)
  <2>1. MayRun(c) /\ UNCHANGED <<machine, exists>>
        /\ \/ Store(c) /\ Goto(c, "stored")
           \/ snapshot' = snapshot /\ Goto(c, "refused")
    BY <1>6 DEF Update, At
  <2>2. PICK p \in {"stored", "refused"} : Goto(c, p)
    BY <2>1
  <2>3. /\ call' \in [Call -> CallState] /\ call'[c].phase = p
        /\ \A d \in Call \ {c} : call'[d] = call[d]
    BY <1>2, <2>2, GotoMoves DEF All
  <2>4. snapshot' \in [Host -> Call \union {NoCall}]
    BY <2>1, StoreType DEF TypeOK
  <2> QED
    BY <2>1, <2>3, <2>4 DEF TypeOK, Step
<1>7. ASSUME Recover(c) \/ Crash(c) PROVE TypeOK' /\ Step(c)
  <2>1. UNCHANGED <<machine, snapshot, exists>>
        /\ \E p \in {"again", "refused"} : Goto(c, p) /\ (MayRun(c) \/ p = "refused")
    BY <1>7 DEF Recover, Crash, At
  <2>2. PICK p \in {"again", "refused"} : Goto(c, p) /\ (MayRun(c) \/ p = "refused")
    BY <2>1
  <2>3. /\ call' \in [Call -> CallState] /\ call'[c].phase = p
        /\ \A d \in Call \ {c} : call'[d] = call[d]
    BY <1>2, <2>2, GotoMoves DEF All
  <2> QED
    BY <2>1, <2>2, <2>3 DEF TypeOK, Step, OnLoop
<1> QED
  BY <1>3, <1>4, <1>5, <1>6, <1>7 DEF Sync

LEMMA DeleteType ==
  ASSUME TypeOK, DeleteAccount PROVE TypeOK' /\ machine' = {} /\ call' = call
BY DEF TypeOK, DeleteAccount

LEMMA InitType == Init => TypeOK
BY DEF Init, TypeOK, CallState

LEMMA NextType == TypeOK /\ [Next]_vars => TypeOK'
<1> SUFFICES ASSUME TypeOK, [Next]_vars PROVE TypeOK'
  OBVIOUS
<1>1. CASE UNCHANGED vars
  BY <1>1 DEF vars, TypeOK
<1> QED
  BY <1>1, CallSteps, DeleteType DEF Next

(***************************************************************************)
(* The variables keep their types.                                         *)
(***************************************************************************)
THEOREM TypeCorrect == Spec => []TypeOK
BY InitType, NextType, PTL DEF Spec

-----------------------------------------------------------------------------
LEMMA Finite ==
  ASSUME TypeOK
  PROVE  /\ IsFiniteSet(machine) /\ Cardinality(machine) \in Nat
         /\ IsFiniteSet(Counted) /\ Cardinality(Counted) \in Nat
         /\ Cardinality(Counted) <= Cardinality(Call) /\ Cardinality(Call) \in Nat \ {0}
<1>1. machine \subseteq Host /\ Counted \subseteq Call
  BY DEF TypeOK, Counted
<1>2. /\ IsFiniteSet(machine) /\ IsFiniteSet(Counted) /\ Cardinality(Counted) <= Cardinality(Call)
  BY <1>1, Assumptions, FS_Subset
<1> QED
  BY <1>2, Assumptions, FS_CardinalityType, FS_EmptySet

LEMMA InitOvershoot == Init => Overshoot /\ WithinLimit
<1> SUFFICES ASSUME Init PROVE Overshoot /\ WithinLimit
  OBVIOUS
<1>1. machine = {} /\ Counted = {}
  BY DEF Init, Counted
<1>2. Cardinality({}) = 0
  BY FS_EmptySet
<1>3. Cardinality(Call) \in Nat \ {0}
  BY Finite, InitType
<1> QED
  BY <1>1, <1>2, <1>3, Assumptions DEF Overshoot, WithinLimit

LEMMA StepOvershoot ==
  ASSUME TypeOK, TypeOK', Overshoot, NEW c \in Call, Step(c) PROVE Overshoot'
<1> DEFINE m == Cardinality(machine)
           k == Cardinality(Counted)
           N == Cardinality(Call)
<1>1. m \in Nat /\ k \in Nat /\ k <= N /\ N \in Nat \ {0} /\ m + k <= Limit + N - 1
  BY Finite DEF Overshoot
<1>2. Cardinality(Counted') \in Nat /\ Cardinality(Counted') <= N /\ Limit \in Nat
  <2>1. Counted' \subseteq Call
    BY DEF Counted
  <2> QED
    BY <2>1, Assumptions, FS_Subset, FS_CardinalityType
<1>3. IsFiniteSet(Counted) /\ IsFiniteSet(machine)
  BY Finite
<1>4. \A d \in Call \ {c} : d \in Counted' <=> d \in Counted
  BY DEF Step, Counted
<1>5. CASE machine' = machine /\ call'[c].phase # "counted"
  <2>1. Counted' \subseteq Counted
    BY <1>4, <1>5 DEF Counted
  <2>2. Cardinality(Counted') <= k
    BY <1>3, <2>1, FS_Subset
  <2> QED
    BY <1>1, <1>2, <1>5, <2>2 DEF Overshoot
<1>6. CASE machine' = machine /\ m < Limit
  BY <1>1, <1>2, <1>6 DEF Overshoot
<1>7. CASE /\ call[c].phase = "counted" /\ call'[c].phase # "counted"
           /\ \E h \in Host \ machine : machine' = machine \union {h}
  <2>1. c \in Counted /\ Counted' = Counted \ {c}
    BY <1>4, <1>7 DEF Counted
  <2>2. Cardinality(Counted') = k - 1
    BY <1>3, <2>1, FS_RemoveElement
  <2>3. Cardinality(machine') = m + 1
    BY <1>3, <1>7, FS_AddElement
  <2> QED
    BY <1>1, <2>2, <2>3 DEF Overshoot
<1> QED
  BY <1>5, <1>6, <1>7 DEF Step

LEMMA NextOvershoot == TypeOK /\ TypeOK' /\ Overshoot /\ [Next]_vars => Overshoot'
<1> SUFFICES ASSUME TypeOK, TypeOK', Overshoot, [Next]_vars PROVE Overshoot'
  OBVIOUS
<1>1. CASE UNCHANGED vars
  BY <1>1 DEF vars, Overshoot, Counted
<1>2. CASE DeleteAccount
  <2>1. Counted' = Counted /\ Cardinality(machine') = 0
    BY <1>2, DeleteType, FS_EmptySet DEF Counted
  <2>2. Cardinality(Counted) <= Cardinality(Call) /\ Cardinality(Counted) \in Nat
        /\ Cardinality(Call) \in Nat
    BY Finite
  <2> QED
    BY <2>1, <2>2, Assumptions DEF Overshoot
<1> QED
  BY <1>1, <1>2, CallSteps, StepOvershoot DEF Next

(***************************************************************************)
(* However many workers there are, the machines exceed the limit by less   *)
(* than the number of requests that are handled at once.                   *)
(***************************************************************************)
THEOREM Overshoots == Spec => []BoundedOvershoot
<1>1. TypeOK /\ Overshoot => BoundedOvershoot
  <2> SUFFICES ASSUME TypeOK, Overshoot PROVE BoundedOvershoot
    OBVIOUS
  <2>1. /\ Cardinality(machine) \in Nat /\ Cardinality(Counted) \in Nat
        /\ Cardinality(Call) \in Nat
    BY Finite
  <2> QED
    BY <2>1, Assumptions DEF Overshoot, BoundedOvershoot
<1> QED
  BY <1>1, InitType, NextType, InitOvershoot, NextOvershoot, PTL DEF Spec

-----------------------------------------------------------------------------
LEMMA NextExact == ~Scaled => (TypeOK /\ TypeOK' /\ Exact /\ [Next]_vars => Exact')
<1> SUFFICES ASSUME ~Scaled, TypeOK, TypeOK', Exact, [Next]_vars PROVE Exact'
  OBVIOUS
<1>1. CASE UNCHANGED vars
  BY <1>1 DEF vars, Exact, Counted, WithinLimit
<1>2. CASE DeleteAccount
  <2>1. call' = call /\ Cardinality(machine') = 0
    BY <1>2, DeleteType, FS_EmptySet
  <2>2. Cardinality(machine') < Limit /\ Cardinality(machine') <= Limit
    BY <2>1, Assumptions
  <2> QED
    BY <2>1, <2>2 DEF Exact, Counted, WithinLimit
<1>3. ASSUME NEW c \in Call, Step(c) PROVE Exact'
  <2> DEFINE m == Cardinality(machine)
  <2>1. m \in Nat /\ IsFiniteSet(machine)
    BY Finite
  <2>2. CASE MayRun(c)
    <3>1. \A d \in Call \ {c} : call'[d].phase \notin OnLoop
      BY <1>3, <2>2 DEF MayRun, Step
    <3>2. \A d \in Counted' : d = c
      BY <3>1 DEF Counted, OnLoop
    <3>3. Cardinality(machine') <= Limit /\ (c \in Counted' => Cardinality(machine') < Limit)
      <4>1. CASE machine' = machine /\ (call'[c].phase # "counted" \/ m < Limit)
        BY <4>1 DEF Exact, WithinLimit, Counted
      <4>2. CASE /\ call[c].phase = "counted" /\ call'[c].phase # "counted"
                 /\ \E h \in Host \ machine : machine' = machine \union {h}
        <5>1. m < Limit
          BY <4>2 DEF Exact, Counted
        <5>2. Cardinality(machine') = m + 1
          BY <2>1, <4>2, FS_AddElement
        <5> QED
          BY <2>1, <4>2, <5>1, <5>2, Assumptions DEF Counted
      <4> QED
        BY <1>3, <4>1, <4>2 DEF Step
    <3> QED
      BY <3>1, <3>2, <3>3 DEF Exact, WithinLimit
  <2>3. CASE machine' = machine /\ call'[c].phase \notin OnLoop
    <3>1. \A d \in Call : call'[d].phase \in OnLoop => call'[d] = call[d]
      BY <1>3, <2>3 DEF Step
    <3>2. Counted' \subseteq Counted
      BY <3>1 DEF Counted, OnLoop
    <3> QED
      BY <2>3, <3>1, <3>2 DEF Exact, WithinLimit
  <2> QED
    BY <1>3, <2>2, <2>3 DEF Step
<1> QED
  BY <1>1, <1>2, <1>3, CallSteps DEF Next

(***************************************************************************)
(* With one worker the limit of the tier is exact.                         *)
(***************************************************************************)
THEOREM LimitHolds == ASSUME ~Scaled PROVE Spec => []WithinLimit
<1>1. Init => Exact
  <2> SUFFICES ASSUME Init PROVE Exact
    OBVIOUS
  <2>1. \A c \in Call : call[c].phase = "idle"
    BY DEF Init
  <2> QED
    BY <2>1, InitOvershoot DEF Exact, OnLoop, Counted
<1>2. TypeOK /\ TypeOK' /\ Exact /\ [Next]_vars => Exact'
  BY NextExact
<1>3. Exact => WithinLimit
  BY DEF Exact
<1> QED
  BY <1>1, <1>2, <1>3, InitType, NextType, PTL DEF Spec

-----------------------------------------------------------------------------
\* The only ways to "stored" store the host's values.
LEMMA StoredBySync ==
  ASSUME TypeOK, NEW c \in Call, NEW d \in Call,
         Sync(d) \/ Crash(d) \/ \E h \in Host : Lookup(d, h),
         call[c].phase # "stored", call'[c].phase = "stored"
  PROVE  call[c].host \in machine' /\ snapshot'[call[c].host] = c
<1> DEFINE Phases == {"idle", "stored", "refused"} \union OnLoop
<1>0. /\ call[c] \in CallState /\ call[c].host \in Host
      /\ {"stored", "refused", "counted", "conflict", "again"} \subseteq Phases
  BY DEF TypeOK, CallState, OnLoop
<1>1. ASSUME NEW p \in Phases, Goto(d, p)
      PROVE  d = c /\ p = "stored"
  <2>1. call'[d].phase = p /\ \A e \in Call \ {d} : call'[e] = call[e]
    BY <1>1, GotoMoves
  <2> QED BY <2>1
<1> HIDE DEF Phases
<1>2. Store(c) => snapshot'[call[c].host] = c
  BY <1>0 DEF Store, TypeOK
<1>3. ~\E h \in Host : Lookup(d, h)
  <2>1. SUFFICES ASSUME NEW h \in Host, Lookup(d, h) PROVE FALSE
    OBVIOUS
  <2> DEFINE n == [phase |-> IF h \in machine THEN "known" ELSE "new", host |-> h]
  <2>2. n \in CallState /\ n.phase # "stored"
    BY DEF CallState, OnLoop
  <2>3. call' = [call EXCEPT ![d] = n]
    BY <2>1 DEF Lookup
  <2> HIDE DEF n
  <2>4. call'[d] = n /\ \A e \in Call \ {d} : call'[e] = call[e]
    BY <2>2, <2>3, OneCallMoves
  <2> QED BY <2>2, <2>4
<1>4. ~Crash(d) /\ ~Recover(d) /\ ~Count(d)
  BY <1>0, <1>1 DEF Crash, Recover, Count
<1>5. CASE Insert(d)
  <2>1. call[d].host \notin machine /\ machine' = machine \union {call[d].host}
        /\ Store(d) /\ Goto(d, "stored")
    BY <1>0, <1>1, <1>5 DEF Insert
  <2> QED BY <1>0, <1>1, <1>2, <2>1
<1>6. CASE Update(d)
  <2>1. call[d].host \in machine /\ machine' = machine /\ Store(d) /\ Goto(d, "stored")
    BY <1>0, <1>1, <1>6 DEF Update
  <2> QED BY <1>0, <1>1, <1>2, <2>1
<1> QED BY <1>3, <1>4, <1>5, <1>6 DEF Sync

(***************************************************************************)
(* Whichever requests race, and whichever of them lose the row to another  *)
(* worker, a sync that answers "stored" has just written its values to the *)
(* row of its host, and the row is there.                                  *)
(***************************************************************************)
THEOREM Stored == Spec => SuccessIsStored
<1>1. ASSUME TypeOK, Next, NEW c \in Call,
             call[c].phase # "stored", call'[c].phase = "stored"
      PROVE  call[c].host \in machine' /\ snapshot'[call[c].host] = c
  <2>1. ~DeleteAccount
    BY <1>1, DeleteType
  <2> QED BY <1>1, <2>1, StoredBySync DEF Next
<1>2. TypeOK /\ [Next]_vars =>
        [\A c \in Call :
           call[c].phase # "stored" /\ call'[c].phase = "stored"
             => call[c].host \in machine' /\ snapshot'[call[c].host] = c]_vars
  BY <1>1
<1> QED BY <1>2, TypeCorrect, PTL DEF Spec, SuccessIsStored

-----------------------------------------------------------------------------
(* Scheduler.                                                              *)

\* Quotient and remainder, which the prover knows little of when the divisor
\* is no number.
LEMMA Remainders ==
  ASSUME NEW p \in Nat \ {0}, NEW n \in Nat
  PROVE  /\ n \div p \in Nat /\ n % p \in 0..(p - 1)
         /\ n = p * (n \div p) + (n % p)
<1>1. n % p \in 0..(p - 1)
  OBVIOUS
<1>2. n = p * (n \div p) + (n % p)
  OBVIOUS
<1>3. n \div p \in Int
  OBVIOUS
<1>4. n \div p >= 0
  <2> DEFINE x == n \div p
  <2> HIDE DEF x
  <2>1. x <= -1 => p * x <= -p
    BY <1>3 DEF x
  <2> QED BY <1>1, <1>2, <1>3, <2>1 DEF x
<1> QED BY <1>1, <1>2, <1>3, <1>4

\* Two multiples of p that are less than p apart are one.
LEMMA MultiplesApart ==
  ASSUME NEW p \in Nat \ {0}, NEW x \in Int, NEW y \in Int,
         p * x - p * y < p, p * y - p * x < p
  PROVE  x = y
<1>1. p * x - p * y = p * (x - y)
  OBVIOUS
<1>2. CASE x - y >= 1
  <2>1. p * (x - y) >= p
    BY <1>2
  <2> QED BY <1>1, <2>1
<1>3. CASE y - x >= 1
  <2>1. p * (y - x) >= p
    BY <1>3
  <2> QED BY <1>1, <2>1
<1> QED BY <1>2, <1>3

LEMMA RemainderIs ==
  ASSUME NEW p \in Nat \ {0}, NEW q \in Int, NEW r \in 0..(p - 1), NEW n \in Nat, n = p * q + r
  PROVE  n % p = r /\ n \div p = q
<1> DEFINE a == n \div p
           b == n % p
<1>1. n = p * a + b /\ b \in 0..(p - 1) /\ a \in Nat
  BY Remainders
<1>2. p * q - p * a = b - r
  BY <1>1
<1> HIDE DEF a, b
<1>3. q = a
  BY <1>1, <1>2, MultiplesApart
<1>4. b = r
  BY <1>1, <1>3
<1> QED BY <1>3, <1>4 DEF a, b

\* Numbers of one remainder are at least p apart ...
LEMMA RemaindersApart ==
  ASSUME NEW p \in Nat \ {0}, NEW a \in Nat, NEW b \in Nat, a < b, a % p = b % p
  PROVE  b - a >= p
<1> DEFINE x == a \div p
           y == b \div p
           r == a % p
<1>a. a = p * x + r /\ x \in Nat /\ r \in 0..(p - 1)
  BY Remainders
<1>b. b = p * y + (b % p) /\ y \in Nat
  BY Remainders
<1>c. b % p = r
  OBVIOUS
<1> HIDE DEF x, y, r
<1>1. a = p * x + r /\ b = p * y + r /\ x \in Nat /\ y \in Nat /\ r \in Nat
  BY <1>a, <1>b, <1>c
<1>2. SUFFICES ASSUME b - a < p PROVE FALSE
  BY <1>1
<1>3. p * x - p * y < p /\ p * y - p * x < p
  BY <1>1, <1>2
<1>4. x = y
  BY <1>1, <1>3, MultiplesApart
<1> QED BY <1>1, <1>4

\* ... and a multiple of p more or less makes no difference.
LEMMA RemaindersRepeat ==
  ASSUME NEW p \in Nat \ {0}, NEW n \in Nat, NEW k \in Nat
  PROVE  (n + p * k) % p = n % p
<1> DEFINE x == n \div p
           r == n % p
<1>1. n = p * x + r /\ x \in Nat /\ r \in 0..(p - 1)
  BY Remainders
<1> HIDE DEF x, r
<1>2. n + p * k = p * (x + k) + r /\ n + p * k \in Nat /\ x + k \in Int
  BY <1>1
<1>3. (n + p * k) % p = r
  BY <1>1, <1>2, RemainderIs
<1> QED BY <1>3 DEF r

-----------------------------------------------------------------------------
LEMMA WeekFacts ==
  ASSUME Schedule!ScheduleConstants
  PROVE  /\ Schedule!WeekTicks \in Nat \ {0} /\ DayTicks <= Schedule!WeekTicks
         /\ Schedule!WeekTicks = DayTicks * WeekDays
<1>1. DayTicks * WeekDays \in Nat /\ DayTicks * WeekDays >= DayTicks
  BY DEF Schedule!ScheduleConstants
<1> QED BY <1>1 DEF Schedule!ScheduleConstants, Schedule!WeekTicks

\* How long it is until a schedule's slots come round again.
Period(c) == IF c.weekly THEN Schedule!WeekTicks ELSE DayTicks

LEMMA PeriodFacts ==
  ASSUME Schedule!ScheduleConstants, NEW c \in Schedule!Config
  PROVE  /\ Period(c) \in Nat \ {0} /\ Period(c) <= Schedule!WeekTicks
         /\ c.time \in 0..(Period(c) - 1) /\ c.time < DayTicks
         /\ \A t : Schedule!Matches(c, t) <=> t % Period(c) = c.time
<1>1. c.time \in 0..(DayTicks - 1) /\ DayTicks \in Nat \ {0}
  BY DEF Schedule!ScheduleConstants, Schedule!Config
<1>2. CASE c.weekly
  BY <1>1, <1>2, WeekFacts DEF Period, Schedule!Matches
<1>3. CASE ~c.weekly
  BY <1>1, <1>3, WeekFacts DEF Period, Schedule!Matches
<1> QED BY <1>2, <1>3

LEMMA TimeMatches ==
  ASSUME Schedule!ScheduleConstants, NEW c \in Schedule!Config
  PROVE  Schedule!Matches(c, c.time)
<1> DEFINE p == Period(c)
<1>1. p \in Nat \ {0} /\ c.time \in 0..(p - 1)
  BY PeriodFacts
<1> HIDE DEF p
<1>2. c.time = p * 0 + c.time /\ c.time \in Nat
  BY <1>1
<1>3. c.time % p = c.time
  BY <1>1, <1>2, RemainderIs
<1> QED BY <1>3, PeriodFacts DEF p

\* Slots keep to the week.
LEMMA MatchesRepeats ==
  ASSUME Schedule!ScheduleConstants, NEW c \in Schedule!Config, NEW t \in Nat
  PROVE  Schedule!Matches(c, t + Schedule!WeekTicks) <=> Schedule!Matches(c, t)
<1>1. CASE c.weekly
  <2>1. (t + Schedule!WeekTicks * 1) % Schedule!WeekTicks = t % Schedule!WeekTicks
    BY WeekFacts, RemaindersRepeat
  <2>2. Schedule!WeekTicks * 1 = Schedule!WeekTicks
    BY WeekFacts
  <2> QED BY <1>1, <2>1, <2>2 DEF Schedule!Matches
<1>2. CASE ~c.weekly
  <2>1. (t + DayTicks * WeekDays) % DayTicks = t % DayTicks
    BY RemaindersRepeat DEF Schedule!ScheduleConstants
  <2> QED BY <1>2, <2>1, WeekFacts DEF Schedule!Matches
<1> QED BY <1>1, <1>2

\* A match no further than a period ahead is the first one.
LEMMA FirstMatch ==
  ASSUME Schedule!ScheduleConstants, NEW c \in Schedule!Config, NEW d \in Nat \ {0}, now \in Nat,
         d <= Period(c), Schedule!Matches(c, now + d)
  PROVE  Schedule!IsNextSlot(c, d)
<1>1. SUFFICES ASSUME NEW e \in 1..(d - 1), Schedule!Matches(c, now + e)
               PROVE  FALSE
  BY DEF Schedule!IsNextSlot
<1>2. (now + e) % Period(c) = (now + d) % Period(c)
  BY <1>1, PeriodFacts
<1>3. now + d \in Nat /\ now + e \in Nat /\ now + e < now + d
  OBVIOUS
<1>4. (now + d) - (now + e) >= Period(c)
  BY <1>2, <1>3, PeriodFacts, RemaindersApart
<1> QED BY <1>4, PeriodFacts

\* calcNextRunAt, both for daily and for weekly schedules.
LEMMA CalcIsNextSlot ==
  ASSUME Schedule!ScheduleConstants, NEW c \in Schedule!Config, now \in 0..(Schedule!WeekTicks - 1)
  PROVE  /\ Schedule!CalcNextRunAt(c) \in 1..Schedule!WeekTicks
         /\ Schedule!IsNextSlot(c, Schedule!CalcNextRunAt(c))
<1> DEFINE day  == now \div DayTicks
           tick == now % DayTicks
           next == day * DayTicks + c.time
           untilMonday == (WeekDays - day) % WeekDays
           days == IF c.weekly
                     THEN IF untilMonday = 0 /\ next <= now THEN WeekDays ELSE untilMonday
                     ELSE IF next <= now THEN 1 ELSE 0
           d == Schedule!CalcNextRunAt(c)
<1>0. /\ DayTicks \in Nat \ {0} /\ WeekDays \in Nat \ {0} /\ now \in Nat
      /\ c.time \in 0..(DayTicks - 1)
  BY WeekFacts, PeriodFacts DEF Schedule!ScheduleConstants
<1>1. now = DayTicks * day + tick /\ day \in Nat /\ tick \in 0..(DayTicks - 1)
  BY <1>0, Remainders
<1>2. d = next + days * DayTicks - now
  BY DEF Schedule!CalcNextRunAt
<1> HIDE DEF day, tick, d
<1>3. day < WeekDays
  <2>1. SUFFICES ASSUME day >= WeekDays PROVE FALSE
    BY <1>0, <1>1
  <2>2. DayTicks * day >= DayTicks * WeekDays
    BY <1>0, <1>1, <2>1
  <2> QED BY <1>0, <1>1, <2>2, WeekFacts
<1>4. next = DayTicks * day + c.time /\ next \in Nat
  BY <1>0, <1>1
<1>5. next <= now <=> c.time <= tick
  BY <1>0, <1>1, <1>4
<1>6. untilMonday = IF day = 0 THEN 0 ELSE WeekDays - day
  <2>1. CASE day = 0
    <3>1. WeekDays = WeekDays * 1 + 0 /\ WeekDays - day = WeekDays
      BY <1>0, <2>1
    <3> QED BY <1>0, <2>1, <3>1, RemainderIs
  <2>2. CASE day # 0
    <3>1. WeekDays - day = WeekDays * 0 + (WeekDays - day) /\ WeekDays - day \in 0..(WeekDays - 1)
      BY <1>0, <1>1, <1>3, <2>2
    <3>2. (WeekDays - day) % WeekDays = WeekDays - day
      BY <1>0, <3>1, RemainderIs
    <3> QED BY <2>2, <3>2
  <2> QED BY <2>1, <2>2
<1> HIDE DEF next, untilMonday
<1>7. CASE c.weekly
  <2>1. Period(c) = Schedule!WeekTicks
    BY <1>7 DEF Period
  <2>2. CASE day = 0
    <3>1. next = c.time /\ now = tick /\ untilMonday = 0
      BY <1>0, <1>1, <1>4, <1>6, <2>2
    <3>2. d = IF next <= now THEN c.time + WeekDays * DayTicks - now ELSE c.time - now
      BY <1>0, <1>1, <1>2, <1>7, <3>1
    <3>3. CASE next <= now
      <4>1. /\ now + d = c.time + Schedule!WeekTicks /\ d \in 1..Schedule!WeekTicks
        BY <1>0, <1>1, <3>1, <3>2, <3>3, WeekFacts
      <4>2. Schedule!Matches(c, now + d)
        BY <1>0, <4>1, TimeMatches, MatchesRepeats
      <4> QED BY <1>0, <2>1, <4>1, <4>2, FirstMatch DEF d
    <3>4. CASE ~(next <= now)
      <4>1. /\ now + d = c.time /\ d \in 1..Schedule!WeekTicks
        BY <1>0, <1>1, <3>1, <3>2, <3>4, WeekFacts
      <4>2. Schedule!Matches(c, now + d)
        BY <4>1, TimeMatches
      <4> QED BY <1>0, <2>1, <4>1, <4>2, FirstMatch DEF d
    <3> QED BY <3>3, <3>4
  <2>3. CASE day # 0
    <3>1. days = WeekDays - day
      BY <1>0, <1>1, <1>3, <1>6, <1>7, <2>3
    <3> HIDE DEF days
    <3>2. days * DayTicks = WeekDays * DayTicks - DayTicks * day
      BY <1>0, <1>1, <3>1
    <3>3. d = c.time + WeekDays * DayTicks - now
      BY <1>0, <1>1, <1>2, <1>4, <3>2
    <3>4. DayTicks * day >= DayTicks
      BY <1>0, <1>1, <2>3
    <3>5. now + d = c.time + Schedule!WeekTicks /\ d \in 1..Schedule!WeekTicks
      BY <1>0, <1>1, <3>3, <3>4, WeekFacts
    <3>6. Schedule!Matches(c, now + d)
      BY <1>0, <3>5, TimeMatches, MatchesRepeats
    <3> QED BY <1>0, <2>1, <3>5, <3>6, FirstMatch DEF d
  <2> QED BY <2>2, <2>3
<1>8. CASE ~c.weekly
  <2>1. Period(c) = DayTicks
    BY <1>8 DEF Period
  <2>2. PICK n \in {0, 1} : n = days /\ n * DayTicks = (IF next <= now THEN DayTicks ELSE 0)
    BY <1>0, <1>8
  <2> HIDE DEF days
  <2>3. d \in 1..DayTicks /\ now + d = DayTicks * (day + n) + c.time
    BY <1>0, <1>1, <1>2, <1>4, <1>5, <2>2
  <2>4. (now + d) % DayTicks = c.time
    <3> DEFINE q == day + n
               m == now + d
               r == c.time
    <3>1. q \in Int /\ m \in Nat /\ m = DayTicks * q + r /\ r \in 0..(DayTicks - 1)
      BY <1>0, <1>1, <2>2, <2>3
    <3> HIDE DEF q, m, r
    <3>2. m % DayTicks = r
      BY <1>0, <3>1, RemainderIs
    <3> QED BY <3>2 DEF m, r
  <2> QED BY <1>0, <2>1, <2>3, <2>4, WeekFacts, PeriodFacts, FirstMatch DEF d
<1> QED BY <1>7, <1>8

-----------------------------------------------------------------------------
RunState == [phase : Schedule!Phase, processed : 0..Frameworks,
             success : BOOLEAN, config : Schedule!Config]

LEMMA RunFacts ==
  ASSUME Schedule!ScheduleConstants
  PROVE  /\ Schedule!Default \in Schedule!Config /\ Schedule!NoRun \in RunState
         /\ Schedule!NoRun.phase = "idle" /\ ~Schedule!Default.enabled
<1>1. (CHOOSE t \in Times : TRUE) \in Times
  BY DEF Schedule!ScheduleConstants
<1>2. Schedule!Default \in Schedule!Config /\ ~Schedule!Default.enabled
  BY <1>1 DEF Schedule!Default, Schedule!Config
<1> QED BY <1>2 DEF Schedule!NoRun, RunState, Schedule!Phase, Schedule!ScheduleConstants

LEMMA ScheduleTypeInit ==
  ASSUME Schedule!ScheduleConstants, Schedule!Init
  PROVE  Schedule!TypeOK
BY RunFacts, WeekFacts DEF Schedule!Init, Schedule!TypeOK, RunState

\* What a step does to the run of a copy, its own record aside.
LEMMA RunChanges ==
  ASSUME Schedule!TypeOK, NEW i \in Instance, NEW r \in RunState, run' = [run EXCEPT ![i] = r]
  PROVE  /\ run' \in [Instance -> RunState] /\ run'[i] = r
         /\ \A j \in Instance \ {i} : run'[j] = run[j]
BY DEF Schedule!TypeOK, RunState

LEMMA BeginsRun ==
  ASSUME Schedule!ScheduleConstants, Schedule!TypeOK, NEW i \in Instance, Schedule!Begins(i)
  PROVE  /\ run' \in [Instance -> RunState] /\ run'[i].phase = "collecting"
         /\ \A j \in Instance \ {i} : run'[j] = run[j]
         /\ ~running[i] /\ running' = [running EXCEPT ![i] = TRUE]
<1> DEFINE r == [Schedule!NoRun EXCEPT !.phase = "collecting"]
<1>1. r \in RunState /\ r.phase = "collecting"
  BY RunFacts DEF RunState, Schedule!Phase, Schedule!NoRun
<1>2. run' = [run EXCEPT ![i] = r] /\ ~running[i] /\ running' = [running EXCEPT ![i] = TRUE]
  BY DEF Schedule!Begins
<1> HIDE DEF r
<1> QED BY <1>1, <1>2, RunChanges

\* How far the run of one copy comes in a step.
Proceeds(i, r) ==
  /\ r \in RunState /\ run' = [run EXCEPT ![i] = r]
  /\ i \in open
  /\ UNCHANGED <<now, row, config, open, armed, shared>>
  /\ \/ /\ run[i].phase = "collecting" /\ r = [run[i] EXCEPT !.phase = "processing"]
        /\ UNCHANGED <<due, running, attempted>>
     \/ /\ run[i].phase = "processing" /\ run[i].processed < Frameworks
        /\ r = [run[i] EXCEPT !.processed = run[i].processed + 1]
        /\ UNCHANGED <<due, running, attempted>>
     \/ /\ run[i].phase = "processing" /\ run[i].processed = Frameworks
        /\ r = [run[i] EXCEPT !.phase = "reading"]
        /\ UNCHANGED <<due, running, attempted>>
     \/ /\ run[i].phase \in {"collecting", "processing", "notifying"}
        /\ r.phase = "reading" /\ ~r.success
        /\ UNCHANGED <<due, running, attempted>>
     \/ /\ run[i].phase = "reading" /\ r.phase = (IF row THEN "writing" ELSE "notifying")
        /\ r.config = config /\ r.success = run[i].success /\ r.processed = run[i].processed
        /\ UNCHANGED <<due, running, attempted>>
     \/ /\ run[i].phase = "writing" /\ r = [run[i] EXCEPT !.phase = "notifying"]
        /\ due' = Schedule!CalcNextRunAt(run[i].config) /\ attempted' = "no"
        /\ UNCHANGED running
     \/ /\ run[i].phase \in {"reading", "writing"} /\ r = [run[i] EXCEPT !.phase = "notifying"]
        /\ attempted' = (IF attempted = "yes" THEN "unsaved" ELSE attempted)
        /\ UNCHANGED <<due, running>>
     \/ /\ run[i].phase = "notifying" /\ r = Schedule!NoRun
        /\ running' = [running EXCEPT ![i] = FALSE]
        /\ UNCHANGED <<due, attempted>>

LEMMA ContinueProceeds ==
  ASSUME Schedule!ScheduleConstants, Schedule!TypeOK, NEW i \in Instance, Schedule!Continue(i)
  PROVE  \E r \in RunState : Proceeds(i, r)
<1> DEFINE s == run[i]
<1>0. /\ run \in [Instance -> RunState] /\ s \in RunState /\ config \in Schedule!Config
  BY DEF Schedule!TypeOK, RunState
<1>p. \A p \in Schedule!Phase : [s EXCEPT !.phase = p] \in RunState
  BY <1>0 DEF RunState
<1>q. {"processing", "reading", "writing", "notifying"} \subseteq Schedule!Phase
  BY DEF Schedule!Phase
<1>1. CASE Schedule!Collected(i)
  <2>1. run' = [run EXCEPT ![i] = [s EXCEPT !.phase = "processing"]]
    BY <1>0, <1>1 DEF Schedule!Collected
  <2> QED BY <1>1, <1>p, <1>q, <2>1 DEF Schedule!Collected, Schedule!At, Schedule!task, Proceeds
<1>2. CASE Schedule!Process(i)
  <2>1. run' = [run EXCEPT ![i] = [s EXCEPT !.processed = s.processed + 1]]
    BY <1>0, <1>2 DEF Schedule!Process
  <2>2. [s EXCEPT !.processed = s.processed + 1] \in RunState
    BY <1>0, <1>2 DEF Schedule!Process, RunState, Schedule!ScheduleConstants
  <2> QED BY <1>2, <2>1, <2>2 DEF Schedule!Process, Schedule!At, Schedule!task, Proceeds
<1>3. CASE Schedule!Processed(i)
  <2>1. run' = [run EXCEPT ![i] = [s EXCEPT !.phase = "reading"]]
    BY <1>0, <1>3 DEF Schedule!Processed
  <2> QED BY <1>3, <1>p, <1>q, <2>1 DEF Schedule!Processed, Schedule!At, Schedule!task, Proceeds
<1>4. CASE Schedule!Fails(i)
  <2> DEFINE r == [s EXCEPT !.phase = "reading", !.success = FALSE]
  <2>1. run' = [run EXCEPT ![i] = r]
    BY <1>0, <1>4 DEF Schedule!Fails
  <2>2. r \in RunState /\ r.phase = "reading" /\ ~r.success
    BY <1>0, <1>q DEF RunState
  <2> HIDE DEF r
  <2> QED BY <1>4, <2>1, <2>2 DEF Schedule!Fails, Schedule!At, Schedule!task, Proceeds
<1>5. CASE Schedule!PersistReads(i)
  <2> DEFINE p == IF row THEN "writing" ELSE "notifying"
             r == [s EXCEPT !.phase = p, !.config = config]
  <2>1. p \in Schedule!Phase
    BY <1>q
  <2>2. run' = [run EXCEPT ![i] = r]
    BY <1>0, <1>5 DEF Schedule!PersistReads
  <2>3. p = (IF row THEN "writing" ELSE "notifying")
    OBVIOUS
  <2> HIDE DEF p
  <2>4. /\ r \in RunState /\ r.phase = p /\ r.config = config /\ r.success = s.success
        /\ r.processed = s.processed
    BY <1>0, <2>1 DEF RunState
  <2> HIDE DEF r
  <2> QED BY <1>5, <2>2, <2>3, <2>4 DEF Schedule!PersistReads, Schedule!At, Schedule!task, Proceeds
<1>6. CASE Schedule!PersistWrites(i)
  <2>1. run' = [run EXCEPT ![i] = [s EXCEPT !.phase = "notifying"]]
    BY <1>0, <1>6 DEF Schedule!PersistWrites
  <2> QED BY <1>6, <1>p, <1>q, <2>1 DEF Schedule!PersistWrites, Schedule!At, Proceeds
<1>7. CASE Schedule!PersistFails(i)
  <2>1. run' = [run EXCEPT ![i] = [s EXCEPT !.phase = "notifying"]]
    BY <1>0, <1>7 DEF Schedule!PersistFails
  <2> QED BY <1>7, <1>p, <1>q, <2>1 DEF Schedule!PersistFails, Schedule!At, Schedule!task, Proceeds
<1>8. CASE Schedule!Finish(i)
  BY <1>8, RunFacts DEF Schedule!Finish, Schedule!At, Schedule!task, Proceeds
<1> QED BY <1>1, <1>2, <1>3, <1>4, <1>5, <1>6, <1>7, <1>8 DEF Schedule!Continue

LEMMA CalcType ==
  ASSUME Schedule!ScheduleConstants, Schedule!TypeOK, NEW c \in Schedule!Config
  PROVE  Schedule!CalcNextRunAt(c) \in 0..Schedule!WeekTicks \union {Never}
BY CalcIsNextSlot, WeekFacts DEF Schedule!TypeOK

LEMMA ScheduleTypeNext ==
  ASSUME Schedule!ScheduleConstants, Schedule!TypeOK, [Schedule!Next]_(Schedule!vars)
  PROVE  Schedule!TypeOK'
<1> DEFINE Runs == [Instance -> RunState]
           Dues == 0..Schedule!WeekTicks \union {Never}
<1>0. /\ now \in 0..(Schedule!WeekTicks - 1) /\ row \in BOOLEAN /\ config \in Schedule!Config
      /\ due \in Dues /\ open \in SUBSET Instance /\ armed \in SUBSET open
      /\ running \in [Instance -> BOOLEAN] /\ run \in Runs
      /\ attempted \in {"no", "yes", "again", "unsaved"} /\ shared \in BOOLEAN
  BY DEF Schedule!TypeOK, RunState
<1>t. ASSUME /\ now' \in 0..(Schedule!WeekTicks - 1) /\ row' \in BOOLEAN
             /\ config' \in Schedule!Config /\ due' \in Dues
             /\ open' \in SUBSET Instance /\ armed' \in SUBSET open'
             /\ running' \in [Instance -> BOOLEAN] /\ run' \in Runs
             /\ attempted' \in {"no", "yes", "again", "unsaved"} /\ shared' \in BOOLEAN
      PROVE  Schedule!TypeOK'
  BY <1>t DEF Schedule!TypeOK, RunState, Schedule!WeekTicks, Schedule!Phase, Schedule!Config
<1> HIDE DEF Runs
<1>u. CASE UNCHANGED Schedule!vars
  BY <1>0, <1>t, <1>u DEF Schedule!vars, Schedule!task
<1>1. CASE Schedule!Tick
  <2>1. (now + 1) % Schedule!WeekTicks \in 0..(Schedule!WeekTicks - 1)
    <3>1. now + 1 \in Nat /\ Schedule!WeekTicks \in Nat \ {0}
      BY <1>0, WeekFacts
    <3> QED BY <3>1, Remainders
  <2>2. due' \in Dues
    BY <1>0, <1>1, WeekFacts DEF Schedule!Tick, Schedule!ScheduleConstants
  <2> QED BY <1>0, <1>1, <1>t, <2>1, <2>2 DEF Schedule!Tick
<1>2. ASSUME NEW i \in Instance, NEW c \in Schedule!Config, Schedule!SetSchedule(i, c)
      PROVE  Schedule!TypeOK'
  <2>1. Schedule!CalcNextRunAt(c) \in Dues
    BY CalcType
  <2> HIDE DEF Dues
  <2>2. config' \in Schedule!Config /\ attempted' \in {"no", "yes", "again", "unsaved"}
    BY <1>0, <1>2 DEF Schedule!SetSchedule
  <2>3. due' \in Dues
    BY <1>0, <1>2, <2>1 DEF Schedule!SetSchedule, Dues
  <2>4. UNCHANGED <<now, row, open, armed, running, run, shared>>
    BY <1>2 DEF Schedule!SetSchedule
  <2> QED BY <1>0, <1>t, <2>2, <2>3, <2>4
<1>3. ASSUME NEW i \in Instance, Schedule!Launch(i)
      PROVE  Schedule!TypeOK'
  <2>1. /\ open' = open \union {i} /\ shared' = (shared \/ open # {})
        /\ row' \in BOOLEAN /\ armed' \in SUBSET open'
        /\ UNCHANGED <<now, config, due, running, run, attempted>>
    BY <1>0, <1>3 DEF Schedule!Launch
  <2> QED BY <1>0, <1>t, <2>1
<1>4. ASSUME NEW i \in Instance, Schedule!Exit(i)
      PROVE  Schedule!TypeOK'
  <2>1. run' \in Runs
    BY <1>0, <1>4, RunFacts DEF Schedule!Exit, Runs
  <2>2. /\ open' = open \ {i} /\ armed' = armed \ {i} /\ running' \in [Instance -> BOOLEAN]
        /\ attempted' \in {"no", "yes", "again", "unsaved"}
        /\ UNCHANGED <<now, row, config, due, shared>>
    BY <1>0, <1>4 DEF Schedule!Exit, Schedule!task
  <2> QED BY <1>0, <1>t, <2>1, <2>2
<1>5. ASSUME NEW i \in Instance, Schedule!CheckAndRun(i) \/ Schedule!RunNow(i)
      PROVE  Schedule!TypeOK'
  <2>1. Schedule!Begins(i)
    BY <1>5 DEF Schedule!CheckAndRun, Schedule!RunNow
  <2>2. run' \in Runs /\ running' \in [Instance -> BOOLEAN]
    BY <1>0, <2>1, BeginsRun DEF Runs
  <2>3. /\ attempted' \in {"no", "yes", "again", "unsaved"}
        /\ UNCHANGED <<now, row, config, due, open, armed, shared>>
    BY <1>0, <1>5 DEF Schedule!CheckAndRun, Schedule!RunNow, Schedule!task
  <2> QED BY <1>0, <1>t, <2>2, <2>3
<1>6. ASSUME NEW i \in Instance, Schedule!Continue(i)
      PROVE  Schedule!TypeOK'
  <2>1. PICK r \in RunState : Proceeds(i, r)
    BY <1>6, ContinueProceeds
  <2>2. run' \in Runs /\ UNCHANGED <<now, row, config, open, armed, shared>>
    BY <1>0, <2>1 DEF Proceeds, Runs
  <2>3. running' \in [Instance -> BOOLEAN] /\ attempted' \in {"no", "yes", "again", "unsaved"}
    BY <1>0, <2>1 DEF Proceeds
  <2>4. Schedule!CalcNextRunAt(run[i].config) \in Dues
    BY <1>0, CalcType DEF Runs, RunState
  <2> HIDE DEF Dues
  <2>5. due' \in Dues
    BY <1>0, <2>1, <2>4 DEF Proceeds
  <2> QED BY <1>0, <1>t, <2>2, <2>3, <2>5
<1> QED BY <1>u, <1>1, <1>2, <1>3, <1>4, <1>5, <1>6 DEF Schedule!Next, Schedule!UserChanges

(***************************************************************************)
(* The task row, the clock and the runs of every copy keep their types; in *)
(* particular calcNextRunAt never gives a time in the past or more than a  *)
(* week ahead.                                                             *)
(***************************************************************************)
THEOREM ScheduleTypes ==
  ASSUME Schedule!ScheduleConstants
  PROVE  Schedule!Spec => []Schedule!TypeOK
BY ScheduleTypeInit, ScheduleTypeNext, PTL DEF Schedule!Spec

-----------------------------------------------------------------------------
\* One copy at a time, unless a second one has been seen.
OneCopy == ~shared => \A i, j \in open : i = j

\* A run is one of an open copy, and the flag says whether there is one.
RunsAreOpen ==
  \A i \in Instance : /\ run[i].phase # "idle" => i \in open
                      /\ running[i] <=> run[i].phase # "idle"

\* A run that has not failed has come to its result through every framework.
WorkedThrough ==
  \A i \in Instance :
    run[i].phase \in {"reading", "writing", "notifying"} /\ run[i].success =>
      run[i].processed = Frameworks

\* What a run is about to write the next time from is the schedule as it is.
ReadConfig ==
  ~shared => \A i \in Instance : run[i].phase = "writing" => run[i].config = config

NextIsKept == config.enabled => /\ due # Never
                                /\ ~shared => due = 0 \/ Schedule!IsNextSlot(config, due)

\* A slot that a check has started is still being worked on.
Unfinished == {"collecting", "processing", "reading", "writing"}
StartedOnce ==
  ~shared => /\ attempted # "again"
             /\ attempted = "yes" =>
                  row /\ \E i \in Instance : run[i].phase \in Unfinished

ScheduleInv ==
  OneCopy /\ RunsAreOpen /\ WorkedThrough /\ ReadConfig /\ NextIsKept /\ StartedOnce

LEMMA ScheduleInvInit ==
  ASSUME Schedule!ScheduleConstants, Schedule!Init
  PROVE  ScheduleInv
BY RunFacts DEF Schedule!Init, ScheduleInv, OneCopy, RunsAreOpen, WorkedThrough, ReadConfig,
                NextIsKept, StartedOnce

\* As time passes the slot comes nearer.
LEMMA TickNearsSlot ==
  ASSUME Schedule!ScheduleConstants, Schedule!TypeOK, Schedule!Tick, due \in Nat \ {0},
         Schedule!IsNextSlot(config, due)
  PROVE  due' = 0 \/ Schedule!IsNextSlot(config, due)'
<1> DEFINE w == Schedule!WeekTicks
<1>0. /\ now \in 0..(w - 1) /\ w \in Nat \ {0} /\ config \in Schedule!Config /\ config' = config
      /\ due' = due - 1 /\ now' = (now + 1) % w
  BY WeekFacts DEF Schedule!TypeOK, Schedule!Tick, Schedule!ScheduleConstants
<1>1. now' = now + 1 \/ now' + w = now + 1
  <2>1. CASE now + 1 < w
    <3>1. now + 1 = w * 0 + (now + 1) /\ now + 1 \in 0..(w - 1)
      BY <1>0, <2>1
    <3> QED BY <1>0, <3>1, RemainderIs
  <2>2. CASE now + 1 = w
    <3>1. now + 1 = w * 1 + 0 /\ 0 \in 0..(w - 1) /\ now + 1 \in Nat
      BY <1>0, <2>2
    <3>2. (now + 1) % w = 0
      BY <1>0, <3>1, RemainderIs
    <3> QED BY <1>0, <2>2, <3>2
  <2> QED BY <1>0, <2>1, <2>2
<1>2. now' \in Nat
  BY <1>0, <1>1
<1> HIDE DEF w
<1>3. \A e \in Nat : Schedule!Matches(config, now' + e) <=> Schedule!Matches(config, now + (e + 1))
  <2> TAKE e \in Nat
  <2>1. CASE now' = now + 1
    <3>1. now' + e = now + (e + 1)
      BY <1>0, <2>1
    <3> QED BY <3>1
  <2>2. CASE now' + w = now + 1
    <3>1. (now' + e) + w = now + (e + 1) /\ now' + e \in Nat
      BY <1>0, <1>2, <2>2
    <3> QED BY <1>0, <3>1, MatchesRepeats DEF w
  <2> QED BY <1>1, <2>1, <2>2
<1>4. CASE due = 1
  BY <1>0, <1>4
<1>5. CASE due > 1
  <2>1. due' > 0 /\ due' \in Nat
    BY <1>0, <1>5
  <2>2. Schedule!Matches(config, now' + due')
    <3>1. due' + 1 = due
      BY <1>0
    <3> QED BY <1>3, <2>1, <3>1 DEF Schedule!IsNextSlot
  <2>3. ASSUME NEW e \in 1..(due' - 1)
        PROVE  ~Schedule!Matches(config, now' + e)
    <3>1. e + 1 \in 1..(due - 1) /\ e \in Nat
      BY <1>0, <2>1
    <3> QED BY <1>3, <3>1 DEF Schedule!IsNextSlot
  <2>4. \A e \in 1..(due' - 1) : ~Schedule!Matches(config', now' + e)
    BY <1>0, <2>3
  <2> QED BY <1>0, <2>1, <2>2, <2>4 DEF Schedule!IsNextSlot, Schedule!Matches, Schedule!WeekTicks
<1> QED BY <1>4, <1>5

\* calcNextRunAt fits what the next time may be.
LEMMA CalcKeepsNext ==
  ASSUME Schedule!ScheduleConstants, Schedule!TypeOK, Schedule!TypeOK', NEW c \in Schedule!Config,
         now' = now, config' = c, due' = Schedule!CalcNextRunAt(c)
  PROVE  NextIsKept'
<1>1. now \in 0..(Schedule!WeekTicks - 1)
  BY DEF Schedule!TypeOK
<1>2. due' \in 1..Schedule!WeekTicks /\ Schedule!IsNextSlot(c, due')
  BY <1>1, CalcIsNextSlot
<1>3. due' # Never
  BY <1>2, WeekFacts DEF Schedule!ScheduleConstants
<1>4. Schedule!IsNextSlot(config, due)'
  BY <1>2 DEF Schedule!IsNextSlot, Schedule!Matches, Schedule!WeekTicks
<1> QED BY <1>3, <1>4 DEF NextIsKept

\* Nothing the next time depends on changes.
LEMMA NextStays ==
  ASSUME NextIsKept, UNCHANGED <<now, config, due>>, shared => shared'
  PROVE  NextIsKept'
BY DEF NextIsKept, Schedule!IsNextSlot, Schedule!Matches, Schedule!WeekTicks

LEMMA TickKeeps ==
  ASSUME Schedule!ScheduleConstants, Schedule!TypeOK, ScheduleInv, Schedule!Tick
  PROVE  ScheduleInv'
<1>1. /\ due' = (IF due \in {0, Never} THEN due ELSE due - 1)
      /\ UNCHANGED <<row, config, open, armed, running, run, attempted, shared>>
  BY DEF Schedule!Tick
<1>2. (OneCopy /\ RunsAreOpen /\ WorkedThrough /\ ReadConfig /\ StartedOnce)'
  BY <1>1 DEF ScheduleInv, OneCopy, RunsAreOpen, WorkedThrough, ReadConfig, StartedOnce
<1>3. NextIsKept'
  <2>1. SUFFICES ASSUME config.enabled
                 PROVE  due' # Never /\ (~shared => due' = 0 \/ Schedule!IsNextSlot(config, due)')
    BY <1>1 DEF NextIsKept
  <2>2. due \in 0..Schedule!WeekTicks /\ (~shared => due = 0 \/ Schedule!IsNextSlot(config, due))
    BY <2>1 DEF ScheduleInv, NextIsKept, Schedule!TypeOK
  <2>3. CASE due = 0
    BY <1>1, <2>3 DEF Schedule!ScheduleConstants
  <2>4. CASE due # 0
    <3>1. due' = due - 1 /\ due \in Nat \ {0} /\ due' # Never
      BY <1>1, <2>2, <2>4, WeekFacts DEF Schedule!ScheduleConstants
    <3> QED BY <2>2, <3>1, TickNearsSlot
  <2> QED BY <2>3, <2>4
<1> QED BY <1>2, <1>3 DEF ScheduleInv

LEMMA SetScheduleKeeps ==
  ASSUME Schedule!ScheduleConstants, Schedule!TypeOK, Schedule!TypeOK', ScheduleInv,
         NEW i \in Instance, NEW c \in Schedule!Config, Schedule!SetSchedule(i, c)
  PROVE  ScheduleInv'
<1>1. /\ i \in open /\ run[i].phase \in {"idle", "collecting"}
      /\ UNCHANGED <<now, row, open, armed, running, run, shared>>
  BY DEF Schedule!SetSchedule, Schedule!IsFree, Schedule!At
<1>2. \/ /\ row /\ config' = c /\ attempted' = "no"
         /\ due' = (IF c.enabled THEN Schedule!CalcNextRunAt(c) ELSE Never)
      \/ ~row /\ UNCHANGED <<config, due, attempted>>
  BY DEF Schedule!SetSchedule
<1>3. (OneCopy /\ RunsAreOpen /\ WorkedThrough /\ StartedOnce)'
  BY <1>1, <1>2 DEF ScheduleInv, OneCopy, RunsAreOpen, WorkedThrough, StartedOnce
<1>4. ReadConfig'
  <2>1. ~shared => \A j \in Instance : run[j].phase # "writing"
    BY <1>1 DEF ScheduleInv, OneCopy, RunsAreOpen
  <2> QED BY <1>1, <2>1 DEF ReadConfig
<1>5. NextIsKept'
  <2>1. CASE UNCHANGED <<config, due>>
    BY <1>1, <2>1, NextStays DEF ScheduleInv
  <2>2. CASE config' = c /\ c.enabled /\ due' = Schedule!CalcNextRunAt(c)
    BY <1>1, <2>2, CalcKeepsNext
  <2>3. CASE config' = c /\ ~c.enabled
    BY <2>3 DEF NextIsKept
  <2> QED BY <1>2, <2>1, <2>2, <2>3
<1> QED BY <1>3, <1>4, <1>5 DEF ScheduleInv

LEMMA LaunchKeeps ==
  ASSUME Schedule!ScheduleConstants, Schedule!TypeOK, ScheduleInv, NEW i \in Instance, Schedule!Launch(i)
  PROVE  ScheduleInv'
<1>1. /\ open' = open \union {i} /\ shared' = (shared \/ open # {})
      /\ row' = TRUE \/ row' = row
      /\ UNCHANGED <<now, config, due, running, run, attempted>>
  BY DEF Schedule!Launch
<1>2. (OneCopy /\ RunsAreOpen /\ WorkedThrough /\ ReadConfig /\ StartedOnce)'
  BY <1>1 DEF ScheduleInv, OneCopy, RunsAreOpen, WorkedThrough, ReadConfig, StartedOnce
<1>3. NextIsKept'
  BY <1>1, NextStays DEF ScheduleInv
<1> QED BY <1>2, <1>3 DEF ScheduleInv

LEMMA ExitKeeps ==
  ASSUME Schedule!ScheduleConstants, Schedule!TypeOK, ScheduleInv, NEW i \in Instance, Schedule!Exit(i)
  PROVE  ScheduleInv'
<1>1. /\ open' = open \ {i} /\ running' = [running EXCEPT ![i] = FALSE]
      /\ run' = [run EXCEPT ![i] = Schedule!NoRun] /\ i \in open
      /\ attempted' = (IF running[i] /\ attempted = "yes" THEN "unsaved" ELSE attempted)
      /\ UNCHANGED <<now, row, config, due, shared>>
  BY DEF Schedule!Exit, Schedule!task
<1>2. /\ run'[i].phase = "idle" /\ ~running'[i]
      /\ \A j \in Instance \ {i} : run'[j] = run[j] /\ running'[j] = running[j]
  BY <1>1, RunFacts, RunChanges DEF Schedule!TypeOK
<1>3. (OneCopy /\ RunsAreOpen /\ WorkedThrough /\ ReadConfig)'
  BY <1>1, <1>2 DEF ScheduleInv, OneCopy, RunsAreOpen, WorkedThrough, ReadConfig
<1>4. StartedOnce'
  <2>1. SUFFICES ASSUME ~shared, attempted' = "yes"
                 PROVE  row /\ \E j \in Instance : run'[j].phase \in Unfinished
    BY <1>1 DEF ScheduleInv, StartedOnce
  <2>2. attempted = "yes" /\ ~running[i]
    BY <1>1, <2>1
  <2>3. PICK j \in Instance : run[j].phase \in Unfinished
    BY <2>1, <2>2 DEF ScheduleInv, StartedOnce
  <2>4. j # i
    BY <2>2, <2>3 DEF ScheduleInv, RunsAreOpen, Unfinished
  <2> QED BY <1>2, <2>1, <2>2, <2>3, <2>4 DEF ScheduleInv, StartedOnce
<1>5. NextIsKept'
  BY <1>1, NextStays DEF ScheduleInv
<1> QED BY <1>3, <1>4, <1>5 DEF ScheduleInv

\* Both ways a collection starts.
LEMMA BeginKeeps ==
  ASSUME Schedule!ScheduleConstants, Schedule!TypeOK, ScheduleInv,
         NEW i \in Instance, Schedule!CheckAndRun(i) \/ Schedule!RunNow(i)
  PROVE  ScheduleInv'
<1>1. Schedule!Begins(i) /\ i \in open /\ UNCHANGED <<now, row, config, due, open, shared>>
  BY DEF Schedule!CheckAndRun, Schedule!RunNow, Schedule!task, Schedule!IsFree, Schedule!At
<1>2. \/ row /\ attempted' = (IF attempted \in {"no", "unsaved"} THEN "yes" ELSE "again")
      \/ attempted' = attempted
  BY DEF Schedule!CheckAndRun, Schedule!RunNow
<1>3. /\ run'[i].phase = "collecting" /\ ~running[i] /\ running'[i]
      /\ \A j \in Instance \ {i} : run'[j] = run[j] /\ running'[j] = running[j]
  BY <1>1, BeginsRun DEF Schedule!TypeOK
<1>4. (OneCopy /\ RunsAreOpen /\ WorkedThrough /\ ReadConfig)'
  BY <1>1, <1>3 DEF ScheduleInv, OneCopy, RunsAreOpen, WorkedThrough, ReadConfig
<1>5. StartedOnce'
  <2>1. SUFFICES ASSUME ~shared
                 PROVE  /\ attempted' # "again"
                        /\ attempted' = "yes" =>
                             row /\ \E j \in Instance : run'[j].phase \in Unfinished
    BY <1>1 DEF StartedOnce
  <2>2. attempted # "again" /\ (attempted = "yes" => row)
    BY <2>1 DEF ScheduleInv, StartedOnce
  <2>3. attempted # "yes"
    <3>1. \A j \in Instance : run[j].phase \notin Unfinished
      BY <1>1, <1>3, <2>1 DEF ScheduleInv, OneCopy, RunsAreOpen, Unfinished
    <3> QED BY <2>1, <3>1 DEF ScheduleInv, StartedOnce
  <2>4. run'[i].phase \in Unfinished
    BY <1>3 DEF Unfinished
  <2>5. attempted \in {"no", "unsaved"}
    BY <2>2, <2>3 DEF Schedule!TypeOK
  <2> QED BY <1>2, <2>4, <2>5
<1>6. NextIsKept'
  BY <1>1, NextStays DEF ScheduleInv
<1> QED BY <1>4, <1>5, <1>6 DEF ScheduleInv

LEMMA ContinueKeeps ==
  ASSUME Schedule!ScheduleConstants, Schedule!TypeOK, Schedule!TypeOK', ScheduleInv,
         NEW i \in Instance, Schedule!Continue(i)
  PROVE  ScheduleInv'
<1>0. PICK r \in RunState : Proceeds(i, r)
  BY ContinueProceeds
<1>1. /\ i \in open /\ UNCHANGED <<now, row, config, open, armed, shared>>
      /\ run'[i] = r /\ \A j \in Instance \ {i} : run'[j] = run[j]
      /\ run[i] \in RunState /\ r.phase \in Schedule!Phase
  BY <1>0, RunChanges DEF Proceeds, Schedule!TypeOK, RunState
<1>2. /\ running[i] => run[i].phase # "idle"
      /\ running'[i] <=> r.phase # "idle"
      /\ \A j \in Instance \ {i} : running'[j] = running[j]
  <2>1. /\ run[i].phase # "idle" /\ running[i]
    BY <1>0 DEF Proceeds, ScheduleInv, RunsAreOpen
  <2>2. CASE r = Schedule!NoRun /\ running' = [running EXCEPT ![i] = FALSE]
    BY <2>1, <2>2, RunFacts DEF Schedule!TypeOK
  <2>3. CASE ~(r = Schedule!NoRun /\ running' = [running EXCEPT ![i] = FALSE])
    <3>1. running' = running
      BY <1>0, <2>3, Zenon DEF Proceeds
    <3>2. \A p : [run[i] EXCEPT !.phase = p].phase = p
      BY <1>1 DEF RunState
    <3>3. [run[i] EXCEPT !.processed = run[i].processed + 1].phase = run[i].phase
      BY <1>1 DEF RunState
    <3>4. \/ \E p \in Schedule!Phase \ {"idle"} : r = [run[i] EXCEPT !.phase = p]
          \/ r = [run[i] EXCEPT !.processed = run[i].processed + 1]
          \/ r.phase \in Schedule!Phase \ {"idle"}
      BY <1>0, <2>3 DEF Proceeds, Schedule!Phase
    <3>5. r.phase # "idle"
      BY <2>1, <3>2, <3>3, <3>4
    <3> QED BY <2>1, <3>1, <3>5
  <2> QED BY <2>2, <2>3
<1>3. (OneCopy /\ RunsAreOpen)'
  BY <1>1, <1>2 DEF ScheduleInv, OneCopy, RunsAreOpen
<1>4. WorkedThrough'
  <2>1. r.phase \in {"reading", "writing", "notifying"} /\ r.success => r.processed = Frameworks
    BY <1>0, <1>1, RunFacts DEF Proceeds, ScheduleInv, WorkedThrough, RunState
  <2> QED BY <1>1, <2>1 DEF ScheduleInv, WorkedThrough
<1>5. ReadConfig'
  <2>1. r.phase = "writing" => r.config = config
    BY <1>0, <1>1, RunFacts DEF Proceeds, RunState
  <2> QED BY <1>1, <2>1 DEF ScheduleInv, ReadConfig
<1>6. NextIsKept'
  <2>1. CASE due' = due
    BY <1>1, <2>1, NextStays DEF ScheduleInv
  <2>2. CASE run[i].phase = "writing" /\ due' = Schedule!CalcNextRunAt(run[i].config)
    <3>1. CASE shared
      <4>1. due' \in 1..Schedule!WeekTicks
        BY <1>1, <2>2, CalcIsNextSlot DEF RunState, Schedule!TypeOK
      <4> QED BY <1>1, <3>1, <4>1, WeekFacts DEF NextIsKept, Schedule!ScheduleConstants
    <3>2. CASE ~shared
      <4>1. run[i].config = config /\ config \in Schedule!Config
        BY <2>2, <3>2 DEF ScheduleInv, ReadConfig, Schedule!TypeOK
      <4> QED BY <1>1, <2>2, <4>1, CalcKeepsNext
    <3> QED BY <3>1, <3>2
  <2> QED BY <1>0, <2>1, <2>2 DEF Proceeds
<1>7. StartedOnce'
  <2>1. SUFFICES ASSUME ~shared
                 PROVE  /\ attempted' # "again"
                        /\ attempted' = "yes" =>
                             row /\ \E j \in Instance : run'[j].phase \in Unfinished
    BY <1>1 DEF StartedOnce
  <2>2. attempted' \in {attempted, "no", "unsaved"}
    BY <1>0 DEF Proceeds
  <2>3. attempted' # "again"
    BY <2>1, <2>2 DEF ScheduleInv, StartedOnce
  <2>4. SUFFICES ASSUME attempted = "yes", attempted' = "yes"
                 PROVE  row /\ r.phase \in Unfinished
    BY <1>1, <2>2, <2>3
  <2>5. PICK j \in Instance : run[j].phase \in Unfinished /\ row
    BY <2>1, <2>4 DEF ScheduleInv, StartedOnce
  <2>6. j = i
    BY <1>1, <2>1, <2>5 DEF ScheduleInv, OneCopy, RunsAreOpen, Unfinished
  <2>7. run[i].phase \in Unfinished
    BY <2>5, <2>6
  <2> QED BY <1>0, <1>1, <2>4, <2>5, <2>7 DEF Proceeds, Unfinished, RunState
<1> QED BY <1>3, <1>4, <1>5, <1>6, <1>7 DEF ScheduleInv

LEMMA ScheduleInvNext ==
  ASSUME Schedule!ScheduleConstants, Schedule!TypeOK, Schedule!TypeOK', ScheduleInv,
         [Schedule!Next]_(Schedule!vars)
  PROVE  ScheduleInv'
<1>1. CASE UNCHANGED Schedule!vars
  <2>1. UNCHANGED <<now, row, config, due, open, running, run, attempted, shared>>
    BY <1>1 DEF Schedule!vars, Schedule!task
  <2>2. (OneCopy /\ RunsAreOpen /\ WorkedThrough /\ ReadConfig /\ StartedOnce)'
    BY <2>1 DEF ScheduleInv, OneCopy, RunsAreOpen, WorkedThrough, ReadConfig, StartedOnce
  <2> QED BY <2>1, <2>2, NextStays DEF ScheduleInv
<1>2. CASE Schedule!Next
  BY <1>2, TickKeeps, SetScheduleKeeps, LaunchKeeps, ExitKeeps, BeginKeeps, ContinueKeeps
     DEF Schedule!Next, Schedule!UserChanges
<1> QED BY <1>1, <1>2

LEMMA ScheduleInvariant ==
  ASSUME Schedule!ScheduleConstants
  PROVE  Schedule!Spec => []ScheduleInv
BY ScheduleTypes, ScheduleInvInit, ScheduleInvNext, PTL DEF Schedule!Spec

(***************************************************************************)
(* The time of the next run is the first slot of the schedule as it is     *)
(* configured now, or has passed: for any resolution of the week, any      *)
(* number of frameworks, and whatever changes, runs, failures and restarts *)
(* come in between, as long as no two copies of the app were open at once. *)
(* PersistWrites is the step to be argued about: it computes the time from *)
(* a configuration it has read a statement before.                         *)
(***************************************************************************)
THEOREM NextRuns ==
  ASSUME Schedule!ScheduleConstants
  PROVE  Schedule!Spec => []NextIsTheNextSlot
<1>1. ScheduleInv => NextIsTheNextSlot
  BY DEF ScheduleInv, NextIsKept, NextIsTheNextSlot, Schedule!NextIsTheNextSlot
<1> QED BY <1>1, ScheduleInvariant, PTL

(***************************************************************************)
(* No check starts a slot again that was started before, unless the app    *)
(* was closed or the result could not be saved in between: _isRunning      *)
(* keeps the checks of one copy out for as long as the slot is still due.  *)
(***************************************************************************)
THEOREM RunsOnce ==
  ASSUME Schedule!ScheduleConstants
  PROVE  Schedule!Spec => []SlotRunsOnce
<1>1. ScheduleInv => SlotRunsOnce
  BY DEF ScheduleInv, StartedOnce, SlotRunsOnce, Schedule!SlotRunsOnce
<1> QED BY <1>1, ScheduleInvariant, PTL

(***************************************************************************)
(* A slot that is due leaves the row for a change the user makes or for    *)
(* the result of a run that failed or worked through every framework; even *)
(* with several copies of the app on one database.                         *)
(***************************************************************************)
THEOREM ServedRuns ==
  ASSUME Schedule!ScheduleConstants
  PROVE  Schedule!Spec => ServedMeansCollected
<1>1. ASSUME Schedule!TypeOK, ScheduleInv, Schedule!Next, due = 0, due' # 0
      PROVE  \/ Schedule!UserChanges
             \/ \E i \in Instance : /\ Schedule!At(i, "writing")
                                    /\ run[i].success => run[i].processed = Frameworks
  <2>1. ASSUME NEW i \in Instance, Schedule!Continue(i)
        PROVE  /\ Schedule!At(i, "writing")
               /\ run[i].success => run[i].processed = Frameworks
    <3>1. PICK r \in RunState : Proceeds(i, r)
      BY <1>1, <2>1, ContinueProceeds
    <3>2. i \in open /\ run[i].phase = "writing"
      BY <1>1, <3>1 DEF Proceeds
    <3> QED BY <1>1, <3>2 DEF Schedule!At, ScheduleInv, WorkedThrough
  <2>2. ~Schedule!Tick
    BY <1>1 DEF Schedule!Tick
  <2>3. ASSUME NEW i \in Instance, \/ Schedule!Launch(i) \/ Schedule!Exit(i)
                                   \/ Schedule!CheckAndRun(i) \/ Schedule!RunNow(i)
        PROVE  FALSE
    BY <1>1, <2>3 DEF Schedule!Launch, Schedule!Exit, Schedule!CheckAndRun, Schedule!RunNow,
                      Schedule!task
  <2> QED BY <1>1, <2>1, <2>2, <2>3 DEF Schedule!Next
<1>2. Schedule!TypeOK /\ ScheduleInv /\ [Schedule!Next]_(Schedule!vars) =>
        [due = 0 /\ due' # 0 =>
           \/ Schedule!UserChanges
           \/ \E i \in Instance : /\ Schedule!At(i, "writing")
                                  /\ run[i].success => run[i].processed = Frameworks]_(Schedule!vars)
  BY <1>1
<1> QED BY <1>2, ScheduleTypes, ScheduleInvariant, PTL
        DEF Schedule!Spec, ServedMeansCollected, Schedule!ServedMeansCollected
=============================================================================
