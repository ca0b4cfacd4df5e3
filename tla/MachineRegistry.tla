-------------------------- MODULE MachineRegistry --------------------------
(***************************************************************************)
(* POST /machines/sync for one user: a desktop registers or updates its    *)
(* snapshot, and a license tier limits how many machines there may be.     *)
(*                                                                         *)
(* The handler is a coroutine without an await: within one worker it runs  *)
(* as a whole.  With several workers (Scaled) it interleaves with others   *)
(* at its statements: the lookup, the count, the commit and, after an      *)
(* IntegrityError, the second lookup and the second commit.                *)
(*                                                                         *)
(* machines.is_active is never cleared by the program and is left out.     *)
(***************************************************************************)
EXTENDS Integers, FiniteSets

CONSTANTS Call,    \* request slots
          Host,    \* host names
          Limit,   \* MACHINE_LIMITS of the user's tier
          Scaled   \* TRUE: more than one worker process

ASSUME CallAssumption == IsFiniteSet(Call) /\ Call # {}
ASSUME HostAssumption == IsFiniteSet(Host)
ASSUME LimitAssumption == Limit \in Nat \ {0}
ASSUME ScaledAssumption == Scaled \in BOOLEAN

VARIABLES machine,  \* the host names that have a row
          snapshot, \* snapshot[h]: the request whose values the row holds
          exists,   \* the user's account exists
          call      \* the request each slot is handling

vars == <<machine, snapshot, exists, call>>

NoCall == "none"
OnLoop == {"new", "counted", "known", "conflict", "again"}

CallState == [phase : {"idle", "stored", "refused"} \union OnLoop, host : Host]

TypeOK ==
  /\ machine \subseteq Host
  /\ snapshot \in [Host -> Call \union {NoCall}]
  /\ exists \in BOOLEAN
  /\ call \in [Call -> CallState]

Init ==
  /\ machine = {} /\ snapshot = [h \in Host |-> NoCall]
  /\ exists = TRUE
  /\ \E h \in Host : call = [c \in Call |-> [phase |-> "idle", host |-> h]]

MayRun(c) == Scaled \/ \A d \in Call \ {c} : call[d].phase \notin OnLoop
At(c, phase) == call[c].phase = phase /\ MayRun(c)
Goto(c, phase) == call' = [call EXCEPT ![c].phase = phase]

-----------------------------------------------------------------------------
\* get_current_user, and the lookup of the host name.
Lookup(c, h) ==
  /\ call[c].phase \in {"idle", "stored", "refused"} /\ MayRun(c)
  /\ exists
  /\ call' = [call EXCEPT ![c] = [phase |-> IF h \in machine THEN "known" ELSE "new",
                                  host |-> h]]
  /\ UNCHANGED <<machine, snapshot, exists>>

\* Mutation of Count: off by one.
CountOffByOne(c) ==
  /\ At(c, "new")
  /\ Goto(c, IF Cardinality(machine) > Limit THEN "refused" ELSE "counted")
  /\ UNCHANGED <<machine, snapshot, exists>>

\* 402 when the limit is reached
Count(c) ==
  /\ At(c, "new")
  /\ Goto(c, IF Cardinality(machine) >= Limit THEN "refused" ELSE "counted")
  /\ UNCHANGED <<machine, snapshot, exists>>

Store(c) == snapshot' = [snapshot EXCEPT ![call[c].host] = c]

\* INSERT and commit.  The unique constraint on (user_id, hostname) and the
\* foreign key on user_id raise an IntegrityError.
Insert(c) ==
  /\ At(c, "counted")
  /\ IF call[c].host \in machine \/ ~exists
       THEN Goto(c, "conflict") /\ UNCHANGED <<machine, snapshot>>
       ELSE /\ machine' = machine \union {call[c].host}
            /\ Store(c)
            /\ Goto(c, "stored")
  /\ UNCHANGED exists

\* UPDATE of the row that was found, by primary key: a 500 if it is gone.
Update(c) ==
  /\ At(c, "known") \/ At(c, "again")
  /\ IF call[c].host \in machine
       THEN Store(c) /\ Goto(c, "stored")
       ELSE Goto(c, "refused") /\ UNCHANGED snapshot
  /\ UNCHANGED <<machine, exists>>

\* Mutation of Recover: a conflict is looked up again and again.
RecoverForever(c) ==
  /\ At(c, "conflict")
  /\ Goto(c, IF call[c].host \in machine THEN "again" ELSE "counted")
  /\ UNCHANGED <<machine, snapshot, exists>>

\* Mutation of Recover: the conflict is taken for success.
RecoverAsStored(c) ==
  /\ At(c, "conflict")
  /\ Goto(c, "stored")
  /\ UNCHANGED <<machine, snapshot, exists>>

\* After the rollback the winner's row is looked up: 409 if there is none.
Recover(c) ==
  /\ At(c, "conflict")
  /\ Goto(c, IF call[c].host \in machine THEN "again" ELSE "refused")
  /\ UNCHANGED <<machine, snapshot, exists>>

Crash(c) ==
  /\ call[c].phase \in OnLoop
  /\ Goto(c, "refused")
  /\ UNCHANGED <<machine, snapshot, exists>>

\* delete_account deletes the rows of machines with the user.
DeleteAccount ==
  /\ exists
  /\ Scaled \/ \A c \in Call : call[c].phase \notin OnLoop
  /\ exists' = FALSE
  /\ machine' = {}
  /\ snapshot' = [h \in Host |-> NoCall]
  /\ UNCHANGED call

Sync(c) == Count(c) \/ Insert(c) \/ Update(c) \/ Recover(c)

Next ==
  \/ \E c \in Call : Sync(c) \/ Crash(c) \/ \E h \in Host : Lookup(c, h)
  \/ DeleteAccount

Spec == Init /\ [][Next]_vars
FairSpec == Spec /\ \A c \in Call : WF_vars(Sync(c))

-----------------------------------------------------------------------------
(***************************************************************************)
(* The user never has more machines than the tier allows.                  *)
(***************************************************************************)
WithinLimit == Cardinality(machine) <= Limit

(***************************************************************************)
(* Concurrent first syncs overshoot the limit by less than the number of   *)
(* requests that are handled at once.                                      *)
(***************************************************************************)
BoundedOvershoot == Cardinality(machine) <= Limit + Cardinality(Call) - 1

(***************************************************************************)
(* A sync that reports success has just stored its values: losing the race *)
(* for the row is never answered with a success that stored nothing.       *)
(***************************************************************************)
SuccessIsStored ==
  [][\A c \in Call :
       call[c].phase # "stored" /\ call'[c].phase = "stored"
         => call[c].host \in machine' /\ snapshot'[call[c].host] = c]_vars

(***************************************************************************)
(* Every sync is answered, whoever it races with.                          *)
(***************************************************************************)
SyncsAreAnswered ==
  \A c \in Call : call[c].phase \in OnLoop ~> call[c].phase \in {"stored", "refused"}
=============================================================================
