------------------------------ MODULE AuditLog ------------------------------
(***************************************************************************)
(* The hash-chained audit log of the enterprise backend: concurrent calls  *)
(* of log_event, the unique constraint on audit_log.prev_hash they race    *)
(* against, account deletion (which rewrites audit rows through ON DELETE  *)
(* SET NULL), and the walk that verify_audit_chain makes over the table.   *)
(*                                                                         *)
(* The enterprise routes are plain "def" handlers, which FastAPI runs in a *)
(* thread pool, and evaluate_compliance runs on the event loop: calls of   *)
(* log_event interleave at every database statement.  The database is      *)
(* PostgreSQL at READ COMMITTED: a row is visible once its transaction has *)
(* committed, and its id is drawn from a sequence when it is inserted, so  *)
(* ids need not be committed in order.                                     *)
(***************************************************************************)
EXTENDS Integers

CONSTANTS Call,         \* the calls of log_event
          NoCall,       \* whoever wrote the genesis entry of an initialised log
          User,         \* the accounts on whose behalf events are logged
          NoUser,       \* the user_id NULL
          UserOf,       \* UserOf[c]: the user_id that call c passes
          MaxAttempts,  \* attempts of one call
          MaxId,        \* bound: the largest value of audit_log.id
          Seeded        \* TRUE: the table already holds its genesis entry

ASSUME MaxAttemptsAssumption == MaxAttempts \in Nat \ {0}
ASSUME MaxIdAssumption == MaxId \in Nat \ {0}
ASSUME NoCallAssumption == NoCall \notin Call
ASSUME NoUserAssumption == NoUser \notin User
ASSUME UserOfAssumption == UserOf \in [Call -> User]
ASSUME SeededAssumption == Seeded \in BOOLEAN

\* prev_hash of a genesis entry
Null == 0

VARIABLES rows,     \* the committed rows of audit_log
          nextId,   \* the sequence behind audit_log.id
          account,  \* the accounts that exist
          call      \* the progress of each call

vars == <<rows, nextId, account, call>>

(***************************************************************************)
(* A row.  An entry hash is an HMAC over the predecessor's hash, the user  *)
(* and the rest of the row, taken to be injective: it is modelled by the   *)
(* id of the row it was computed for.  "signed" is the user it covers,     *)
(* which is what a later recomputation is compared against.  "by" is a     *)
(* history the table does not hold: the call that inserted the row.        *)
(***************************************************************************)
Row == [id : 1..MaxId, prev : 0..MaxId,
        user : User \union {NoUser}, signed : User, by : Call \union {NoCall}]

\* "committed": COMMIT has taken effect, and the call has not learned of it.
\* "unsure": the call raised or was killed in just that state.
Inside == {"idle", "read", "inserted", "committed"}
Phase == Inside \union {"returned", "raised", "killed", "unsure"}

CallState == [phase : Phase, attempt : 0..MaxAttempts,
              prev : 0..MaxId, id : 0..MaxId]

TypeOK ==
  /\ rows \subseteq Row
  /\ nextId \in 1..(MaxId + 1)
  /\ account \subseteq User
  /\ call \in [Call -> CallState]

\* The locals of a call that is not inside an attempt.
At(phase, attempt) ==
  [phase |-> phase, attempt |-> attempt, prev |-> Null, id |-> 0]

GenesisRow(u) ==
  [id |-> 1, prev |-> Null, user |-> u, signed |-> u, by |-> NoCall]

Init ==
  /\ account = User
  /\ IF Seeded THEN /\ \E u \in User : rows = {GenesisRow(u)}
                    /\ nextId = 2
               ELSE rows = {} /\ nextId = 1
  /\ call = [c \in Call |-> At("idle", 0)]

-----------------------------------------------------------------------------
\* SELECT ... ORDER BY id DESC LIMIT 1
IsLast(r) == r \in rows /\ \A s \in rows : s.id <= r.id

LastHash(h) ==
  \/ rows = {} /\ h = Null
  \/ \E r \in rows : IsLast(r) /\ h = r.id

\* UNIQUE (prev_hash): NULLs are distinct from each other
\* Mutation of Claimed: the migration that adds the constraint is missing.
NeverClaimed(h) == h # h

Claimed(h) == h # Null /\ \E r \in rows : r.prev = h

\* One attempt begins: read the head of the chain and sign behind it.
ReadHead(c) ==
  /\ call[c].phase = "idle"
  /\ \E h \in {Null} \union {r.id : r \in rows} :
        /\ LastHash(h)
        /\ call' = [call EXCEPT ![c].phase = "read",
                                ![c].attempt = @ + 1,
                                ![c].prev = h]
  /\ UNCHANGED <<rows, nextId, account>>

\* Mutation of Rejected: retry without a limit.
RejectedForever(c) == call' = [call EXCEPT ![c] = At("idle", @.attempt)]

\* An IntegrityError: roll back, and try again unless this was the last try.
Rejected(c) ==
  call' = [call EXCEPT ![c] = IF @.attempt < MaxAttempts THEN At("idle", @.attempt)
                                                         ELSE At("raised", 0)]

\* The flush sends the INSERT, which draws the id.  The foreign key on user_id
\* rejects an account that no longer exists.
Insert(c) ==
  /\ call[c].phase = "read"
  /\ nextId <= MaxId
  /\ nextId' = nextId + 1
  /\ IF UserOf[c] \in account
       THEN call' = [call EXCEPT ![c].phase = "inserted", ![c].id = nextId]
       ELSE Rejected(c)
  /\ UNCHANGED <<rows, account>>

Added(c) == [id |-> call[c].id, prev |-> call[c].prev,
             user |-> UserOf[c], signed |-> UserOf[c], by |-> c]

\* Mutation of Commit: no return after the commit, the loop goes on.
CommitAndLoop(c) ==
  /\ call[c].phase = "inserted"
  /\ Rejected(c)
  /\ rows' = IF Claimed(call[c].prev) THEN rows ELSE rows \union {Added(c)}
  /\ UNCHANGED <<nextId, account>>

\* The insert settles.  Of the transactions that claim one predecessor the
\* unique index lets only the first to commit through, the others fail.
Commit(c) ==
  /\ call[c].phase = "inserted"
  /\ IF Claimed(call[c].prev)
       THEN Rejected(c) /\ UNCHANGED rows
       ELSE /\ rows' = rows \union {Added(c)}
            /\ call' = [call EXCEPT ![c] = At("committed", 0)]
  /\ UNCHANGED <<nextId, account>>

\* The answer to COMMIT arrives and the call returns.
Return(c) ==
  /\ call[c].phase = "committed"
  /\ call' = [call EXCEPT ![c] = At("returned", 0)]
  /\ UNCHANGED <<rows, nextId, account>>

\* The call ends before its return.  A transaction that is open is rolled back,
\* one that has been committed stays, and then nobody knows it has.
CutShort(c, how) ==
  /\ call[c].phase \in Inside
  /\ call' = [call EXCEPT ![c] =
                 At(IF @.phase = "committed" THEN "unsure" ELSE how, 0)]
  /\ UNCHANGED <<rows, nextId, account>>

\* The process is killed inside the call.
Kill(c) == CutShort(c, "killed")

\* The connection breaks: an OperationalError, which log_event does not catch.
Disconnect(c) == CutShort(c, "raised")

\* DELETE /auth/account.  An uncommitted insert holds a key-share lock on its
\* user's row, so the deletion waits for it; ON DELETE SET NULL then clears the
\* user_id of the user's audit rows.
DeleteAccount(u) ==
  /\ u \in account
  /\ \A c \in Call : UserOf[c] = u => call[c].phase # "inserted"
  /\ account' = account \ {u}
  /\ rows' = {IF r.user = u THEN [r EXCEPT !.user = NoUser] ELSE r : r \in rows}
  /\ UNCHANGED <<nextId, call>>

Step(c) == ReadHead(c) \/ Insert(c) \/ Commit(c) \/ Return(c)

Next ==
  \/ \E c \in Call : Step(c) \/ Kill(c) \/ Disconnect(c)
  \/ \E u \in User : DeleteAccount(u)

Spec == Init /\ [][Next]_vars

\* A thread that is inside log_event goes on running.
FairSpec == Spec /\ \A c \in Call : WF_vars(Step(c))

-----------------------------------------------------------------------------
(***************************************************************************)
(* verify_audit_chain reads the rows in the order of their ids, carries    *)
(* the hash of the row before and recomputes each entry's hash over it.    *)
(***************************************************************************)
Precedes(s, r) == s.id < r.id /\ \A t \in rows : ~(s.id < t.id /\ t.id < r.id)

LinkHolds(r) ==
  IF \E s \in rows : s.id < r.id
    THEN \E s \in rows : Precedes(s, r) /\ r.prev = s.id
    ELSE r.prev = Null

SignatureHolds(r) == r.user = r.signed

-----------------------------------------------------------------------------
(***************************************************************************)
(* Once the table holds its genesis entry, no interleaving of appends,     *)
(* retries, killed calls and account deletions breaks a link: each row's   *)
(* prev_hash is the hash of the row before it in id order.  The only rows  *)
(* verify_audit_chain can object to are those whose user was deleted.      *)
(***************************************************************************)
OnlyErasureBreaksChain ==
  Seeded => \A r \in rows : /\ LinkHolds(r)
                            /\ SignatureHolds(r) \/ r.user = NoUser

(***************************************************************************)
(* A retry of log_event never logs an event twice, a call that returned    *)
(* has logged it, and a call that was rejected, raised or was killed has   *)
(* left no row.  The one exception is a commit in doubt: a call that ended *)
(* after its COMMIT took effect and before it learned of it has left its   *)
(* row, one like any other.                                                *)
(***************************************************************************)
RowsOf(c) == {r \in rows : r.by = c}
HasCommitted(c) == call[c].phase \in {"committed", "returned", "unsure"}

OneRowPerReturn ==
  \A c \in Call :
    /\ \A r, s \in RowsOf(c) : r = s
    /\ RowsOf(c) # {} <=> HasCommitted(c)

(***************************************************************************)
(* Every call of log_event ends: it returns, raises, or dies with its      *)
(* process.  The retries are bounded, whoever keeps winning the race.      *)
(***************************************************************************)
EveryCallEnds ==
  \A c \in Call : <>(call[c].phase \notin Inside)

\* The rows as the promise of LinearLog sees them.
RowAt(i) == CHOOSE r \in rows : r.id = i
Ids == {r.id : r \in rows}

ChainBehind ==
  [i \in Ids |-> IF RowAt(i).prev = Null THEN i ELSE RowAt(i).prev]
ChainLast == CHOOSE i \in Ids : \A j \in Ids : j <= i

Chain == INSTANCE LinearLog WITH
           Entry <- 1..MaxId, Genesis <- 1, behind <- ChainBehind, last <- ChainLast

(***************************************************************************)
(* The appends implement the single chain of LinearLog: every entry goes   *)
(* in behind the entry that is last, and no entry is ever taken out or     *)
(* moved, whatever account is deleted.                                     *)
(***************************************************************************)
ImplementsChain == Chain!Spec

(***************************************************************************)
(* audit_service.py: the retry on the unique constraint keeps the chain    *)
(* linear instead of forking.  Here also for a log that starts empty.      *)
(***************************************************************************)
NeverForks ==
  \A r, s \in rows : r.prev = s.prev => r = s
=============================================================================
