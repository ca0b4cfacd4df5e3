------------------------ MODULE EvidenceStoreProofs ------------------------
(***************************************************************************)
(* Theorems about EvidenceStore, for any number of requests and users and  *)
(* whether or not foreign keys are enforced.                               *)
(*                                                                         *)
(* What has to be kept in mind for the invariants to be inductive: ids are *)
(* handed out once, so that the file one request removes is no other's     *)
(* (IdsAreOwn); a file is there from the moment its request has stored it  *)
(* (PendingFiles); and a request that has flushed holds its user's row, so *)
(* that the user cannot go before it commits (FlushHoldsTheUser).          *)
(***************************************************************************)
EXTENDS EvidenceStore, TLAPS

Pending == {"stored", "collected", "flushed"}

\* A request has an id when it is pending, and then nothing else has it.
IdsAreOwn ==
  /\ \A x \in collection : x.id < nextId
  /\ \A f \in file : f.id < nextId
  /\ \A c \in Call : call[c].id < nextId
  /\ \A c \in Call : call[c].phase \in Pending => call[c].id \in Id
  /\ \A c \in Call, x \in collection : call[c].phase \in Pending => call[c].id # x.id
  /\ \A c, d \in Call : /\ call[c].phase \in Pending /\ call[d].phase \in Pending
                        /\ call[c].id = call[d].id
                        => c = d

PendingFiles ==
  \A c \in Call :
    /\ call[c].uploaded => call[c].phase \in {"stored", "flushed"}
    /\ call[c].phase = "stored" => call[c].uploaded
    /\ call[c].uploaded => TheFile(c) \in file
    /\ call[c].phase # "idle" => call[c].user \in User

FlushHoldsTheUser ==
  ForeignKeys => \A c \in Call : call[c].phase = "flushed" => call[c].user \in account

IInv ==
  /\ TypeOK /\ IdsAreOwn /\ PendingFiles /\ FlushHoldsTheUser
  /\ EveryItemHasItsFile /\ DeletedAccountsStayEmpty /\ FilesAreAccountedFor

-----------------------------------------------------------------------------
LEMMA Assumptions ==
  /\ Nobody \notin User /\ ForeignKeys \in BOOLEAN /\ MaxId \in Nat \ {0}
BY NobodyAssumption, ForeignKeysAssumption, MaxIdAssumption

LEMMA IdleIsCallState == Idle \in CallState
BY DEF Idle, CallState, Phase, NoId

\* A step of one request leaves the others' state alone.
LEMMA OneCallMoves ==
  ASSUME TypeOK, NEW c \in Call, NEW n \in CallState, call' = [call EXCEPT ![c] = n]
  PROVE  /\ call' \in [Call -> CallState]
         /\ call'[c] = n
         /\ \A d \in Call \ {c} : call'[d] = call[d]
BY DEF TypeOK

LEMMA InitIInv == Init => IInv
<1> SUFFICES ASSUME Init PROVE IInv
  OBVIOUS
<1>1. TypeOK
  BY IdleIsCallState, Assumptions DEF Init, TypeOK
<1>2. IdsAreOwn /\ PendingFiles /\ FlushHoldsTheUser
  BY Assumptions
  DEF Init, IdsAreOwn, PendingFiles, FlushHoldsTheUser, Idle, Pending, NoId
<1>3. EveryItemHasItsFile /\ DeletedAccountsStayEmpty /\ FilesAreAccountedFor
  BY DEF Init, EveryItemHasItsFile, DeletedAccountsStayEmpty, FilesAreAccountedFor
<1> QED
  BY <1>1, <1>2, <1>3 DEF IInv

-----------------------------------------------------------------------------
\* A request that was not holding anything moves, and nothing else changes.
LEMMA NewRequest ==
  ASSUME IInv, NEW c \in Call, NEW u \in account, NEW phase \in {"uploading", "collecting", "verifying"},
         Authenticates(c, u, phase)
  PROVE  IInv'
<1> DEFINE n == [Idle EXCEPT !.phase = phase, !.user = u]
<1>1. n \in CallState /\ n.phase = phase /\ n.user = u /\ n.id = NoId /\ ~n.uploaded
  BY DEF Idle, CallState, Phase, NoId, IInv, TypeOK
<1>2. /\ call' \in [Call -> CallState] /\ call'[c] = n
      /\ \A d \in Call \ {c} : call'[d] = call[d]
  BY <1>1, OneCallMoves DEF IInv, Authenticates
<1> HIDE DEF n
<1>3. UNCHANGED <<account, collection, file, nextId, unsure, leaked>> /\ call[c].phase = "idle"
  BY DEF Authenticates, At
<1>4. TypeOK'
  BY <1>2, <1>3 DEF IInv, TypeOK
<1>5. IdsAreOwn'
  BY <1>1, <1>2, <1>3 DEF IInv, TypeOK, IdsAreOwn, Pending, NoId
<1>6. PendingFiles' /\ FlushHoldsTheUser'
  BY <1>1, <1>2, <1>3 DEF IInv, TypeOK, PendingFiles, FlushHoldsTheUser, TheFile
<1>7. EveryItemHasItsFile' /\ DeletedAccountsStayEmpty'
  BY <1>3 DEF IInv, EveryItemHasItsFile, DeletedAccountsStayEmpty
<1>8. FilesAreAccountedFor'
  <2>1. ~call[c].uploaded
    BY <1>3 DEF IInv, PendingFiles
  <2>2. \A d \in Call : call[d].uploaded => call'[d] = call[d]
    BY <1>2, <2>1
  <2> QED
    BY <1>3, <2>2 DEF IInv, FilesAreAccountedFor, TheFile
<1> QED
  BY <1>4, <1>5, <1>6, <1>7, <1>8 DEF IInv

\* A request ends and gives up what it has not committed.
LEMMA Abandons ==
  ASSUME IInv, NEW c \in Call, Ends(c),
         UNCHANGED <<account, collection, file, nextId, unsure>>,
         leaked' = IF call[c].uploaded THEN leaked \union {call[c].id} ELSE leaked
  PROVE  IInv'
<1>1. /\ call' \in [Call -> CallState] /\ call'[c] = Idle
      /\ \A d \in Call \ {c} : call'[d] = call[d]
  BY IdleIsCallState, OneCallMoves DEF IInv, Ends
<1>2. Idle.phase = "idle" /\ Idle.id = NoId /\ ~Idle.uploaded
  BY DEF Idle
<1>3. call[c] \in CallState /\ (call[c].uploaded => call[c].id \in Id)
  BY DEF IInv, TypeOK, PendingFiles, IdsAreOwn, Pending
<1>4. TypeOK'
  BY <1>1, <1>3 DEF IInv, TypeOK
<1>5. IdsAreOwn'
  BY <1>1, <1>2 DEF IInv, TypeOK, IdsAreOwn, Pending, NoId
<1>6. PendingFiles' /\ FlushHoldsTheUser'
  BY <1>1, <1>2 DEF IInv, PendingFiles, FlushHoldsTheUser, TheFile
<1>7. EveryItemHasItsFile' /\ DeletedAccountsStayEmpty'
  BY DEF IInv, EveryItemHasItsFile, DeletedAccountsStayEmpty
<1>8. FilesAreAccountedFor'
  <2> SUFFICES ASSUME NEW f \in file, f.owner \in account, f.id \notin leaked',
                      ~\E x \in collection : x.uploaded /\ x.id = f.id /\ x.owner = f.owner
               PROVE  \E d \in Call : call'[d].uploaded /\ TheFile(d)' = f
    BY DEF FilesAreAccountedFor
  <2>1. f.id \notin leaked
    OBVIOUS
  <2>2. PICK d \in Call : call[d].uploaded /\ TheFile(d) = f
    BY <2>1 DEF IInv, FilesAreAccountedFor
  <2>3. d # c
    BY <2>2 DEF TheFile, StoredAs
  <2> QED
    BY <1>1, <2>2, <2>3 DEF TheFile
<1> QED
  BY <1>4, <1>5, <1>6, <1>7, <1>8 DEF IInv

LEMMA RefusedIInv == ASSUME IInv, NEW c \in Call, Refused(c) PROVE IInv'
<1>1. ~call[c].uploaded
  BY DEF IInv, PendingFiles, Refused, At
<1> QED
  BY <1>1, Abandons DEF Refused

LEMMA FlushFailsIInv == ASSUME IInv, NEW c \in Call, FlushFails(c) PROVE IInv'
BY Abandons DEF FlushFails

LEMMA DeleteFailsIInv == ASSUME IInv, NEW c \in Call, DeleteFails(c) PROVE IInv'
<1>1. ~call[c].uploaded
  BY DEF IInv, PendingFiles, DeleteFails, At
<1> QED
  BY <1>1, Abandons DEF DeleteFails

LEMMA KilledIInv == ASSUME IInv, NEW c \in Call, Killed(c) PROVE IInv'
BY Abandons DEF Killed

-----------------------------------------------------------------------------
\* An upload has written its file, which is new, or has failed to.
LEMMA StoreFileIInv == ASSUME IInv, NEW c \in Call, StoreFile(c) PROVE IInv'
<1> DEFINE u == call[c].user
           S == StoredAs(nextId, u)
           n == [call[c] EXCEPT !.phase = "stored", !.id = nextId,
                                !.uploaded = TRUE, !.hasItems = TRUE]
<1>1. /\ call[c].phase = "uploading" /\ ~call[c].uploaded /\ u \in User
      /\ nextId \in Id /\ nextId' = nextId + 1 /\ file' = file \union {S}
      /\ UNCHANGED <<account, collection, unsure>>
  BY DEF IInv, PendingFiles, StoreFile, At
<1>2. call[c] \in CallState /\ nextId \in Nat /\ Id \subseteq Nat
  BY DEF IInv, TypeOK, Id
<1>3. n \in CallState /\ n.phase = "stored" /\ n.id = nextId /\ n.uploaded /\ n.user = u
  BY <1>1, <1>2 DEF CallState, Phase
<1>4. S \in File /\ S.id = nextId /\ S.owner = u
  BY <1>1 DEF File, StoredAs
<1>5. nextId' \in 1..(MaxId + 1)
  BY <1>1, Assumptions DEF Id
<1>6. PICK m \in {n, Idle} : /\ call' = [call EXCEPT ![c] = m]
                             /\ IF m = n THEN leaked' = leaked ELSE leaked' = leaked \union {nextId}
  <2>1. CASE /\ call' = [call EXCEPT ![c].phase = "stored", ![c].id = nextId,
                                     ![c].uploaded = TRUE, ![c].hasItems = TRUE]
             /\ leaked' = leaked
    BY <2>1 DEF IInv, TypeOK
  <2>2. CASE call' = [call EXCEPT ![c] = Idle] /\ leaked' = leaked \union {nextId}
    BY <1>3, <2>2 DEF Idle
  <2> QED
    BY <2>1, <2>2 DEF StoreFile, Ends
<1>7. /\ m \in CallState
      /\ \/ m = n /\ m.phase = "stored" /\ m.id = nextId /\ m.uploaded /\ m.user = u
         \/ m # n /\ m.phase = "idle" /\ m.id = NoId /\ ~m.uploaded
  <2>1. Idle.phase = "idle" /\ Idle.id = NoId /\ ~Idle.uploaded
    BY DEF Idle
  <2> HIDE DEF n
  <2>2. Idle # n
    BY <1>3, <2>1
  <2> QED
    BY <1>3, <1>6, <2>1, <2>2, IdleIsCallState
<1>8. /\ call' \in [Call -> CallState] /\ call'[c] = m
      /\ \A d \in Call \ {c} : call'[d] = call[d]
  BY <1>6, <1>7, OneCallMoves DEF IInv
<1> HIDE DEF n, S
<1>9. TypeOK'
  BY <1>1, <1>4, <1>5, <1>6, <1>8 DEF IInv, TypeOK
<1>10. IdsAreOwn'
  <2>1. /\ \A x \in collection : x.id < nextId'
        /\ \A f \in file' : f.id < nextId'
        /\ \A d \in Call : call'[d].id < nextId'
    BY <1>1, <1>2, <1>4, <1>7, <1>8 DEF IInv, TypeOK, IdsAreOwn, Collection, File, CallState, Id, NoId
  <2>2. \A d \in Call : call'[d].phase \in Pending => call'[d].id \in Id
    BY <1>1, <1>7, <1>8 DEF IInv, IdsAreOwn, Pending
  <2>3. \A d \in Call, x \in collection : call'[d].phase \in Pending => call'[d].id # x.id
    BY <1>2, <1>7, <1>8 DEF IInv, TypeOK, IdsAreOwn, Pending, Collection
  <2>4. \A d, e \in Call : /\ call'[d].phase \in Pending /\ call'[e].phase \in Pending
                           /\ call'[d].id = call'[e].id
                           => d = e
    BY <1>2, <1>7, <1>8 DEF IInv, TypeOK, IdsAreOwn, Pending, CallState
  <2> QED
    BY <1>1, <2>1, <2>2, <2>3, <2>4 DEF IdsAreOwn
<1>11. PendingFiles'
  <2>1. m.uploaded => StoredAs(m.id, m.user) = S
    BY <1>7 DEF S
  <2> QED
    BY <1>1, <1>7, <1>8, <2>1 DEF IInv, PendingFiles, TheFile
<1>12. FlushHoldsTheUser' /\ DeletedAccountsStayEmpty' /\ EveryItemHasItsFile'
  BY <1>1, <1>7, <1>8 DEF IInv, FlushHoldsTheUser, DeletedAccountsStayEmpty, EveryItemHasItsFile
<1>13. FilesAreAccountedFor'
  <2> SUFFICES ASSUME NEW f \in file', f.owner \in account, f.id \notin leaked',
                      ~\E x \in collection : x.uploaded /\ x.id = f.id /\ x.owner = f.owner
               PROVE  \E d \in Call : call'[d].uploaded /\ TheFile(d)' = f
    BY <1>1 DEF FilesAreAccountedFor
  <2>1. CASE f = S
    <3>1. m = n
      BY <1>4, <1>6, <2>1
    <3> QED
      BY <1>7, <1>8, <2>1, <3>1 DEF TheFile, S
  <2>2. CASE f \in file
    <3>1. f.id \notin leaked
      BY <1>6
    <3>2. PICK d \in Call : call[d].uploaded /\ TheFile(d) = f
      BY <2>2, <3>1 DEF IInv, FilesAreAccountedFor
    <3> QED
      BY <1>1, <1>8, <3>2 DEF TheFile
  <2> QED
    BY <1>1, <2>1, <2>2
<1> QED
  BY <1>9, <1>10, <1>11, <1>12, <1>13 DEF IInv

\* The collectors have answered: the collection gets an id, and no file.
LEMMA CollectedIInv == ASSUME IInv, NEW c \in Call, Collected(c) PROVE IInv'
<1>1. /\ call[c].phase = "collecting" /\ ~call[c].uploaded /\ call[c].user \in User
      /\ nextId \in Id /\ nextId' = nextId + 1
      /\ UNCHANGED <<account, collection, file, unsure, leaked>>
  BY DEF IInv, PendingFiles, Collected, At
<1>2. call[c] \in CallState /\ nextId \in Nat /\ Id \subseteq Nat
  BY DEF IInv, TypeOK, Id
<1>3. PICK items \in BOOLEAN :
        call' = [call EXCEPT ![c].phase = "collected", ![c].id = nextId, ![c].hasItems = items]
  BY DEF Collected
<1> DEFINE n == [call[c] EXCEPT !.phase = "collected", !.id = nextId, !.hasItems = items]
<1>4. /\ n \in CallState /\ n.phase = "collected" /\ n.id = nextId
      /\ ~n.uploaded /\ n.user = call[c].user
  BY <1>1, <1>2 DEF CallState, Phase
<1>5. call' = [call EXCEPT ![c] = n]
  BY <1>3 DEF IInv, TypeOK
<1> HIDE DEF n
<1>6. /\ call' \in [Call -> CallState] /\ call'[c] = n
      /\ \A d \in Call \ {c} : call'[d] = call[d]
  BY <1>4, <1>5, OneCallMoves DEF IInv
<1>7. TypeOK'
  <2>1. nextId' \in 1..(MaxId + 1)
    BY <1>1, Assumptions DEF Id
  <2> QED
    BY <1>1, <1>6, <2>1 DEF IInv, TypeOK
<1>8. IdsAreOwn'
  <2>1. /\ \A x \in collection : x.id < nextId'
        /\ \A f \in file' : f.id < nextId'
        /\ \A d \in Call : call'[d].id < nextId'
    BY <1>1, <1>2, <1>4, <1>6 DEF IInv, TypeOK, IdsAreOwn, Collection, File, CallState, Id, NoId
  <2>2. \A d \in Call : call'[d].phase \in Pending => call'[d].id \in Id
    BY <1>1, <1>4, <1>6 DEF IInv, IdsAreOwn, Pending
  <2>3. \A d \in Call, x \in collection : call'[d].phase \in Pending => call'[d].id # x.id
    BY <1>2, <1>4, <1>6 DEF IInv, TypeOK, IdsAreOwn, Pending, Collection
  <2>4. \A d, e \in Call : /\ call'[d].phase \in Pending /\ call'[e].phase \in Pending
                           /\ call'[d].id = call'[e].id
                           => d = e
    BY <1>2, <1>4, <1>6 DEF IInv, TypeOK, IdsAreOwn, Pending, CallState
  <2> QED
    BY <1>1, <2>1, <2>2, <2>3, <2>4 DEF IdsAreOwn
<1>9. PendingFiles' /\ FlushHoldsTheUser'
  BY <1>1, <1>4, <1>6 DEF IInv, PendingFiles, FlushHoldsTheUser, TheFile
<1>10. EveryItemHasItsFile' /\ DeletedAccountsStayEmpty'
  BY <1>1 DEF IInv, EveryItemHasItsFile, DeletedAccountsStayEmpty
<1>11. FilesAreAccountedFor'
  <2>1. \A d \in Call : call[d].uploaded => call'[d] = call[d]
    BY <1>1, <1>6
  <2> QED
    BY <1>1, <2>1 DEF IInv, FilesAreAccountedFor, TheFile
<1> QED
  BY <1>7, <1>8, <1>9, <1>10, <1>11 DEF IInv

-----------------------------------------------------------------------------
\* A request goes on with what it has; nothing else changes.
LEMMA MovesOn ==
  ASSUME IInv, NEW c \in Call, NEW n \in CallState, call' = [call EXCEPT ![c] = n],
         n.user = call[c].user, n.id = call[c].id, n.uploaded = call[c].uploaded,
         n.phase # "idle", call[c].phase # "idle",
         \/ n.phase = "flushed" /\ call[c].phase \in Pending
            /\ (ForeignKeys => n.user \in account)
         \/ n.phase \notin Pending /\ call[c].phase \notin Pending,
         UNCHANGED <<account, collection, file, nextId, unsure, leaked>>
  PROVE  IInv'
<1>1. /\ call' \in [Call -> CallState] /\ call'[c] = n
      /\ \A d \in Call \ {c} : call'[d] = call[d]
  BY OneCallMoves DEF IInv
<1>2. \A d \in Call : /\ call'[d].user = call[d].user /\ call'[d].id = call[d].id
                      /\ call'[d].uploaded = call[d].uploaded
                      /\ call'[d].phase \in Pending <=> call[d].phase \in Pending
                      /\ call'[d].phase = "idle" <=> call[d].phase = "idle"
  BY <1>1 DEF Pending
<1>3. TypeOK'
  BY <1>1 DEF IInv, TypeOK
<1>4. IdsAreOwn'
  BY <1>2 DEF IInv, IdsAreOwn
<1>5. PendingFiles' /\ FlushHoldsTheUser'
  BY <1>1 DEF IInv, PendingFiles, FlushHoldsTheUser, TheFile, Pending
<1>6. EveryItemHasItsFile' /\ DeletedAccountsStayEmpty'
  BY DEF IInv, EveryItemHasItsFile, DeletedAccountsStayEmpty
<1>7. FilesAreAccountedFor'
  BY <1>2 DEF IInv, FilesAreAccountedFor, TheFile
<1> QED
  BY <1>3, <1>4, <1>5, <1>6, <1>7 DEF IInv

LEMMA FlushIInv == ASSUME IInv, NEW c \in Call, Flush(c) PROVE IInv'
<1> DEFINE n == [call[c] EXCEPT !.phase = "flushed"]
<1>1. call[c] \in CallState /\ call[c].phase \in {"stored", "collected"}
  BY DEF IInv, TypeOK, Flush, At
<1>2. /\ n \in CallState /\ n.phase = "flushed"
      /\ n.user = call[c].user /\ n.id = call[c].id /\ n.uploaded = call[c].uploaded
  BY <1>1 DEF CallState, Phase
<1>3. call' = [call EXCEPT ![c] = n]
  BY DEF IInv, TypeOK, Flush
<1>4. ForeignKeys => n.user \in account
  BY <1>2 DEF Flush, UserIsThere
<1>5. UNCHANGED <<account, collection, file, nextId, unsure, leaked>>
  BY DEF Flush
<1> HIDE DEF n
<1> QED
  BY <1>1, <1>2, <1>3, <1>4, <1>5, MovesOn DEF Pending

LEMMA ListCollectionsIInv == ASSUME IInv, NEW c \in Call, ListCollections(c) PROVE IInv'
<1> DEFINE ids == {x.id : x \in OwnedBy(call[c].user)}
           n == [call[c] EXCEPT !.phase = "listed", !.seen = ids]
<1>1. call[c] \in CallState /\ call[c].phase = "verifying"
  BY DEF IInv, TypeOK, ListCollections, At
<1>2. ids \subseteq Id
  BY DEF IInv, TypeOK, OwnedBy, Collection
<1>3. call' = [call EXCEPT ![c] = n]
  BY DEF IInv, TypeOK, ListCollections
<1> HIDE DEF ids
<1>4. /\ n \in CallState /\ n.phase = "listed"
      /\ n.user = call[c].user /\ n.id = call[c].id /\ n.uploaded = call[c].uploaded
  BY <1>1, <1>2 DEF CallState, Phase
<1>5. UNCHANGED <<account, collection, file, nextId, unsure, leaked>>
  BY DEF ListCollections
<1> HIDE DEF n
<1> QED
  BY <1>1, <1>3, <1>4, <1>5, MovesOn DEF Pending

-----------------------------------------------------------------------------
\* What a request writes at its commit is new and has its file.
LEMMA WrittenIsNew ==
  ASSUME IInv, NEW c \in Call, call[c].phase = "flushed"
  PROVE  /\ Written(c) \in Collection /\ Written(c).id = call[c].id
         /\ Written(c).owner = call[c].user /\ Written(c).uploaded = call[c].uploaded
         /\ Written(c).id < nextId
         /\ \A d \in Call \ {c} : call[d].phase \in Pending => call[d].id # Written(c).id
         /\ Written(c).uploaded => TheFile(c) = StoredAs(Written(c).id, Written(c).owner)
         /\ Written(c).uploaded => TheFile(c) \in file
         /\ ForeignKeys => Written(c).owner \in account
<1>1. call[c] \in CallState /\ call[c].id \in Id /\ call[c].user \in User
  BY DEF IInv, TypeOK, IdsAreOwn, PendingFiles, Pending
<1>2. /\ Written(c).id = call[c].id /\ Written(c).owner = call[c].user
      /\ Written(c).uploaded = call[c].uploaded
  BY DEF Written
<1>3. Written(c) \in Collection
  BY <1>1 DEF Written, Collection, CallState
<1>4. \A d \in Call \ {c} : call[d].phase \in Pending => call[d].id # call[c].id
  BY DEF IInv, IdsAreOwn, Pending
<1>5. call[c].id < nextId
  BY DEF IInv, IdsAreOwn
<1>6. call[c].uploaded => TheFile(c) \in file
  BY DEF IInv, PendingFiles
<1>7. ForeignKeys => call[c].user \in account
  BY DEF IInv, FlushHoldsTheUser
<1> QED
  BY <1>2, <1>3, <1>4, <1>5, <1>6, <1>7 DEF TheFile

\* The end of a request that had flushed, whatever became of its commit.
LEMMA Committed ==
  ASSUME IInv, NEW c \in Call, call[c].phase = "flushed", Ends(c),
         NEW W \in SUBSET {Written(c)}, collection' = collection \union W,
         NEW F \in SUBSET {TheFile(c)}, file' = file \ F,
         F # {} => call[c].uploaded,
         W # {} /\ F # {} => call[c].id \in unsure',
         W = {} /\ F = {} /\ call[c].uploaded => call[c].id \in leaked',
         unsure \subseteq unsure', unsure' \in SUBSET Id,
         leaked \subseteq leaked', leaked' \in SUBSET Id,
         UNCHANGED <<account, nextId>>
  PROVE  IInv'
<1> DEFINE w == Written(c)
<1>1. /\ call' \in [Call -> CallState] /\ call'[c] = Idle
      /\ \A d \in Call \ {c} : call'[d] = call[d]
  BY IdleIsCallState, OneCallMoves DEF IInv, Ends
<1>2. Idle.phase = "idle" /\ Idle.id = NoId /\ ~Idle.uploaded
  BY DEF Idle
<1>3. /\ w \in Collection /\ w.id = call[c].id /\ w.owner = call[c].user
      /\ w.uploaded = call[c].uploaded /\ w.id < nextId
      /\ \A d \in Call \ {c} : call[d].phase \in Pending => call[d].id # w.id
      /\ w.uploaded => TheFile(c) = StoredAs(w.id, w.owner)
      /\ w.uploaded => TheFile(c) \in file
      /\ ForeignKeys => w.owner \in account
  BY WrittenIsNew
<1>4. \A x \in collection' : x \in collection \/ x = w
  OBVIOUS
<1>5. file' \subseteq file
  OBVIOUS
<1>6. call[c].phase \in Pending
  BY DEF Pending
<1>7. TheFile(c).id = call[c].id
  BY DEF TheFile, StoredAs
<1> HIDE DEF w
<1>8. TypeOK'
  BY <1>1, <1>3, <1>4, <1>5 DEF IInv, TypeOK
<1>9. IdsAreOwn'
  <2>1. /\ \A x \in collection' : x.id < nextId'
        /\ \A f \in file' : f.id < nextId'
    BY <1>3, <1>4, <1>5 DEF IInv, IdsAreOwn
  <2>2. \A d \in Call : call'[d].id < nextId'
    BY <1>1, <1>2, Assumptions DEF IInv, TypeOK, IdsAreOwn, NoId
  <2>3. \A d \in Call : call'[d].phase \in Pending => d # c
    BY <1>1, <1>2 DEF Pending
  <2>4. \A d \in Call, x \in collection' : call'[d].phase \in Pending => call'[d].id # x.id
    BY <1>1, <1>3, <1>4, <2>3 DEF IInv, IdsAreOwn
  <2>5. /\ \A d \in Call : call'[d].phase \in Pending => call'[d].id \in Id
        /\ \A d, e \in Call : /\ call'[d].phase \in Pending /\ call'[e].phase \in Pending
                              /\ call'[d].id = call'[e].id
                              => d = e
    BY <1>1, <2>3 DEF IInv, IdsAreOwn
  <2> QED
    BY <2>1, <2>2, <2>4, <2>5 DEF IdsAreOwn
<1>10. PendingFiles'
  <2>1. ASSUME NEW d \in Call, call'[d].uploaded
        PROVE  d # c /\ call[d].uploaded /\ call[d].phase \in Pending
    BY <1>1, <1>2, <2>1 DEF IInv, PendingFiles, Pending
  <2>2. ASSUME NEW d \in Call, call'[d].uploaded PROVE TheFile(d) \in file'
    <3>1. TheFile(d) \in file /\ TheFile(d).id = call[d].id
      BY <2>1, <2>2 DEF IInv, PendingFiles, TheFile, StoredAs
    <3>2. call[d].id # call[c].id
      BY <1>3, <2>1, <2>2
    <3> QED
      BY <1>7, <3>1, <3>2
  <2>3. \A d \in Call : call'[d].uploaded => TheFile(d)' = TheFile(d)
    BY <1>1, <2>1 DEF TheFile
  <2>4. \A d \in Call : call'[d].uploaded => TheFile(d)' \in file'
    BY <2>2, <2>3
  <2> QED
    BY <1>1, <1>2, <2>4 DEF IInv, PendingFiles
<1>11. FlushHoldsTheUser'
  BY <1>1, <1>2 DEF IInv, FlushHoldsTheUser
<1>12. DeletedAccountsStayEmpty'
  BY <1>3, <1>4 DEF IInv, DeletedAccountsStayEmpty
<1>13. EveryItemHasItsFile'
  <2> SUFFICES ASSUME NEW x \in collection', x.uploaded, x.id \notin unsure'
               PROVE  StoredAs(x.id, x.owner) \in file'
    BY DEF EveryItemHasItsFile
  <2>1. CASE x \in collection
    <3>1. StoredAs(x.id, x.owner) \in file
      BY <2>1 DEF IInv, EveryItemHasItsFile
    <3>2. x.id # call[c].id
      BY <1>6, <2>1 DEF IInv, IdsAreOwn
    <3>3. StoredAs(x.id, x.owner).id = x.id
      BY DEF StoredAs
    <3> QED
      BY <1>7, <3>1, <3>2, <3>3
  <2>2. CASE x = w /\ x \in W
    <3>1. F = {}
      BY <1>3, <2>2
    <3> QED
      BY <1>3, <2>2, <3>1
  <2> QED
    BY <2>1, <2>2 DEF w
<1>14. FilesAreAccountedFor'
  <2> SUFFICES ASSUME NEW f \in file', f.owner \in account, f.id \notin leaked',
                      ~\E x \in collection' : x.uploaded /\ x.id = f.id /\ x.owner = f.owner
               PROVE  \E d \in Call : call'[d].uploaded /\ TheFile(d)' = f
    BY DEF FilesAreAccountedFor
  <2>1. PICK d \in Call : call[d].uploaded /\ TheFile(d) = f
    BY <1>5 DEF IInv, FilesAreAccountedFor
  <2>2. CASE d = c
    <3>1. F = {}
      BY <2>1, <2>2
    <3>2. W # {}
      BY <1>7, <2>1, <2>2, <3>1
    <3>3. w \in collection' /\ w.uploaded
      BY <1>3, <2>1, <2>2, <3>2 DEF w
    <3>4. w.id = f.id /\ w.owner = f.owner
      BY <1>3, <2>1, <2>2 DEF TheFile, StoredAs
    <3> QED
      BY <3>3, <3>4
  <2>3. CASE d # c
    BY <1>1, <2>1, <2>3 DEF TheFile
  <2> QED
    BY <2>2, <2>3
<1> QED
  BY <1>8, <1>9, <1>10, <1>11, <1>12, <1>13, <1>14 DEF IInv

LEMMA CommitIInv == ASSUME IInv, NEW c \in Call, Commit(c) PROVE IInv'
<1>1. /\ call[c].phase = "flushed" /\ Ends(c)
      /\ collection' = collection \union {Written(c)}
      /\ UNCHANGED <<account, file, nextId, unsure, leaked>>
  BY DEF Commit, At
<1>2. file' = file \ {}
  BY <1>1
<1>3. unsure' \in SUBSET Id /\ leaked' \in SUBSET Id
  BY <1>1 DEF IInv, TypeOK
<1>4. {Written(c)} # {} /\ {Written(c)} \in SUBSET {Written(c)} /\ {} \in SUBSET {TheFile(c)}
  OBVIOUS
<1> QED
  BY <1>1, <1>2, <1>3, <1>4, Committed

LEMMA CommitFailsIInv == ASSUME IInv, NEW c \in Call, CommitFails(c) PROVE IInv'
<1>1. call[c].phase = "flushed" /\ Ends(c) /\ UNCHANGED <<account, nextId>>
  BY DEF CommitFails, At
<1>2. call[c].id \in Id /\ unsure \in SUBSET Id /\ leaked \in SUBSET Id
  BY <1>1 DEF IInv, TypeOK, IdsAreOwn, Pending
<1>3. PICK W \in SUBSET {Written(c)} :
        /\ collection' = collection \union W
        /\ unsure' = IF W = {} THEN unsure ELSE unsure \union {call[c].id}
  <2>1. CASE UNCHANGED <<collection, unsure>>
    <3>1. {} \in SUBSET {Written(c)} /\ collection' = collection \union {}
      BY <2>1
    <3> QED
      BY <2>1, <3>1
  <2>2. CASE /\ collection' = collection \union {Written(c)}
             /\ unsure' = unsure \union {call[c].id}
    BY <2>2
  <2> QED
    BY <2>1, <2>2 DEF CommitFails
<1>4. PICK F \in SUBSET {TheFile(c)} :
        /\ file' = file \ F /\ (F # {} => call[c].uploaded)
        /\ leaked \subseteq leaked' /\ leaked' \in SUBSET Id
        /\ F = {} /\ call[c].uploaded => call[c].id \in leaked'
  <2>1. CASE file' = file \ {TheFile(c)} /\ leaked' = leaked /\ call[c].uploaded
    BY <1>2, <2>1
  <2>2. CASE file' = file /\ (IF call[c].uploaded THEN leaked' = leaked \union {call[c].id}
                                                  ELSE leaked' = leaked)
    <3>1. {} \in SUBSET {TheFile(c)} /\ file' = file \ {}
      BY <2>2
    <3> QED
      BY <1>2, <2>2, <3>1
  <2> QED
    BY <2>1, <2>2 DEF CommitFails, RemovesFile
<1>5. /\ unsure \subseteq unsure' /\ unsure' \in SUBSET Id
      /\ W # {} => call[c].id \in unsure'
  BY <1>2, <1>3
<1> QED
  BY <1>1, <1>3, <1>4, <1>5, Committed

-----------------------------------------------------------------------------
\* The account goes, with its rows; nobody who has flushed for it is left.
LEMMA DeleteCommitsIInv == ASSUME IInv, NEW c \in Call, DeleteCommits(c) PROVE IInv'
<1> DEFINE u == call[c].user
<1>1. /\ call[c].phase = "listed" /\ Ends(c) /\ Unlocked(u)
      /\ account' = account \ {u} /\ collection' = collection \ OwnedBy(u)
      /\ UNCHANGED <<file, nextId, unsure, leaked>>
  BY DEF DeleteCommits, At
<1>2. ~call[c].uploaded
  BY <1>1 DEF IInv, PendingFiles
<1>3. /\ call' \in [Call -> CallState] /\ call'[c] = Idle
      /\ \A d \in Call \ {c} : call'[d] = call[d]
  BY <1>1, IdleIsCallState, OneCallMoves DEF IInv, Ends
<1>4. Idle.phase = "idle" /\ Idle.id = NoId /\ ~Idle.uploaded
  BY DEF Idle
<1>5. \A x : x \in collection' <=> x \in collection /\ x.owner # u
  BY <1>1 DEF OwnedBy
<1> HIDE DEF u
<1>6. TypeOK'
  BY <1>1, <1>3 DEF IInv, TypeOK
<1>7. IdsAreOwn'
  BY <1>1, <1>3, <1>4, <1>5 DEF IInv, TypeOK, IdsAreOwn, Pending, NoId
<1>8. PendingFiles'
  BY <1>1, <1>3, <1>4 DEF IInv, PendingFiles, TheFile
<1>9. FlushHoldsTheUser'
  BY <1>1, <1>3, <1>4 DEF IInv, FlushHoldsTheUser, Unlocked, At
<1>10. EveryItemHasItsFile'
  BY <1>1, <1>5 DEF IInv, EveryItemHasItsFile
<1>11. DeletedAccountsStayEmpty'
  BY <1>1, <1>5 DEF IInv, DeletedAccountsStayEmpty
<1>12. FilesAreAccountedFor'
  <2> SUFFICES ASSUME NEW f \in file, f.owner \in account', f.id \notin leaked,
                      ~\E x \in collection' : x.uploaded /\ x.id = f.id /\ x.owner = f.owner
               PROVE  \E d \in Call : call'[d].uploaded /\ TheFile(d)' = f
    BY <1>1 DEF FilesAreAccountedFor
  <2>1. f.owner \in account /\ f.owner # u
    BY <1>1
  <2>2. ~\E x \in collection : x.uploaded /\ x.id = f.id /\ x.owner = f.owner
    BY <1>5, <2>1
  <2>3. PICK d \in Call : call[d].uploaded /\ TheFile(d) = f
    BY <2>1, <2>2 DEF IInv, FilesAreAccountedFor
  <2> QED
    BY <1>2, <1>3, <2>3 DEF TheFile
<1> QED
  BY <1>6, <1>7, <1>8, <1>9, <1>10, <1>11, <1>12 DEF IInv

-----------------------------------------------------------------------------
LEMMA NextIInv == IInv /\ [Next]_vars => IInv'
<1> SUFFICES ASSUME IInv, [Next]_vars PROVE IInv'
  OBVIOUS
<1>1. ASSUME NEW c \in Call, NEW u \in User, Upload(c, u) PROVE IInv'
  BY <1>1, NewRequest DEF Upload, Authenticates
<1>2. ASSUME NEW c \in Call, NEW u \in User, Collect(c, u) PROVE IInv'
  BY <1>2, NewRequest DEF Collect, Authenticates
<1>3. ASSUME NEW c \in Call, NEW u \in User, DeleteAccount(c, u) PROVE IInv'
  BY <1>3, NewRequest DEF DeleteAccount, Authenticates
<1>4. CASE UNCHANGED vars
  BY <1>4 DEF vars, IInv, TypeOK, IdsAreOwn, PendingFiles, FlushHoldsTheUser, TheFile,
              EveryItemHasItsFile, DeletedAccountsStayEmpty, FilesAreAccountedFor
<1> QED
  BY <1>1, <1>2, <1>3, <1>4, RefusedIInv, StoreFileIInv, CollectedIInv, FlushIInv,
     FlushFailsIInv, CommitIInv, CommitFailsIInv, ListCollectionsIInv, DeleteCommitsIInv,
     DeleteFailsIInv, KilledIInv DEF Next

LEMMA Invariance == Spec => []IInv
BY InitIInv, NextIInv, PTL DEF Spec

(***************************************************************************)
(* The variables keep their types.                                         *)
(***************************************************************************)
THEOREM TypeCorrect == Spec => []TypeOK
<1>1. IInv => TypeOK
  BY DEF IInv
<1> QED
  BY <1>1, Invariance, PTL

(***************************************************************************)
(* Whatever requests overlap, fail or are killed, an item that was         *)
(* uploaded and whose commit did not end in doubt can be downloaded.       *)
(***************************************************************************)
THEOREM ItemsHaveFiles == Spec => []EveryItemHasItsFile
<1>1. IInv => EveryItemHasItsFile
  BY DEF IInv
<1> QED
  BY <1>1, Invariance, PTL

(***************************************************************************)
(* With foreign keys, nothing is ever written for an account that has been *)
(* deleted.                                                                *)
(***************************************************************************)
THEOREM DeletedStayEmpty == Spec => []DeletedAccountsStayEmpty
<1>1. IInv => DeletedAccountsStayEmpty
  BY DEF IInv
<1> QED
  BY <1>1, Invariance, PTL

(***************************************************************************)
(* A file that belongs to nothing was left by a failure or by a deleted    *)
(* account.                                                                *)
(***************************************************************************)
THEOREM FilesAccounted == Spec => []FilesAreAccountedFor
<1>1. IInv => FilesAreAccountedFor
  BY DEF IInv
<1> QED
  BY <1>1, Invariance, PTL
=============================================================================
