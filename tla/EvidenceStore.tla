--------------------------- MODULE EvidenceStore ---------------------------
(***************************************************************************)
(* Evidence on the server: rows in the database, uploaded files on disk,   *)
(* and the deletion of an account they belong to.                          *)
(*                                                                         *)
(* A request authenticates once and then works for that user to its end,   *)
(* through a slow upload, an AWS collection in the thread pool or the      *)
(* hashing of a password.  Requests of several workers interleave at every *)
(* statement (one worker allows fewer of these behaviours); what a request *)
(* has not committed is its own.  The disk knows no transaction.  A worker *)
(* may be killed at any moment.                                            *)
(***************************************************************************)
EXTENDS Integers, FiniteSets

CONSTANTS Call,         \* request slots
          User,         \* accounts, none of which is ever created again
          Nobody,       \* the user of an idle slot
          ForeignKeys,  \* whether the database enforces foreign keys
          MaxId         \* bound: the collections and files ever created

ASSUME NobodyAssumption == Nobody \notin User
ASSUME ForeignKeysAssumption == ForeignKeys \in BOOLEAN
ASSUME MaxIdAssumption == MaxId \in Nat \ {0}

Id == 1..MaxId
NoId == 0

VARIABLES account,     \* the users that exist
          collection,  \* evidence_collections, each with its items
          file,        \* the files under evidence_storage_path
          call,        \* what each request is doing
          nextId,      \* ids (and uuids) are never handed out twice
          unsure,      \* history: uploads whose commit ended in doubt
          leaked       \* history: files a failure or a kill has left behind

vars == <<account, collection, file, call, nextId, unsure, leaked>>

\* An uploaded collection has one item, which names its file; a collected one
\* has whatever the collectors found.
Collection == [id : Id, owner : User, uploaded : BOOLEAN, hasItems : BOOLEAN]
File == [id : Id, owner : User]

Phase == {"idle", "uploading", "collecting", "stored", "collected", "flushed",
          "verifying", "listed"}

CallState == [phase : Phase, user : User \union {Nobody}, id : Id \union {NoId},
              uploaded : BOOLEAN, hasItems : BOOLEAN, seen : SUBSET Id]

TypeOK ==
  /\ account \in SUBSET User
  /\ collection \in SUBSET Collection
  /\ file \in SUBSET File
  /\ call \in [Call -> CallState]
  /\ nextId \in 1..(MaxId + 1)
  /\ unsure \in SUBSET Id /\ leaked \in SUBSET Id

Idle == [phase |-> "idle", user |-> Nobody, id |-> NoId,
         uploaded |-> FALSE, hasItems |-> FALSE, seen |-> {}]

Init ==
  /\ account = User
  /\ collection = {} /\ file = {}
  /\ call = [c \in Call |-> Idle]
  /\ nextId = 1
  /\ unsure = {} /\ leaked = {}

At(c, phase) == call[c].phase = phase
Ends(c) == call' = [call EXCEPT ![c] = Idle]

\* get_current_user
Authenticates(c, u, phase) ==
  /\ At(c, "idle") /\ u \in account
  /\ call' = [call EXCEPT ![c] = [Idle EXCEPT !.phase = phase, !.user = u]]
  /\ UNCHANGED <<account, collection, file, nextId, unsure, leaked>>

Upload(c, u) == Authenticates(c, u, "uploading")
Collect(c, u) == Authenticates(c, u, "collecting")
DeleteAccount(c, u) == Authenticates(c, u, "verifying")

\* A request ends before it has written anything: an unknown evidence type, a
\* file that is too large, failing collectors, a wrong password.
Refused(c) ==
  /\ At(c, "uploading") \/ At(c, "collecting") \/ At(c, "verifying")
  /\ Ends(c)
  /\ UNCHANGED <<account, collection, file, nextId, unsure, leaked>>

\* Mutation of StoredAs: a user's uploads of one name share their file.
StoredByName(n, u) == [id |-> 1, owner |-> u]

\* The name on disk: a uuid in the directory of the user
StoredAs(n, u) == [id |-> n, owner |-> u]
TheFile(c) == StoredAs(call[c].id, call[c].user)

\* _store_evidence_file writes it whether or not the user still exists.
StoreFile(c) ==
  /\ At(c, "uploading") /\ nextId \in Id
  /\ file' = file \union {StoredAs(nextId, call[c].user)}
  /\ nextId' = nextId + 1
  /\ \/ /\ call' = [call EXCEPT ![c].phase = "stored", ![c].id = nextId,
                               ![c].uploaded = TRUE, ![c].hasItems = TRUE]
        /\ UNCHANGED leaked
     \/ Ends(c) /\ leaked' = leaked \union {nextId}   \* the disk is full
  /\ UNCHANGED <<account, collection, unsure>>

\* The collectors answer.
Collected(c) ==
  /\ At(c, "collecting") /\ nextId \in Id
  /\ nextId' = nextId + 1
  /\ \E items \in BOOLEAN :
       call' = [call EXCEPT ![c].phase = "collected", ![c].id = nextId, ![c].hasItems = items]
  /\ UNCHANGED <<account, collection, file, unsure, leaked>>

\* Mutation of UserIsThere: the row names a user without a foreign key.
UserNeedNotBeThere(c) == TRUE

UserIsThere(c) == ForeignKeys => call[c].user \in account

\* The first insert is flushed: the foreign key is checked, and locks the row
\* of the user until the end of the transaction.
Flush(c) ==
  /\ At(c, "stored") \/ At(c, "collected")
  /\ UserIsThere(c)
  /\ call' = [call EXCEPT ![c].phase = "flushed"]
  /\ UNCHANGED <<account, collection, file, nextId, unsure, leaked>>

\* It may fail, for the foreign key or otherwise.  An upload is not prepared
\* for that: its file stays.
FlushFails(c) ==
  /\ At(c, "stored") \/ At(c, "collected")
  /\ leaked' = IF call[c].uploaded THEN leaked \union {call[c].id} ELSE leaked
  /\ Ends(c)
  /\ UNCHANGED <<account, collection, file, nextId, unsure>>

Written(c) == [id |-> call[c].id, owner |-> call[c].user,
               uploaded |-> call[c].uploaded, hasItems |-> call[c].hasItems]

Commit(c) ==
  /\ At(c, "flushed")
  /\ collection' = collection \union {Written(c)}
  /\ Ends(c)
  /\ UNCHANGED <<account, file, nextId, unsure, leaked>>

\* os.remove, whose failure is passed over
RemovesFile(c) ==
  IF call[c].uploaded
    THEN \/ file' = file \ {TheFile(c)} /\ UNCHANGED leaked
         \/ leaked' = leaked \union {call[c].id} /\ UNCHANGED file
    ELSE UNCHANGED <<file, leaked>>

\* Mutation of CommitFails: the file is kept for another attempt.
CommitFailsKeepsFile(c) ==
  /\ At(c, "flushed")
  /\ Ends(c)
  /\ UNCHANGED <<account, collection, file, nextId, unsure, leaked>>

\* The commit raises: the transaction is rolled back, or the connection broke
\* after the database had committed.
CommitFails(c) ==
  /\ At(c, "flushed")
  /\ \/ UNCHANGED <<collection, unsure>>
     \/ /\ collection' = collection \union {Written(c)}
        /\ unsure' = unsure \union {call[c].id}
  /\ RemovesFile(c)
  /\ Ends(c)
  /\ UNCHANGED <<account, nextId>>

-----------------------------------------------------------------------------
OwnedBy(u) == {x \in collection : x.owner = u}

\* delete_account, with the password verified: it lists the collections whose
\* items it is going to delete.
ListCollections(c) ==
  /\ At(c, "verifying")
  /\ call' = [call EXCEPT ![c].phase = "listed",
                         ![c].seen = {x.id : x \in OwnedBy(call[c].user)}]
  /\ UNCHANGED <<account, collection, file, nextId, unsure, leaked>>

\* A collection committed since then still has its items, whose foreign key
\* forbids to delete it.
Deletable(c) ==
  ForeignKeys => \A x \in OwnedBy(call[c].user) : x.id \in call[c].seen \/ ~x.hasItems

\* The delete of the user waits for the transactions that have locked its row.
Unlocked(u) ==
  ForeignKeys => \A d \in Call : ~(At(d, "flushed") /\ call[d].user = u)

\* Everything of the user goes in one transaction: every row, and no file.
DeleteCommits(c) ==
  /\ At(c, "listed")
  /\ Unlocked(call[c].user) /\ Deletable(c)
  /\ account' = account \ {call[c].user}
  /\ collection' = collection \ OwnedBy(call[c].user)
  /\ Ends(c)
  /\ UNCHANGED <<file, nextId, unsure, leaked>>

\* An error rolls it back: 500, and the account is as it was.
DeleteFails(c) ==
  /\ At(c, "listed")
  /\ Ends(c)
  /\ UNCHANGED <<account, collection, file, nextId, unsure, leaked>>

\* A worker is killed.
Killed(c) ==
  /\ ~At(c, "idle")
  /\ leaked' = IF call[c].uploaded THEN leaked \union {call[c].id} ELSE leaked
  /\ Ends(c)
  /\ UNCHANGED <<account, collection, file, nextId, unsure>>

Next ==
  \E c \in Call :
    \/ \E u \in User : Upload(c, u) \/ Collect(c, u) \/ DeleteAccount(c, u)
    \/ Refused(c) \/ StoreFile(c) \/ Collected(c)
    \/ Flush(c) \/ FlushFails(c) \/ Commit(c) \/ CommitFails(c)
    \/ ListCollections(c) \/ DeleteCommits(c) \/ DeleteFails(c)
    \/ Killed(c)

Spec == Init /\ [][Next]_vars

-----------------------------------------------------------------------------
(***************************************************************************)
(* Every uploaded item can be downloaded: its row is committed after its   *)
(* file was written, and the file goes only with a commit that failed.     *)
(* Only a commit that ended in doubt can leave an item without its file.   *)
(***************************************************************************)
EveryItemHasItsFile ==
  \A x \in collection :
    x.uploaded /\ x.id \notin unsure => StoredAs(x.id, x.owner) \in file

(***************************************************************************)
(* A deleted account stays empty: no request that was under way when it    *)
(* was deleted leaves a row behind, where foreign keys are enforced.       *)
(***************************************************************************)
DeletedAccountsStayEmpty ==
  ForeignKeys => \A x \in collection : x.owner \in account

(***************************************************************************)
(* A file of a user that exists belongs to an item or to an upload under   *)
(* way, unless the disk, a flush, a removal or the worker failed.          *)
(***************************************************************************)
FilesAreAccountedFor ==
  \A f \in file :
    \/ f.owner \notin account
    \/ f.id \in leaked
    \/ \E x \in collection : x.uploaded /\ x.id = f.id /\ x.owner = f.owner
    \/ \E c \in Call : call[c].uploaded /\ TheFile(c) = f
=============================================================================
