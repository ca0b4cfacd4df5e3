---------------------------- MODULE ScoringProofs ----------------------------
(***************************************************************************)
(* Proofs about what is collected and what it is worth.  First AWS         *)
(* credentials: the variables keep their types, a key that is configured   *)
(* reads what was encrypted with it, and with one worker a row is never put *)
(* together from two saves.  Then, for all frameworks and all evidence, the *)
(* two scoring engines, and the evaluations that the server stores and reads *)
(* back.                                                                   *)
(*                                                                         *)
(* The engines' sums are folds over a set.  The function such a fold applies *)
(* is shown to exist, by induction over the size of the subsets, and then to *)
(* compare term by term; divisions are reasoned about by their quotient and *)
(* remainder.                                                              *)
(***************************************************************************)
EXTENDS Compliance, FiniteSetTheorems, WellFoundedInduction, TLAPS


\* What a request carries while it is handled.
Saving == [phase : {"saving"}, user : User, cipher : Cipher, seen : Cred \union {NoCred}]
Collecting == [phase : {"collecting"}, user : User, id : Second, configured : BOOLEAN]

\* TypeOK and the parts it leaves open.
Typed ==
  /\ cred \in [User -> Cred \union {NoCred}]
  /\ keys \in [secret : Secret, dedicated : Dedicated \union {None}]
  /\ call \in [Call -> {Idle} \union Saving \union Collecting]
  /\ second \in Second
  /\ collection \in [Second -> Collection \union {NoCollection}]
  /\ saved \in SUBSET User

-----------------------------------------------------------------------------
\* What a save writes is a row of aws_credentials.
LEMMA RowsAreCred ==
  ASSUME NEW x \in Cipher
  PROVE  /\ [cipher |-> x, region |-> RegionOf[x.value]] \in Cred
         /\ \A row \in Cred : \A seen : Replaced(row, seen, x) \in Cred
BY DEF Cipher, Cred, Replaced

\* What the collectors find is an item, whatever the AWS account holds.
LEMMA FoundIsItem == S3Items \subseteq Item /\ IamItems \subseteq Item
<1>1. ASSUME NEW e PROVE Derive(e) \in {"compliant", "non_compliant", "error"}
  BY DEF Derive
<1>0. ASSUME NEW e, NEW clean \in BOOLEAN PROVE [status |-> Derive(e), clean |-> clean] \in Item
  BY <1>1 DEF Item
<1>2. ASSUME NEW i \in S3Items PROVE i \in Item
  <2>1. PICK B \in SUBSET Bucket :
          i = [status |-> Derive(S3Evidence(B)), clean |-> B \subseteq {"encrypted"}]
    BY DEF S3Items
  <2> QED BY <1>0, <2>1
<1>3. ASSUME NEW i \in IamItems PROVE i \in Item
  <2>1. PICK P \in SUBSET Policy :
          i = [status |-> Derive(IamEvidence(P)),
               clean |-> P \subseteq {"narrow", "wideAlone", "serviceAlone"}]
    BY DEF IamItems
  <2> QED BY <1>0, <2>1
<1> QED BY <1>2, <1>3

LEMMA StoringKeepsType ==
  ASSUME Typed, NEW id \in Second, NEW b \in Collection
  PROVE  Stored(id, b) \in [Second -> Collection \union {NoCollection}]
BY DEF Typed, Stored

LEMMA TypedInit ==
  ASSUME MaxSecond \in Nat, Init
  PROVE  Typed
<1>1. PICK u \in User, v \in Value :
        cred = [x \in User |-> IF x # u THEN NoCred
                 ELSE [cipher |-> Crypt(v, "sha", keys.secret), region |-> RegionOf[v]]]
  BY DEF Init
<1>2. keys \in [secret : Secret, dedicated : Dedicated \union {None}] /\ keys.secret \in Secret
  BY DEF Init
<1>3. Crypt(v, "sha", keys.secret) \in Cipher
  BY <1>2 DEF Crypt, Cipher
<1>4. [cipher |-> Crypt(v, "sha", keys.secret), region |-> RegionOf[v]] \in Cred
  BY <1>3 DEF Cred
<1>5. cred \in [User -> Cred \union {NoCred}]
  BY <1>1, <1>4
<1>6. /\ call \in [Call -> {Idle} \union Saving \union Collecting]
      /\ second \in Second
      /\ collection \in [Second -> Collection \union {NoCollection}]
      /\ saved \in SUBSET User
  BY DEF Init, Second
<1> QED BY <1>2, <1>5, <1>6 DEF Typed

LEMMA TypedNext ==
  ASSUME MaxSecond \in Nat, Typed, [Next]_vars
  PROVE  Typed'
<1> DEFINE Calls == {Idle} \union Saving \union Collecting
<1>u. CASE UNCHANGED vars
  BY <1>u DEF Typed, vars
<1>e. ASSUME NEW c \in Call, Ends(c)
      PROVE  call' \in [Call -> Calls]
  BY <1>e DEF Ends, Typed
<1>1. ASSUME NEW c \in Call, NEW u \in User, Delete(c, u)
      PROVE  Typed'
  BY <1>1 DEF Delete, Typed
<1>2. ASSUME NEW c \in Call, NEW u \in User, Collect(c, u)
      PROVE  Typed'
  <2>1. [phase |-> "collecting", user |-> u, id |-> second, configured |-> cred[u] # NoCred]
          \in Collecting
    BY DEF Typed, Collecting
  <2>2. call' \in [Call -> Calls]
    BY <1>2, <2>1 DEF Collect, Typed
  <2> QED BY <1>2, <2>2 DEF Collect, Typed
<1>3. ASSUME NEW c \in Call, NEW u \in User, NEW v \in Value, Save(c, u, v)
      PROVE  Typed'
  <2>1. Encrypted(v) \in Cipher
    BY DEF Encrypted, Crypt, Cipher, Material, Typed
  <2>2. [phase |-> "saving", user |-> u, cipher |-> Encrypted(v), seen |-> cred[u]] \in Saving
    BY <2>1 DEF Typed, Saving
  <2>3. call' \in [Call -> Calls]
    BY <1>3, <2>2 DEF Save, Typed
  <2> QED BY <1>3, <2>3 DEF Save, Typed
<1>4. ASSUME NEW c \in Call, SaveCommit(c)
      PROVE  Typed'
  <2>1. call[c] \in Saving
    BY <1>4 DEF SaveCommit, Typed, Idle, Collecting
  <2>2. PICK u \in User, x \in Cipher, seen \in Cred \union {NoCred} :
          call[c].user = u /\ call[c].cipher = x /\ call[c].seen = seen
    BY <2>1 DEF Saving
  <2>3. cred' = IF (seen = NoCred) # (cred[u] = NoCred) THEN cred
                ELSE [cred EXCEPT ![u] =
                        IF seen = NoCred THEN [cipher |-> x, region |-> RegionOf[x.value]]
                                         ELSE Replaced(cred[u], seen, x)]
    BY <1>4, <2>2 DEF SaveCommit
  <2>4. [cipher |-> x, region |-> RegionOf[x.value]] \in Cred
    BY RowsAreCred
  <2>5. cred[u] # NoCred => Replaced(cred[u], seen, x) \in Cred
    BY RowsAreCred DEF Typed
  <2>6. cred' \in [User -> Cred \union {NoCred}]
    BY <2>3, <2>4, <2>5 DEF Typed
  <2>7. call' \in [Call -> Calls] /\ UNCHANGED <<keys, second, collection>>
    BY <1>4, <1>e DEF SaveCommit
  <2>8. saved' \in SUBSET User
    BY <1>4, <2>2 DEF SaveCommit, Typed
  <2> QED BY <2>6, <2>7, <2>8 DEF Typed
<1>c. ASSUME NEW c \in Call, call[c].phase = "collecting",
             NEW status \in {"not_configured", "success", "partial_failure"},
             NEW items \in SUBSET Item,
             collection' = Stored(call[c].id, [user |-> call[c].user, status |-> status,
                                               items |-> items]),
             Ends(c), UNCHANGED <<cred, keys, second, saved>>
      PROVE  Typed'
  <2>1. call[c].user \in User /\ call[c].id \in Second
    BY <1>c DEF Typed, Idle, Saving, Collecting
  <2>2. [user |-> call[c].user, status |-> status, items |-> items] \in Collection
    BY <2>1 DEF Collection
  <2>3. collection' \in [Second -> Collection \union {NoCollection}]
    BY <1>c, <2>1, <2>2, StoringKeepsType
  <2> QED BY <1>c, <1>e, <2>3 DEF Typed
<1>5. ASSUME NEW c \in Call, CollectNothing(c)
      PROVE  Typed'
  <2>1. /\ call[c].phase = "collecting" /\ Ends(c) /\ UNCHANGED <<cred, keys, second, saved>>
        /\ collection' = Stored(call[c].id, [user |-> call[c].user,
                                             status |-> "not_configured", items |-> {}])
    BY <1>5 DEF CollectNothing
  <2> QED BY <2>1, <1>c
<1>6. ASSUME NEW c \in Call, NEW status \in {"success", "partial_failure"},
             NEW items \in SUBSET Item, CollectFinds(c, status, items)
      PROVE  Typed'
  BY <1>6, <1>c DEF CollectFinds
<1>7. ASSUME NEW c \in Call, CollectFails(c)
      PROVE  Typed'
  BY <1>7, <1>e DEF CollectFails, Typed
<1>8. ASSUME NEW k \in [secret : Secret, dedicated : Dedicated \union {None}], Restart(k)
      PROVE  Typed'
  BY <1>8 DEF Restart, Typed
<1>9. ASSUME Tick
      PROVE  Typed'
  BY <1>9 DEF Tick, Typed, Second
<1>10. ASSUME NEW c \in Call, NEW s3 \in S3Items, NEW iam \in IamItems,
              \/ CollectFinds(c, "success", {s3, iam})
              \/ \E item \in {s3, iam} : CollectFinds(c, "partial_failure", {item})
       PROVE  Typed'
  <2>1. {s3, iam} \in SUBSET Item /\ \A item \in {s3, iam} : {item} \in SUBSET Item
    BY FoundIsItem
  <2> QED BY <1>10, <1>6, <2>1
<1> QED BY <1>u, <1>1, <1>2, <1>3, <1>4, <1>5, <1>7, <1>8, <1>9, <1>10 DEF Next

LEMMA TypedIsTypeOK == Typed => TypeOK
<1> SUFFICES ASSUME Typed PROVE TypeOK
  OBVIOUS
<1>1. \A c \in Call : call[c].phase \in {"idle", "saving", "collecting"}
  BY DEF Typed, Idle, Saving, Collecting
<1> QED BY <1>1 DEF Typed, TypeOK

LEMMA AlwaysTyped ==
  ASSUME MaxSecond \in Nat
  PROVE  Spec => []Typed
<1>1. Init => Typed
  BY TypedInit
<1>2. Typed /\ [Next]_vars => Typed'
  BY TypedNext
<1> QED BY <1>1, <1>2, PTL DEF Spec

(***************************************************************************)
(* The row of a user is credentials or nothing, a request is in one of its *)
(* phases, and a collection has one of the stored statuses.                *)
(***************************************************************************)
THEOREM TypeCorrect ==
  ASSUME MaxSecond \in Nat
  PROVE  Spec => []TypeOK
BY AlwaysTyped, TypedIsTypeOK, PTL

-----------------------------------------------------------------------------
\* What SHA-256 keyed has not been saved since HKDF.
ShaIsUnsaved ==
  \A u \in User :
    cred[u] # NoCred /\ cred[u].cipher.kdf = "sha" => u \notin saved

\* A request never brings one.
SavesUseHkdf == \A c \in Call : call[c].phase = "saving" => call[c].cipher.kdf = "hkdf"

KeyInv == ShaIsUnsaved /\ SavesUseHkdf

LEMMA KeyInvInit ==
  ASSUME Init
  PROVE  KeyInv
<1>1. ShaIsUnsaved
  BY DEF Init, ShaIsUnsaved
<1>2. SavesUseHkdf
  BY DEF Init, Idle, SavesUseHkdf
<1> QED BY <1>1, <1>2 DEF KeyInv

LEMMA KeyInvNext ==
  ASSUME Typed, KeyInv, [Next]_vars
  PROVE  KeyInv'
<1> USE DEF KeyInv
<1>u. ASSUME UNCHANGED <<cred, call, saved>>
      PROVE  KeyInv'
  BY <1>u DEF ShaIsUnsaved, SavesUseHkdf
<1>e. ASSUME NEW c \in Call, Ends(c)
      PROVE  SavesUseHkdf'
  BY <1>e DEF Ends, Typed, Idle, SavesUseHkdf
<1>f. ASSUME NEW c \in Call, Ends(c), UNCHANGED <<cred, saved>>
      PROVE  KeyInv'
  BY <1>f, <1>e DEF ShaIsUnsaved
<1>1. ASSUME NEW c \in Call, NEW u \in User, Delete(c, u)
      PROVE  KeyInv'
  BY <1>1 DEF Delete, Typed, ShaIsUnsaved, SavesUseHkdf
<1>2. ASSUME NEW c \in Call, NEW u \in User, Collect(c, u)
      PROVE  KeyInv'
  <2>1. SavesUseHkdf'
    BY <1>2 DEF Collect, Typed, SavesUseHkdf
  <2>2. ShaIsUnsaved'
    BY <1>2 DEF Collect, ShaIsUnsaved
  <2> QED BY <2>1, <2>2
<1>3. ASSUME NEW c \in Call, NEW u \in User, NEW v \in Value, Save(c, u, v)
      PROVE  KeyInv'
  <2>1. Encrypted(v).kdf = "hkdf"
    BY DEF Encrypted, Crypt
  <2>2. SavesUseHkdf'
    BY <1>3, <2>1 DEF Save, Typed, SavesUseHkdf
  <2>3. ShaIsUnsaved'
    BY <1>3 DEF Save, ShaIsUnsaved
  <2> QED BY <2>2, <2>3
<1>4. ASSUME NEW c \in Call, SaveCommit(c)
      PROVE  KeyInv'
  <2>1. PICK u, x, seen : call[c].user = u /\ call[c].cipher = x /\ call[c].seen = seen
    OBVIOUS
  <2>2. x.kdf = "hkdf"
    BY <1>4, <2>1 DEF SaveCommit, SavesUseHkdf
  <2>3. cred' = IF (seen = NoCred) # (cred[u] = NoCred) THEN cred
                ELSE [cred EXCEPT ![u] =
                        IF seen = NoCred THEN [cipher |-> x, region |-> RegionOf[x.value]]
                                         ELSE Replaced(cred[u], seen, x)]
    BY <1>4, <2>1 DEF SaveCommit
  <2>4. ASSUME NEW w \in User, cred'[w] # cred[w]
        PROVE  cred'[w].cipher.kdf = "hkdf"
    BY <2>2, <2>3, <2>4 DEF Typed, Replaced
  <2>5. ASSUME NEW w \in User, w \in saved', w \notin saved
        PROVE  w = u /\ cred' # cred
    BY <1>4, <2>1, <2>5 DEF SaveCommit
  <2>6. cred' # cred => cred'[u].cipher.kdf = "hkdf"
    BY <2>2, <2>3 DEF Typed, Replaced
  <2>7. ShaIsUnsaved'
    BY <2>4, <2>5, <2>6 DEF ShaIsUnsaved
  <2> QED BY <1>4, <1>e, <2>7 DEF SaveCommit
<1>5. ASSUME NEW c \in Call, CollectNothing(c) \/ CollectFails(c)
      PROVE  KeyInv'
  BY <1>5, <1>f DEF CollectNothing, CollectFails
<1>6. ASSUME NEW c \in Call, NEW status, NEW items, CollectFinds(c, status, items)
      PROVE  KeyInv'
  BY <1>6, <1>f DEF CollectFinds
<1>7. ASSUME NEW k, Restart(k)
      PROVE  KeyInv'
  BY <1>7 DEF Restart, Idle, ShaIsUnsaved, SavesUseHkdf
<1>8. CASE Tick
  BY <1>8, <1>u DEF Tick
<1>9. CASE UNCHANGED vars
  BY <1>9, <1>u DEF vars
<1> QED BY <1>1, <1>2, <1>3, <1>4, <1>5, <1>6, <1>7, <1>8, <1>9 DEF Next

LEMMA ConfiguredKeysRead ==
  ASSUME Typed, KeyInv,
         None \notin Secret \union Dedicated
  PROVE  KeySeparationLosesNothing
<1> SUFFICES ASSUME NEW u \in User, cred[u] # NoCred,
                    cred[u].cipher.key \in {keys.secret, keys.dedicated},
                    u \in saved \/ cred[u].cipher.key = keys.secret
             PROVE  Readable(cred[u].cipher)
  BY DEF KeySeparationLosesNothing
<1>1. PICK x \in Cipher : cred[u].cipher = x
  BY DEF Typed, Cred
<1>2. x.key \in Secret \union Dedicated /\ x.kdf \in {"hkdf", "sha"}
  BY DEF Cipher
<1>3. x.key \in {keys.secret, keys.dedicated}
  BY <1>1
<1>4. CASE x.kdf = "hkdf"
  <2>1. x.key # None
    BY <1>2
  <2>2. x.key \in {Material, keys.secret}
    BY <1>3, <2>1 DEF Material
  <2> QED BY <1>1, <1>4, <2>2 DEF Readable
<1>5. CASE x.kdf = "sha"
  <2>1. u \notin saved
    BY <1>1, <1>5 DEF KeyInv, ShaIsUnsaved
  <2>2. x.key = keys.secret
    BY <1>1, <2>1
  <2> QED BY <1>1, <1>5, <2>2 DEF Readable
<1> QED BY <1>2, <1>4, <1>5

(***************************************************************************)
(* decrypt_credential reads whatever was encrypted with a key that is      *)
(* configured now, in whatever order keys came and went and whatever each  *)
(* of them had been used as before, for every set of keys.  Excepted are   *)
(* credentials from before HKDF that were not saved since, under a key     *)
(* that is not SECRET_KEY any more.                                        *)
(***************************************************************************)
THEOREM NothingLost ==
  ASSUME MaxSecond \in Nat,
         None \notin Secret \union Dedicated
  PROVE  Spec => []KeySeparationLosesNothing
<1>1. Init => KeyInv
  BY KeyInvInit
<1>2. Typed /\ KeyInv /\ [Next]_vars => KeyInv'
  BY KeyInvNext
<1>3. Typed /\ KeyInv => KeySeparationLosesNothing
  BY ConfiguredKeysRead
<1> QED BY <1>1, <1>2, <1>3, AlwaysTyped, PTL DEF Spec

-----------------------------------------------------------------------------
\* With one worker a save has the row to itself until it commits.
SeesTheRow ==
  \A c \in Call :
    call[c].phase = "saving" =>
      /\ call[c].seen = cred[call[c].user]
      /\ \A d \in Call \ {c} : call[d].phase # "saving"

OneSaveInv == SeesTheRow /\ CredentialsAreOneSave

LEMMA OneSaveInit ==
  ASSUME Init
  PROVE  OneSaveInv
<1>1. PICK u \in User, v \in Value :
        cred = [x \in User |-> IF x # u THEN NoCred
                 ELSE [cipher |-> Crypt(v, "sha", keys.secret), region |-> RegionOf[v]]]
  BY DEF Init
<1>2. CredentialsAreOneSave
  BY <1>1 DEF CredentialsAreOneSave, Crypt
<1>3. SeesTheRow
  BY DEF Init, Idle, SeesTheRow
<1> QED BY <1>2, <1>3 DEF OneSaveInv

LEMMA OneSaveNext ==
  ASSUME ~Scaled, Typed, OneSaveInv, [Next]_vars
  PROVE  OneSaveInv'
<1> USE DEF OneSaveInv
<1>u. ASSUME UNCHANGED <<cred, call>>
      PROVE  OneSaveInv'
  BY <1>u DEF SeesTheRow, CredentialsAreOneSave
<1>b. ASSUME NEW c \in Call, Begins(c)
      PROVE  \A d \in Call : call[d].phase # "saving"
  BY <1>b DEF Begins, MayRun
<1>f. ASSUME NEW c \in Call, Ends(c), UNCHANGED cred
      PROVE  OneSaveInv'
  <2>1. \A d \in Call : call'[d] = IF d = c THEN Idle ELSE call[d]
    BY <1>f DEF Ends, Typed
  <2>2. SeesTheRow'
    BY <1>f, <2>1 DEF SeesTheRow, Idle
  <2>3. CredentialsAreOneSave'
    BY <1>f DEF CredentialsAreOneSave
  <2> QED BY <2>2, <2>3
<1>1. ASSUME NEW c \in Call, NEW u \in User, Delete(c, u)
      PROVE  OneSaveInv'
  <2>1. SeesTheRow'
    BY <1>1, <1>b DEF Delete, SeesTheRow
  <2>2. CredentialsAreOneSave'
    BY <1>1 DEF Delete, Typed, CredentialsAreOneSave
  <2> QED BY <2>1, <2>2
<1>2. ASSUME NEW c \in Call, NEW u \in User, Collect(c, u)
      PROVE  OneSaveInv'
  <2>1. \A d \in Call : call'[d].phase # "saving"
    BY <1>2, <1>b DEF Collect, Typed
  <2>2. CredentialsAreOneSave'
    BY <1>2 DEF Collect, CredentialsAreOneSave
  <2> QED BY <2>1, <2>2 DEF SeesTheRow
<1>3. ASSUME NEW c \in Call, NEW u \in User, NEW v \in Value, Save(c, u, v)
      PROVE  OneSaveInv'
  <2>1. \A d \in Call \ {c} : call'[d].phase # "saving"
    BY <1>3, <1>b DEF Save, Typed
  <2>2. call'[c].seen = cred[u] /\ call'[c].user = u /\ cred' = cred
    BY <1>3 DEF Save, Typed
  <2>3. SeesTheRow'
    BY <2>1, <2>2 DEF SeesTheRow
  <2>4. CredentialsAreOneSave'
    BY <2>2 DEF CredentialsAreOneSave
  <2> QED BY <2>3, <2>4
<1>4. ASSUME NEW c \in Call, SaveCommit(c)
      PROVE  OneSaveInv'
  <2>1. PICK u, x, seen : call[c].user = u /\ call[c].cipher = x /\ call[c].seen = seen
    OBVIOUS
  <2>2. seen = cred[u]
    BY <1>4, <2>1 DEF SaveCommit, SeesTheRow
  <2>3. cred' = [cred EXCEPT ![u] =
                   IF seen = NoCred THEN [cipher |-> x, region |-> RegionOf[x.value]]
                                    ELSE Replaced(cred[u], seen, x)]
    BY <1>4, <2>1, <2>2 DEF SaveCommit
  <2>4. ASSUME NEW w \in User, cred'[w] # cred[w]
        PROVE  cred'[w].region = RegionOf[cred'[w].cipher.value]
    BY <2>2, <2>3, <2>4 DEF Typed, Replaced
  <2>5. CredentialsAreOneSave'
    BY <2>4 DEF CredentialsAreOneSave
  <2>6. \A d \in Call : call'[d].phase # "saving"
    BY <1>4 DEF SaveCommit, Ends, Idle, Typed, SeesTheRow
  <2> QED BY <2>5, <2>6 DEF SeesTheRow
<1>5. ASSUME NEW c \in Call, CollectNothing(c) \/ CollectFails(c)
      PROVE  OneSaveInv'
  BY <1>5, <1>f DEF CollectNothing, CollectFails
<1>6. ASSUME NEW c \in Call, NEW status, NEW items, CollectFinds(c, status, items)
      PROVE  OneSaveInv'
  BY <1>6, <1>f DEF CollectFinds
<1>7. ASSUME NEW k, Restart(k)
      PROVE  OneSaveInv'
  BY <1>7 DEF Restart, Idle, SeesTheRow, CredentialsAreOneSave
<1>8. CASE Tick
  BY <1>8, <1>u DEF Tick
<1>9. CASE UNCHANGED vars
  BY <1>9, <1>u DEF vars
<1> QED BY <1>1, <1>2, <1>3, <1>4, <1>5, <1>6, <1>7, <1>8, <1>9 DEF Next

(***************************************************************************)
(* save_aws_credentials writes only the columns that differ from the row   *)
(* it has read.  With one worker, where no await parts the query from the  *)
(* commit, key and region are nevertheless those of one save, for any      *)
(* number of requests, users and credentials.                              *)
(***************************************************************************)
THEOREM OneSave ==
  ASSUME MaxSecond \in Nat, ~Scaled
  PROVE  Spec => []CredentialsAreOneSave
<1>1. Init => OneSaveInv
  BY OneSaveInit
<1>2. Typed /\ OneSaveInv /\ [Next]_vars => OneSaveInv'
  BY OneSaveNext
<1>3. OneSaveInv => CredentialsAreOneSave
  BY DEF OneSaveInv
<1> QED BY <1>1, <1>2, <1>3, AlwaysTyped, PTL DEF Spec

-----------------------------------------------------------------------------
\* What is marked compliant was in order.
Clean(i) == i.status = "compliant" => i.clean

LEMMA S3ItemsAreClean == \A i \in S3Items : Clean(i)
<1>0. SUFFICES ASSUME NEW B \in SUBSET Bucket, Derive(S3Evidence(B)) = "compliant",
                      NEW b \in B
               PROVE  b = "encrypted"
  <2>1. TAKE i \in S3Items
  <2>2. PICK B \in SUBSET Bucket :
          i = [status |-> Derive(S3Evidence(B)), clean |-> B \subseteq {"encrypted"}]
    BY DEF S3Items
  <2>3. i.status = Derive(S3Evidence(B)) /\ i.clean = (B \subseteq {"encrypted"})
    BY <2>2
  <2> QED BY <1>0, <2>3 DEF Clean
<1>1. "error" \notin S3Evidence(B).markers /\ "non_compliant" \notin S3Evidence(B).markers
  BY <1>0 DEF Derive
<1>2. b \in {"encrypted", "open", "unreadable"}
  BY DEF Bucket
<1>3. (CASE b = "encrypted" -> "compliant" [] b = "open" -> "non_compliant"
         [] b = "unreadable" -> "error") \in S3Evidence(B).markers
  BY <1>2 DEF S3Evidence
<1> QED BY <1>1, <1>2, <1>3

LEMMA IamItemsAreClean == \A i \in IamItems : Clean(i)
<1>0. SUFFICES ASSUME NEW P \in SUBSET Policy, Derive(IamEvidence(P)) = "compliant",
                      NEW p \in P
               PROVE  p \in {"narrow", "wideAlone", "serviceAlone"}
  <2>1. TAKE i \in IamItems
  <2>2. PICK P \in SUBSET Policy :
          i = [status |-> Derive(IamEvidence(P)),
               clean |-> P \subseteq {"narrow", "wideAlone", "serviceAlone"}]
    BY DEF IamItems
  <2>3. i.status = Derive(IamEvidence(P)) /\ i.clean = (P \subseteq {"narrow", "wideAlone", "serviceAlone"})
    BY <2>2
  <2> QED BY <1>0, <2>3 DEF Clean
<1>1. "error" \notin IamEvidence(P).markers /\ "non_compliant" \notin IamEvidence(P).markers
  BY <1>0 DEF Derive
<1>2. (CASE p = "wide" -> "non_compliant" [] p = "unreadable" -> "error"
         [] p \notin {"wide", "unreadable"} -> "compliant") \in IamEvidence(P).markers
  BY DEF IamEvidence
<1>3. p \in {"narrow", "wide", "wideAlone", "serviceAlone", "unreadable"}
  BY DEF Policy
<1> QED BY <1>1, <1>2, <1>3

LEMMA CleanStored ==
  ASSUME Typed, CompliantMeansClean, NEW c \in Call, call[c].phase = "collecting",
         NEW status, NEW items, \A i \in items : Clean(i),
         collection' = Stored(call[c].id, [user |-> call[c].user, status |-> status,
                                           items |-> items])
  PROVE  CompliantMeansClean'
<1> DEFINE b == [user |-> call[c].user, status |-> status, items |-> items]
<1>1. \A i \in b.items : Clean(i)
  OBVIOUS
<1>2. collection' = Stored(call[c].id, b)
  OBVIOUS
<1> HIDE DEF b
<1>3. \A s \in Second : collection'[s] = collection[s] \/ collection'[s] = b
  BY <1>2 DEF Stored, Typed
<1> QED BY <1>1, <1>3 DEF CompliantMeansClean, Clean

(***************************************************************************)
(* derive_evidence_item_status never marks as compliant what the           *)
(* collectors found open or could not read, whatever buckets and policies  *)
(* the AWS account holds and whichever collector fails.                    *)
(***************************************************************************)
THEOREM NothingFabricated ==
  ASSUME MaxSecond \in Nat
  PROVE  Spec => []CompliantMeansClean
<1>1. Init => CompliantMeansClean
  BY DEF Init, CompliantMeansClean
<1>2. ASSUME Typed, CompliantMeansClean, [Next]_vars
      PROVE  CompliantMeansClean'
  <2>0. ASSUME UNCHANGED collection PROVE CompliantMeansClean'
    BY <1>2, <2>0 DEF CompliantMeansClean
  <2>1. ASSUME NEW c \in Call, CollectNothing(c)
        PROVE  CompliantMeansClean'
    BY <1>2, <2>1, CleanStored DEF CollectNothing
  <2>2. ASSUME NEW c \in Call, NEW status, NEW items, \A i \in items : Clean(i),
               CollectFinds(c, status, items)
        PROVE  CompliantMeansClean'
    BY <1>2, <2>2, CleanStored DEF CollectFinds
  <2>3. ASSUME NEW c \in Call, NEW u, NEW v,
               \/ Delete(c, u) \/ Collect(c, u) \/ Save(c, u, v)
               \/ SaveCommit(c) \/ CollectFails(c)
        PROVE  CompliantMeansClean'
    BY <2>3, <2>0 DEF Delete, Collect, Save, SaveCommit, CollectFails
  <2>4. ASSUME NEW k, Restart(k) \/ Tick
        PROVE  CompliantMeansClean'
    BY <2>4, <2>0 DEF Restart, Tick
  <2>5. ASSUME NEW c \in Call, NEW s3 \in S3Items, NEW iam \in IamItems,
               \/ CollectFinds(c, "success", {s3, iam})
               \/ \E item \in {s3, iam} : CollectFinds(c, "partial_failure", {item})
        PROVE  CompliantMeansClean'
    <3>1. \A i \in {s3, iam} : Clean(i)
      BY S3ItemsAreClean, IamItemsAreClean
    <3> QED BY <2>5, <2>2, <3>1
  <2>6. CASE UNCHANGED vars
    BY <2>0, <2>6 DEF vars
  <2> QED BY <1>2, <2>1, <2>3, <2>4, <2>5, <2>6 DEF Next
<1> QED BY <1>1, <1>2, AlwaysTyped, PTL DEF Spec

-----------------------------------------------------------------------------
\* The store that is scored, and the evaluations of the server.
-----------------------------------------------------------------------------
\* Division and rounding.

\* A quotient and a remainder are what the provers need to know of a division.
LEMMA DivMod ==
  ASSUME NEW n \in Nat, NEW d \in Nat \ {0}
  PROVE  /\ n \div d \in Nat
         /\ n % d \in Nat
         /\ n % d < d
         /\ n = (n \div d) * d + (n % d)
<1>1. n % d \in 0..(d - 1)
  OBVIOUS
<1>2. n = d * (n \div d) + (n % d)
  OBVIOUS
<1>3. n \div d \in Int
  OBVIOUS
<1>4. n \div d >= 0
  <2> DEFINE x == n \div d
  <2> HIDE DEF x
  <2>1. x <= -1 => d * x <= -d
    BY <1>3 DEF x
  <2> QED BY <1>1, <1>2, <1>3, <2>1 DEF x
<1>5. d * (n \div d) = (n \div d) * d
  <2> DEFINE x == n \div d
  <2> HIDE DEF x
  <2>1. d * x = x * d BY <1>3 DEF x
  <2> QED BY <2>1 DEF x
<1> QED BY <1>1, <1>2, <1>3, <1>4, <1>5

LEMMA Times ==
  ASSUME NEW a \in Int, NEW b \in Int, NEW d \in Nat, a <= b
  PROVE  a * d <= b * d
<1>1. b - a \in Nat /\ b = a + (b - a)
  OBVIOUS
<1>2. \A k \in Nat : k * d >= 0
  OBVIOUS
<1>3. b * d = a * d + (b - a) * d
  OBVIOUS
<1>4. a * d \in Int /\ b * d \in Int /\ (b - a) * d \in Int
  OBVIOUS
<1> QED BY <1>1, <1>2, <1>3, <1>4

\* A quotient between two multiples of the divisor.
LEMMA Between ==
  ASSUME NEW n \in Nat, NEW d \in Nat \ {0}, NEW q \in Nat, NEW r \in Int,
         n = q * d + r, 0 <= r, r < d
  PROVE  n \div d = q /\ n % d = r
<1> DEFINE p == n \div d
           s == n % d
<1>1. p \in Nat /\ s \in Nat /\ s < d /\ n = p * d + s
  BY DivMod
<1> HIDE DEF p, s
<1> q * d \in Int /\ p * d \in Int /\ (q + 1) * d = q * d + d /\ (p + 1) * d = p * d + d
  BY <1>1
<1>2. ~(p < q)
  <2> SUFFICES ASSUME p + 1 <= q PROVE FALSE
    BY <1>1
  <2>1. (p + 1) * d <= q * d
    BY <1>1, Times
  <2> QED BY <2>1, <1>1
<1>3. ~(q < p)
  <2> SUFFICES ASSUME q + 1 <= p PROVE FALSE
    BY <1>1
  <2>1. (q + 1) * d <= p * d
    BY <1>1, Times
  <2> QED BY <2>1, <1>1
<1>4. p = q
  BY <1>1, <1>2, <1>3
<1>5. s = r
  BY <1>1, <1>4
<1> QED BY <1>4, <1>5 DEF p, s

\* A larger numerator never rounds to less.
LEMMA RoundsMonotone ==
  ASSUME NEW m \in Nat, NEW n \in Nat, NEW d \in Nat \ {0}, m <= n
  PROVE  /\ RoundHalfEven(m, d) \in Nat
         /\ RoundHalfEven(n, d) \in Nat
         /\ RoundHalfEven(m, d) <= RoundHalfEven(n, d)
<1> DEFINE p == m \div d
           q == n \div d
           r == m % d
           s == n % d
           Up(a, b) == 2 * b > d \/ (2 * b = d /\ a % 2 = 1)
<1>1. /\ p \in Nat /\ r \in Nat /\ r < d /\ m = p * d + r
      /\ q \in Nat /\ s \in Nat /\ s < d /\ n = q * d + s
  BY DivMod
<1>2. /\ RoundHalfEven(m, d) = IF Up(p, r) THEN p + 1 ELSE p
      /\ RoundHalfEven(n, d) = IF Up(q, s) THEN q + 1 ELSE q
  BY DEF RoundHalfEven
<1> HIDE DEF p, q, r, s
<1>3. p <= q
  <2> SUFFICES ASSUME q + 1 <= p PROVE FALSE
    BY <1>1
  <2>1. (q + 1) * d <= p * d
    BY <1>1, Times
  <2>2. (q + 1) * d = q * d + d /\ q * d \in Int /\ p * d \in Int
    BY <1>1
  <2> QED BY <2>1, <2>2, <1>1
<1>4. CASE p = q
  <2>1. r <= s
    <3>1. p * d \in Int /\ p * d = q * d BY <1>4, <1>1
    <3> QED BY <3>1, <1>1
  <2>2. Up(p, r) => Up(q, s)
    <3>1. p % 2 \in Int BY <1>1
    <3> QED BY <2>1, <1>4, <1>1, <3>1
  <2> QED BY <2>2, <1>2, <1>4, <1>1
<1>5. CASE p < q
  <2> HIDE DEF Up
  <2>1. RoundHalfEven(m, d) \in Nat /\ RoundHalfEven(m, d) <= p + 1
    BY <1>1, <1>2
  <2>2. RoundHalfEven(n, d) \in Nat /\ RoundHalfEven(n, d) >= q
    BY <1>1, <1>2
  <2> QED BY <2>1, <2>2, <1>5, <1>1
<1> QED BY <1>3, <1>4, <1>5, <1>1

\* The two ways of rounding differ only at a half.
LEMMA RoundsAlike ==
  ASSUME NEW n \in Nat, NEW d \in Nat \ {0}, 2 * (n % d) # d
  PROVE  RoundHalfEven(n, d) = RoundHalfUp(n, d)
<1> DEFINE q == n \div d
           r == n % d
           e == 2 * d
<1>1. q \in Nat /\ r \in Nat /\ r < d /\ n = q * d + r
  BY DivMod
<1>2. RoundHalfEven(n, d) = IF 2 * r > d THEN q + 1 ELSE q
  BY DEF RoundHalfEven
<1>3. RoundHalfUp(n, d) = (2 * n + d) \div e
  BY DEF RoundHalfUp
<1>4. 2 * r # d
  OBVIOUS
<1> HIDE DEF q, r
<1>5. q * d \in Int /\ q * e = 2 * (q * d) /\ (q + 1) * e = 2 * (q * d) + 2 * d
  BY <1>1
<1>6. e \in Nat \ {0} /\ 2 * n + d \in Nat
  OBVIOUS
<1>7. CASE 2 * r > d
  <2>1. 2 * n + d = (q + 1) * e + (2 * r - d)
    BY <1>1, <1>5
  <2>2. 0 <= 2 * r - d /\ 2 * r - d < e /\ 2 * r - d \in Int /\ q + 1 \in Nat
    BY <1>1, <1>7
  <2> HIDE DEF e
  <2>3. (2 * n + d) \div e = q + 1
    BY <2>1, <2>2, <1>6, Between
  <2> QED BY <2>3, <1>2, <1>3, <1>7
<1>8. CASE 2 * r < d
  <2>1. 2 * n + d = q * e + (2 * r + d)
    BY <1>1, <1>5
  <2>2. 0 <= 2 * r + d /\ 2 * r + d < e /\ 2 * r + d \in Int
    BY <1>1, <1>8
  <2> HIDE DEF e
  <2>3. (2 * n + d) \div e = q
    BY <2>1, <2>2, <1>1, <1>6, Between
  <2>4. ~(2 * r > d)
    BY <1>1, <1>8
  <2> QED BY <2>3, <2>4, <1>2, <1>3
<1> QED BY <1>1, <1>4, <1>7, <1>8

\* The square of an odd number is one more than a multiple of eight.
LEMMA OddSquare ==
  ASSUME NEW q \in Nat, NEW o \in Int, o = 2 * q + 1
  PROVE  \E t \in Int : o * o = 8 * t + 1
<1>1. PICK h \in Int : q = 2 * h \/ q = 2 * h + 1
  <2>1. q \div 2 \in Int /\ (q = 2 * (q \div 2) \/ q = 2 * (q \div 2) + 1)
    OBVIOUS
  <2> QED BY <2>1
<1>2. h * h \in Int
  OBVIOUS
<1>3. CASE q = 2 * h
  <2> DEFINE t == 2 * (h * h) + h
  <2>1. o * o = 8 * t + 1 /\ t \in Int
    BY <1>3, <1>2
  <2> HIDE DEF t
  <2> QED BY <2>1
<1>4. CASE q = 2 * h + 1
  <2> DEFINE t == 2 * (h * h) + 3 * h + 1
  <2>1. o * o = 8 * t + 1 /\ t \in Int
    BY <1>4, <1>2
  <2> HIDE DEF t
  <2> QED BY <2>1
<1> QED BY <1>1, <1>3, <1>4

\* Hundred times a number over d is a half only when eight divides d; when the
\* number is even, only when sixteen does.
LEMMA NoHalf ==
  ASSUME NEW k \in Nat, NEW d \in Nat \ {0}, 2 * ((100 * k) % d) = d
  PROVE  d % 8 = 0 /\ (k % 2 = 0 => d % 16 = 0)
<1> DEFINE q == (100 * k) \div d
           r == (100 * k) % d
           c == 25 * k
           o == 2 * q + 1
<1>1. q \in Nat /\ r \in Nat /\ 100 * k = q * d + r
  BY DivMod
<1>2. 2 * r = d
  OBVIOUS
<1> HIDE DEF q, r
<1>3. d * o = 8 * c
  <2>1. d * (2 * q + 1) = 2 * (q * d) + d /\ q * d \in Int
    BY <1>1
  <2> QED BY <2>1, <1>1, <1>2
<1>4. c \in Int /\ o \in Int
  BY <1>1
<1>5. PICK t \in Int : o * o = 8 * t + 1
  BY <1>1, <1>4, OddSquare
<1> HIDE DEF c, o
<1> DEFINE e == c * o - d * t
<1>6. d = 8 * e /\ e \in Int
  <2>1. (d * o) * o = 8 * (c * o)
    BY <1>3, <1>4
  <2>2. (d * o) * o = d * (o * o)
    BY <1>4
  <2>3. d * (o * o) = 8 * (d * t) + d
    BY <1>5
  <2>4. c * o \in Int /\ d * t \in Int
    BY <1>4
  <2> QED BY <2>1, <2>2, <2>3, <2>4
<1>7. d % 8 = 0
  <2> HIDE DEF e
  <2> QED BY <1>6
<1>8. ASSUME k % 2 = 0 PROVE d % 16 = 0
  <2>1. PICK h \in Int : c = 2 * h
    <3>1. k = 2 * (k \div 2) /\ k \div 2 \in Int
      BY <1>8
    <3>2. c = 2 * (25 * (k \div 2))
      BY <3>1 DEF c
    <3> QED BY <3>1, <3>2
  <2>2. d * t = 8 * (e * t) /\ e * t \in Int
    <3> HIDE DEF e
    <3> QED BY <1>6
  <2>3. c * o = 2 * (h * o) /\ h * o \in Int
    BY <2>1, <1>4
  <2>4. e = 2 * (h * o - 4 * (e * t))
    BY <2>2, <2>3
  <2> HIDE DEF e
  <2>5. d = 16 * (h * o - 4 * (e * t)) /\ h * o - 4 * (e * t) \in Int
    BY <2>2, <2>3, <2>4, <1>6
  <2> QED BY <2>5
<1> QED BY <1>7, <1>8
-----------------------------------------------------------------------------
\* Sums.

\* The element a sum takes first.
One(s) == CHOOSE x \in s : TRUE

\* it[s] is the sum of the scores over s, for every set s of D.
IsSum(it, results, D) ==
  it = [s \in D |-> IF s = {} THEN 0 ELSE results[One(s)].score + it[s \ {One(s)}]]

\* Induction, for a set of numbers.
LEMMA NumbersBelow ==
  ASSUME NEW T, 0 \in T, \A n \in Nat : n \in T => n + 1 \in T
  PROVE  Nat \subseteq T
<1> DEFINE R == OpToRel(<, Nat)
<1> SUFFICES ASSUME Nat \ T # {} PROVE FALSE
  OBVIOUS
<1>1. IsWellFoundedOn(R, Nat)
  BY NatLessThanWellFounded
<1>2. PICK m \in Nat \ T : \A y \in Nat \ T : <<y, m>> \notin R
  <2> HIDE DEF R
  <2> QED BY <1>1, WFMin
<1> HIDE DEF R
<1>3. m \in Nat /\ m # 0
  BY <1>2
<1>4. m - 1 \in Nat /\ m = (m - 1) + 1 /\ m - 1 < m
  BY <1>3
<1>5. m - 1 \in T
  <2>1. <<m - 1, m>> \in R
    BY <1>3, <1>4 DEF R, OpToRel
  <2> QED BY <2>1, <1>2, <1>4
<1>6. m \in T
  BY <1>4, <1>5
<1> QED BY <1>2, <1>6

LEMMA NotEmpty ==
  ASSUME NEW s, NEW n \in Nat, Cardinality(s) = n + 1
  PROVE  s # {}
BY FS_EmptySet

LEMMA OneLess ==
  ASSUME NEW S, IsFiniteSet(S), NEW s \in SUBSET S, s # {}
  PROVE  /\ One(s) \in s
         /\ s \ {One(s)} \in SUBSET S
         /\ Cardinality(s) \in Nat \ {0}
         /\ Cardinality(s \ {One(s)}) = Cardinality(s) - 1
<1>1. IsFiniteSet(s) /\ One(s) \in s
  BY FS_Subset DEF One
<1>2. Cardinality(s) \in Nat /\ Cardinality(s) # 0
  BY <1>1, FS_CardinalityType, FS_EmptySet
<1>3. Cardinality(s \ {One(s)}) = Cardinality(s) - 1
  BY <1>1, FS_RemoveElement
<1> QED BY <1>1, <1>2, <1>3

\* The function by which the sum over the subsets of a finite set is defined
\* exists: it is built up by the number of elements.
LEMMA SumExists ==
  ASSUME NEW S, IsFiniteSet(S), NEW results
  PROVE  \E it : IsSum(it, results, SUBSET S)
<1> DEFINE D(n) == {s \in SUBSET S : Cardinality(s) <= n}
           T == {n \in Nat : \E it : IsSum(it, results, D(n))}
<1>0. \A s \in SUBSET S : Cardinality(s) \in Nat /\ Cardinality(s) <= Cardinality(S) /\ (Cardinality(s) = 0 <=> s = {})
  BY FS_Subset, FS_CardinalityType, FS_EmptySet
<1>1. 0 \in T
  <2>1. \A s \in D(0) : s = {}
    BY <1>0
  <2> DEFINE it == [s \in D(0) |-> 0]
  <2>2. IsSum(it, results, D(0))
    BY <2>1 DEF IsSum
  <2> QED BY <2>2
<1>2. ASSUME NEW n \in Nat, n \in T PROVE n + 1 \in T
  <2>1. PICK it : IsSum(it, results, D(n))
    BY <1>2
  <2> DEFINE more == [s \in D(n + 1) |-> IF s \in D(n) THEN it[s] ELSE results[One(s)].score + it[s \ {One(s)}]]
  <2>2. ASSUME NEW s \in D(n + 1)
        PROVE  more[s] = IF s = {} THEN 0 ELSE results[One(s)].score + more[s \ {One(s)}]
    <3>1. CASE s = {}
      <4>1. s \in D(n) BY <3>1, <1>0
      <4>2. it[s] = 0 BY <4>1, <3>1, <2>1 DEF IsSum
      <4> QED BY <4>1, <4>2, <3>1
    <3>2. CASE s # {}
      <4>1. s \ {One(s)} \in D(n) /\ s \ {One(s)} \in D(n + 1)
        <5>1. s \in SUBSET S /\ Cardinality(s) \in Nat /\ Cardinality(s) <= n + 1
          BY <1>0
        <5>2. /\ s \ {One(s)} \in SUBSET S
              /\ Cardinality(s \ {One(s)}) = Cardinality(s) - 1
          BY <5>1, <3>2, OneLess
        <5> QED BY <5>1, <5>2
      <4>2. more[s \ {One(s)}] = it[s \ {One(s)}]
        BY <4>1
      <4>3. CASE s \in D(n)
        <5>1. it[s] = results[One(s)].score + it[s \ {One(s)}]
          BY <4>3, <3>2, <2>1 DEF IsSum
        <5>2. more[s] = it[s] BY <4>3
        <5> HIDE DEF more
        <5> QED BY <5>1, <5>2, <4>2, <3>2
      <4>4. CASE s \notin D(n)
        <5>1. more[s] = results[One(s)].score + it[s \ {One(s)}]
          BY <4>4
        <5> HIDE DEF more
        <5> QED BY <5>1, <4>2, <3>2
      <4> QED BY <4>3, <4>4
    <3> QED BY <3>1, <3>2
  <2>3. more = [s \in D(n + 1) |-> more[s]] OBVIOUS
  <2>4. IsSum(more, results, D(n + 1))
    <3> HIDE DEF more, D
    <3> QED BY <2>2, <2>3 DEF IsSum
  <2> HIDE DEF more, D
  <2> QED BY <2>4
<1>3. Cardinality(S) \in T
  <2> HIDE DEF T
  <2> QED BY <1>1, <1>2, NumbersBelow, FS_CardinalityType
<1>4. D(Cardinality(S)) = SUBSET S
  BY <1>0
<1> QED BY <1>3, <1>4

LEMMA SumUnfolds ==
  ASSUME NEW results, NEW S, IsFiniteSet(S)
  PROVE  \E it : IsSum(it, results, SUBSET S) /\ ScoreSum(results, S) = it[S]
<1> DEFINE it == CHOOSE it : IsSum(it, results, SUBSET S)
<1>1. IsSum(it, results, SUBSET S)
  BY SumExists
<1>2. ScoreSum(results, S) = it[S]
  BY DEF ScoreSum, MapThenSumSet, MapThenFoldSet, IsSum, One
<1> HIDE DEF it
<1> QED BY <1>1, <1>2

\* Sums of numbers are numbers, and term by term larger ones are larger.
LEMMA SumsCompare ==
  ASSUME NEW S, IsFiniteSet(S), NEW g, NEW h,
         \A x \in S : g[x].score \in Nat /\ h[x].score \in Nat /\ g[x].score <= h[x].score
  PROVE  /\ ScoreSum(g, S) \in Nat
         /\ ScoreSum(h, S) \in Nat
         /\ ScoreSum(g, S) <= ScoreSum(h, S)
<1>1. PICK a : IsSum(a, g, SUBSET S) /\ ScoreSum(g, S) = a[S]
  BY SumUnfolds
<1>2. PICK b : IsSum(b, h, SUBSET S) /\ ScoreSum(h, S) = b[S]
  BY SumUnfolds
<1> DEFINE T == {n \in Nat : \A s \in SUBSET S : Cardinality(s) = n =>
                   a[s] \in Nat /\ b[s] \in Nat /\ a[s] <= b[s]}
<1>3. 0 \in T
  <2>1. \A s \in SUBSET S : Cardinality(s) = 0 => s = {}
    BY FS_Subset, FS_EmptySet
  <2>2. a[{}] = 0 /\ b[{}] = 0
    BY <1>1, <1>2 DEF IsSum
  <2> QED BY <2>1, <2>2
<1>4. ASSUME NEW n \in Nat, n \in T PROVE n + 1 \in T
  <2> SUFFICES ASSUME NEW s \in SUBSET S, Cardinality(s) = n + 1
               PROVE  a[s] \in Nat /\ b[s] \in Nat /\ a[s] <= b[s]
    OBVIOUS
  <2>1. s # {}
    BY NotEmpty
  <2> DEFINE r == s \ {One(s)}
  <2>2. One(s) \in S /\ r \in SUBSET S /\ Cardinality(r) = n
    BY <2>1, OneLess
  <2>3. a[r] \in Nat /\ b[r] \in Nat /\ a[r] <= b[r]
    BY <2>2, <1>4
  <2>4. a[s] = g[One(s)].score + a[r] /\ b[s] = h[One(s)].score + b[r]
    BY <2>1, <1>1, <1>2 DEF IsSum
  <2> HIDE DEF r
  <2>5. /\ g[One(s)].score \in Nat /\ h[One(s)].score \in Nat
        /\ g[One(s)].score <= h[One(s)].score
    BY <2>2
  <2> QED BY <2>3, <2>4, <2>5
<1>5. Cardinality(S) \in T
  <2> HIDE DEF T
  <2> QED BY <1>3, <1>4, NumbersBelow, FS_CardinalityType
<1> HIDE DEF T
<1>6. S \in SUBSET S /\ Cardinality(S) = Cardinality(S)
  OBVIOUS
<1>7. a[S] \in Nat /\ b[S] \in Nat /\ a[S] <= b[S]
  BY <1>5, <1>6 DEF T
<1> QED BY <1>1, <1>2, <1>7

\* A sum of even numbers is even.
LEMMA SumsEven ==
  ASSUME NEW S, IsFiniteSet(S), NEW results,
         \A x \in S : results[x].score \in Nat /\ results[x].score % 2 = 0
  PROVE  ScoreSum(results, S) % 2 = 0
<1>1. PICK a : IsSum(a, results, SUBSET S) /\ ScoreSum(results, S) = a[S]
  BY SumUnfolds
<1> DEFINE T == {n \in Nat : \A s \in SUBSET S : Cardinality(s) = n => a[s] \in Nat /\ a[s] % 2 = 0}
<1>3. 0 \in T
  <2>1. \A s \in SUBSET S : Cardinality(s) = 0 => s = {}
    BY FS_Subset, FS_EmptySet
  <2>2. a[{}] = 0
    BY <1>1 DEF IsSum
  <2> QED BY <2>1, <2>2
<1>4. ASSUME NEW n \in Nat, n \in T PROVE n + 1 \in T
  <2> SUFFICES ASSUME NEW s \in SUBSET S, Cardinality(s) = n + 1
               PROVE  a[s] \in Nat /\ a[s] % 2 = 0
    OBVIOUS
  <2>1. s # {}
    BY NotEmpty
  <2> DEFINE r == s \ {One(s)}
  <2>2. One(s) \in S /\ r \in SUBSET S /\ Cardinality(r) = n
    BY <2>1, OneLess
  <2>3. a[r] \in Nat /\ a[r] % 2 = 0
    BY <2>2, <1>4
  <2>4. a[s] = results[One(s)].score + a[r]
    BY <2>1, <1>1 DEF IsSum
  <2> HIDE DEF r
  <2>5. results[One(s)].score \in Nat /\ results[One(s)].score % 2 = 0
    BY <2>2
  <2> QED BY <2>3, <2>4, <2>5
<1>5. Cardinality(S) \in T
  <2> HIDE DEF T
  <2> QED BY <1>3, <1>4, NumbersBelow, FS_CardinalityType
<1> HIDE DEF T
<1>6. S \in SUBSET S /\ Cardinality(S) = Cardinality(S)
  OBVIOUS
<1> QED BY <1>1, <1>5, <1>6 DEF T

-----------------------------------------------------------------------------
\* The engines.

\* The statuses the engines give.
Canonical == {"not_assessed", "non_compliant", "partial", "compliant"}

\* The result of each control.
Results(controls, present, engine) ==
  [id \in DOMAIN controls |-> ControlResult(controls[id], present, engine)]

\* A control's result is a status the engines know and a score that is a number.
LEMMA ResultTypes ==
  ASSUME NEW control, IsFiniteSet(control.required), NEW present
  PROVE  LET r == ControlResult(control, present, "server")
         IN /\ r.score \in Nat
            /\ r.status \in Canonical
<1> DEFINE k == Cardinality(control.required \intersect present)
           n == Cardinality(control.required)
<1>1. k \in Nat /\ n \in Nat
  BY FS_Intersection, FS_CardinalityType
<1>2. n # 0 => RoundHalfEven(100 * k, n) \in Nat
  <2> HIDE DEF k, n
  <2> QED BY <1>1, RoundsMonotone
<1>3. CoverageStatus(k, n) \in Canonical
  BY DEF CoverageStatus, Canonical
<1> QED BY <1>2, <1>3 DEF ControlResult, Rounded, Canonical

\* More of the types a control requires never make its result worse.
LEMMA ResultsGrow ==
  ASSUME NEW control, IsFiniteSet(control.required), NEW p, NEW q, p \subseteq q
  PROVE  LET b == ControlResult(control, p, "server")
             a == ControlResult(control, q, "server")
         IN /\ b.score <= a.score
            /\ StatusRank[b.status] <= StatusRank[a.status]
<1> DEFINE P == control.required \intersect p
           Q == control.required \intersect q
           k == Cardinality(P)
           l == Cardinality(Q)
           n == Cardinality(control.required)
<1>1. k \in Nat /\ l \in Nat /\ n \in Nat /\ k <= l
  <2>1. IsFiniteSet(Q) /\ IsFiniteSet(P) /\ P \in SUBSET Q
    BY FS_Intersection
  <2> HIDE DEF P, Q
  <2> QED BY <2>1, FS_Subset, FS_CardinalityType
<1>2. Gated(control, Q) => Gated(control, P)
  BY DEF Gated
<1>3. n # 0 => RoundHalfEven(100 * k, n) <= RoundHalfEven(100 * l, n)
  <2> HIDE DEF k, l, n
  <2>1. 100 * k \in Nat /\ 100 * l \in Nat /\ 100 * k <= 100 * l
    BY <1>1
  <2> QED BY <1>1, <2>1, RoundsMonotone
<1>4. StatusRank[CoverageStatus(k, n)] <= StatusRank[CoverageStatus(l, n)]
  <2> HIDE DEF k, l, n
  <2> QED BY <1>1 DEF StatusRank, CoverageStatus
<1>5. StatusRank["not_assessed"] <= StatusRank[CoverageStatus(l, n)]
  <2> HIDE DEF k, l, n
  <2> QED BY <1>1 DEF StatusRank, CoverageStatus
<1>6. StatusRank["not_assessed"] <= StatusRank["not_assessed"]
  BY DEF StatusRank
<1> HIDE DEF k, l, n
<1>7. /\ ControlResult(control, p, "server").score = IF n = 0 THEN 0 ELSE RoundHalfEven(100 * k, n)
      /\ ControlResult(control, q, "server").score = IF n = 0 THEN 0 ELSE RoundHalfEven(100 * l, n)
  BY DEF ControlResult, Rounded, k, l, n
<1>8. /\ ControlResult(control, p, "server").status =
           IF Gated(control, P) THEN "not_assessed" ELSE CoverageStatus(k, n)
      /\ ControlResult(control, q, "server").status =
           IF Gated(control, Q) THEN "not_assessed" ELSE CoverageStatus(l, n)
  BY DEF ControlResult, k, l, n
<1> HIDE DEF P, Q
<1> QED BY <1>2, <1>3, <1>4, <1>5, <1>6, <1>7, <1>8

\* The overall status follows the controls: no control worse, none worse overall.
LEMMA OverallGrows ==
  ASSUME NEW S, IsFiniteSet(S), NEW b, NEW a, DOMAIN b = S, DOMAIN a = S,
         \A id \in S : /\ b[id].score \in Nat /\ a[id].score \in Nat
                       /\ b[id].score <= a[id].score
                       /\ a[id].status \in Canonical
                       /\ b[id].status \in Canonical
                       /\ StatusRank[b[id].status] <= StatusRank[a[id].status]
  PROVE  /\ ScoreSum(b, S) \in Nat /\ ScoreSum(a, S) \in Nat
         /\ ScoreSum(b, S) <= ScoreSum(a, S)
         /\ StatusRank[OverallStatus(b)] <= StatusRank[OverallStatus(a)]
<1> DEFINE n == Cardinality(S)
<1>1. n \in Nat
  BY FS_CardinalityType
<1>2. ScoreSum(b, S) \in Nat /\ ScoreSum(a, S) \in Nat /\ ScoreSum(b, S) <= ScoreSum(a, S)
  BY SumsCompare
<1> HIDE DEF n
<1>3. (\A id \in S : a[id].status = "not_assessed") => (\A id \in S : b[id].status = "not_assessed")
  BY DEF StatusRank, Canonical
<1> DEFINE Settled(sum) == IF sum >= 90 * n THEN "compliant" ELSE IF sum >= 70 * n THEN "partial"
                           ELSE "non_compliant"
<1>4. StatusRank[Settled(ScoreSum(b, S))] <= StatusRank[Settled(ScoreSum(a, S))]
  BY <1>1, <1>2 DEF StatusRank
<1>5. \A sum : StatusRank["not_assessed"] <= StatusRank[Settled(sum)]
  BY DEF StatusRank
<1>6. StatusRank["not_assessed"] <= StatusRank["not_assessed"]
  BY DEF StatusRank
<1>7. /\ OverallStatus(a) = IF \A id \in S : a[id].status = "not_assessed" THEN "not_assessed"
                            ELSE Settled(ScoreSum(a, S))
      /\ OverallStatus(b) = IF \A id \in S : b[id].status = "not_assessed" THEN "not_assessed"
                            ELSE Settled(ScoreSum(b, S))
  BY DEF OverallStatus, n
<1> HIDE DEF Settled
<1> QED BY <1>2, <1>3, <1>4, <1>5, <1>6, <1>7

\* More evidence never makes an evaluation worse.
LEMMA EvaluationsGrow ==
  ASSUME NEW controls, Controllable(controls), NEW p, NEW q, p \subseteq q
  PROVE  LET b == ServerEvaluation(controls, p)
             a == ServerEvaluation(controls, q)
         IN /\ b.sum \in Nat /\ a.sum \in Nat /\ b.sum <= a.sum
            /\ StatusRank[b.status] <= StatusRank[a.status]
            /\ DOMAIN b.controls = DOMAIN controls
            /\ \A id \in DOMAIN controls :
                 /\ b.controls[id].score <= a.controls[id].score
                 /\ StatusRank[b.controls[id].status] <= StatusRank[a.controls[id].status]
<1> DEFINE b == Results(controls, p, "server")
           a == Results(controls, q, "server")
<1>1. DOMAIN b = DOMAIN controls /\ DOMAIN a = DOMAIN controls
  BY DEF Results
<1>2. \A id \in DOMAIN controls :
        /\ b[id].score \in Nat /\ a[id].score \in Nat
        /\ b[id].score <= a[id].score
        /\ a[id].status \in Canonical
        /\ b[id].status \in Canonical
        /\ StatusRank[b[id].status] <= StatusRank[a[id].status]
  BY ResultTypes, ResultsGrow DEF Controllable, Results
<1>3. /\ ServerEvaluation(controls, p).controls = b
      /\ ServerEvaluation(controls, p).sum = ScoreSum(b, DOMAIN b)
      /\ ServerEvaluation(controls, p).status = OverallStatus(b)
  BY DEF ServerEvaluation, Evaluation, Results
<1>4. /\ ServerEvaluation(controls, q).controls = a
      /\ ServerEvaluation(controls, q).sum = ScoreSum(a, DOMAIN a)
      /\ ServerEvaluation(controls, q).status = OverallStatus(a)
  BY DEF ServerEvaluation, Evaluation, Results
<1> HIDE DEF a, b
<1>5. /\ ScoreSum(b, DOMAIN controls) \in Nat /\ ScoreSum(a, DOMAIN controls) \in Nat
      /\ ScoreSum(b, DOMAIN controls) <= ScoreSum(a, DOMAIN controls)
      /\ StatusRank[OverallStatus(b)] <= StatusRank[OverallStatus(a)]
  BY <1>1, <1>2, OverallGrows DEF Controllable
<1> QED BY <1>1, <1>2, <1>3, <1>4, <1>5

\* A share of a number of types that eight does not divide is rounded alike.
LEMMA SharesAlike ==
  ASSUME NEW k \in Nat, NEW n \in Nat \ {0}, n % 8 # 0 \/ (k % 2 = 0 /\ n % 16 # 0)
  PROVE  RoundHalfEven(100 * k, n) = RoundHalfUp(100 * k, n)
<1>1. 2 * ((100 * k) % n) # n
  BY NoHalf
<1> DEFINE m == 100 * k
<1>2. m \in Nat
  OBVIOUS
<1>3. 2 * (m % n) # n
  BY <1>1
<1> HIDE DEF m
<1>4. RoundHalfEven(m, n) = RoundHalfUp(m, n)
  BY <1>2, <1>3, RoundsAlike
<1> QED BY <1>4 DEF m

\* Of one or two types, what is there is worth 0, 50 or 100.
LEMMA EvenScores ==
  ASSUME NEW k \in Nat, NEW n \in {1, 2}
  PROVE  RoundHalfEven(100 * k, n) % 2 = 0
<1>1. CASE n = 1
  <2>1. (100 * k) \div 1 = 100 * k /\ (100 * k) % 1 = 0
    OBVIOUS
  <2>2. RoundHalfEven(100 * k, 1) = 100 * k
    BY <2>1 DEF RoundHalfEven
  <2> QED BY <1>1, <2>2
<1>2. CASE n = 2
  <2>1. (100 * k) \div 2 = 50 * k /\ (100 * k) % 2 = 0
    OBVIOUS
  <2>2. RoundHalfEven(100 * k, 2) = 50 * k
    BY <2>1 DEF RoundHalfEven
  <2> QED BY <1>2, <2>2
<1> QED BY <1>1, <1>2

\* Both engines give every control the same result.
LEMMA ResultsAlike ==
  ASSUME NEW controls, Controllable(controls), NoHalves(controls), NEW p
  PROVE  Results(controls, p, "server") = Results(controls, p, "desktop")
<1>1. ASSUME NEW id \in DOMAIN controls
      PROVE  ControlResult(controls[id], p, "server") = ControlResult(controls[id], p, "desktop")
  <2> DEFINE k == Cardinality(controls[id].required \intersect p)
             n == Cardinality(controls[id].required)
  <2>1. k \in Nat /\ n \in Nat
    BY FS_Intersection, FS_CardinalityType DEF Controllable
  <2>2. n = 0 \/ n % 8 # 0
    BY DEF NoHalves
  <2>3. n # 0 => RoundHalfEven(100 * k, n) = RoundHalfUp(100 * k, n)
    <3> HIDE DEF k, n
    <3> QED BY <2>1, <2>2, SharesAlike
  <2> QED BY <2>3 DEF ControlResult, Rounded
<1> QED BY <1>1 DEF Results

\* And every category the same score.
LEMMA CategoriesAlike ==
  ASSUME NEW controls, Controllable(controls), NoHalves(controls), NEW p
  PROVE  CategoryScores(controls, Results(controls, p, "server"), "server")
           = CategoryScores(controls, Results(controls, p, "server"), "desktop")
<1> DEFINE results == Results(controls, p, "server")
           Ids(cat) == {id \in DOMAIN controls : controls[id].category = cat}
<1>1. ASSUME NEW first \in DOMAIN controls
      PROVE  LET ids == Ids(controls[first].category)
             IN Rounded("server", 100 * ScoreSum(results, ids), Cardinality(ids))
                  = Rounded("desktop", 100 * ScoreSum(results, ids), Cardinality(ids))
  <2> DEFINE ids == Ids(controls[first].category)
             n == Cardinality(ids)
             sum == ScoreSum(results, ids)
  <2>1. IsFiniteSet(ids) /\ ids \subseteq DOMAIN controls /\ first \in ids
    BY FS_Subset DEF Controllable
  <2>2. n \in Nat \ {0}
    <3> HIDE DEF ids
    <3> QED BY <2>1, FS_CardinalityType, FS_EmptySet
  <2>3. \A id \in DOMAIN controls : results[id].score \in Nat
    BY ResultTypes DEF Controllable, Results
  <2>4. sum \in Nat
    <3> HIDE DEF ids, results
    <3>1. \A id \in ids : results[id].score \in Nat /\ results[id].score <= results[id].score
      BY <2>1, <2>3
    <3> QED BY <2>1, <3>1, SumsCompare
  <2>5. \/ n % 8 # 0
        \/ n % 16 # 0 /\ \A id \in ids : Cardinality(controls[id].required) \in {1, 2}
    BY DEF NoHalves
  <2>6. CASE \A id \in ids : Cardinality(controls[id].required) \in {1, 2}
    <3>1. ASSUME NEW id \in ids PROVE results[id].score \in Nat /\ results[id].score % 2 = 0
      <4> DEFINE k == Cardinality(controls[id].required \intersect p)
                 m == Cardinality(controls[id].required)
      <4>1. k \in Nat
        BY <2>1, FS_Intersection, FS_CardinalityType DEF Controllable
      <4>2. m \in {1, 2}
        BY <2>6
      <4>3. results[id].score = IF m = 0 THEN 0 ELSE RoundHalfEven(100 * k, m)
        BY <2>1 DEF Results, ControlResult, Rounded
      <4> HIDE DEF k, m
      <4>4. results[id].score = RoundHalfEven(100 * k, m)
        BY <4>2, <4>3
      <4>5. RoundHalfEven(100 * k, m) % 2 = 0
        BY <4>1, <4>2, EvenScores
      <4> HIDE DEF ids, results
      <4>6. results[id].score \in Nat
        BY <2>1, <2>3
      <4> QED BY <4>4, <4>5, <4>6
    <3>2. sum % 2 = 0
      <4> HIDE DEF ids, results
      <4> QED BY <2>1, <3>1, SumsEven
    <3>3. n % 16 # 0 \/ n % 8 # 0
      BY <2>5
    <3> HIDE DEF n, sum
    <3>4. RoundHalfEven(100 * sum, n) = RoundHalfUp(100 * sum, n)
      BY <2>2, <2>4, <3>2, <3>3, SharesAlike
    <3> QED BY <3>4 DEF Rounded, n, sum
  <2>7. CASE n % 8 # 0
    <3> HIDE DEF n, sum
    <3>1. RoundHalfEven(100 * sum, n) = RoundHalfUp(100 * sum, n)
      BY <2>2, <2>4, <2>7, SharesAlike
    <3> QED BY <3>1 DEF Rounded, n, sum
  <2> QED BY <2>5, <2>6, <2>7
<1> HIDE DEF results
<1>2. CategoryScores(controls, results, "server") = CategoryScores(controls, results, "desktop")
  <2> DEFINE F(e) == [cat \in {controls[id].category : id \in DOMAIN controls} |->
                        Rounded(e, 100 * ScoreSum(results, Ids(cat)), Cardinality(Ids(cat)))]
  <2>1. F("server") = F("desktop")
    BY <1>1
  <2> QED BY <2>1 DEF CategoryScores
<1> QED BY <1>2 DEF results

\* The two engines answer alike.
LEMMA EvaluationsAlike ==
  ASSUME NEW controls, Controllable(controls), NoHalves(controls), NEW p
  PROVE  ServerEvaluation(controls, p) = DesktopEvaluation(controls, p)
<1> DEFINE results == Results(controls, p, "server")
<1>1. results = Results(controls, p, "desktop")
  BY ResultsAlike
<1>2. CategoryScores(controls, results, "server") = CategoryScores(controls, results, "desktop")
  BY CategoriesAlike
<1>3. ServerEvaluation(controls, p) =
        [controls |-> results, sum |-> ScoreSum(results, DOMAIN results),
         status |-> OverallStatus(results),
         categories |-> CategoryScores(controls, results, "server")]
  BY DEF ServerEvaluation, Evaluation, Results
<1>4. DesktopEvaluation(controls, p) =
        [controls |-> Results(controls, p, "desktop"),
         sum |-> ScoreSum(Results(controls, p, "desktop"), DOMAIN Results(controls, p, "desktop")),
         status |-> OverallStatus(Results(controls, p, "desktop")),
         categories |-> CategoryScores(controls, Results(controls, p, "desktop"), "desktop")]
  BY DEF DesktopEvaluation, Evaluation, Results
<1> HIDE DEF results
<1> QED BY <1>1, <1>2, <1>3, <1>4

-----------------------------------------------------------------------------
\* The vocabulary.

\* The entries of the vocabulary that stand for what the collectors file.
LEMMA Listed ==
  /\ DOMAIN Vocabulary = 1..13
  /\ Vocabulary[4].type = "encryption_policies" /\ "s3_encryption" \in Vocabulary[4].aliases
  /\ Vocabulary[5].type = "event_logs" /\ Vocabulary[5].collectors # {}
  /\ Vocabulary[6].type = "firewall_configs" /\ Vocabulary[6].collectors # {}
  /\ Vocabulary[8].type = "network_configs" /\ Vocabulary[8].collectors # {}
  /\ Vocabulary[10].type = "security_policies" /\ Vocabulary[10].collectors # {}
  /\ Vocabulary[11].type = "system_configs" /\ Vocabulary[11].collectors # {}
  /\ Vocabulary[13].type = "user_provisioning" /\ Vocabulary[13].collectors # {}
BY DEF Vocabulary, Endpoints

\* "s3_encryption" and "iam_policy" are older names, each of one entry.
LEMMA OlderNames ==
  \A i \in 1..13 :
    /\ Vocabulary[i].type # "s3_encryption" /\ Vocabulary[i].type # "iam_policy"
    /\ "s3_encryption" \in Vocabulary[i].aliases <=> i = 4
    /\ "iam_policy" \in Vocabulary[i].aliases <=> i = 13
BY DEF Vocabulary, Endpoints

LEMMA LeastNumber ==
  ASSUME NEW S \in SUBSET Nat, S # {}
  PROVE  Min(S) \in S /\ \A x \in S : Min(S) <= x
<1> DEFINE R == OpToRel(<, Nat)
<1>1. IsWellFoundedOn(R, Nat)
  BY NatLessThanWellFounded
<1>2. PICK m \in S : \A x \in S : <<x, m>> \notin R
  <2> HIDE DEF R
  <2> QED BY <1>1, WFMin
<1>3. \A x \in S : m <= x
  <2> SUFFICES ASSUME NEW x \in S, x < m PROVE FALSE
    OBVIOUS
  <2>1. <<x, m>> \in R
    BY DEF OpToRel
  <2> QED BY <2>1, <1>2
<1> QED BY <1>3 DEF Min

\* What a type is translated into is translated into itself.
LEMMA CanonicalStays ==
  ASSUME NEW types, NEW t \in Translate(types)
  PROVE  ToCanonical(t) = t
<1>1. PICK u \in types : t = ToCanonical(u) /\ t # Unknown
  BY DEF Translate
<1>2. CASE u \in CanonicalTypes
  BY <1>1, <1>2 DEF ToCanonical
<1>3. CASE u \notin CanonicalTypes
  <2> DEFINE holders == {i \in DOMAIN Vocabulary : u \in Vocabulary[i].aliases}
  <2>1. t = AliasOf(u) /\ holders # {} /\ t = Vocabulary[Min(holders)].type
    BY <1>1, <1>3 DEF ToCanonical, AliasOf
  <2>2. Min(holders) \in DOMAIN Vocabulary
    <3>1. holders \in SUBSET Nat /\ holders \subseteq DOMAIN Vocabulary
      BY Listed
    <3> HIDE DEF holders
    <3> QED BY <2>1, <3>1, LeastNumber
  <2> HIDE DEF holders
  <2>3. t \in CanonicalTypes
    BY <2>1, <2>2 DEF CanonicalTypes
  <2> QED BY <2>3 DEF ToCanonical
<1> QED BY <1>2, <1>3

\* The types that the collectors file their rows under.
Filed ==
  {"s3_encryption", "iam_policy", "system_configs", "security_policies",
   "event_logs", "firewall_configs", "network_configs", "user_provisioning"}

\* Of what the collectors file, only the S3 rows stand for a type that no
\* collector is listed for.
LEMMA CollectedAreListed ==
  ASSUME NEW t \in Filed
  PROVE  ToCanonical(t) = "encryption_policies" \/ ToCanonical(t) \in CollectorTypes
<1>1. {"system_configs", "security_policies", "event_logs", "firewall_configs",
       "network_configs", "user_provisioning"} \subseteq CollectorTypes \intersect CanonicalTypes
  <2>1. \A i \in {5, 6, 8, 10, 11, 13} : Vocabulary[i].collectors # {} /\ i \in DOMAIN Vocabulary
    BY Listed
  <2>2. \A i \in {5, 6, 8, 10, 11, 13} : Vocabulary[i].type \in CollectorTypes \intersect CanonicalTypes
    BY <2>1 DEF CollectorTypes, CanonicalTypes
  <2> QED BY <2>2, Listed
<1>2. Min({4}) = 4 /\ Min({13}) = 13
  BY LeastNumber
<1>3. CASE t = "s3_encryption"
  <2>1. t \notin CanonicalTypes
    BY <1>3, OlderNames, Listed DEF CanonicalTypes
  <2>2. {i \in DOMAIN Vocabulary : t \in Vocabulary[i].aliases} = {4}
    BY <1>3, OlderNames, Listed
  <2> QED BY <2>1, <2>2, <1>2, Listed DEF ToCanonical, AliasOf
<1>4. CASE t = "iam_policy"
  <2>1. t \notin CanonicalTypes
    BY <1>4, OlderNames, Listed DEF CanonicalTypes
  <2>2. {i \in DOMAIN Vocabulary : t \in Vocabulary[i].aliases} = {13}
    BY <1>4, OlderNames, Listed
  <2>3. ToCanonical(t) = "user_provisioning"
    BY <2>1, <2>2, <1>2, Listed DEF ToCanonical, AliasOf
  <2> QED BY <2>3, <1>1
<1>5. CASE t \notin {"s3_encryption", "iam_policy"}
  BY <1>1, <1>5 DEF ToCanonical, Filed
<1> QED BY <1>3, <1>4, <1>5

\* A control that only manual evidence can settle, and that asks for no
\* encryption policies: when it is assessed, something it requires was filed
\* under a type the collectors do not use.
LEMMA AssessedByHand ==
  ASSUME NEW control, control.mode = "manual_upload", IsFiniteSet(control.required),
         "encryption_policies" \notin control.required, NEW types,
         ControlResult(control, Translate(types), "server").status # "not_assessed"
  PROVE  \E u \in types :
           /\ ToCanonical(u) \in control.required
           /\ u \notin Filed
<1> DEFINE available == control.required \intersect Translate(types)
<1>1. ~Gated(control, available)
  BY DEF ControlResult
<1>2. PICK t \in available : ~IsCollectorProduced(t)
  BY <1>1 DEF Gated
<1>3. t \notin CollectorTypes
  BY <1>2, CanonicalStays DEF IsCollectorProduced
<1>4. PICK u \in types : t = ToCanonical(u)
  BY <1>2 DEF Translate
<1>5. t # "encryption_policies"
  BY <1>2
<1> QED BY <1>2, <1>3, <1>4, <1>5, CollectedAreListed

-----------------------------------------------------------------------------
\* The instances' operators on data are those of ScoringEngine.
LEMMA SameVocabulary ==
  /\ \A t : Store!ToCanonical(t) = ToCanonical(t)
  /\ \A types : Store!Translate(types) = Translate(types)
  /\ \A types : Eval!Translate(types) = Translate(types)
  /\ \A t : Eval!ToCanonical(t) = ToCanonical(t)
  /\ Store!Vocabulary = Vocabulary
  /\ Eval!Vocabulary = Vocabulary
<1>1. /\ Store!Vocabulary = Vocabulary
      /\ Eval!Vocabulary = Vocabulary
  BY DEF Store!Vocabulary, Eval!Vocabulary, Vocabulary, Store!Endpoints, Eval!Endpoints, Endpoints
<1>2. \A S : Store!Min(S) = Min(S) /\ Eval!Min(S) = Min(S)
  BY DEF Store!Min, Eval!Min, Min
<1>3. \A t : /\ Store!ToCanonical(t) = ToCanonical(t)
             /\ Eval!ToCanonical(t) = ToCanonical(t)
  BY <1>1, <1>2
     DEF Store!ToCanonical, Store!CanonicalTypes, Store!AliasOf, Store!Unknown,
         Eval!ToCanonical, Eval!CanonicalTypes, Eval!AliasOf, Eval!Unknown,
         ToCanonical, CanonicalTypes, AliasOf, Unknown
<1> QED BY <1>1, <1>3 DEF Store!Translate, Eval!Translate, Translate, Store!Unknown, Eval!Unknown, Unknown

LEMMA SameCardinality ==
  \A S : Store!Cardinality(S) = Cardinality(S) /\ Eval!Cardinality(S) = Cardinality(S)
BY DEF Store!Cardinality, Eval!Cardinality, Cardinality

LEMMA SameRounding ==
  /\ StatusRank = Store!StatusRank /\ StatusRank = Eval!StatusRank
  /\ \A n, d : /\ Store!RoundHalfEven(n, d) = RoundHalfEven(n, d)
               /\ Store!RoundHalfUp(n, d) = RoundHalfUp(n, d)
               /\ Eval!RoundHalfEven(n, d) = RoundHalfEven(n, d)
               /\ Eval!RoundHalfUp(n, d) = RoundHalfUp(n, d)
BY DEF Store!RoundHalfEven, Store!RoundHalfUp, Eval!RoundHalfEven, Eval!RoundHalfUp,
       RoundHalfEven, RoundHalfUp, StatusRank, Store!StatusRank, Eval!StatusRank

LEMMA SameSum ==
  \A results, ids : /\ Store!ScoreSum(results, ids) = ScoreSum(results, ids)
                    /\ Eval!ScoreSum(results, ids) = ScoreSum(results, ids)
BY DEF Store!ScoreSum, Store!MapThenSumSet, Store!MapThenFoldSet,
       Eval!ScoreSum, Eval!MapThenSumSet, Eval!MapThenFoldSet,
       ScoreSum, MapThenSumSet, MapThenFoldSet

LEMMA SameResult ==
  \A control, present, engine :
    /\ Store!ControlResult(control, present, engine) = ControlResult(control, present, engine)
    /\ Eval!ControlResult(control, present, engine) = ControlResult(control, present, engine)
<1>1. \A control, available : /\ Store!Gated(control, available) = Gated(control, available)
                              /\ Eval!Gated(control, available) = Gated(control, available)
  <2>1. \A t : /\ Store!IsCollectorProduced(t) = IsCollectorProduced(t)
               /\ Eval!IsCollectorProduced(t) = IsCollectorProduced(t)
    BY SameVocabulary
       DEF Store!IsCollectorProduced, Store!CollectorTypes, Eval!IsCollectorProduced,
           Eval!CollectorTypes, IsCollectorProduced, CollectorTypes
  <2> QED BY <2>1 DEF Store!Gated, Eval!Gated, Gated
<1>2. \A k, n : /\ Store!CoverageStatus(k, n) = CoverageStatus(k, n)
                /\ Eval!CoverageStatus(k, n) = CoverageStatus(k, n)
  BY DEF Store!CoverageStatus, Eval!CoverageStatus, CoverageStatus
<1>3. \A engine, n, d : /\ Store!Rounded(engine, n, d) = Rounded(engine, n, d)
                        /\ Eval!Rounded(engine, n, d) = Rounded(engine, n, d)
  BY SameRounding DEF Store!Rounded, Eval!Rounded, Rounded
<1> QED BY <1>1, <1>2, <1>3, SameCardinality
        DEF Store!ControlResult, Eval!ControlResult, ControlResult

LEMMA SameEvaluation ==
  \A controls, present :
    /\ Store!ServerEvaluation(controls, present) = ServerEvaluation(controls, present)
    /\ Store!DesktopEvaluation(controls, present) = DesktopEvaluation(controls, present)
    /\ Eval!ServerEvaluation(controls, present) = ServerEvaluation(controls, present)
<1>1. \A results : /\ Store!OverallStatus(results) = OverallStatus(results)
                   /\ Eval!OverallStatus(results) = OverallStatus(results)
  BY SameSum, SameCardinality DEF Store!OverallStatus, Eval!OverallStatus, OverallStatus
<1>2. \A controls, results, engine :
        /\ Store!CategoryScores(controls, results, engine) = CategoryScores(controls, results, engine)
        /\ Eval!CategoryScores(controls, results, engine) = CategoryScores(controls, results, engine)
  BY SameSum, SameCardinality, SameRounding
     DEF Store!CategoryScores, Eval!CategoryScores, CategoryScores,
         Store!Rounded, Eval!Rounded, Rounded
<1>3. \A controls, present, engine :
        /\ Store!Evaluation(controls, present, engine) = Evaluation(controls, present, engine)
        /\ Eval!Evaluation(controls, present, engine) = Evaluation(controls, present, engine)
  BY <1>1, <1>2, SameResult, SameSum DEF Store!Evaluation, Eval!Evaluation, Evaluation
<1> QED BY <1>3 DEF Store!ServerEvaluation, Store!DesktopEvaluation, Eval!ServerEvaluation,
                    ServerEvaluation, DesktopEvaluation

-----------------------------------------------------------------------------
\* What the frameworks have to be like: finite, and for two of the properties
\* as the frameworks shipped are.
StoreConstants == \A f \in DOMAIN Catalogue : Controllable(Catalogue[f])

\* The framework is one of the catalogue, and what the collectors filed is of
\* the types they file.
StoreInv ==
  /\ framework \in DOMAIN Catalogue
  /\ \A r \in rows : r.origin = "uploaded" \/ r.type \in Filed

LEMMA StoreInit ==
  ASSUME Store!Init
  PROVE  StoreInv
<1>1. \A t : Store!Uploaded(t).origin = "uploaded"
  BY DEF Store!Uploaded
<1>2. \A r \in rows : r.origin = "uploaded"
  BY <1>1 DEF Store!Init
<1> QED BY <1>2 DEF Store!Init, StoreInv

LEMMA StoreNext ==
  ASSUME StoreInv, [Store!Next]_(Store!vars)
  PROVE  StoreInv'
<1>1. \A t : Store!Uploaded(t).origin = "uploaded" /\ Store!Collected(t).type = t
  BY DEF Store!Uploaded, Store!Collected
<1>2. Store!AwsTypes \subseteq Filed /\ Store!EndpointTypes \subseteq Filed
  BY DEF Store!AwsTypes, Store!EndpointTypes, Filed
<1>3. ASSUME NEW failed \in SUBSET Store!AwsTypes, Store!CollectFromAws(failed)
      PROVE  StoreInv'
  BY <1>1, <1>2, <1>3 DEF Store!CollectFromAws, StoreInv
<1>4. ASSUME NEW failed \in SUBSET Store!EndpointTypes, Store!CollectFromEndpoint(failed)
      PROVE  StoreInv'
  BY <1>1, <1>2, <1>4 DEF Store!CollectFromEndpoint, StoreInv
<1>5. ASSUME NEW t \in Uploadable, Store!Upload(t)
      PROVE  StoreInv'
  BY <1>1, <1>5 DEF Store!Upload, StoreInv
<1>6. CASE UNCHANGED Store!vars
  BY <1>6 DEF Store!vars, StoreInv
<1> QED BY <1>3, <1>4, <1>5, <1>6 DEF Store!Next

\* While a store is filled nothing else is done to it, and otherwise nothing.
LEMMA StoreAlways == ComplianceSpec => []StoreInv
<1>1. ComplianceInit => Store!Init
  BY DEF ComplianceInit
<1>2. [ComplianceNext]_complianceVars => [Store!Next]_(Store!vars)
  BY DEF ComplianceNext, complianceVars, storeVars, Store!vars
<1> QED BY <1>1, <1>2, StoreInit, StoreNext, PTL DEF ComplianceSpec

\* The two engines of ComplianceGuard (canonical_evidence.py and its port
\* canonical-engine.js) answer alike for every framework whose shares and
\* averages are never a half, whatever is stored.
THEOREM Agree ==
  ASSUME StoreConstants, \A f \in DOMAIN Catalogue : NoHalves(Catalogue[f])
  PROVE  ComplianceSpec => []EnginesAgree
<1>1. ASSUME StoreInv PROVE Store!EnginesAgree
  <2> DEFINE controls == Catalogue[framework]
             present == Store!Present(rows)
  <2>1. Controllable(controls) /\ NoHalves(controls)
    BY <1>1 DEF StoreInv, StoreConstants
  <2> HIDE DEF controls, present
  <2>2. ServerEvaluation(controls, present) = DesktopEvaluation(controls, present)
    BY <2>1, EvaluationsAlike
  <2> QED BY <2>2, SameEvaluation
          DEF Store!EnginesAgree, Store!Scored, Store!Controls, controls, present
<1>2. StoreInv => EnginesAgree
  BY <1>1 DEF EnginesAgree
<1> QED BY <1>2, StoreAlways, PTL

\* A control that only manual evidence can settle is not shown as assessed
\* without an upload among what it requires, in every framework in which such
\* controls do not ask for the type of the S3 rows.
THEOREM NeedsUpload ==
  ASSUME StoreConstants, \A f \in DOMAIN Catalogue : NotFromS3(Catalogue[f])
  PROVE  ComplianceSpec => []ManualNeedsUpload
<1>1. ASSUME StoreInv PROVE Store!ManualNeedsUpload
  <2> DEFINE controls == Catalogue[framework]
             types == {r.type : r \in rows}
             results == ServerEvaluation(controls, Translate(types)).controls
  <2>1. Controllable(controls) /\ NotFromS3(controls)
    BY <1>1 DEF StoreInv, StoreConstants
  <2>2. \A id \in DOMAIN controls :
          results[id] = ControlResult(controls[id], Translate(types), "server")
    BY DEF ServerEvaluation, Evaluation
  <2>3. Store!Scored(rows).controls = results
    BY SameEvaluation, SameVocabulary DEF Store!Scored, Store!Present, Store!Controls
  <2> SUFFICES ASSUME NEW id \in DOMAIN controls, controls[id].mode = "manual_upload",
                      results[id].status # "not_assessed"
               PROVE  \E r \in rows : r.origin = "uploaded" /\ ToCanonical(r.type) \in controls[id].required
    <3> HIDE DEF results
    <3> QED BY <2>3, SameVocabulary DEF Store!ManualNeedsUpload, Store!Controls
  <2>4. PICK u \in types : ToCanonical(u) \in controls[id].required /\ u \notin Filed
    <3> HIDE DEF controls, types
    <3>1. ControlResult(controls[id], Translate(types), "server").status # "not_assessed"
      BY <2>2
    <3>2. IsFiniteSet(controls[id].required) /\ "encryption_policies" \notin controls[id].required
      BY <2>1 DEF Controllable, NotFromS3
    <3> QED BY <3>1, <3>2, AssessedByHand
  <2>5. PICK r \in rows : u = r.type
    BY <2>4
  <2> QED BY <1>1, <2>4, <2>5 DEF StoreInv
<1>2. StoreInv => ManualNeedsUpload
  BY <1>1 DEF ManualNeedsUpload
<1> QED BY <1>2, StoreAlways, PTL

\* Whichever type of evidence is added to the store, no control's status or
\* score falls, nor the overall one, in any framework.
THEOREM NeverHurts ==
  ASSUME StoreConstants
  PROVE  ComplianceSpec => []MoreEvidenceNeverHurts
<1>1. ASSUME StoreInv PROVE Store!MoreEvidenceNeverHurts
  <2> DEFINE controls == Catalogue[framework]
             now == Store!Present(rows)
  <2>1. Controllable(controls)
    BY <1>1 DEF StoreInv, StoreConstants
  <2> SUFFICES ASSUME NEW t \in Store!CanonicalTypes \ now
               PROVE  Store!NoWorse(Store!ServerEvaluation(controls, now),
                                    Store!ServerEvaluation(controls, now \union {t}))
    BY DEF Store!MoreEvidenceNeverHurts, Store!Controls
  <2> DEFINE more == now \union {t}
  <2>2. now \subseteq more
    OBVIOUS
  <2> HIDE DEF controls, now, more
  <2>3. LET b == ServerEvaluation(controls, now)
            a == ServerEvaluation(controls, more)
        IN /\ b.sum <= a.sum
           /\ StatusRank[b.status] <= StatusRank[a.status]
           /\ DOMAIN b.controls = DOMAIN controls
           /\ \A id \in DOMAIN controls :
                /\ b.controls[id].score <= a.controls[id].score
                /\ StatusRank[b.controls[id].status] <= StatusRank[a.controls[id].status]
    BY <2>1, <2>2, EvaluationsGrow
  <2>4. Store!NoWorse(Store!ServerEvaluation(controls, now), Store!ServerEvaluation(controls, more))
    BY <2>3, SameEvaluation, SameRounding DEF Store!NoWorse
  <2> QED BY <2>4 DEF more
<1>2. StoreInv => MoreEvidenceNeverHurts
  BY <1>1 DEF MoreEvidenceNeverHurts
<1> QED BY <1>2, StoreAlways, PTL

-----------------------------------------------------------------------------
\* What an evaluation needs of the frameworks: the four that are evaluated are
\* there, each with controls.
EvalConstants ==
  /\ {"soc2", "iso27001", "hipaa", "gdpr"} \subseteq DOMAIN Evaluated
  /\ \A f \in DOMAIN Evaluated : Controllable(Evaluated[f]) /\ DOMAIN Evaluated[f] # {}

\* An evaluation's score is that of the engine, its statuses the engine's.
LEMMA TotalsTypes ==
  ASSUME EvalConstants, NEW f \in DOMAIN Evaluated, NEW types
  PROVE  LET t == Eval!Totals(f, types)
         IN /\ t.status \in Canonical
            /\ \A c \in DOMAIN t.controls : t.controls[c].status \in Canonical
<1> DEFINE controls == Evaluated[f]
           present == Translate(types)
           result == ServerEvaluation(controls, present)
<1>1. Controllable(controls)
  BY DEF EvalConstants
<1>2. /\ Eval!Totals(f, types).status = result.status
      /\ Eval!Totals(f, types).controls =
           [c \in DOMAIN controls |-> [score |-> 10000 * result.controls[c].score,
                                       status |-> result.controls[c].status]]
  BY SameEvaluation, SameVocabulary DEF Eval!Totals
<1>3. \A c \in DOMAIN controls : result.controls[c].status \in Canonical
  BY <1>1, ResultTypes DEF Controllable, ServerEvaluation, Evaluation, Canonical
<1>4. result.status \in Canonical
  BY DEF ServerEvaluation, Evaluation, OverallStatus, Canonical
<1> HIDE DEF result
<1> QED BY <1>2, <1>3, <1>4

\* More evidence never makes an evaluation's score less.
LEMMA TotalsGrow ==
  ASSUME EvalConstants, NEW f \in DOMAIN Evaluated, NEW p, NEW q, p \subseteq q
  PROVE  /\ Eval!Totals(f, p).score \in Nat
         /\ Eval!Totals(f, p).score <= Eval!Totals(f, q).score
<1> DEFINE controls == Evaluated[f]
           n == Cardinality(DOMAIN controls)
           x == ServerEvaluation(controls, Translate(p)).sum
           y == ServerEvaluation(controls, Translate(q)).sum
<1>1. Controllable(controls) /\ DOMAIN controls # {}
  BY DEF EvalConstants
<1>2. n \in Nat \ {0}
  BY <1>1, FS_CardinalityType, FS_EmptySet DEF Controllable
<1>3. Translate(p) \subseteq Translate(q)
  BY DEF Translate
<1>4. x \in Nat /\ y \in Nat /\ x <= y
  BY <1>1, <1>3, EvaluationsGrow
<1>5. /\ Eval!Totals(f, p).score = RoundHalfEven(10000 * x, n)
      /\ Eval!Totals(f, q).score = RoundHalfEven(10000 * y, n)
  BY SameEvaluation, SameVocabulary, SameCardinality, SameRounding DEF Eval!Totals
<1> HIDE DEF n, x, y
<1>6. 10000 * x \in Nat /\ 10000 * y \in Nat /\ 10000 * x <= 10000 * y
  BY <1>4
<1> QED BY <1>2, <1>5, <1>6, RoundsMonotone

LEMMA TotalsSame ==
  ASSUME EvalConstants, NEW f \in DOMAIN Evaluated, NEW p
  PROVE  Eval!Totals(f, p).score <= Eval!Totals(f, p).score
BY TotalsGrow

-----------------------------------------------------------------------------
\* The invariant, over the parts of the state.

\* A row this version wrote, or is about to.
Fresh(r) ==
  /\ r.legacy = FALSE
  /\ r.by \in {"manual", "auto"}
  /\ r.framework \in DOMAIN Evaluated
  /\ r.status \in Canonical
  /\ r.score \in Nat /\ r.truth.score = r.score
  /\ \A c \in DOMAIN r.controls :
       r.controls[c].status \in Canonical /\ r.truth.controls[c] = r.controls[c].score
  /\ r.assessments = IF r.by = "manual" THEN r.controls ELSE <<>>

IsOld(r) == \E u \in Owner, o \in Old : r = Eval!OldRow(u, o)

Handling(x) ==
  /\ x = [phase |-> x.phase, row |-> x.row, at |-> x.at]
  /\ x.phase \in {"adding", "storing", "refreshing", "logging", "answered", "refused"}
  /\ Fresh(x.row)

CallsOf(calls, next) ==
  /\ DOMAIN calls = Call
  /\ \A c \in Call : calls[c] = Eval!Idle \/ (Handling(calls[c]) /\ calls[c].row.id < next
                                               /\ calls[c].row.id \in Nat)

TableOf(table, next, users) ==
  \A r \in table : /\ Fresh(r) \/ IsOld(r)
                   /\ r.id \in Nat /\ r.id < next
                   /\ r.user \in users

\* Every call has an id of its own.
DistinctOf(calls) ==
  \A c, d \in Call :
    c # d /\ calls[c].phase # "idle" /\ calls[d].phase # "idle" => calls[c].row.id # calls[d].row.id

\* What has not been committed, or was refused before that, is not in the table.
Unsaved(x) ==
  \/ x.phase \in {"adding", "storing"}
  \/ x.phase = "refused" /\ x.at \notin {"storing", "refreshing", "logging"}

UnstoredOf(calls, table) ==
  \A c \in Call : Unsaved(calls[c]) => \A r \in table : r.id # calls[c].row.id

\* What was answered with a result is, as long as its user has an account.
AnsweredOf(calls, table, users) ==
  \A c \in Call : calls[c].phase = "answered" /\ calls[c].row.user \in users => calls[c].row \in table

\* An automatic evaluation claims no more than its user's evidence.
Covered(r, held) == r.by = "auto" => r.score <= Eval!Totals(r.framework, held[r.user]).score

ClaimsOf(calls, table, users, held) ==
  /\ \A r \in table : Covered(r, held)
  /\ \A c \in Call : calls[c].phase # "idle" /\ calls[c].row.user \in users => Covered(calls[c].row, held)

EvalInv ==
  /\ nextId \in Nat
  /\ exists \subseteq Owner
  /\ DOMAIN evidence = Owner
  /\ CallsOf(evaluating, nextId)
  /\ TableOf(stored, nextId, exists)
  /\ DistinctOf(evaluating)
  /\ UnstoredOf(evaluating, stored)
  /\ AnsweredOf(evaluating, stored, exists)
  /\ ClaimsOf(evaluating, stored, exists, evidence)

LEMMA EvalInit ==
  ASSUME Eval!Init
  PROVE  EvalInv
<1>1. PICK u \in Owner, o \in Old : stored = {Eval!OldRow(u, o)}
  BY DEF Eval!Init
<1>2. /\ Eval!OldRow(u, o).id = 1 /\ Eval!OldRow(u, o).user = u
      /\ Eval!OldRow(u, o).by = "manual" /\ IsOld(Eval!OldRow(u, o))
  BY DEF Eval!OldRow, IsOld
<1>3. /\ nextId = 2 /\ exists = Owner /\ evidence = [v \in Owner |-> {}]
      /\ evaluating = [c \in Call |-> Eval!Idle]
  BY DEF Eval!Init
<1>4. Eval!Idle.phase = "idle"
  BY DEF Eval!Idle
<1>5. /\ CallsOf(evaluating, nextId) /\ DistinctOf(evaluating)
      /\ UnstoredOf(evaluating, stored) /\ AnsweredOf(evaluating, stored, exists)
  BY <1>3, <1>4 DEF CallsOf, DistinctOf, UnstoredOf, Unsaved, AnsweredOf
<1>6. TableOf(stored, nextId, exists)
  BY <1>1, <1>2, <1>3 DEF TableOf
<1>7. ClaimsOf(evaluating, stored, exists, evidence)
  BY <1>1, <1>2, <1>3, <1>4 DEF ClaimsOf, Covered
<1> QED BY <1>3, <1>5, <1>6, <1>7 DEF EvalInv

\* The row an evaluation begins with: it is fresh.
RowOf(u, f, by, types) ==
  LET t == Eval!Totals(f, types)
  IN [id |-> nextId, user |-> u, framework |-> f, by |-> by,
      score |-> t.score, status |-> t.status, controls |-> t.controls,
      assessments |-> IF by = "manual" THEN t.controls ELSE <<>>,
      legacy |-> FALSE,
      truth |-> [score |-> t.score,
                 controls |-> [c \in DOMAIN t.controls |-> t.controls[c].score]]]

LEMMA RowIsFresh ==
  ASSUME EvalConstants, NEW u, NEW f \in DOMAIN Evaluated, NEW by \in {"manual", "auto"}, NEW types
  PROVE  LET r == RowOf(u, f, by, types)
         IN /\ Fresh(r) /\ r.id = nextId /\ r.user = u /\ r.framework = f /\ r.by = by
            /\ r.score = Eval!Totals(f, types).score
<1> DEFINE t == Eval!Totals(f, types)
           r == RowOf(u, f, by, types)
<1>1. t.status \in Canonical /\ \A c \in DOMAIN t.controls : t.controls[c].status \in Canonical
  BY TotalsTypes
<1>2. t.score \in Nat
  BY TotalsGrow
<1>3. r = [id |-> nextId, user |-> u, framework |-> f, by |-> by,
           score |-> t.score, status |-> t.status, controls |-> t.controls,
           assessments |-> IF by = "manual" THEN t.controls ELSE <<>>,
           legacy |-> FALSE,
           truth |-> [score |-> t.score,
                      controls |-> [c \in DOMAIN t.controls |-> t.controls[c].score]]]
  BY DEF RowOf
<1> HIDE DEF t, r
<1>4. Fresh(r)
  BY <1>1, <1>2, <1>3 DEF Fresh
<1> QED BY <1>3, <1>4 DEF t, r

LEMMA BeginKeeps ==
  ASSUME EvalInv, NEW c \in Call, NEW phase \in {"adding", "storing"}, NEW r,
         Fresh(r), r.id = nextId, Covered(r, evidence), Eval!Begins(c, phase, r),
         UNCHANGED <<evidence, exists, stored>>
  PROVE  EvalInv'
<1> DEFINE new == [phase |-> phase, row |-> r, at |-> "none"]
<1>1. evaluating' = [evaluating EXCEPT ![c] = new] /\ nextId' = nextId + 1
  BY DEF Eval!Begins
<1>2. /\ nextId \in Nat /\ DOMAIN evaluating = Call
      /\ \A d \in Call : evaluating[d] = Eval!Idle \/ (Handling(evaluating[d]) /\ evaluating[d].row.id < nextId
                                               /\ evaluating[d].row.id \in Nat)
  BY DEF EvalInv, CallsOf
<1>3. /\ new.phase = phase /\ new.row = r /\ Handling(new)
  BY DEF Handling
<1>4. /\ DOMAIN evaluating' = Call
      /\ evaluating'[c] = new
      /\ \A d \in Call \ {c} : evaluating'[d] = evaluating[d]
  BY <1>1, <1>2
<1>5. Eval!Idle.phase = "idle"
  BY DEF Eval!Idle
<1> HIDE DEF new
<1>6. CallsOf(evaluating', nextId')
  BY <1>1, <1>2, <1>3, <1>4 DEF CallsOf
<1>7. TableOf(stored', nextId', exists')
  BY <1>1 DEF EvalInv, TableOf
<1>8. DistinctOf(evaluating')
  BY <1>1, <1>2, <1>3, <1>4, <1>5 DEF EvalInv, DistinctOf
<1>9. UnstoredOf(evaluating', stored')
  BY <1>2, <1>3, <1>4 DEF EvalInv, UnstoredOf, TableOf
<1>10. ClaimsOf(evaluating', stored', exists', evidence')
  BY <1>2, <1>3, <1>4 DEF EvalInv, ClaimsOf
<1>11. AnsweredOf(evaluating', stored', exists')
  BY <1>2, <1>3, <1>4 DEF EvalInv, AnsweredOf
<1> QED BY <1>1, <1>2, <1>6, <1>7, <1>8, <1>9, <1>10, <1>11 DEF EvalInv

Moved(c, phase, at) ==
  evaluating' = [evaluating EXCEPT ![c] = [phase |-> phase, row |-> evaluating[c].row, at |-> at]]

\* A call that is not idle has a row, and what its steps change is its phase and
\* the failed statement.
LEMMA CallIsHandled ==
  ASSUME EvalInv, NEW c \in Call, evaluating[c].phase # "idle"
  PROVE  /\ Handling(evaluating[c])
         /\ \A phase : Eval!Goto(c, phase) => Moved(c, phase, evaluating[c].at)
<1> DEFINE x == evaluating[c]
<1>1. Handling(x)
  BY DEF EvalInv, CallsOf, Eval!Idle
<1>2. x = [phase |-> x.phase, row |-> x.row, at |-> x.at]
  BY <1>1 DEF Handling
<1>3. ASSUME NEW phase, Eval!Goto(c, phase) PROVE Moved(c, phase, x.at)
  <2>1. evaluating' = [evaluating EXCEPT ![c] = [x EXCEPT !.phase = phase]]
    BY <1>3 DEF Eval!Goto
  <2> HIDE DEF x
  <2>2. [x EXCEPT !.phase = phase] = [phase |-> phase, row |-> x.row, at |-> x.at]
    BY <1>2
  <2> QED BY <2>1, <2>2 DEF x, Moved
<1> QED BY <1>1, <1>3

\* A call goes on; the row may be committed.
LEMMA MoveKeeps ==
  ASSUME EvalInv, NEW c \in Call, evaluating[c].phase # "idle",
         NEW phase \in {"storing", "refreshing", "logging", "answered", "refused"}, NEW at,
         Moved(c, phase, at),
         \/ /\ stored' = stored
            /\ Unsaved([phase |-> phase, at |-> at]) => evaluating[c].phase \in {"adding", "storing"}
            /\ phase = "answered" => evaluating[c].row \in stored
         \/ /\ stored' = stored \union {evaluating[c].row}
            /\ evaluating[c].row.user \in exists
            /\ ~Unsaved([phase |-> phase, at |-> at]) /\ phase # "answered",
         UNCHANGED <<evidence, exists, nextId>>
  PROVE  EvalInv'
<1>1. Eval!Idle.phase = "idle"
  BY DEF Eval!Idle
<1>2. /\ DOMAIN evaluating = Call
      /\ \A d \in Call : evaluating[d] = Eval!Idle \/ (Handling(evaluating[d]) /\ evaluating[d].row.id < nextId
                                               /\ evaluating[d].row.id \in Nat)
  BY DEF EvalInv, CallsOf
<1>3. Handling(evaluating[c]) /\ evaluating[c].row.id < nextId /\ evaluating[c].row.id \in Nat
  BY <1>1, <1>2
<1>4. /\ DOMAIN evaluating' = Call
      /\ evaluating'[c] = [phase |-> phase, row |-> evaluating[c].row, at |-> at]
      /\ \A d \in Call \ {c} : evaluating'[d] = evaluating[d]
  BY <1>2 DEF Moved
<1>5. /\ evaluating'[c].phase = phase /\ evaluating'[c].row = evaluating[c].row
      /\ evaluating'[c].at = at
  BY <1>4
<1>6. Handling(evaluating'[c])
  BY <1>3, <1>4 DEF Handling
<1>7. \A d \in Call : /\ evaluating[d].phase = "idle" <=> evaluating'[d].phase = "idle"
                      /\ evaluating[d].phase # "idle" => evaluating'[d].row = evaluating[d].row
  BY <1>4, <1>5
<1>8. CallsOf(evaluating', nextId')
  BY <1>2, <1>3, <1>4, <1>5, <1>6 DEF CallsOf
<1>9. TableOf(stored', nextId', exists')
  BY <1>3 DEF EvalInv, TableOf, Handling
<1>10. DistinctOf(evaluating')
  BY <1>7 DEF EvalInv, DistinctOf
<1>11. UnstoredOf(evaluating', stored')
  <2> SUFFICES ASSUME NEW d \in Call, Unsaved(evaluating'[d]), NEW r \in stored'
               PROVE  r.id # evaluating'[d].row.id
    BY DEF UnstoredOf
  <2>1. Unsaved(evaluating[d]) /\ evaluating'[d].row = evaluating[d].row
        /\ (d = c => Unsaved([phase |-> phase, at |-> at]))
    <3>1. CASE d = c
      <4>1. Unsaved([phase |-> phase, at |-> at])
        BY <3>1, <1>5 DEF Unsaved
      <4>2. evaluating[c].phase \in {"adding", "storing"}
        BY <4>1
      <4> QED BY <3>1, <4>1, <4>2, <1>5 DEF Unsaved
    <3>2. CASE d # c
      BY <3>2, <1>4
    <3> QED BY <3>1, <3>2
  <2>2. CASE r \in stored
    BY <2>1, <2>2 DEF EvalInv, UnstoredOf
  <2>3. CASE r \notin stored
    <3>1. r = evaluating[c].row /\ ~Unsaved([phase |-> phase, at |-> at])
      BY <2>3
    <3>2. d # c
      BY <3>1, <2>1
    <3>3. evaluating[d].phase # "idle"
      BY <2>1 DEF Unsaved
    <3>4. evaluating[c].row.id # evaluating[d].row.id
      BY <3>2, <3>3 DEF EvalInv, DistinctOf
    <3> QED BY <2>1, <3>1, <3>4
  <2> QED BY <2>2, <2>3
<1>12. ClaimsOf(evaluating', stored', exists', evidence')
  BY <1>7 DEF EvalInv, ClaimsOf
<1>13. AnsweredOf(evaluating', stored', exists')
  <2> SUFFICES ASSUME NEW d \in Call, evaluating'[d].phase = "answered",
                      evaluating'[d].row.user \in exists
               PROVE  evaluating'[d].row \in stored'
    BY DEF AnsweredOf
  <2>1. stored \subseteq stored'
    OBVIOUS
  <2>2. CASE d = c
    <3>1. phase = "answered"
      BY <2>2, <1>5
    <3>2. evaluating[c].row \in stored
      BY <3>1
    <3> QED BY <2>1, <2>2, <3>2, <1>5
  <2>3. CASE d # c
    BY <2>1, <2>3, <1>4 DEF EvalInv, AnsweredOf
  <2> QED BY <2>2, <2>3
<1> QED BY <1>8, <1>9, <1>10, <1>11, <1>12, <1>13 DEF EvalInv

LEMMA AddKeeps ==
  ASSUME EvalConstants, EvalInv, NEW u \in Owner, NEW t, Eval!AddEvidence(u, t)
  PROVE  EvalInv'
<1>1. /\ DOMAIN evidence' = Owner
      /\ \A v \in Owner : evidence[v] \subseteq evidence'[v]
      /\ UNCHANGED <<exists, stored, evaluating, nextId>>
  BY DEF Eval!AddEvidence, EvalInv
<1>2. ASSUME NEW r, r.user \in Owner, Fresh(r), Covered(r, evidence)
      PROVE  Covered(r, evidence')
  <2> DEFINE x == Eval!Totals(r.framework, evidence[r.user]).score
             y == Eval!Totals(r.framework, evidence'[r.user]).score
  <2> SUFFICES ASSUME r.by = "auto" PROVE r.score <= y
    BY DEF Covered
  <2>1. r.score <= x
    BY <1>2 DEF Covered
  <2>2. r.framework \in DOMAIN Evaluated
    BY <1>2 DEF Fresh
  <2>n. r.score \in Nat
    BY <1>2 DEF Fresh
  <2>3. x \in Nat /\ y \in Nat /\ x <= y
    BY <1>1, <1>2, <2>2, TotalsGrow
  <2> HIDE DEF x, y
  <2> QED BY <2>1, <2>3, <2>n
<1>3. Eval!Idle.phase = "idle"
  BY DEF Eval!Idle
<1>4. ASSUME NEW r \in stored PROVE Covered(r, evidence')
  <2>1. CASE Fresh(r)
    BY <1>2, <2>1 DEF EvalInv, TableOf, ClaimsOf
  <2>2. CASE IsOld(r)
    BY <2>2 DEF IsOld, Eval!OldRow, Covered
  <2> QED BY <2>1, <2>2 DEF EvalInv, TableOf
<1>5. ASSUME NEW c \in Call, evaluating[c].phase # "idle", evaluating[c].row.user \in exists
      PROVE  Covered(evaluating[c].row, evidence')
  BY <1>2, <1>3, <1>5 DEF EvalInv, CallsOf, Handling, ClaimsOf
<1>6. ClaimsOf(evaluating', stored', exists', evidence')
  BY <1>1, <1>4, <1>5 DEF ClaimsOf
<1> QED BY <1>1, <1>6 DEF EvalInv

LEMMA DeleteKeeps ==
  ASSUME EvalInv, NEW u \in Owner, Eval!DeleteAccount(u)
  PROVE  EvalInv'
<1>1. /\ exists' = exists \ {u}
      /\ stored' = {r \in stored : r.user # u}
      /\ evaluating' = evaluating /\ nextId' = nextId
      /\ DOMAIN evidence' = Owner
      /\ \A v \in Owner \ {u} : evidence'[v] = evidence[v]
  BY DEF Eval!DeleteAccount, EvalInv
<1>2. TableOf(stored', nextId', exists')
  BY <1>1 DEF EvalInv, TableOf
<1>3. UnstoredOf(evaluating', stored')
  BY <1>1 DEF EvalInv, UnstoredOf
<1>4. ASSUME NEW r, r.user \in Owner \ {u}, Covered(r, evidence)
      PROVE  Covered(r, evidence')
  BY <1>1, <1>4 DEF Covered
<1>5. ClaimsOf(evaluating', stored', exists', evidence')
  BY <1>1, <1>4 DEF EvalInv, ClaimsOf, TableOf
<1>6. AnsweredOf(evaluating', stored', exists')
  BY <1>1 DEF EvalInv, AnsweredOf
<1> QED BY <1>1, <1>2, <1>3, <1>5, <1>6 DEF EvalInv

LEMMA EvalNext ==
  ASSUME EvalConstants, EvalInv, [Eval!Next]_(Eval!vars)
  PROVE  EvalInv'
<1>1. ASSUME NEW c \in Call, NEW u \in Owner, NEW ids \in Provided, Eval!EvaluateManually(c, u, ids)
      PROVE  EvalInv'
  <2> DEFINE types == {Eval!Base(id) : id \in ids}
             r == RowOf(u, "soc2", "manual", types)
  <2>1. Fresh(r) /\ r.id = nextId /\ r.by = "manual"
    <3> HIDE DEF types
    <3> QED BY RowIsFresh DEF EvalConstants
  <2>2. Eval!Begins(c, "adding", r) /\ UNCHANGED <<evidence, exists, stored>>
    BY <1>1 DEF Eval!EvaluateManually, Eval!Row, RowOf
  <2> HIDE DEF r
  <2> QED BY <2>1, <2>2, BeginKeeps DEF Covered
<1>2. ASSUME NEW c \in Call, NEW u \in Owner, NEW f \in DOMAIN Evaluated, Eval!EvaluateFromEvidence(c, u, f)
      PROVE  EvalInv'
  <2> DEFINE r == RowOf(u, f, "auto", evidence[u])
  <2>1. /\ Fresh(r) /\ r.id = nextId /\ r.user = u /\ r.framework = f
        /\ r.score = Eval!Totals(f, evidence[u]).score
    BY RowIsFresh
  <2>2. Eval!Begins(c, "storing", r) /\ UNCHANGED <<evidence, exists, stored>>
    BY <1>2 DEF Eval!EvaluateFromEvidence, Eval!EvidenceOf, Eval!Row, RowOf
  <2> HIDE DEF r
  <2>3. Covered(r, evidence)
    BY <2>1, TotalsSame DEF Covered
  <2> QED BY <2>1, <2>2, <2>3, BeginKeeps
<1>3. ASSUME NEW c \in Call, Eval!Flush(c) PROVE EvalInv'
  <2>1. /\ evaluating[c].phase = "adding" /\ Eval!Goto(c, "storing")
        /\ UNCHANGED <<stored, evidence, exists, nextId>>
    BY <1>3 DEF Eval!Flush, Eval!At
  <2>2. Moved(c, "storing", evaluating[c].at)
    BY <2>1, CallIsHandled
  <2> QED BY <2>1, <2>2, MoveKeeps
<1>4. ASSUME NEW c \in Call, Eval!Commit(c) PROVE EvalInv'
  <2>1. /\ evaluating[c].phase = "storing" /\ Eval!Goto(c, "refreshing")
        /\ evaluating[c].row.user \in exists /\ stored' = stored \union {evaluating[c].row}
        /\ UNCHANGED <<evidence, exists, nextId>>
    BY <1>4 DEF Eval!Commit, Eval!Stores, Eval!At
  <2>2. Moved(c, "refreshing", evaluating[c].at)
    BY <2>1, CallIsHandled
  <2>3. ~Unsaved([phase |-> "refreshing", at |-> evaluating[c].at])
    BY DEF Unsaved
  <2> QED BY <2>1, <2>2, <2>3, MoveKeeps
<1>5. ASSUME NEW c \in Call, Eval!Fail(c) PROVE EvalInv'
  <2> DEFINE at == evaluating[c].phase
  <2>1. /\ at \in {"adding", "storing", "refreshing", "logging"}
        /\ Moved(c, "refused", at)
        /\ UNCHANGED <<evidence, exists, nextId>>
    BY <1>5 DEF Eval!Fail, Eval!Handled, Moved
  <2>2. \/ stored' = stored
        \/ /\ at = "storing" /\ evaluating[c].row.user \in exists
           /\ stored' = stored \union {evaluating[c].row}
    BY <1>5 DEF Eval!Fail, Eval!Stores, Eval!At
  <2>3. Unsaved([phase |-> "refused", at |-> at]) <=> at = "adding"
    BY <2>1 DEF Unsaved
  <2> HIDE DEF at
  <2>4. evaluating[c].phase # "idle" /\ (at = "adding" => evaluating[c].phase \in {"adding", "storing"})
    BY <2>1 DEF at
  <2> QED BY <2>1, <2>2, <2>3, <2>4, MoveKeeps
<1>6. ASSUME NEW c \in Call, Eval!Refresh(c) \/ Eval!Log(c) PROVE EvalInv'
  <2>1. PICK phase \in {"logging", "answered"} :
          /\ evaluating[c].phase # "idle" /\ Eval!Goto(c, phase)
          /\ evaluating[c].row \in stored
          /\ UNCHANGED <<stored, evidence, exists, nextId>>
    BY <1>6 DEF Eval!Refresh, Eval!Log, Eval!At
  <2>2. Moved(c, phase, evaluating[c].at)
    BY <2>1, CallIsHandled
  <2>3. ~Unsaved([phase |-> phase, at |-> evaluating[c].at])
    BY DEF Unsaved
  <2> QED BY <2>1, <2>2, <2>3, MoveKeeps
<1>7. CASE UNCHANGED Eval!vars
  BY <1>7 DEF Eval!vars, EvalInv
<1> QED BY <1>1, <1>2, <1>3, <1>4, <1>5, <1>6, <1>7, AddKeeps, DeleteKeeps
        DEF Eval!Next, Eval!EvaluateSOC2, Eval!EvaluateISO27001, Eval!EvaluateHIPAA,
            Eval!EvaluateGDPR, EvalConstants

LEMMA EvalAlways ==
  ASSUME EvalConstants
  PROVE  Eval!Spec => []EvalInv
<1> QED BY EvalInit, EvalNext, PTL DEF Eval!Spec

-----------------------------------------------------------------------------
\* A row this version wrote is never taken for one of the older scale.
LEMMA FreshIsNotLegacy ==
  ASSUME NEW r, Fresh(r)
  PROVE  /\ ~Eval!IsLegacyRecord(r)
         /\ Eval!RecordView(r) = [score |-> r.score, status |-> r.status]
         /\ Eval!CanonicalStatus(r.status) = r.status
<1>1. \A s \in Canonical : s \notin Eval!LegacyOnly
  BY DEF Canonical, Eval!LegacyOnly
<1>2. \A c \in DOMAIN r.assessments : r.assessments[c].status \in Canonical
  BY DEF Fresh
<1>3. ~Eval!IsLegacyRecord(r)
  BY <1>1, <1>2 DEF Fresh, Eval!IsLegacyRecord
<1>4. Eval!CanonicalStatus(r.status) = r.status
  BY DEF Fresh, Canonical, Eval!CanonicalStatus, Eval!LegacyOnly
<1> QED BY <1>3, <1>4 DEF Eval!RecordView

\* What history shows of an automatic evaluation (compliance.py,
\* get_evaluation_history) never claims more than its user's evidence shows
\* now, for any frameworks and any number of users, calls and evaluations.
THEOREM HistoryClaims ==
  ASSUME EvalConstants
  PROVE  Eval!Spec => []HistoryClaimsNoMore
<1>1. ASSUME EvalInv PROVE HistoryClaimsNoMore
  <2> SUFFICES ASSUME NEW u \in exists, NEW r \in Eval!History(u), r.by = "auto"
               PROVE  Eval!RecordView(r).score <= Eval!Totals(r.framework, evidence[u]).score
    BY DEF HistoryClaimsNoMore, Eval!HistoryClaimsNoMore
  <2>1. r \in stored /\ r.user = u
    BY DEF Eval!History
  <2>2. Fresh(r)
    BY <1>1, <2>1 DEF EvalInv, TableOf, IsOld, Eval!OldRow
  <2>3. r.score <= Eval!Totals(r.framework, evidence[u]).score
    BY <1>1, <2>1 DEF EvalInv, ClaimsOf, Covered
  <2> QED BY <2>2, <2>3, FreshIsNotLegacy
<1> QED BY <1>1, EvalAlways, PTL

\* A whole percent is rounded to itself.
LEMMA WholePercents ==
  ASSUME NEW p \in Nat
  PROVE  Eval!RoundHalfEven(100 * p, 100) = p
<1>1. (100 * p) \div 100 = p /\ (100 * p) % 100 = 0
  OBVIOUS
<1>2. RoundHalfEven(100 * p, 100) = p
  BY <1>1 DEF RoundHalfEven
<1> QED BY <1>2, SameRounding

\* Rows are read back as what they mean on the 0-100 scale: old ones, if one
\* of their statuses gives them away, are brought to it, and those of this
\* version are never scaled again (compliance.py:39-75).
THEOREM Faithful ==
  ASSUME EvalConstants, Eval!OldConstants
  PROVE  Eval!Spec => []ReadingsAreFaithful
<1>0. \A s \in DOMAIN Eval!StatusRank \union Eval!LegacyOnly :
        Eval!CanonicalStatus(s) \in DOMAIN Eval!StatusRank
  BY DEF Eval!LegacyOnly, Eval!CanonicalStatus, Eval!StatusRank
<1>c. Canonical \subseteq DOMAIN Eval!StatusRank
  BY DEF Canonical, Eval!StatusRank
<1>1. ASSUME NEW r, Fresh(r)
      PROVE  /\ Eval!RecordView(r).score = r.truth.score
             /\ Eval!RecordView(r).status \in DOMAIN Eval!StatusRank
             /\ \A c \in DOMAIN r.assessments :
                  /\ Eval!AssessmentView(r, c).score = r.truth.controls[c]
                  /\ Eval!AssessmentView(r, c).status \in DOMAIN Eval!StatusRank
  <2>1. r.status \in DOMAIN Eval!StatusRank
    BY <1>1, <1>c DEF Fresh
  <2>2. /\ Eval!RecordView(r).score = r.score /\ Eval!RecordView(r).status = r.status
        /\ ~Eval!IsLegacyRecord(r)
    BY <1>1, FreshIsNotLegacy
  <2>3. ASSUME NEW c \in DOMAIN r.assessments
        PROVE  /\ Eval!AssessmentView(r, c).score = r.truth.controls[c]
               /\ Eval!AssessmentView(r, c).status \in DOMAIN Eval!StatusRank
    <3>1. r.assessments = r.controls
      BY <1>1, <2>3 DEF Fresh
    <3>2. r.controls[c].status \in Canonical /\ r.truth.controls[c] = r.controls[c].score
      BY <1>1, <2>3, <3>1 DEF Fresh
    <3>3. Eval!CanonicalStatus(r.controls[c].status) \in DOMAIN Eval!StatusRank
      BY <1>0, <1>c, <3>2
    <3> QED BY <2>2, <3>1, <3>2, <3>3 DEF Eval!AssessmentView
  <2>4. r.truth.score = r.score
    BY <1>1 DEF Fresh
  <2> QED BY <2>1, <2>2, <2>3, <2>4
<1>2. ASSUME NEW r, IsOld(r), Eval!Marked(r)
      PROVE  /\ Eval!RecordView(r).score = r.truth.score
             /\ Eval!RecordView(r).status \in DOMAIN Eval!StatusRank
             /\ \A c \in DOMAIN r.assessments :
                  /\ Eval!AssessmentView(r, c).score = r.truth.controls[c]
                  /\ Eval!AssessmentView(r, c).status \in DOMAIN Eval!StatusRank
  <2>1. PICK u \in Owner, o \in Old : r = Eval!OldRow(u, o)
    BY <1>2 DEF IsOld
  <2>2. /\ r.legacy = TRUE /\ r.score = o.score /\ r.status = o.status
        /\ r.assessments = o.assessments /\ r.truth.score = 100 * o.score
        /\ r.truth.controls = [c \in DOMAIN o.assessments |-> 100 * o.assessments[c].score]
    BY <2>1 DEF Eval!OldRow
  <2>3. Eval!IsLegacyRecord(r)
    BY <1>2, <2>2 DEF Eval!Marked, Eval!IsLegacyRecord, Eval!LegacyOnly
  <2>4. /\ Eval!RecordView(r).score = r.truth.score
        /\ Eval!RecordView(r).status \in DOMAIN Eval!StatusRank
    BY <1>0, <2>2, <2>3 DEF Eval!RecordView, Eval!OldConstants
  <2>5. ASSUME NEW c \in DOMAIN r.assessments
        PROVE  /\ Eval!AssessmentView(r, c).score = r.truth.controls[c]
               /\ Eval!AssessmentView(r, c).status \in DOMAIN Eval!StatusRank
    <3>1. o.assessments[c].status \in DOMAIN Eval!StatusRank \union Eval!LegacyOnly
      BY <2>2, <2>5 DEF Eval!OldConstants
    <3>2. PICK p \in 0..100 : o.assessments[c].score = 100 * p
      BY <2>2, <2>5 DEF Eval!OldConstants
    <3>3. Eval!RoundHalfEven(o.assessments[c].score, 100) = p
      BY <3>2, WholePercents
    <3>4. r.truth.controls[c] = 10000 * p
      BY <2>2, <2>5, <3>2
    <3> QED BY <1>0, <2>2, <2>3, <3>1, <3>3, <3>4 DEF Eval!AssessmentView
  <2> QED BY <2>4, <2>5
<1>3. ASSUME EvalInv PROVE ReadingsAreFaithful
  BY <1>1, <1>2, <1>3 DEF EvalInv, TableOf, ReadingsAreFaithful, Eval!ReadingsAreFaithful
<1> QED BY <1>3, EvalAlways, PTL

\* An evaluation is stored as a whole or not at all (compliance.py,
\* evaluate_compliance): with an assessment for each control, equal to its
\* results.  One that was answered is there, and one that was refused before its
\* commit is not; a 500 from the commit on may stand for a stored one.
THEOREM Whole ==
  ASSUME EvalConstants
  PROVE  Eval!Spec => []EvaluationsAreWhole
<1>1. ASSUME EvalInv PROVE EvaluationsAreWhole
  <2>1. ASSUME NEW r \in stored, ~r.legacy, r.by = "manual"
        PROVE  r.assessments = r.controls
    <3>1. Fresh(r)
      BY <1>1, <2>1 DEF EvalInv, TableOf, IsOld, Eval!OldRow
    <3> QED BY <2>1, <3>1 DEF Fresh
  <2>2. ASSUME NEW c \in Call, Eval!At(c, "answered"), evaluating[c].row.user \in exists
        PROVE  evaluating[c].row \in stored
    BY <1>1, <2>2 DEF EvalInv, AnsweredOf, Eval!At
  <2>3. ASSUME NEW c \in Call, Eval!At(c, "refused"),
               evaluating[c].at \notin {"storing", "refreshing", "logging"}, NEW r \in stored
        PROVE  r.id # evaluating[c].row.id
    BY <1>1, <2>3 DEF EvalInv, UnstoredOf, Unsaved, Eval!At
  <2> QED BY <2>1, <2>2, <2>3 DEF EvaluationsAreWhole, Eval!EvaluationsAreWhole
<1> QED BY <1>1, EvalAlways, PTL
=============================================================================
