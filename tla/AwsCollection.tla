---------------------------- MODULE AwsCollection ----------------------------
(***************************************************************************)
(* AWS credentials, kept encrypted with one row per user, and the          *)
(* collections that are made with them: the S3 and the IAM collector, the  *)
(* status derived from what they find, and the summary of a collection.    *)
(*                                                                         *)
(* The handlers are coroutines.  A collection awaits its collectors, which *)
(* run in a thread; saving does not await, and only with several workers   *)
(* (Scaled) do two saves meet between the query and the commit.            *)
(*                                                                         *)
(* A set of credentials is a value; its two encrypted columns are always   *)
(* written together and are one cipher here.  Of the buckets and policies  *)
(* of an AWS account only the kinds that occur matter.  Users stay; what   *)
(* a deletion does to collections is EvidenceStore's.                      *)
(***************************************************************************)
EXTENDS Integers, FiniteSets

CONSTANTS Call,       \* request slots
          User,       \* the users
          Value,      \* the sets of credentials that are saved
          RegionOf,   \* RegionOf[v]: the region saved with v
          Secret,     \* the values SECRET_KEY is given
          Dedicated,  \* the values CREDENTIAL_ENCRYPTION_KEY is given
          None,       \* no row, no key, no credentials
          Scaled,     \* TRUE: more than one worker process
          MaxSecond   \* bound: the last second

Second == 0..MaxSecond

VARIABLES cred,       \* cred[u]: the row of aws_credentials of u
          keys,       \* the keys the deployment is configured with
          call,       \* the request each slot is handling
          second,     \* the clock, as collection_id shows it
          collection, \* collection[s]: the collection with the id of second s
          saved       \* history: the users whose credentials have been saved
                      \* since HKDF

vars == <<cred, keys, call, second, collection, saved>>

\* What Fernet is keyed with: HKDF of a key, or SHA-256 of SECRET_KEY as
\* before HKDF.
Cipher == [value : Value, kdf : {"hkdf", "sha"}, key : Secret \union Dedicated]
Cred == [cipher : Cipher, region : {RegionOf[v] : v \in Value}]
NoCred == None

Bucket == {"encrypted", "open", "unreadable"}
\* Policies that allow everything: as a list of statements, as one statement
\* that is not in a list, and by a service wildcard that is not in a list.
Policy == {"narrow", "wide", "wideAlone", "serviceAlone", "unreadable"}

\* "clean" is a history field: what the AWS account held was in order.
Item == [status : {"compliant", "non_compliant", "error"}, clean : BOOLEAN]
Collection == [user : User, status : {"not_configured", "success", "partial_failure"},
               items : SUBSET Item]
NoCollection == None

Idle == [phase |-> "idle"]

TypeOK ==
  /\ \A u \in User : cred[u] = NoCred \/ cred[u] \in Cred
  /\ keys \in [secret : Secret, dedicated : Dedicated \union {None}]
  /\ \A c \in Call : call[c].phase \in {"idle", "saving", "collecting"}
  /\ second \in Second
  /\ \A s \in Second : collection[s] = NoCollection \/ collection[s] \in Collection
  /\ saved \in SUBSET User

Crypt(v, kdf, k) == [value |-> v, kdf |-> kdf, key |-> k]

\* One user saved credentials before HKDF, under SECRET_KEY alone.
Init ==
  /\ keys \in [secret : Secret, dedicated : {None}]
  /\ \E u \in User, v \in Value :
       cred = [x \in User |-> IF x # u THEN NoCred
                ELSE [cipher |-> Crypt(v, "sha", keys.secret), region |-> RegionOf[v]]]
  /\ call = [c \in Call |-> Idle]
  /\ second = 0
  /\ collection = [s \in Second |-> NoCollection]
  /\ saved = {}

MayRun(c) == Scaled \/ \A d \in Call \ {c} : call[d].phase # "saving"
Begins(c) == call[c].phase = "idle" /\ MayRun(c)
Ends(c) == call' = [call EXCEPT ![c] = Idle]

-----------------------------------------------------------------------------
\* CREDENTIAL_ENCRYPTION_KEY or SECRET_KEY
Material == IF keys.dedicated # None THEN keys.dedicated ELSE keys.secret

Encrypted(v) == Crypt(v, "hkdf", Material)

\* Mutation of Readable: SECRET_KEY is no longer tried beside the new key.
ReadableByMaterial(x) ==
  \/ x.kdf = "hkdf" /\ x.key = Material
  \/ x.kdf = "sha" /\ x.key = keys.secret

\* decrypt_credential: the current material, SECRET_KEY, SHA-256 of SECRET_KEY
Readable(x) ==
  \/ x.kdf = "hkdf" /\ x.key \in {Material, keys.secret}
  \/ x.kdf = "sha" /\ x.key = keys.secret

\* save_aws_credentials: encrypt, and look for the user's row.
Save(c, u, v) ==
  /\ Begins(c)
  /\ call' = [call EXCEPT ![c] = [phase |-> "saving", user |-> u, cipher |-> Encrypted(v),
                                  seen |-> cred[u]]]
  /\ UNCHANGED <<cred, keys, second, collection, saved>>

\* Mutation of Replaced: the region is kept when the row has one.
ReplacedCipher(row, seen, x) == [cipher |-> x, region |-> row.region]

\* The UPDATE sets the columns that differ from the row as it was loaded; two
\* ciphers of one value differ, too.
Replaced(row, seen, x) ==
  [cipher |-> x,
   region |-> IF RegionOf[x.value] = seen.region THEN row.region ELSE RegionOf[x.value]]

\* The commit: an INSERT fails on the user's unique row, an UPDATE when the
\* row is gone.
SaveCommit(c) ==
  /\ call[c].phase = "saving"
  /\ LET u == call[c].user
         seen == call[c].seen
         x == call[c].cipher
     IN cred' = IF (seen = NoCred) # (cred[u] = NoCred) THEN cred
                ELSE [cred EXCEPT ![u] =
                        IF seen = NoCred THEN [cipher |-> x, region |-> RegionOf[x.value]]
                                         ELSE Replaced(cred[u], seen, x)]
  /\ saved' = IF cred' = cred THEN saved ELSE saved \union {call[c].user}
  /\ Ends(c)
  /\ UNCHANGED <<keys, second, collection>>

\* delete_aws_credentials: 404 when there is no row.
Delete(c, u) ==
  /\ Begins(c)
  /\ cred[u] # NoCred
  /\ cred' = [cred EXCEPT ![u] = NoCred]
  /\ UNCHANGED <<keys, call, second, collection, saved>>

-----------------------------------------------------------------------------
\* collect_evidence: the service notes the time, the row is read and
\* decrypted, and the collectors go to a thread.  What cannot be decrypted
\* ends the request with an error.
Collect(c, u) ==
  /\ Begins(c)
  /\ cred[u] # NoCred => Readable(cred[u].cipher)
  /\ call' = [call EXCEPT ![c] =
                [phase |-> "collecting", user |-> u, id |-> second,
                 configured |-> cred[u] # NoCred]]
  /\ UNCHANGED <<cred, keys, second, collection, saved>>

\* collect_s3_encryption_evidence: a marker per bucket, and the rate, which
\* is 100 without buckets and counts an unreadable one as not encrypted.
S3Evidence(B) ==
  [markers |-> {CASE b = "encrypted" -> "compliant" [] b = "open" -> "non_compliant"
                  [] b = "unreadable" -> "error" : b \in B},
   full |-> B \subseteq {"encrypted"}]

\* collect_iam_policy_evidence: a policy that allows everything is noticed in
\* a list of statements only; an unreadable one does not lower the rate.
IamEvidence(P) ==
  [markers |-> {CASE p = "wide" -> "non_compliant" [] p = "unreadable" -> "error"
                  [] p \notin {"wide", "unreadable"} -> "compliant" : p \in P},
   full |-> "wide" \notin P]

\* Mutation of Derive: the aggregate rate is asked first.
DeriveByRate(e) == IF e.full THEN "compliant" ELSE "non_compliant"

\* derive_evidence_item_status
Derive(e) ==
  CASE "error" \in e.markers -> "error"
    [] "error" \notin e.markers /\ ("non_compliant" \in e.markers \/ ~e.full) -> "non_compliant"
    [] OTHER -> "compliant"

S3Items == {[status |-> Derive(S3Evidence(B)), clean |-> B \subseteq {"encrypted"}] :
              B \in SUBSET Bucket}
IamItems == {[status |-> Derive(IamEvidence(P)),
              clean |-> P \subseteq {"narrow", "wideAlone", "serviceAlone"}] :
               P \in SUBSET Policy}

\* The INSERT fails on the unique collection_id: a 500.
Stored(id, bundle) ==
  IF collection[id] = NoCollection THEN [collection EXCEPT ![id] = bundle] ELSE collection

\* Without credentials there is nothing to collect, and that is stored.
CollectNothing(c) ==
  /\ call[c].phase = "collecting" /\ ~call[c].configured
  /\ collection' = Stored(call[c].id, [user |-> call[c].user, status |-> "not_configured",
                                       items |-> {}])
  /\ Ends(c)
  /\ UNCHANGED <<cred, keys, second, saved>>

\* Both collectors answered, or one of them.
CollectFinds(c, status, items) ==
  /\ call[c].phase = "collecting" /\ call[c].configured
  /\ collection' = Stored(call[c].id, [user |-> call[c].user, status |-> status,
                                       items |-> items])
  /\ Ends(c)
  /\ UNCHANGED <<cred, keys, second, saved>>

\* All collectors failed: the client could not be made, or no call went through.
CollectFails(c) ==
  /\ call[c].phase = "collecting" /\ call[c].configured
  /\ Ends(c)
  /\ UNCHANGED <<cred, keys, second, collection, saved>>

\* The deployment is restarted, with the keys it had or with others.
Restart(k) ==
  /\ keys' = k
  /\ call' = [c \in Call |-> Idle]
  /\ UNCHANGED <<cred, second, collection, saved>>

Tick ==
  /\ second < MaxSecond
  /\ second' = second + 1
  /\ UNCHANGED <<cred, keys, call, collection, saved>>

Next ==
  \/ \E c \in Call :
       \/ \E u \in User : Delete(c, u) \/ Collect(c, u) \/ \E v \in Value : Save(c, u, v)
       \/ SaveCommit(c) \/ CollectNothing(c) \/ CollectFails(c)
       \/ \E s3 \in S3Items, iam \in IamItems :
            \/ CollectFinds(c, "success", {s3, iam})
            \/ \E item \in {s3, iam} : CollectFinds(c, "partial_failure", {item})
  \/ \E k \in [secret : Secret, dedicated : Dedicated \union {None}] : Restart(k)
  \/ Tick

Spec == Init /\ [][Next]_vars

-----------------------------------------------------------------------------
(***************************************************************************)
(* Credentials can be read as long as the key that they were written with  *)
(* is configured, as SECRET_KEY or as CREDENTIAL_ENCRYPTION_KEY, whatever  *)
(* keys came and went between and whatever a key has been used as before.  *)
(* One case is excepted: credentials from before HKDF that have not been   *)
(* saved since, when their key is configured but is not SECRET_KEY any     *)
(* more.  SHA-256 is tried with SECRET_KEY alone.                          *)
(***************************************************************************)
KeySeparationLosesNothing ==
  \A u \in User :
    cred[u] # NoCred /\ cred[u].cipher.key \in {keys.secret, keys.dedicated}
      => \/ Readable(cred[u].cipher)
         \/ u \notin saved /\ cred[u].cipher.key # keys.secret

(***************************************************************************)
(* derive_evidence_item_status: "Never fabricates compliance".  An item    *)
(* marked compliant was made when every bucket was encrypted and readable, *)
(* every policy readable and none in a form that the analysis recognises   *)
(* as too wide.                                                            *)
(***************************************************************************)
CompliantMeansClean ==
  \A s \in Second :
    collection[s] # NoCollection =>
      \A item \in collection[s].items : item.status = "compliant" => item.clean

(***************************************************************************)
(* A save replaces the credentials as a whole: key and region of the row   *)
(* come from one save.                                                     *)
(***************************************************************************)
CredentialsAreOneSave ==
  \A u \in User : cred[u] # NoCred => cred[u].region = RegionOf[cred[u].cipher.value]
=============================================================================
