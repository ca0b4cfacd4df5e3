------------------------------ MODULE Scoring -------------------------------
(***************************************************************************)
(* The two scoring engines of ComplianceGuard over one evidence store.  An *)
(* evaluation is a function of the types of the rows stored at that moment *)
(* and leaves them alone, so the state is the store: rows arrive from the  *)
(* AWS collector (web), from the endpoint collectors (desktop) and from    *)
(* uploads, and no route or IPC channel takes one away.  The desktop files *)
(* its rows under a framework and scores a framework by its own rows; only *)
(* those are here.                                                         *)
(***************************************************************************)
EXTENDS ScoringEngine

CONSTANTS
  Catalogue,   \* for each framework key, its controls
  Uploadable,  \* the types users file uploads under
  MaxUploads,  \* bound: a store holds at most this many uploaded types
  MaxGaps,     \* bound: or it lacks at most this many of them
  MaxFailed    \* bound: endpoint collectors that fail in one collection

VARIABLES
  client,     \* "web" or "desktop": where the store is
  framework,  \* the framework it is scored against
  rows        \* the evidence rows, as [type, origin]

vars == <<client, framework, rows>>

Collected(t) == [type |-> t, origin |-> "collected"]
Uploaded(t) == [type |-> t, origin |-> "uploaded"]

(* The types the AWS collectors file their rows under.                     *)
AwsTypes == {"s3_encryption", "iam_policy"}

(* Mutation of EndpointTypes: the update status filed as an audit report.  *)
EndpointTypesWithReports ==
  {"system_configs", "security_policies", "event_logs", "firewall_configs",
   "network_configs", "user_provisioning", "audit_reports"}

(* The types the desktop files what it collects under.                     *)
EndpointTypes ==
  {"system_configs", "security_policies", "event_logs", "firewall_configs",
   "network_configs", "user_provisioning"}
-----------------------------------------------------------------------------
(* The store.                                                              *)

UploadedTypes == {t \in Uploadable : Uploaded(t) \in rows}

Filable == {t \in Uploadable : Accepted(t)}

WithinBounds(uploads) ==
  \/ Cardinality(uploads) <= MaxUploads
  \/ Cardinality(Filable \ uploads) <= MaxGaps

(* A store that is new, or has been filled by uploads over time.           *)
Init ==
  /\ client \in {"web", "desktop"}
  /\ framework \in DOMAIN Catalogue
  /\ \/ rows = {}
     \/ \E gaps \in [1..MaxGaps -> Filable] :
          rows = {Uploaded(t) : t \in Filable \ {gaps[i] : i \in 1..MaxGaps}}

(* POST /evidence/collect: each of the two AWS collectors may fail; when   *)
(* both do the collection fails and nothing is stored.                     *)
CollectFromAws(failed) ==
  /\ client = "web"
  /\ failed # AwsTypes
  /\ rows' = rows \union {Collected(t) : t \in AwsTypes \ failed}
  /\ UNCHANGED <<client, framework>>

(* The endpoint's buckets: one that carries an error files no row.         *)
CollectFromEndpoint(failed) ==
  /\ client = "desktop"
  /\ Cardinality(failed) <= MaxFailed
  /\ rows' = rows \union {Collected(t) : t \in EndpointTypes \ failed}
  /\ UNCHANGED <<client, framework>>

(* An upload is refused when its type is not in the vocabulary.            *)
Upload(t) ==
  /\ Accepted(t)
  /\ WithinBounds(UploadedTypes \union {t})
  /\ rows' = rows \union {Uploaded(t)}
  /\ UNCHANGED <<client, framework>>

Next ==
  \/ \E failed \in SUBSET AwsTypes : CollectFromAws(failed)
  \/ \E failed \in SUBSET EndpointTypes : CollectFromEndpoint(failed)
  \/ \E t \in Uploadable : Upload(t)

Spec == Init /\ [][Next]_vars
-----------------------------------------------------------------------------
(* What an evaluation of the store answers.                                *)

Controls == Catalogue[framework]

Present(stored) == Translate({r.type : r \in stored})

Scored(stored) == ServerEvaluation(Controls, Present(stored))

(* The two engines answer alike: every control's status, score and gaps,   *)
(* the overall score and status and the category scores, although the one  *)
(* rounds a half to the even neighbour and the other up ("same algorithm,  *)
(* same rounding", canonical-engine.js:4-7).  The frameworks shipped never *)
(* reach a half that would tell.                                           *)
EnginesAgree ==
  Scored(rows) = DesktopEvaluation(Controls, Present(rows))

(* A control only manual evidence can settle is never shown as assessed    *)
(* without an upload among what it requires, whatever the collectors have  *)
(* filed and under whatever older name (canonical_evidence.py:266-279).    *)
ManualNeedsUpload ==
  LET results == Scored(rows).controls
  IN \A id \in DOMAIN Controls :
       /\ Controls[id].mode = "manual_upload"
       /\ results[id].status # "not_assessed"
       => \E r \in rows : /\ r.origin = "uploaded"
                          /\ ToCanonical(r.type) \in Controls[id].required

NoWorse(before, after) ==
  /\ before.sum <= after.sum
  /\ StatusRank[before.status] <= StatusRank[after.status]
  /\ \A id \in DOMAIN before.controls :
        LET b == before.controls[id]
            a == after.controls[id]
        IN b.score <= a.score /\ StatusRank[b.status] <= StatusRank[a.status]

(* More evidence never worsens an evaluation: whichever type were added to *)
(* the store, no control's status or score, nor the overall score or       *)
(* status, would fall (the averages are over all controls, assessed or     *)
(* not, canonical_evidence.py:314-328).                                    *)
MoreEvidenceNeverHurts ==
  LET now    == Present(rows)
      before == ServerEvaluation(Controls, now)
  IN \A t \in CanonicalTypes \ now :
       NoWorse(before, ServerEvaluation(Controls, now \union {t}))
=============================================================================
