------------------------- MODULE EvidenceVocabulary -------------------------
(***************************************************************************)
(* The evidence vocabulary both scoring engines load from                  *)
(* shared/frameworks/evidence-vocabulary.json, and the translation of the  *)
(* evidence types stored with a row into the canonical types the           *)
(* frameworks ask for (EvidenceVocabulary in                               *)
(* backend/app/core/canonical_evidence.py, ported in                       *)
(* electron/processing/canonical-engine.js).                               *)
(***************************************************************************)
EXTENDS Integers, Sequences, FiniteSetsExt

Endpoints ==
  {"windows_collector", "macos_collector", "linux_collector"}

(* The entries in file order: the canonical type, the older names that     *)
(* stand for it, and the collectors among its producers.                   *)
Vocabulary == <<
  [type |-> "access_logs", aliases |-> {}, collectors |-> {}],
  [type |-> "audit_reports", aliases |-> {"update_status"}, collectors |-> {}],
  [type |-> "backup_logs", aliases |-> {}, collectors |-> {}],
  [type |-> "encryption_policies",
   aliases |-> {"s3_encryption", "s3_public_access", "iam_mfa"},
   collectors |-> {}],
  [type |-> "event_logs", aliases |-> {"event_logs"},
   collectors |-> Endpoints \union {"aws_collector"}],
  [type |-> "firewall_configs", aliases |-> {"firewall"},
   collectors |-> Endpoints],
  [type |-> "incident_reports", aliases |-> {"incident_reports"},
   collectors |-> {}],
  [type |-> "network_configs", aliases |-> {"network"},
   collectors |-> Endpoints],
  [type |-> "policy_document", aliases |-> {"policy_document"},
   collectors |-> {}],
  [type |-> "security_policies",
   aliases |-> {"security_policies", "security_settings"},
   collectors |-> Endpoints],
  [type |-> "system_configs",
   aliases |-> {"system_info", "services", "software", "file_permissions"},
   collectors |-> Endpoints],
  [type |-> "training_records", aliases |-> {"training_records"},
   collectors |-> {}],
  [type |-> "user_provisioning",
   aliases |-> {"users", "iam_policy", "iam_mfa"},
   collectors |-> Endpoints] >>

Unknown == "no canonical type"

CanonicalTypes == {Vocabulary[i].type : i \in DOMAIN Vocabulary}

(* The first entry that lists an alias wins.                               *)
AliasOf(t) ==
  LET holders == {i \in DOMAIN Vocabulary : t \in Vocabulary[i].aliases}
  IN IF holders = {} THEN Unknown ELSE Vocabulary[Min(holders)].type

ToCanonical(t) == IF t \in CanonicalTypes THEN t ELSE AliasOf(t)

Translate(types) == {ToCanonical(t) : t \in types} \ {Unknown}

(* Some collector can produce the type: what no collector produces can     *)
(* only come from an upload, or so the engines conclude.                   *)
CollectorTypes ==
  {Vocabulary[i].type :
     i \in {j \in DOMAIN Vocabulary : Vocabulary[j].collectors # {}}}

IsCollectorProduced(t) == ToCanonical(t) \in CollectorTypes

NonScoring == {"manual_upload", "document", "text", "unknown"}

(* What an upload may be filed under, on the server and on the desktop.    *)
Accepted(t) == t \in NonScoring \/ ToCanonical(t) # Unknown
=============================================================================
