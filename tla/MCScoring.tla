----------------------------- MODULE MCScoring ------------------------------
(* Compliance for TLC.  Two requests save, delete and use credentials of   *)
(* one user, with two values of SECRET_KEY and two of the dedicated key,   *)
(* one of which has also been a SECRET_KEY.  A store                       *)
(* is scored against a framework as shipped; uploads are filed under every *)
(* canonical type, two older names, a type that scores nothing and one     *)
(* that is refused.  Evaluations of a part of each framework are made by   *)
(* two users.                                                              *)
EXTENDS Compliance, Frameworks

CONSTANTS r1, r2

MCRegionOf == [v \in Value |-> IF v = "v1" THEN "east" ELSE "west"]

MCUploadable ==
  CanonicalTypes \union
    {"update_status", "iam_mfa", "manual_upload", "password_policy"}

\* Before the 0-100 scale: a row that shows it, one whose assessments do, and
\* one that is in no way different from a new row.
MCOld ==
  LET Assessed(status, score) == [c \in {"CC6.2", "CC6.6"} |->
        IF c = "CC6.2" THEN [status |-> "compliant", score |-> 9500]
                       ELSE [status |-> status, score |-> score]]
  IN {[score |-> 6200, status |-> "partially_compliant",
       assessments |-> Assessed("partially_compliant", 5000)],
      [score |-> 8500, status |-> "compliant", assessments |-> Assessed("not_evaluated", 0)],
      [score |-> 9700, status |-> "compliant", assessments |-> Assessed("compliant", 9900)]}

MCProvided == {{"CC6.1-E1"}, {"policy_document", "system_configs"}}

Part(controls, ids) == [id \in ids |-> controls[id]]

MCEvaluated ==
  [soc2 |-> Part(SOC2, {"CC6.1", "CC6.2", "CC6.6"}),
   iso27001 |-> Part(ISO, {"A.8.9"}),
   hipaa |-> Part(HIPAA, {"164.312.c.2"}),
   gdpr |-> Part(GDPR, {"Art.25.2", "Art.37.1"})]

\* The shipped frameworks ask for evidence that the vocabulary has.
ASSUME ShippedAssumption ==
  \A f \in DOMAIN Shipped : \A id \in DOMAIN Shipped[f] :
     /\ Shipped[f][id].required \subseteq CanonicalTypes
     /\ Shipped[f][id].mode \in {"automatable", "hybrid", "manual_upload"}

\* And what the theorems about scoring assume of a framework is so, as is what
\* those about evaluations assume of old rows.
ASSUME SharesAssumption ==
  \A f \in DOMAIN Shipped :
     Controllable(Shipped[f]) /\ NoHalves(Shipped[f]) /\ NotFromS3(Shipped[f])
ASSUME OldAssumption == Eval!OldConstants

\* Components that stand still start in one way.
MCInit ==
  /\ ComplianceInit
  /\ \A r \in stored : r.user = "a"
  /\ part # "aws" => keys.secret = "s1" /\ cred["a"].cipher.value = "v1"
  /\ part # "store" => client = "web" /\ framework = "soc2" /\ rows = {}
  /\ part # "evaluations" => \A r \in stored : r.score = 6200

MCSpec == MCInit /\ [][ComplianceNext]_complianceVars

Symmetry == Permutations({r1, r2})
=============================================================================
