----------------------------- MODULE Compliance -----------------------------
(***************************************************************************)
(* From AWS credentials to evaluations.  Credentials are saved and used;   *)
(* a store of evidence fills up and is scored; evaluations are stored and  *)
(* read back.  Each of the three has rows of its own here, so a behaviour  *)
(* exercises one, chosen at the start, and the others stand still.         *)
(***************************************************************************)
EXTENDS AwsCollection, ScoringEngine

CONSTANTS Catalogue, Uploadable, MaxUploads, MaxGaps, MaxFailed,  \* Scoring
          Owner, Type, Provided, Evaluated, Old, HistoryLimit,    \* Evaluations
          MaxEvaluations

VARIABLES part,                                                   \* the component at work
          client, framework, rows,                                \* Scoring
          evidence, exists, stored, evaluating, nextId            \* Evaluations

storeVars == <<client, framework, rows>>
evaluationVars == <<evidence, exists, stored, evaluating, nextId>>
complianceVars == <<part, vars, storeVars, evaluationVars>>

Store == INSTANCE Scoring
Eval == INSTANCE Evaluations WITH User <- Owner, Catalogue <- Evaluated, call <- evaluating

ComplianceInit ==
  /\ part \in {"aws", "store", "evaluations"}
  /\ Init /\ Store!Init /\ Eval!Init

ComplianceNext ==
  \/ part = "aws" /\ Next /\ UNCHANGED <<part, storeVars, evaluationVars>>
  \/ part = "store" /\ Store!Next /\ UNCHANGED <<part, vars, evaluationVars>>
  \/ part = "evaluations" /\ Eval!Next /\ UNCHANGED <<part, vars, storeVars>>

ComplianceSpec == ComplianceInit /\ [][ComplianceNext]_complianceVars

\* The properties of Scoring, stated there, while a store is filled: the
\* engines answer alike, manual controls need an upload, and more evidence
\* lowers no score.
EnginesAgree == part = "store" => Store!EnginesAgree
ManualNeedsUpload == part = "store" => Store!ManualNeedsUpload
MoreEvidenceNeverHurts == part = "store" => Store!MoreEvidenceNeverHurts

\* The properties of Evaluations, stated there: history claims no more than the
\* evidence, rows are read as they were meant, and are stored as a whole.
HistoryClaimsNoMore == Eval!HistoryClaimsNoMore
ReadingsAreFaithful == Eval!ReadingsAreFaithful
EvaluationsAreWhole == Eval!EvaluationsAreWhole
=============================================================================
