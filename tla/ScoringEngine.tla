---------------------------- MODULE ScoringEngine ----------------------------
(***************************************************************************)
(* The scoring engines as functions of the types of evidence a store holds:*)
(* the server's (backend/app/core/canonical_evidence.py) and its port in   *)
(* the desktop application (electron/processing/canonical-engine.js).      *)
(*                                                                         *)
(* Scores are exact: a quotient is kept as a numerator and a denominator   *)
(* until the engine rounds it.                                             *)
(***************************************************************************)
EXTENDS EvidenceVocabulary, FiniteSets

(* Python's round() of n/d: to the nearest, a half to the even neighbour.  *)
RoundHalfEven(n, d) ==
  LET down == n \div d
      up   == 2 * (n % d) > d \/ (2 * (n % d) = d /\ down % 2 = 1)
  IN IF up THEN down + 1 ELSE down

(* Mutation of RoundHalfUp: Math.floor in its place.                       *)
RoundDown(n, d) == n \div d

(* JavaScript's Math.round(): a half goes up.                              *)
RoundHalfUp(n, d) == (2 * n + d) \div (2 * d)

StatusRank == [not_assessed |-> 0, non_compliant |-> 1, partial |-> 2,
               compliant |-> 3]

(* What k of the n types a control requires are worth.                     *)
CoverageStatus(k, n) ==
  IF k = 0 THEN "not_assessed"
  ELSE IF k >= n THEN "compliant"
  ELSE IF 2 * k >= n THEN "partial"
  ELSE "non_compliant"

(* A control only manual evidence can settle, and none of it is manual.    *)
Gated(control, available) ==
  /\ control.mode = "manual_upload"
  /\ \A t \in available : IsCollectorProduced(t)

(* The two engines are one algorithm, but for how each rounds.             *)
Rounded(engine, n, d) ==
  IF engine = "server" THEN RoundHalfEven(n, d) ELSE RoundHalfUp(n, d)

ControlResult(control, present, engine) ==
  LET available == control.required \intersect present
      k         == Cardinality(available)
      n         == Cardinality(control.required)
  IN [status |-> IF Gated(control, available) THEN "not_assessed"
                 ELSE CoverageStatus(k, n),
      score  |-> IF n = 0 THEN 0 ELSE Rounded(engine, 100 * k, n),
      gaps   |-> control.required \ present]

(* Mutation of ScoreSum: controls that are not assessed left out, scaled   *)
(* up to the number there are.                                             *)
ScoreSumOfAssessed(results, ids) ==
  LET assessed == {id \in ids : results[id].status # "not_assessed"}
  IN IF assessed = {} THEN 0
     ELSE (Cardinality(ids)
             * MapThenSumSet(LAMBDA id : results[id].score, assessed))
          \div Cardinality(assessed)

ScoreSum(results, ids) == MapThenSumSet(LAMBDA id : results[id].score, ids)

(* The average is kept as sum/count; 90 and 70 are its thresholds.         *)
OverallStatus(results) ==
  LET sum == ScoreSum(results, DOMAIN results)
      n   == Cardinality(DOMAIN results)
  IN IF \A id \in DOMAIN results : results[id].status = "not_assessed"
     THEN "not_assessed"
     ELSE IF sum >= 90 * n THEN "compliant"
     ELSE IF sum >= 70 * n THEN "partial"
     ELSE "non_compliant"

(* The average of each category, in hundredths.                            *)
CategoryScores(controls, results, engine) ==
  [cat \in {controls[id].category : id \in DOMAIN controls} |->
     LET ids == {id \in DOMAIN controls : controls[id].category = cat}
     IN Rounded(engine, 100 * ScoreSum(results, ids), Cardinality(ids))]

Evaluation(controls, present, engine) ==
  LET results == [id \in DOMAIN controls |->
                    ControlResult(controls[id], present, engine)]
  IN [controls   |-> results,
      sum        |-> ScoreSum(results, DOMAIN results),
      status     |-> OverallStatus(results),
      categories |-> CategoryScores(controls, results, engine)]

ServerEvaluation(controls, present) ==
  Evaluation(controls, present, "server")

DesktopEvaluation(controls, present) ==
  Evaluation(controls, present, "desktop")

\* Controls that can be counted, with requirements that can be.
Controllable(controls) ==
  /\ IsFiniteSet(DOMAIN controls)
  /\ \A id \in DOMAIN controls : IsFiniteSet(controls[id].required)

(* Two facts of the frameworks shipped that answers depend on.  No share   *)
(* and no average is a half, which the engines round differently: it takes *)
(* a multiple of eight types or of eight controls, sixteen if each control *)
(* requires one or two types and scores 0, 50 or 100.                      *)
NoHalves(controls) ==
  LET Size(id) == Cardinality(controls[id].required)
      Category(id) == {other \in DOMAIN controls : controls[other].category = controls[id].category}
  IN \A id \in DOMAIN controls :
       /\ Size(id) = 0 \/ Size(id) % 8 # 0
       /\ \/ Cardinality(Category(id)) % 8 # 0
          \/ /\ Cardinality(Category(id)) % 16 # 0
             /\ \A other \in Category(id) : Size(other) \in {1, 2}

(* And what only manual evidence can settle never asks for the type that S3*)
(* rows stand for: the vocabulary lists no collector for that one.         *)
NotFromS3(controls) ==
  \A id \in DOMAIN controls :
    controls[id].mode = "manual_upload"
      => "encryption_policies" \notin controls[id].required
=============================================================================
