----------------------------- MODULE Evaluations -----------------------------
(***************************************************************************)
(* Evaluations on the server: what the endpoints that evaluate store, and  *)
(* what history, control-assessments, trend and report read back.          *)
(*                                                                         *)
(* Every statement of a handler interleaves, as with several workers.  A   *)
(* manual evaluation scores the evidence that its request names, an        *)
(* automatic one the rows that its user has stored.  Rows from before the  *)
(* 0-100 scale are among the stored ones, and readers recognise them by    *)
(* their statuses.                                                         *)
(*                                                                         *)
(* Scores are in ten-thousandths.  Scope, recommendations, titles and      *)
(* times are left out: ids are in the order of created_at, which is when   *)
(* the transaction began.                                                  *)
(***************************************************************************)
EXTENDS ScoringEngine

CONSTANTS Call,           \* request slots
          User,           \* the users
          Type,           \* the evidence types that rows are filed under
          Provided,       \* the evidence a manual evaluation's request names
          Catalogue,      \* for each framework key, its controls
          Old,            \* what older versions wrote: [score, status, assessments]
          HistoryLimit,   \* 50 in the code
          MaxEvaluations  \* bound: the number of evaluations that begin

VARIABLES evidence,  \* evidence[u]: the types of u's evidence rows
          exists,    \* the users with an account
          stored,    \* the rows of compliance_evaluations
          call,      \* the request each slot is handling
          nextId     \* the ids below it have been given out

vars == <<evidence, exists, stored, call, nextId>>

\* assessments: the rows of control_assessments of this evaluation.
\* "legacy" and "truth" are history fields: who wrote the row, and what it says
\* on the 0-100 scale, of the whole and of each control.
OldRow(u, o) ==
  [id |-> 1, user |-> u, framework |-> "soc2", by |-> "manual", score |-> o.score,
   status |-> o.status, controls |-> <<>>, assessments |-> o.assessments, legacy |-> TRUE,
   truth |-> [score |-> 100 * o.score,
              controls |-> [c \in DOMAIN o.assessments |-> 100 * o.assessments[c].score]]]

\* A request that has begun has the row it will store, and "at" is a history
\* field: the statement that failed.
Idle == [phase |-> "idle"]
Handled == {"adding", "storing", "refreshing", "logging"}

Init ==
  /\ evidence = [u \in User |-> {}]
  /\ exists = User
  /\ \E u \in User, o \in Old : stored = {OldRow(u, o)}
  /\ call = [c \in Call |-> Idle]
  /\ nextId = 2

-----------------------------------------------------------------------------
\* evaluate_from_evidence_canonical: the engine's result as it is answered.
Totals(f, types) ==
  LET result == ServerEvaluation(Catalogue[f], Translate(types))
  IN [score |-> RoundHalfEven(10000 * result.sum, Cardinality(DOMAIN Catalogue[f])),
      status |-> result.status,
      controls |-> [c \in DOMAIN Catalogue[f] |->
                      [score |-> 10000 * result.controls[c].score,
                       status |-> result.controls[c].status]]]

\* An id like CC6.1-E1 loses its suffix, and names no evidence type then.
Base(id) == IF id = "CC6.1-E1" THEN "CC6.1" ELSE id

Row(u, f, by, types, assessed) ==
  LET totals == Totals(f, types)
  IN [id |-> nextId, user |-> u, framework |-> f, by |-> by,
      score |-> totals.score, status |-> totals.status, controls |-> totals.controls,
      assessments |-> IF assessed THEN totals.controls ELSE <<>>,
      legacy |-> FALSE,
      truth |-> [score |-> totals.score,
                 controls |-> [c \in DOMAIN totals.controls |-> totals.controls[c].score]]]

Begins(c, phase, row) ==
  /\ call[c].phase \notin Handled
  /\ nextId <= MaxEvaluations + 1
  /\ call' = [call EXCEPT ![c] = [phase |-> phase, row |-> row, at |-> "none"]]
  /\ nextId' = nextId + 1

At(c, phase) == call[c].phase = phase
Goto(c, phase) == call' = [call EXCEPT ![c].phase = phase]

\* evaluate_compliance: status and score in the request are not looked at.
EvaluateManually(c, u, ids) ==
  /\ u \in exists
  /\ Begins(c, "adding", Row(u, "soc2", "manual", {Base(id) : id \in ids}, TRUE))
  /\ UNCHANGED <<evidence, exists, stored>>

\* Mutation of EvidenceOf: the query is not restricted to the user.
EvidenceOfAll(u) == UNION {evidence[v] : v \in User}

EvidenceOf(u) == evidence[u]

\* evaluate_from_evidence, which each of the four routers has: no assessments.
EvaluateFromEvidence(c, u, f) ==
  /\ u \in exists
  /\ Begins(c, "storing", Row(u, f, "auto", EvidenceOf(u), FALSE))
  /\ UNCHANGED <<evidence, exists, stored>>

EvaluateSOC2(c, u) == EvaluateFromEvidence(c, u, "soc2")
EvaluateISO27001(c, u) == EvaluateFromEvidence(c, u, "iso27001")
EvaluateHIPAA(c, u) == EvaluateFromEvidence(c, u, "hipaa")
EvaluateGDPR(c, u) == EvaluateFromEvidence(c, u, "gdpr")

\* Mutation of Flush: the record is committed before its assessments.
FlushCommits(c) ==
  /\ At(c, "adding")
  /\ call[c].row.user \in exists
  /\ stored' = stored \union {[call[c].row EXCEPT !.assessments = <<>>]}
  /\ Goto(c, "storing")
  /\ UNCHANGED <<evidence, exists, nextId>>

\* The record is flushed, for its id.  From here to the commit the foreign key
\* holds the user's row.
Flush(c) ==
  /\ At(c, "adding")
  /\ call[c].row.user \in exists
  /\ Goto(c, "storing")
  /\ UNCHANGED <<evidence, exists, stored, nextId>>

\* The commit of the record with its assessments, if any.  The foreign key
\* refuses it when the user is gone.
Stores(c) == call[c].row.user \in exists /\ stored' = stored \union {call[c].row}

Commit(c) ==
  /\ At(c, "storing")
  /\ Stores(c)
  /\ Goto(c, "refreshing")
  /\ UNCHANGED <<evidence, exists, nextId>>

\* db.refresh reads the record back and finds it, unless its account has been
\* deleted.
Refresh(c) ==
  /\ At(c, "refreshing")
  /\ call[c].row \in stored
  /\ Goto(c, IF call[c].row.by = "manual" THEN "logging" ELSE "answered")
  /\ UNCHANGED <<evidence, exists, stored, nextId>>

\* log_event, whose failure is swallowed.  The record has expired with its
\* commit or rollback and is read once more for the answer.
Log(c) ==
  /\ At(c, "logging")
  /\ call[c].row \in stored
  /\ Goto(c, "answered")
  /\ UNCHANGED <<evidence, exists, stored, nextId>>

\* A statement fails, the one after the commit included, or log_event leaves
\* the session without a rollback: a 500.  The rollback takes back what is not
\* committed; a commit that fails may have taken effect.
Fail(c) ==
  /\ call[c].phase \in Handled
  /\ stored' = stored \/ (At(c, "storing") /\ Stores(c))
  /\ call' = [call EXCEPT ![c] = [phase |-> "refused", row |-> @.row, at |-> @.phase]]
  /\ UNCHANGED <<evidence, exists, nextId>>

\* collect and upload, which EvidenceStore models.
AddEvidence(u, t) ==
  /\ u \in exists
  /\ evidence' = [evidence EXCEPT ![u] = @ \union {t}]
  /\ UNCHANGED <<exists, stored, call, nextId>>

\* delete_account.  One that an evaluation's rows make fail is rolled back and
\* changes nothing.
DeleteAccount(u) ==
  /\ u \in exists
  /\ \A c \in Call : At(c, "storing") => call[c].row.by = "auto" \/ call[c].row.user # u
  /\ exists' = exists \ {u}
  /\ evidence' = [evidence EXCEPT ![u] = {}]
  /\ stored' = {r \in stored : r.user # u}
  /\ UNCHANGED <<call, nextId>>

Next ==
  \/ \E c \in Call, u \in User :
       \/ \E ids \in Provided : EvaluateManually(c, u, ids)
       \/ EvaluateSOC2(c, u) \/ EvaluateISO27001(c, u)
       \/ EvaluateHIPAA(c, u) \/ EvaluateGDPR(c, u)
  \/ \E c \in Call : Flush(c) \/ Commit(c) \/ Refresh(c) \/ Log(c) \/ Fail(c)
  \/ \E u \in User : DeleteAccount(u) \/ \E t \in Type : AddEvidence(u, t)

Spec == Init /\ [][Next]_vars

-----------------------------------------------------------------------------
(* Reading them back.                                                      *)

LegacyOnly == {"partially_compliant", "not_applicable", "not_evaluated"}

\* What older versions wrote: statuses of either vocabulary, and scores of
\* controls in whole percents.
OldConstants ==
  LET Status == DOMAIN StatusRank \union LegacyOnly
  IN \A o \in Old :
       /\ o.status \in Status
       /\ \A c \in DOMAIN o.assessments :
            /\ o.assessments[c].status \in Status
            /\ \E percent \in 0..100 : o.assessments[c].score = 100 * percent

\* Mutation of IsLegacyRecord: only the record's own status is looked at.
IsLegacyByStatus(r) == r.status \in LegacyOnly

IsLegacyRecord(r) ==
  \/ r.status \in LegacyOnly
  \/ \E c \in DOMAIN r.assessments : r.assessments[c].status \in LegacyOnly

CanonicalStatus(s) ==
  CASE s = "partially_compliant" -> "partial"
    [] s \in {"not_applicable", "not_evaluated"} -> "not_assessed"
    [] s \notin LegacyOnly -> s

\* _normalized_record_view; history and report show it.
RecordView(r) ==
  IF IsLegacyRecord(r) THEN [score |-> 100 * r.score, status |-> CanonicalStatus(r.status)]
                       ELSE [score |-> r.score, status |-> r.status]

\* control-assessments and trend; a legacy score becomes an integer.
AssessmentView(r, c) ==
  [score |-> IF IsLegacyRecord(r) THEN 10000 * RoundHalfEven(r.assessments[c].score, 100)
                                  ELSE r.assessments[c].score,
   status |-> CanonicalStatus(r.assessments[c].status)]

\* get_evaluation_history: the latest ones.
History(u) ==
  LET own == {r \in stored : r.user = u}
  IN {r \in own : Cardinality({s \in own : s.id > r.id}) < HistoryLimit}

-----------------------------------------------------------------------------
(***************************************************************************)
(* What history shows of an automatic evaluation never claims more than    *)
(* the evidence its user has: rows are only added, and none of another     *)
(* user's counts.                                                          *)
(***************************************************************************)
HistoryClaimsNoMore ==
  \A u \in exists : \A r \in History(u) :
    r.by = "auto" => RecordView(r).score <= Totals(r.framework, evidence[u]).score

\* A legacy row shows by one of its statuses what it is.
Marked(r) ==
  r.legacy => ({r.status} \union {r.assessments[c].status : c \in DOMAIN r.assessments})
                \intersect {"partially_compliant", "not_applicable", "not_evaluated"} # {}

(***************************************************************************)
(* compliance.py:39-47: old rows are brought to the 0-100 scale when they  *)
(* are read, and new ones are never scaled again.  It takes one legacy     *)
(* status, on the row or on any of its assessments, to be recognised.      *)
(***************************************************************************)
ReadingsAreFaithful ==
  \A r \in stored :
    Marked(r) =>
      /\ RecordView(r).score = r.truth.score
      /\ RecordView(r).status \in DOMAIN StatusRank
      /\ \A c \in DOMAIN r.assessments :
           /\ AssessmentView(r, c).score = r.truth.controls[c]
           /\ AssessmentView(r, c).status \in DOMAIN StatusRank

(***************************************************************************)
(* An evaluation is stored as a whole or not at all: a manual one has an   *)
(* assessment for each control of the framework, equal to the results in   *)
(* its summary.  One that was answered with a result is there as long as   *)
(* its account is.  One that was answered 500 has left nothing behind,     *)
(* with the exceptions that the code has: the commit failed after it took  *)
(* effect, and the refresh or the reading after it failed, so the caller   *)
(* is refused what is stored.                                              *)
(***************************************************************************)
EvaluationsAreWhole ==
  /\ \A r \in stored : ~r.legacy /\ r.by = "manual" => r.assessments = r.controls
  /\ \A c \in Call :
       At(c, "answered") /\ call[c].row.user \in exists => call[c].row \in stored
  /\ \A c \in Call :
       At(c, "refused") /\ call[c].at \notin {"storing", "refreshing", "logging"}
         => \A r \in stored : r.id # call[c].row.id
=============================================================================
