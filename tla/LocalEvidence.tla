--------------------------- MODULE LocalEvidence ---------------------------
(***************************************************************************)
(* Evidence on the desktop: the rows of evidence_items, the files some of  *)
(* them have, and the three records a collection leaves behind it, the     *)
(* snapshot (system_evidence), the ledger (audit_log) and the trail        *)
(* (enterprise_audit_log, whose chaining nothing on the desktop reads).    *)
(*                                                                         *)
(* Nothing is one transaction: each statement commits by itself, any of    *)
(* them may fail and the app may be killed between two.  The files and     *)
(* SQLite answer at once, so a copy of the app finishes a call before it   *)
(* takes the next; between two copies every statement interleaves.         *)
(***************************************************************************)
EXTENDS Integers, FiniteSets

CONSTANTS Instance,    \* copies of the app that may run
          Finding,     \* bound: what the collectors may have found
          Frameworks,  \* the frameworks a scheduled run works through
          Name,        \* file names; those of event logs have the time in ms
          MaxNumber,   \* bound: the numbers a name is made unique with
          MaxCalls,    \* bound: calls
          None, Torn   \* no file, and one that was not written to its end

VARIABLES open,      \* copies of the app that are running
          shared,    \* history: two copies have been open at a time
          calls,     \* number of calls so far
          call,      \* what each copy is doing
          files,     \* the evidence directory: the call each file's bytes are from
          rows,      \* evidence_items
          snapshots, \* system_evidence: call and framework
          ledger,    \* audit_log: call, framework and count of items
          trail      \* enterprise_audit_log: likewise

stored == <<files, rows, snapshots, ledger, trail>>
vars == <<open, shared, calls, call, stored>>

\* What the collectors answer with, in the order it is processed in.  Only event
\* logs go to a file; two of the six kinds that do not stand for all of them.
Bucket == {"settings", "logs", "network"}
After == [settings |-> "logs", logs |-> "network", network |-> "snapshot"]
Path == Name \X (0..MaxNumber)
Bytes == 1..MaxCalls \union {None, Torn}

\* A call can be told from what is no file and from what is no whole one.
EvidenceConstants ==
  /\ MaxCalls \in Nat /\ Frameworks \in Nat \ {0} /\ MaxNumber \in Nat
  /\ \A found \in Finding : found \subseteq Bucket
  /\ None \notin Int /\ None # Torn

Kind == {"idle", "collection", "upload", "note"}
Phase == Bucket \union {"writing", "hashing", "filing", "snapshot", "ledger", "trail"}
CallState == [kind : Kind, id : 0..MaxCalls, phase : Phase,
              framework : 1..Frameworks, last : 1..Frameworks, found : SUBSET Bucket,
              path : Path \union {None}, hash : Bytes, count : 0..Cardinality(Bucket)]
Row == [call : 1..MaxCalls, framework : 1..Frameworks, collected : BOOLEAN,
        path : Path \union {None}, hash : Bytes, bucket : Bucket]
Record == [call : 1..MaxCalls, framework : 1..Frameworks, count : 0..Cardinality(Bucket)]

TypeOK ==
  /\ open \in SUBSET Instance
  /\ shared \in BOOLEAN
  /\ calls \in 0..MaxCalls
  /\ call \in [Instance -> CallState]
  /\ files \in [Path -> Bytes]
  /\ rows \in SUBSET Row
  /\ snapshots \in SUBSET ((1..MaxCalls) \X (1..Frameworks))
  /\ ledger \in SUBSET Record /\ trail \in SUBSET Record

Idle == [kind |-> "idle", id |-> 0, phase |-> "settings", framework |-> 1, last |-> 1,
         found |-> {}, path |-> None, hash |-> None, count |-> 0]

Init ==
  /\ open = {} /\ shared = FALSE /\ calls = 0
  /\ call = [i \in Instance |-> Idle]
  /\ files = [p \in Path |-> None]
  /\ rows = {} /\ snapshots = {} /\ ledger = {} /\ trail = {}

At(i, phase) == call[i].kind # "idle" /\ call[i].phase = phase
Goto(i, phase) == call' = [call EXCEPT ![i].phase = phase]
Ends(i) == call' = [call EXCEPT ![i] = Idle]

-----------------------------------------------------------------------------
Launch(i) ==
  /\ i \notin open
  /\ open' = open \union {i}
  /\ shared' = (shared \/ open # {})
  /\ UNCHANGED <<calls, call, stored>>

\* The app quits or is killed, at any moment: also half-way through a file.
Exit(i) ==
  /\ i \in open
  /\ open' = open \ {i}
  /\ Ends(i)
  /\ \/ UNCHANGED files
     \/ At(i, "writing") /\ files' = [files EXCEPT ![call[i].path] = Torn]
  /\ UNCHANGED <<shared, calls, rows, snapshots, ledger, trail>>

Begins(i, c) ==
  /\ i \in open /\ call[i] = Idle
  /\ calls < MaxCalls /\ calls' = calls + 1
  /\ call' = [call EXCEPT ![i] = [c EXCEPT !.id = calls + 1]]
  /\ UNCHANGED <<open, shared, stored>>

\* collectEvidence has answered, with what each collector found: for the
\* scheduler, which goes on from framework to framework, or for the user.
Collect(i, found, first, last) ==
  /\ first = last \/ <<first, last>> = <<1, Frameworks>>
  /\ Begins(i, [Idle EXCEPT !.kind = "collection", !.found = found,
                            !.framework = first, !.last = last])

\* processManualEvidence of a known type, with a file and without.
Upload(i, f) == Begins(i, [Idle EXCEPT !.kind = "upload", !.phase = "logs",
                                       !.framework = f, !.last = f, !.found = {"logs"}])
Note(i, f) == Begins(i, [Idle EXCEPT !.kind = "note", !.framework = f, !.last = f,
                                     !.found = {"settings"}])

-----------------------------------------------------------------------------
\* addEvidence
Files(i, bucket) ==
  /\ rows' = rows \union
       {[call |-> call[i].id, framework |-> call[i].framework,
         collected |-> call[i].kind = "collection", bucket |-> bucket,
         path |-> call[i].path, hash |-> call[i].hash]}
  /\ call' = IF call[i].kind \in {"upload", "note"}
               THEN [call EXCEPT ![i] = Idle]
               ELSE [call EXCEPT ![i].count = @ + 1, ![i].path = None, ![i].hash = None,
                                 ![i].phase = After[bucket]]
  /\ UNCHANGED <<open, shared, calls, files, snapshots, ledger, trail>>

\* What has an error is left out, and so are logs that are too short.
Skip(i) ==
  /\ \E b \in Bucket \ call[i].found :
       /\ At(i, b)
       /\ Goto(i, After[b])
  /\ UNCHANGED <<open, shared, calls, stored>>

AddEvidence(i) ==
  \E b \in {"settings", "network"} : At(i, b) /\ b \in call[i].found /\ Files(i, b)

\* Mutation of FreePath: the name is taken as it is.
AnyPath(name) == <<name, 0>>

\* saveEvidenceFile: the first number under which the name is not taken.  No
\* file is ever removed, so that trying one number after the other comes to it.
FreePath(name) ==
  <<name, CHOOSE n \in 0..MaxNumber : /\ files[<<name, n>>] = None
                                      /\ \A m \in 0..(n - 1) : files[<<name, m>>] # None>>

ChooseName(i) ==
  /\ At(i, "logs") /\ "logs" \in call[i].found
  /\ \E name \in Name :
       /\ files[<<name, MaxNumber>>] = None
       /\ call' = [call EXCEPT ![i].path = FreePath(name), ![i].phase = "writing"]
  /\ UNCHANGED <<open, shared, calls, stored>>

\* writeFileSync, whatever is there by now
Write(i) ==
  /\ At(i, "writing")
  /\ files' = [files EXCEPT ![call[i].path] = call[i].id]
  /\ Goto(i, "hashing")
  /\ UNCHANGED <<open, shared, calls, rows, snapshots, ledger, trail>>

\* The file is read back for its hash.
Hash(i) ==
  /\ At(i, "hashing")
  /\ call' = [call EXCEPT ![i].hash = files[call[i].path], ![i].phase = "filing"]
  /\ UNCHANGED <<open, shared, calls, stored>>

AddFileEvidence(i) == At(i, "filing") /\ Files(i, "logs")

StoreSystemEvidence(i) ==
  /\ At(i, "snapshot")
  /\ snapshots' = snapshots \union {<<call[i].id, call[i].framework>>}
  /\ Goto(i, "ledger")
  /\ UNCHANGED <<open, shared, calls, files, rows, ledger, trail>>

RecordOf(c) == [call |-> c.id, framework |-> c.framework, count |-> c.count]

LogAudit(i) ==
  /\ At(i, "ledger")
  /\ ledger' = ledger \union {RecordOf(call[i])}
  /\ Goto(i, "trail")
  /\ UNCHANGED <<open, shared, calls, files, rows, snapshots, trail>>

\* The scheduler goes on with the next framework.
Proceeds(i) ==
  call' = IF call[i].framework < call[i].last
            THEN [call EXCEPT ![i].framework = @ + 1, ![i].phase = "settings", ![i].count = 0]
            ELSE [call EXCEPT ![i] = Idle]

\* logAuditEvent.  A collection goes on without its entry when it throws.
Chain(i) ==
  /\ At(i, "trail")
  /\ trail' \in {trail, trail \union {RecordOf(call[i])}}
  /\ Proceeds(i)
  /\ UNCHANGED <<open, shared, calls, files, rows, snapshots, ledger>>

\* Mutation of Fails: the next framework is tried.
FailsAlone(i) ==
  /\ call[i].kind # "idle" /\ call[i].phase # "trail"
  /\ Proceeds(i)
  /\ UNCHANGED <<open, shared, calls, stored>>

\* Any other statement that fails ends the call: what it has stored stays.
Fails(i) ==
  /\ call[i].kind # "idle" /\ call[i].phase # "trail"
  /\ Ends(i)
  /\ \/ UNCHANGED files
     \/ At(i, "writing") /\ files' = [files EXCEPT ![call[i].path] = Torn]
  /\ UNCHANGED <<open, shared, calls, rows, snapshots, ledger, trail>>

Next ==
  \E i \in Instance :
    \/ Launch(i) \/ Exit(i)
    \/ \E found \in Finding, first, last \in 1..Frameworks : Collect(i, found, first, last)
    \/ \E f \in 1..Frameworks : Upload(i, f) \/ Note(i, f)
    \/ Skip(i) \/ AddEvidence(i)
    \/ ChooseName(i) \/ Write(i) \/ Hash(i) \/ AddFileEvidence(i)
    \/ StoreSystemEvidence(i) \/ LogAudit(i)
    \/ Chain(i) \/ Fails(i)

Spec == Init /\ [][Next]_vars

-----------------------------------------------------------------------------
(***************************************************************************)
(* Evidence with a file has its file, as long as one copy of the app runs  *)
(* at a time with the very bytes that were collected and hashed: however   *)
(* uploads and event logs of one name, failures and kills follow one       *)
(* another, no file is written over (saveEvidenceFile).  A second copy can *)
(* take the name between the check and the write, but never the file away. *)
(***************************************************************************)
RowsKeepTheirFiles ==
  \A r \in rows : r.path # None =>
    /\ files[r.path] # None
    /\ ~shared => files[r.path] = r.call /\ r.hash = r.call

(***************************************************************************)
(* What is on record is in store.  An entry of the ledger or of the trail  *)
(* has as many rows behind it as it says, and the snapshot they were read  *)
(* from; and of a run that fails or is killed, at most one framework has   *)
(* rows that no entry accounts for: the last one it came to.               *)
(***************************************************************************)
Unaccounted(c) ==
  {f \in 1..Frameworks : /\ \E r \in rows : r.call = c /\ r.framework = f /\ r.collected
                         /\ \A e \in ledger : <<e.call, e.framework>> # <<c, f>>}

RecordsMatchRows ==
  /\ \A e \in ledger \union trail :
       /\ <<e.call, e.framework>> \in snapshots
       /\ e.count = Cardinality({r \in rows : r.call = e.call /\ r.framework = e.framework})
  /\ \A r \in rows : \A f \in Unaccounted(r.call) : r.framework <= f
=============================================================================
