------------------------------ MODULE Desktop -------------------------------
(***************************************************************************)
(* The desktop beside its scheduler: the session with the server and the   *)
(* evidence.  They use other tables and never meet, so a behaviour         *)
(* exercises one, chosen at the start.                                     *)
(***************************************************************************)
EXTENDS CloudSync

CONSTANTS Finding, Frameworks, Name,                   \* LocalEvidence
          MaxNumber, MaxCalls, Torn

VARIABLES part,                                                  \* the component at work
          open, shared, calls, call, files, rows, snapshots,     \* LocalEvidence
          ledger, trail

evidenceVars == <<open, shared, calls, call, files, rows, snapshots, ledger, trail>>
desktopVars == <<part, vars, evidenceVars>>

Evidence == INSTANCE LocalEvidence

DesktopInit ==
  /\ part \in {"session", "evidence"}
  /\ Init /\ Evidence!Init

DesktopNext ==
  \/ part = "session" /\ Next /\ UNCHANGED <<part, evidenceVars>>
  \/ part = "evidence" /\ Evidence!Next /\ UNCHANGED <<part, vars>>

\* The properties of LocalEvidence, stated there: files are not written over
\* and what is on record is in store.
RowsKeepTheirFiles == Evidence!RowsKeepTheirFiles
RecordsMatchRows == Evidence!RecordsMatchRows
=============================================================================
