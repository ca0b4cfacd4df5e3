--------------------------- MODULE RoleAssignment ---------------------------
(***************************************************************************)
(* The roles of an enterprise deployment: PUT /enterprise/users/{id}/role, *)
(* with the guard that is to keep one admin, and the audit event it logs.  *)
(*                                                                         *)
(* The route is a plain "def": FastAPI runs each request in a thread of    *)
(* its own, so requests interleave at every database statement even in a   *)
(* single worker.  Account deletion runs beside it.                        *)
(***************************************************************************)
EXTENDS Integers, FiniteSets

CONSTANTS Call,       \* request slots
          User,       \* the active users
          Deletable   \* those users who may delete their account

VARIABLES user,    \* the users that exist
          role,    \* role[u]: the role in user_roles, "none" without a row
          logged,  \* logged[u]: the role that the audit log last gave u
          call     \* the request each slot is handling

vars == <<user, role, logged, call>>

Role == {"admin", "auditor"}
NoRole == "none"

CallState == [phase : {"idle", "authorised", "counting", "loaded", "writing", "committed"},
              actor : User, target : User, new : Role, seen : Role \union {NoRole},
              counted : SUBSET User]

TypeOK ==
  /\ user \subseteq User
  /\ role \in [User -> Role \union {NoRole}]
  /\ logged \in [User -> Role \union {NoRole}]
  /\ call \in [Call -> CallState]

\* The migration makes the oldest user an admin; the others have what the
\* admins gave them.
Init ==
  /\ user = User
  /\ role \in {r \in [User -> Role \union {NoRole}] : \E u \in User : r[u] = "admin"}
  /\ logged = role
  /\ \E u \in User : call = [c \in Call |-> [phase |-> "idle", actor |-> u, target |-> u,
                                             new |-> "admin", seen |-> NoRole,
                                             counted |-> {}]]

Admins == {u \in User : role[u] = "admin"}

Goto(c, phase) == call' = [call EXCEPT ![c].phase = phase]

-----------------------------------------------------------------------------
\* require_admin
Authorise(c, a, t, r) ==
  /\ call[c].phase = "idle"
  /\ a \in user /\ role[a] = "admin"
  /\ call' = [call EXCEPT ![c] = [phase |-> "authorised", actor |-> a, target |-> t,
                                  new |-> r, seen |-> NoRole, counted |-> {}]]
  /\ UNCHANGED <<user, role, logged>>

\* 404 for an unknown target.  For a demotion the target's row is loaded, and
\* the session goes on holding it.
LoadTarget(c) ==
  /\ call[c].phase = "authorised"
  /\ LET t == call[c].target IN
     IF t \notin user
       THEN Goto(c, "idle")
       ELSE IF call[c].new = "admin"
         THEN Goto(c, "loaded")
         ELSE call' = [call EXCEPT ![c].seen = role[t],
                                   ![c].phase = IF role[t] = "admin" THEN "counting"
                                                                     ELSE "loaded"]
  /\ UNCHANGED <<user, role, logged>>

\* Mutation of CountAdmins: off by one.
CountAdminsOffByOne(c) ==
  /\ call[c].phase = "counting"
  /\ call' = [call EXCEPT ![c].phase = IF Cardinality(Admins) < 1 THEN "idle" ELSE "loaded",
                          ![c].counted = Admins]
  /\ UNCHANGED <<user, role, logged>>

\* The last admin is not demoted: 409.  "counted" is a history field.
CountAdmins(c) ==
  /\ call[c].phase = "counting"
  /\ call' = [call EXCEPT ![c].phase = IF Cardinality(Admins) <= 1 THEN "idle" ELSE "loaded",
                          ![c].counted = Admins]
  /\ UNCHANGED <<user, role, logged>>

\* The second query for the row.  A row the session already holds keeps the
\* values it was loaded with.
LoadRow(c) ==
  /\ call[c].phase = "loaded"
  /\ LET t == call[c].target IN
     call' = [call EXCEPT ![c].phase = "writing",
                          ![c].seen = IF @ # NoRole /\ role[t] # NoRole THEN @ ELSE role[t]]
  /\ UNCHANGED <<user, role, logged>>

\* UPDATE by primary key if a row was loaded and the value differs from the
\* loaded one, else INSERT.  Both fail, with a 500, when the user is gone; an
\* INSERT fails as well when the row has appeared meanwhile.
Write(c) ==
  /\ call[c].phase = "writing"
  /\ LET t == call[c].target
         r == call[c].new
         seen == call[c].seen
     IN \/ /\ seen = r
           /\ Goto(c, "committed")
           /\ UNCHANGED role
        \/ /\ seen # r
           /\ IF t \in user /\ (seen = NoRole <=> role[t] = NoRole)
                THEN Goto(c, "committed") /\ role' = [role EXCEPT ![t] = r]
                ELSE Goto(c, "idle") /\ UNCHANGED role
  /\ UNCHANGED <<user, logged>>

\* log_event on behalf of the actor, whose row the foreign key of audit_log
\* requires: without it log_event raises, and the request ends in a 500.
Log(c) ==
  /\ call[c].phase = "committed"
  /\ logged' = IF call[c].actor \in user THEN [logged EXCEPT ![call[c].target] = call[c].new]
                                         ELSE logged
  /\ Goto(c, "idle")
  /\ UNCHANGED <<user, role>>

\* The process dies.
Crash(c) ==
  /\ call[c].phase # "idle"
  /\ Goto(c, "idle")
  /\ UNCHANGED <<user, role, logged>>

\* delete_account; the row of user_roles goes by ON DELETE CASCADE.
DeleteAccount(u) ==
  /\ u \in user \intersect Deletable
  /\ user' = user \ {u}
  /\ role' = [role EXCEPT ![u] = NoRole]
  /\ UNCHANGED <<logged, call>>

Assign(c) == LoadTarget(c) \/ CountAdmins(c) \/ LoadRow(c) \/ Write(c) \/ Log(c)

Next ==
  \/ \E c \in Call, a, t \in User, r \in Role : Authorise(c, a, t, r)
  \/ \E c \in Call : Assign(c) \/ Crash(c)
  \/ \E u \in User : DeleteAccount(u)

Spec == Init /\ [][Next]_vars

-----------------------------------------------------------------------------
(***************************************************************************)
(* No demotion takes the last admin while the admins are those it counted: *)
(* only a count made stale by another request or by a deletion can.        *)
(***************************************************************************)
AccurateCountKeepsAnAdmin ==
  [][\A c \in Call : Write(c) /\ Admins # {} /\ Admins' = {} => call[c].counted # Admins]_vars
=============================================================================
