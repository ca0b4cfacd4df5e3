------------------------------ MODULE Accounts ------------------------------
(***************************************************************************)
(* What surrounds an account: signing in, enterprise roles and licences.   *)
(* They share the row of users only through columns that none of the       *)
(* properties relates, so a behaviour exercises one of them, chosen at the *)
(* start, and the others stand still.                                      *)
(***************************************************************************)
EXTENDS SignIn

CONSTANTS Member, Deletable,                             \* RoleAssignment
          Address, LowerAddress, Key, Grace, MaxDay      \* Licences

VARIABLES part,                                          \* the component at work
          user, role, logged, roleCall,                  \* RoleAssignment
          holder, day, shown                             \* Licences

rolesVars == <<user, role, logged, roleCall>>
licenceVars == <<holder, day, shown>>
accountsVars == <<part, vars, rolesVars, licenceVars>>

Roles == INSTANCE RoleAssignment WITH User <- Member, call <- roleCall
Licence == INSTANCE Licences WITH Lower <- LowerAddress

AccountsInit ==
  /\ part \in {"sign-in", "roles", "licences"}
  /\ Init /\ Roles!Init /\ Licence!Init

SignInStep(A) == part = "sign-in" /\ A /\ UNCHANGED <<part, rolesVars, licenceVars>>

AccountsNext ==
  \/ SignInStep(Next)
  \/ part = "roles" /\ Roles!Next /\ UNCHANGED <<part, vars, licenceVars>>
  \/ part = "licences" /\ Licence!Next /\ UNCHANGED <<part, vars, rolesVars>>

\* The properties of RoleAssignment and of Licences, stated there: a demotion
\* takes the last admin only if its count of admins is outdated; a tier that
\* passes a paid gate came with its key; and license-info shows a lapsed key's
\* account as free.
AccurateCountKeepsAnAdmin == Roles!AccurateCountKeepsAnAdmin
TierIsEarned == Licence!TierIsEarned
LapsedKeyShowsFree == Licence!LapsedKeyShowsFree
=============================================================================
