----------------------------- MODULE MCAccounts -----------------------------
(* Accounts for TLC: two requests at a time, of two spellings of one       *)
(* address, of two users with roles, and of two addresses with keys: keys  *)
(* of either and keys of nobody.                                           *)
EXTENDS Accounts

CONSTANTS c1, c2, e1, e2, u1, u2

\* e1 and e2 differ in their case only.
MCLower == [e \in Email |-> "a"]
MCLowerAddress == [a \in Address |-> IF a = e1 THEN "a" ELSE "b"]
MCKey == {[genuine |-> g, email |-> m, tier |-> t, until |-> 1] :
            g \in BOOLEAN, m \in {"a", "b", "unnamed"},
            t \in {"free", "pro", "enterprise"}}

\* The theorems about Licences are about such constants.
ASSUME LicenceAssumption == Licence!LicenceConstants
ASSUME UnnamedAssumption == \E k \in Key : k.genuine /\ k.email = Licence!Unnamed

\* Components that stand still start in one way.
MCInit ==
  /\ AccountsInit
  /\ part # "sign-in" => account[e1].id = 1
  /\ part # "roles" => roleCall[c1].target = u1 /\ \A u \in {u1, u2} : role[u] = "admin"

MCSpec == MCInit /\ [][AccountsNext]_accountsVars
MCFairSpec == MCSpec /\ WF_accountsVars(SignInStep(Tick))
=============================================================================
