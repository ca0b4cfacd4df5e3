----------------------------- MODULE MCSessions -----------------------------
(* Two addresses, two requests at a time, and room for two accounts: one   *)
(* of each address, or one that is deleted and registered again.           *)
EXTENDS Sessions, TLC

CONSTANTS c1, c2, e1, e2

Symmetry == Permutations({c1, c2}) \union Permutations({e1, e2})
=============================================================================
