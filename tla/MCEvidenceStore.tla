-------------------------- MODULE MCEvidenceStore --------------------------
(* Three overlapping requests of two users.                                *)
EXTENDS EvidenceStore, TLC

CONSTANTS c1, c2, c3, u1, u2

Symmetry == Permutations({c1, c2, c3}) \union Permutations({u1, u2})
=============================================================================
