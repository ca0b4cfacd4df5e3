----------------------------- MODULE MCDesktop ------------------------------
(* Desktop for TLC: two operations at a time, in one copy of the app or in *)
(* two, and two accounts; two calls in two copies, and one file name.      *)
EXTENDS Desktop, TLC

CONSTANTS o1, o2, a1, a2, i1, i2

MCFinding == {{"settings", "logs", "network"}, {"logs"}, {"network"}}

\* The theorems about LocalEvidence are about such constants.
ASSUME EvidenceAssumption == Evidence!EvidenceConstants

MCSpec == DesktopInit /\ [][DesktopNext]_desktopVars

Symmetry == Permutations({o1, o2}) \union Permutations({a1, a2}) \union Permutations({i1, i2})
=============================================================================
