---------------------------- MODULE MCWebSession ----------------------------
(* Two tabs of one browser with two requests between them, and two         *)
(* accounts.                                                               *)
EXTENDS WebSession, TLC

CONSTANTS t1, t2, o1, o2, a1, a2

Symmetry == Permutations({t1, t2}) \union Permutations({o1, o2}) \union Permutations({a1, a2})
=============================================================================
