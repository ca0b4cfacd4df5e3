----------------------------- MODULE MCAuditLog -----------------------------
(* Two users log events through three concurrent calls of two attempts     *)
(* each, so that the last of the three can lose every attempt it has.      *)
EXTENDS AuditLog, TLC

CONSTANTS c1, c2, c3, u1, u2

MCUserOf == (c1 :> u1) @@ (c2 :> u1) @@ (c3 :> u2)
=============================================================================
