-------------------------- MODULE RotatingSessions --------------------------
(***************************************************************************)
(* What refresh-token rotation promises.  A session begins with one fresh  *)
(* token, by which it is named; it holds one current token at a time, each *)
(* renewal exchanges that token for a fresh one; and once it has no        *)
(* current token it has ended for good.                                    *)
(***************************************************************************)
CONSTANT Token

VARIABLES current,  \* current[s]: the tokens that session s can be renewed with
          used      \* the tokens handed out so far

Init == \E T \in SUBSET Token : current = [s \in Token |-> {}] /\ used = T

Begin(s) ==
  /\ s \notin used
  /\ used' = used \union {s}
  /\ current' = [current EXCEPT ![s] = {s}]

Renew(s, t) ==
  /\ current[s] # {}
  /\ t \notin used
  /\ used' = used \union {t}
  /\ current' = [current EXCEPT ![s] = {t}]

\* Several sessions may end at once: a password reset ends all of a user's.
End(S) ==
  /\ current' = [s \in Token |-> IF s \in S THEN {} ELSE current[s]]
  /\ UNCHANGED used

Next ==
  \/ \E s \in Token : Begin(s) \/ \E t \in Token : Renew(s, t)
  \/ \E S \in SUBSET Token : End(S)

Spec == Init /\ [][Next]_<<current, used>>
=============================================================================
