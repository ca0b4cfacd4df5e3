----------------------------- MODULE LinearLog -----------------------------
(***************************************************************************)
(* What the enterprise audit log promises its reader: a single chain of    *)
(* entries that starts at one genesis entry and to which entries are only  *)
(* ever added, each one behind the entry that was last until then.         *)
(***************************************************************************)

CONSTANTS Entry,    \* the names an entry can have
          Genesis   \* the entry an initialised log starts from

VARIABLES behind,   \* behind[e]: the entry that e was appended behind
          last      \* the end of the chain

vars == <<behind, last>>

Init ==
  /\ behind = [e \in {Genesis} |-> Genesis]
  /\ last = Genesis

Append(e) ==
  /\ e \notin DOMAIN behind
  /\ behind' = [x \in DOMAIN behind \union {e} |->
                   IF x = e THEN last ELSE behind[x]]
  /\ last' = e

Next == \E e \in Entry : Append(e)

Spec == Init /\ [][Next]_vars
=============================================================================
