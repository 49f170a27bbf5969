-------------------------------- MODULE Gates --------------------------------
(***************************************************************************)
(* The readers of tools/lis_verify refuse at the first check that does not *)
(* hold: a reader is a sequence of gates, and its outcome is Passed or the *)
(* refusal of the first gate that does not pass.                           *)
(***************************************************************************)
EXTENDS Integers, Sequences

Passed == [status |-> "passed", reason |-> "none"]

Gate(passes, status, reason) ==
    [passes |-> passes, refusal |-> [status |-> status, reason |-> reason]]

FirstIn(indices) == CHOOSE i \in indices : \A j \in indices : i <= j

FirstRefusal(gates) ==
    LET failing == {i \in DOMAIN gates : ~gates[i].passes}
    IN  IF failing = {} THEN Passed ELSE gates[FirstIn(failing)].refusal

\* Of several readers in turn, the first refusal.
FirstOf(outcomes) ==
    LET refused == {i \in DOMAIN outcomes : outcomes[i] # Passed}
    IN  IF refused = {} THEN Passed ELSE outcomes[FirstIn(refused)]

\* One gate for every element of a sequence, in its order.
EachInTurn(s, Reader(_)) == FirstOf([i \in DOMAIN s |-> Reader(s[i])])
=============================================================================
