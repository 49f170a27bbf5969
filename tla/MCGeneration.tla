----------------------------- MODULE MCGeneration -----------------------------
(* Instances of Generation for TLC. *)
EXTENDS Generation

NoCapture == [emit |-> FALSE, target |-> 0, intra |-> FALSE, token_position |-> 0]

MCOptions ==
    {NoCapture}
    \cup {[NoCapture EXCEPT !.emit = TRUE, !.target = t] : t \in 0 .. MaxLimit + 1}
    \cup {[emit |-> TRUE, target |-> t, intra |-> TRUE, token_position |-> p] :
              t \in 1 .. MaxLimit, p \in 0 .. MaxTokens - 1}
===============================================================================
