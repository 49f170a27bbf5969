---------------------------- MODULE MCLlamaRuntime ----------------------------
(* Instances of LlamaRuntime for TLC. *)
EXTENDS LlamaRuntime

NoCapture == [emit |-> FALSE, target |-> 0, intra |-> FALSE,
              target_layer |-> 0, token_position |-> 0]

(* Layer checkpoints of any step, with and without an intra-layer record of *)
(* the second or the last layer.                                             *)
MCOptions ==
    {NoCapture}
    \cup {[NoCapture EXCEPT !.emit = TRUE, !.target = t] : t \in 0 .. 2}
    \cup {[emit |-> TRUE, target |-> t, intra |-> TRUE, target_layer |-> l,
           token_position |-> p] :
              t \in 0 .. 2, l \in {1, LayerCount - 1}, p \in Positions}
===============================================================================
