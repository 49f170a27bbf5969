---------------------------- MODULE DecodeSession -----------------------------
(***************************************************************************)
(* What lis_runtime_llama_prefill and lis_runtime_llama_decode promise a   *)
(* caller, without caches, layers or passes: the runtime holds a sequence  *)
(* of tokens, a successful call extends it, and the logits it answers with *)
(* were computed from exactly that sequence.  A call that fails leaves the *)
(* sequence alone, but what it had captured for the traces stays captured. *)
(*                                                                         *)
(* A token is named by the number of the call that brought it.             *)
(***************************************************************************)
EXTENDS Naturals, Sequences

CONSTANTS MaxTokens,  \* batch.max_tokens: the configured context
          MaxCalls,   \* bound on the number of calls in a behaviour
          Options     \* the lis_runtime_options a caller may initialise with

ASSUME SessionAssumption ==
    /\ MaxTokens \in Nat \ {0}
    /\ MaxCalls \in Nat
    /\ \A o \in Options : /\ o.emit \in BOOLEAN /\ o.intra \in BOOLEAN
                          /\ o.target \in Nat /\ o.token_position \in Nat

VARIABLES opts,    \* the options of this runtime
          seq,     \* the sequence of tokens it holds
          steps,   \* decode_step_count
          calls,   \* auxiliary: how many calls were made
          answer,  \* the sequences the logits of the last call stand for
          layers,  \* the layer outputs captured: nothing, some, all, or refused
          stages   \* the same for the stages of the intra-layer record

session == <<opts, seq, steps, calls, answer, layers, stages>>

Init ==
    /\ opts \in Options
    /\ seq = <<>>
    /\ steps = 0
    /\ calls = 0
    /\ answer = {}
    /\ layers = "empty"
    /\ stages = IF opts.intra THEN "empty" ELSE "off"

(* The layer outputs of the checkpoint step n are wanted; so are the stages *)
(* of the target layer when that step runs at the expected position.        *)
WantsLayers(n)    == opts.emit /\ n = opts.target
WantsStages(n, p) == opts.intra /\ n = opts.target /\ n > 0 /\ p = opts.token_position

(* A step of which everything wanted is captured.  A second capture of the *)
(* same coordinates is refused, and the refusal sticks.                    *)
CaptureAll(n, p) ==
    /\ layers' \in IF ~WantsLayers(n) THEN {layers}
                   ELSE IF layers = "empty" THEN {"complete", "unusable"}
                   ELSE {"unusable"}
    /\ stages' = IF ~WantsStages(n, p) THEN stages
                 ELSE IF stages = "empty" THEN "full" ELSE "invalid"

(* A step given up somewhere on its way through the layers. *)
CaptureSome(n, p) ==
    /\ layers' \in IF ~WantsLayers(n) THEN {layers}
                   ELSE IF layers = "empty"
                     THEN {"empty", "partial", "complete", "unusable"}
                   ELSE {layers, "unusable"}
    /\ stages' \in IF ~WantsStages(n, p) THEN {stages}
                   ELSE IF stages = "empty" THEN {"empty", "partial", "full"}
                   ELSE {stages, "invalid"}

Prefill(n) ==
    /\ seq = <<>>
    /\ calls < MaxCalls
    /\ calls' = calls + 1
    /\ seq' = [i \in 1 .. n |-> calls + 1]
    /\ answer' = {seq'}
    /\ CaptureAll(0, n - 1)
    /\ UNCHANGED <<opts, steps>>

Decode ==
    /\ seq # <<>>
    /\ Len(seq) < MaxTokens
    /\ calls < MaxCalls
    /\ calls' = calls + 1
    /\ seq' = Append(seq, calls + 1)
    /\ steps' = steps + 1
    /\ answer' = {seq'}
    /\ CaptureAll(steps + 1, Len(seq))
    /\ UNCHANGED opts

FailPrefill ==
    /\ seq = <<>>
    /\ calls < MaxCalls
    /\ calls' = calls + 1
    /\ answer' = {}
    /\ \E p \in 0 .. (MaxTokens - 1) : CaptureSome(0, p)
    /\ UNCHANGED <<opts, seq, steps>>

FailDecode ==
    /\ seq # <<>>
    /\ Len(seq) < MaxTokens
    /\ calls < MaxCalls
    /\ calls' = calls + 1
    /\ answer' = {}
    /\ CaptureSome(steps + 1, Len(seq))
    /\ UNCHANGED <<opts, seq, steps>>

(* lis_intra_layer_record_finalize *)
Finalize ==
    /\ opts.intra
    /\ stages' = IF stages \in {"full", "ready"} THEN "ready" ELSE "invalid"
    /\ UNCHANGED <<opts, seq, steps, calls, answer, layers>>

Next ==
    \/ \E n \in 1 .. MaxTokens : Prefill(n)
    \/ Decode
    \/ FailPrefill
    \/ FailDecode
    \/ Finalize

Spec == Init /\ [][Next]_session
===============================================================================
