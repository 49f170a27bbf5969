----------------------------- MODULE LlamaRuntime -----------------------------
(***************************************************************************)
(* The decoder runtime of srcs/runtime/llama.c with its KV cache, the      *)
(* layer-trace record and the intra-layer record.  A caller makes one call *)
(* at a time; a call runs the layers one after the other for each of its   *)
(* tokens, and it may give up where a tensor lookup or an allocation can   *)
(* fail, leaving behind what it wrote until then.                          *)
(*                                                                         *)
(* Values are abstracted to where they came from: an entry of the cache, a *)
(* captured layer output and a captured stage are each the number of the   *)
(* call that produced them (0 is the zeroed memory of calloc).             *)
(***************************************************************************)
EXTENDS Naturals, Sequences, FiniteSets

CONSTANTS LayerCount,  \* config.layer_count
          MaxTokens,   \* config.context.configured_max_tokens
          MaxCalls,    \* bound on the number of calls in a behaviour
          Options      \* the lis_runtime_options a caller may initialise with

ASSUME LlamaRuntimeAssumption ==
    /\ LayerCount \in Nat \ {0}
    /\ MaxTokens \in Nat \ {0}
    /\ MaxCalls \in Nat
    /\ Options \subseteq [emit : BOOLEAN, target : Nat, intra : BOOLEAN,
                          target_layer : Nat, token_position : Nat]

Layers    == 0 .. (LayerCount - 1)
Positions == 0 .. (MaxTokens - 1)
Stages    == 0 .. 16  \* LIS_INTRA_LAYER_STAGE_LAYER_INPUT .. _MLP_DOWN_PROJECTION

(* lis_runtime_init accepts these options. *)
ValidOptions(o) ==
    o.intra => /\ o.emit
               /\ o.target > 0
               /\ o.target_layer < LayerCount
               /\ o.token_position < MaxTokens

VARIABLES
    opts,               \* the checkpoint options of runtime
    phase,              \* runtime->phase
    position,           \* runtime->batch.positions[0]
    decode_step_count,  \* runtime->decode_step_count
    kv,                 \* runtime->kv_cache, by layer and position
    fwd,                \* the call in progress and the layer it is in
    trace,              \* the layer outputs of runtime->layer_trace_record
    append_failed,      \* its sticky failure
    intra_state,        \* runtime->intra_layer_record->state
    slots,              \* its slots, by stage
    calls,              \* auxiliary: calls made so far
    committed,          \* auxiliary: the call that brought each position
    contexts,           \* auxiliary: what the current token's layers attended to
    answer,             \* auxiliary: that of the logits of the last call
    seen                \* auxiliary: the capture as the last return left it

session == <<phase, position, decode_step_count, committed>>
records == <<trace, append_failed, intra_state, slots>>
vars == <<opts, session, kv, fwd, records, calls, contexts, answer, seen>>

Idle == [op |-> "none", len |-> 0, pos |-> 0, step |-> 0, layer |-> 0, at |-> "idle"]

TypeOK ==
    /\ opts \in Options
    /\ phase \in {"READY", "PREFILLED", "DECODING"}
    /\ position \in 0 .. MaxTokens
    /\ decode_step_count \in Nat
    /\ kv \in [Layers -> [Positions -> 0 .. calls]]
    /\ fwd = Idle \/ fwd \in [op : {"prefill", "decode"}, len : 1 .. MaxTokens,
                              pos : Positions, step : Nat, layer : 0 .. LayerCount,
                              at : {"project", "attend", "mlp", "head"}]
    /\ trace \in Seq([layer : Layers, call : 1 .. MaxCalls])
    /\ append_failed \in BOOLEAN
    /\ intra_state \in {"UNINITIALIZED", "ACTIVE", "READY", "INVALID"}
    /\ slots \in [Stages -> 0 .. calls]
    /\ calls \in 0 .. MaxCalls
    /\ committed \in [Positions -> 0 .. calls]

(* lis_layer_trace_layout_selects_layer and the layers it selects. *)
SelectsLayer(l) ==
    LET three_quarter == (LayerCount \div 4) * 3 + ((LayerCount % 4) * 3) \div 4 IN
    \/ l \in {0, 1, 2, 4, 6, LayerCount \div 4, LayerCount \div 2, three_quarter}
    \/ l + 1 = LayerCount
Selected == {l \in Layers : SelectsLayer(l)}

LayerStatus ==
    IF append_failed THEN "unusable"
    ELSE IF trace = <<>> THEN "empty"
    ELSE IF Len(trace) = Cardinality(Selected) THEN "complete" ELSE "partial"

StageStatus ==
    LET occupied == {s \in Stages : slots[s] # 0} IN
    CASE intra_state = "UNINITIALIZED" -> "off"
      [] intra_state = "INVALID" -> "invalid"
      [] intra_state = "READY" -> "ready"
      [] OTHER -> IF occupied = {} THEN "empty"
                  ELSE IF occupied = Stages THEN "full" ELSE "partial"

Capture == [layers |-> LayerStatus, stages |-> StageStatus]

(* lis_runtime_init, and lis_intra_layer_record_configure before it. *)
Init ==
    /\ opts \in {o \in Options : ValidOptions(o)}
    /\ phase = "READY"
    /\ position = 0
    /\ decode_step_count = 0
    /\ kv = [l \in Layers |-> [p \in Positions |-> 0]]
    /\ fwd = Idle
    /\ trace = <<>>
    /\ append_failed = FALSE
    /\ intra_state = IF opts.intra THEN "ACTIVE" ELSE "UNINITIALIZED"
    /\ slots = [s \in Stages |-> 0]
    /\ calls = 0
    /\ committed = [p \in Positions |-> 0]
    /\ contexts = {}
    /\ answer = {}
    /\ seen = Capture

-------------------------------------------------------------------------------
(* What lis_llama_forward_token wants to capture for the current token. *)
EmitCheckpoints ==
    /\ opts.emit
    /\ fwd.op = "decode" \/ fwd.pos + 1 = fwd.len
    /\ fwd.step = opts.target

CaptureIntra ==
    /\ opts.intra
    /\ fwd.op = "decode"
    /\ fwd.step = opts.target
    /\ fwd.pos = opts.token_position
    /\ fwd.layer = opts.target_layer

(* Mutant: a record that is READY takes observations again. *)
ObserveReopening(first, n) ==
    IF ~CaptureIntra \/ n = 0
      THEN UNCHANGED <<intra_state, slots>>
      ELSE /\ slots' = [s \in Stages |-> IF s >= first /\ s < first + n
                                         THEN calls ELSE slots[s]]
           /\ UNCHANGED intra_state

(* lis_intra_layer_observe_fp32 of n stages from first on, in their order.   *)
(* A record that is not ACTIVE, or a stage at or before one already         *)
(* resolved, invalidates the record; the pass goes on.                      *)
Observe(first, n) ==
    IF ~CaptureIntra \/ n = 0
      THEN UNCHANGED <<intra_state, slots>>
      ELSE IF intra_state = "ACTIVE" /\ \A s \in Stages : s >= first => slots[s] = 0
        THEN /\ slots' = [s \in Stages |-> IF s >= first /\ s < first + n
                                             THEN calls ELSE slots[s]]
             /\ UNCHANGED intra_state
        ELSE /\ intra_state' = "INVALID"
             /\ UNCHANGED slots

(* Mutant: a layer that is already in the record is taken again. *)
AppendOutputAgain(layer) ==
    /\ trace' = Append(trace, [layer |-> layer, call |-> calls])
    /\ UNCHANGED append_failed

(* lis_layer_trace_record_append of a layer output: refused for good when   *)
(* the layer was captured before or out of order, or when the record cannot *)
(* grow.                                                                    *)
AppendOutput(layer) ==
    \/ /\ append_failed
       /\ UNCHANGED <<trace, append_failed>>
    \/ /\ ~append_failed
       /\ append_failed' = TRUE
       /\ UNCHANGED trace
    \/ /\ ~append_failed
       /\ \A i \in DOMAIN trace : trace[i].layer < layer
       /\ trace' = Append(trace, [layer |-> layer, call |-> calls])
       /\ UNCHANGED append_failed

-------------------------------------------------------------------------------
(* lis_runtime_llama_prefill.  Lengths that are rejected change nothing. *)
Prefill(len) ==
    /\ fwd = Idle
    /\ phase = "READY"
    /\ calls < MaxCalls
    /\ calls' = calls + 1
    /\ fwd' = [op |-> "prefill", len |-> len, pos |-> 0, step |-> 0,
               layer |-> 0, at |-> "project"]
    /\ contexts' = {}
    /\ UNCHANGED <<opts, session, kv, records, answer, seen>>

(* Mutant: the context limit is one position too far. *)
DecodePastLimit ==
    /\ fwd = Idle
    /\ phase # "READY"
    /\ position <= MaxTokens
    /\ calls < MaxCalls
    /\ calls' = calls + 1
    /\ fwd' = [op |-> "decode", len |-> 1, pos |-> position,
               step |-> decode_step_count + 1, layer |-> 0, at |-> "project"]
    /\ contexts' = {}
    /\ UNCHANGED <<opts, session, kv, records, answer, seen>>

(* lis_runtime_llama_decode.  At the context limit it changes nothing. *)
Decode ==
    /\ fwd = Idle
    /\ phase # "READY"
    /\ position < MaxTokens
    /\ calls < MaxCalls
    /\ calls' = calls + 1
    /\ fwd' = [op |-> "decode", len |-> 1, pos |-> position,
               step |-> decode_step_count + 1, layer |-> 0, at |-> "project"]
    /\ contexts' = {}
    /\ UNCHANGED <<opts, session, kv, records, answer, seen>>

(* Mutant: only the first layer's keys and values of a decoded token are   *)
(* stored where the token is; the others go to the position before.        *)
ProjectShifted ==
    /\ fwd.at = "project"
    /\ Observe(0, 7)
    /\ kv' = [kv EXCEPT ![fwd.layer][IF fwd.op = "decode" /\ fwd.layer > 0
                                      THEN fwd.pos - 1 ELSE fwd.pos] = calls]
    /\ fwd' = [fwd EXCEPT !.at = "attend"]
    /\ UNCHANGED <<opts, session, trace, append_failed, calls, contexts, answer, seen>>

(* The attention norm, the projections, RoPE, and lis_store_kv. *)
Project ==
    /\ fwd.at = "project"
    /\ Observe(0, 7)
    /\ kv' = [kv EXCEPT ![fwd.layer][fwd.pos] = calls]
    /\ fwd' = [fwd EXCEPT !.at = "attend"]
    /\ UNCHANGED <<opts, session, trace, append_failed, calls, contexts, answer, seen>>

(* lis_attention over the positions up to that of the token. *)
Attend ==
    /\ fwd.at = "attend"
    /\ Observe(7, 3)
    /\ contexts' = contexts \cup {[i \in 1 .. fwd.pos + 1 |-> kv[fwd.layer][i - 1]]}
    /\ fwd' = [fwd EXCEPT !.at = "mlp"]
    /\ UNCHANGED <<opts, session, kv, trace, append_failed, calls, answer, seen>>

(* The rest of the layer, its output, and the step to the next layer. *)
Mlp ==
    /\ fwd.at = "mlp"
    /\ Observe(10, 7)
    /\ IF EmitCheckpoints /\ SelectsLayer(fwd.layer)
         THEN AppendOutput(fwd.layer)
         ELSE UNCHANGED <<trace, append_failed>>
    /\ fwd' = [fwd EXCEPT !.layer = @ + 1,
                          !.at = IF fwd.layer + 1 = LayerCount THEN "head" ELSE "project"]
    /\ UNCHANGED <<opts, session, kv, calls, contexts, answer, seen>>

(* The output norm and the lm_head of a prompt token that is not the last. *)
NextPromptToken ==
    /\ fwd.at = "head"
    /\ fwd.op = "prefill"
    /\ fwd.pos + 1 < fwd.len
    /\ fwd' = [fwd EXCEPT !.pos = @ + 1, !.layer = 0, !.at = "project"]
    /\ contexts' = {}
    /\ UNCHANGED <<opts, session, kv, records, calls, answer, seen>>

(* Those of the last prompt token: prefill returns LIS_STATUS_OK. *)
ReturnPrefill ==
    /\ fwd.at = "head"
    /\ fwd.op = "prefill"
    /\ fwd.pos + 1 = fwd.len
    /\ position' = fwd.len
    /\ phase' = "PREFILLED"
    /\ committed' = [p \in Positions |-> IF p < fwd.len THEN calls ELSE committed[p]]
    /\ answer' = contexts
    /\ seen' = Capture
    /\ fwd' = Idle
    /\ UNCHANGED <<opts, decode_step_count, kv, records, calls, contexts>>

(* Mutant: the step counter is not advanced. *)
ReturnDecodeSameStep ==
    /\ fwd.at = "head"
    /\ fwd.op = "decode"
    /\ position' = position + 1
    /\ decode_step_count' = decode_step_count
    /\ phase' = "DECODING"
    /\ committed' = [committed EXCEPT ![fwd.pos] = calls]
    /\ answer' = contexts
    /\ seen' = Capture
    /\ fwd' = Idle
    /\ UNCHANGED <<opts, kv, records, calls, contexts>>

(* Those of a decoded token: decode returns LIS_STATUS_OK. *)
ReturnDecode ==
    /\ fwd.at = "head"
    /\ fwd.op = "decode"
    /\ position' = position + 1
    /\ decode_step_count' = decode_step_count + 1
    /\ phase' = "DECODING"
    /\ committed' = [committed EXCEPT ![fwd.pos] = calls]
    /\ answer' = contexts
    /\ seen' = Capture
    /\ fwd' = Idle
    /\ UNCHANGED <<opts, kv, records, calls, contexts>>

(* Mutant: a decode that fails has moved the position already. *)
FailAdvanced ==
    /\ fwd.at = "mlp"
    /\ UNCHANGED <<opts, phase, decode_step_count, committed, kv, records, calls, contexts>>
    /\ position' = IF fwd.op = "decode" THEN position + 1 ELSE position
    /\ answer' = {}
    /\ seen' = Capture
    /\ fwd' = Idle

(* The call returns an error: some stages before it may have been observed. *)
Fail ==
    /\ \/ fwd.at = "project" /\ \E n \in 0 .. 2 : Observe(0, n)
       \/ fwd.at = "mlp" /\ \E n \in {0, 2, 3, 6} : Observe(10, n)
       \/ fwd.at = "head" /\ UNCHANGED <<intra_state, slots>>
    /\ UNCHANGED <<opts, session, kv, trace, append_failed, calls, contexts>>
    /\ answer' = {}
    /\ seen' = Capture'
    /\ fwd' = Idle

(* lis_intra_layer_record_finalize, by the caller between two calls. *)
Finalize ==
    /\ fwd = Idle
    /\ opts.intra
    /\ intra_state' = IF \/ intra_state = "READY"
                         \/ intra_state = "ACTIVE" /\ \A s \in Stages : slots[s] # 0
                      THEN "READY" ELSE "INVALID"
    /\ UNCHANGED <<opts, session, kv, fwd, trace, append_failed, slots, calls,
                   contexts, answer>>
    /\ seen' = Capture'

ForwardStep ==
    Project \/ Attend \/ Mlp \/ NextPromptToken \/ ReturnPrefill \/ ReturnDecode

Next ==
    \/ \E len \in 1 .. MaxTokens : Prefill(len)
    \/ Decode
    \/ ForwardStep
    \/ Fail
    \/ Finalize

Spec == Init /\ [][Next]_vars

-------------------------------------------------------------------------------
(* Whose token is at position p for the call in progress. *)
Bringer(p) == IF fwd.op = "prefill" \/ p = fwd.pos THEN calls ELSE committed[p]

(* Attention reads, in every layer, the keys and values the tokens of this  *)
(* very sequence stored: nothing a failed call left, nothing unwritten, and *)
(* its own position already stored (lis_attention after lis_store_kv).      *)
AttentionReadsCommitted ==
    fwd.at = "attend" => \A p \in 0 .. fwd.pos : kv[fwd.layer][p] = Bringer(p)

PromptLength == Cardinality({p \in Positions : p < position /\ committed[p] = committed[0]})

(* batch.positions[0], the phase and decode_step_count, which decode updates *)
(* separately, always tell the same story: the position is the prompt and    *)
(* one token per decode step, and no step is counted twice or lost.          *)
PositionCountsSteps ==
    /\ phase = "READY" => position = 0 /\ decode_step_count = 0
    /\ phase # "READY" => position = PromptLength + decode_step_count
    /\ (phase = "DECODING") = (decode_step_count > 0)

(* A layer trace that may be written mixes no two passes and skips no layer, *)
(* whatever failed and was retried before; and once the target step          *)
(* succeeded it holds every selected layer of the pass whose token the       *)
(* sequence holds.                                                           *)
TargetCommitted == phase # "READY" /\ decode_step_count >= opts.target
TraceIsOnePass ==
    ~append_failed =>
        /\ \A i, j \in DOMAIN trace : trace[i].call = trace[j].call
        /\ \A i \in DOMAIN trace :
              {trace[j].layer : j \in 1 .. i} = {l \in Selected : l <= trace[i].layer}
        /\ fwd = Idle /\ opts.emit /\ TargetCommitted =>
              /\ LayerStatus = "complete"
              /\ trace[1].call = committed[PromptLength + opts.target - 1]

(* A READY intra-layer record holds all its stages from one pass, and after *)
(* the target step succeeded that is the pass that succeeded.               *)
ReadyRecordIsOnePass ==
    intra_state = "READY" =>
        /\ \A s \in Stages : slots[s] # 0 /\ slots[s] = slots[0]
        /\ fwd = Idle /\ TargetCommitted => slots[0] = committed[opts.token_position]

(* The runtime implements the session its callers rely on: cached, layer by *)
(* layer and failing half-way, it answers from the sequence it holds.       *)
Session == INSTANCE DecodeSession WITH
    Options <- {o \in Options : ValidOptions(o)},
    seq     <- [i \in 1 .. position |-> committed[i - 1]],
    steps   <- decode_step_count,
    calls   <- IF fwd = Idle THEN calls ELSE calls - 1,
    layers  <- seen.layers,
    stages  <- seen.stages
ImplementsSession == Session!Spec
===============================================================================
