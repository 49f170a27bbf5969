-------------------------- MODULE LlamaRuntimeProofs --------------------------
(***************************************************************************)
(* Proofs about LlamaRuntime for every number of layers, context length,   *)
(* number of calls and choice of options.                                  *)
(*                                                                         *)
(* RuntimeInv is inductive.  It says what a call in progress has done so   *)
(* far to the key and value cache (CacheInv), to the record of stages      *)
(* (StageInv) and to the trace of layers (TraceInv, LayerProgressInv), and *)
(* what the calls before it left: a batch position is only reached through *)
(* calls that succeeded (SequenceInv, ContextInv).  From it follow the     *)
(* properties about the attention, the position, the trace and the record  *)
(* and that the runtime implements DecodeSession: a call that returns is   *)
(* one step of the session, and what it does inside is none.               *)
(***************************************************************************)
EXTENDS LlamaRuntime, FiniteSetTheorems, FunctionTheorems,
        SequenceTheorems, TLAPS

CallRecords == [op : {"prefill", "decode"}, len : 1 .. MaxTokens, pos : Positions,
                step : Nat, layer : 0 .. LayerCount,
                at : {"project", "attend", "mlp", "head"}]

Busy == {"project", "attend", "mlp"}

(* What the call in progress was made for, and where in it control is. *)
CallInv ==
    /\ fwd.op = "prefill" => phase = "READY" /\ fwd.step = 0 /\ fwd.pos < fwd.len
    /\ fwd.op = "decode" => /\ phase # "READY" /\ fwd.pos = position
                            /\ fwd.step = decode_step_count + 1
    /\ fwd.at \in Busy => fwd.layer < LayerCount
    /\ fwd.at = "head" => fwd.layer = LayerCount
    /\ fwd # Idle => calls > 0

(* The positions below the batch position were each brought by the prompt, *)
(* or by a decode after it.                                                *)
Brought(n) ==
    /\ n \in 1 .. position
    /\ position = n + decode_step_count
    /\ \A p \in Positions : p < n => committed[p] = committed[0]
    /\ \A p \in Positions : n <= p /\ p < position => committed[p] > committed[0]

SequenceInv ==
    /\ phase = "READY" => position = 0 /\ decode_step_count = 0
    /\ phase # "READY" => \E n \in 1 .. position : Brought(n)
    /\ (phase = "DECODING") = (decode_step_count > 0)
    /\ \A p \in Positions :
          /\ committed[p] <= calls
          /\ fwd # Idle => committed[p] < calls

(* The cache holds what was committed, and of the call in progress the     *)
(* tokens before the current one and the layers behind it.                 *)
CacheInv ==
    /\ \A l \in Layers, p \in Positions : p < position => kv[l][p] = committed[p]
    /\ fwd.op = "prefill" =>
           \A l \in Layers, p \in Positions : p < fwd.pos => kv[l][p] = calls
    /\ fwd # Idle => \A l \in Layers : l < fwd.layer => kv[l][fwd.pos] = calls
    /\ fwd.at \in {"attend", "mlp"} => kv[fwd.layer][fwd.pos] = calls

-------------------------------------------------------------------------------
(* The initial state has its types, no call in progress and an empty cache. *)
LEMMA InitHolds == Init => TypeOK /\ CallInv /\ SequenceInv /\ CacheInv
<1> SUFFICES ASSUME Init PROVE TypeOK /\ CallInv /\ SequenceInv /\ CacheInv
  OBVIOUS
<1> USE LlamaRuntimeAssumption DEF Init, Idle
<1>1. TypeOK
  <2>1. opts \in Options
    OBVIOUS
  <2>2. /\ kv \in [Layers -> [Positions -> 0 .. calls]]
        /\ slots \in [Stages -> 0 .. calls] /\ committed \in [Positions -> 0 .. calls]
    OBVIOUS
  <2>3. trace \in Seq([layer : Layers, call : 1 .. MaxCalls])
    OBVIOUS
  <2>4. intra_state \in {"UNINITIALIZED", "ACTIVE", "READY", "INVALID"}
    OBVIOUS
  <2>5. /\ position \in 0 .. MaxTokens /\ calls \in 0 .. MaxCalls
        /\ decode_step_count \in Nat
    OBVIOUS
  <2> QED
    BY <2>1, <2>2, <2>3, <2>4, <2>5 DEF TypeOK
<1>2. CallInv
  BY DEF CallInv, Busy
<1>3. SequenceInv
  BY DEF SequenceInv
<1>4. CacheInv
  BY DEF CacheInv
<1> QED
  BY <1>1, <1>2, <1>3, <1>4

(* What a call in progress looks like. *)
LEMMA CallType ==
    ASSUME TypeOK, fwd # Idle
    PROVE  /\ fwd \in CallRecords
           /\ fwd.op \in {"prefill", "decode"} /\ fwd.len \in 1 .. MaxTokens
           /\ fwd.pos \in Positions /\ fwd.step \in Nat /\ fwd.layer \in 0 .. LayerCount
           /\ fwd.at \in {"project", "attend", "mlp", "head"}
BY DEF TypeOK, CallRecords

(* An observation of a stage keeps the types of the record. *)
LEMMA ObserveType ==
    ASSUME TypeOK, NEW first \in Nat, NEW n \in Nat, Observe(first, n)
    PROVE  /\ slots' \in [Stages -> 0 .. calls]
           /\ intra_state' \in {"UNINITIALIZED", "ACTIVE", "READY", "INVALID"}
<1>1. calls \in 0 .. calls
  BY LlamaRuntimeAssumption DEF TypeOK
<1> QED
  BY <1>1 DEF TypeOK, Observe

(* Appending a layer to the trace keeps the trace a sequence of entries.    *)
LEMMA AppendType ==
    ASSUME TypeOK, NEW layer \in Layers, AppendOutput(layer), calls > 0
    PROVE  /\ trace' \in Seq([layer : Layers, call : 1 .. MaxCalls])
           /\ append_failed' \in BOOLEAN
<1>1. [layer |-> layer, call |-> calls] \in [layer : Layers, call : 1 .. MaxCalls]
  BY LlamaRuntimeAssumption DEF TypeOK
<1>2. Append(trace, [layer |-> layer, call |-> calls])
        \in Seq([layer : Layers, call : 1 .. MaxCalls])
  <2> DEFINE entry == [layer |-> layer, call |-> calls]
  <2> HIDE DEF entry
  <2> QED
    BY <1>1, AppendProperties DEF TypeOK
<1> QED
  BY <1>1, <1>2 DEF TypeOK, AppendOutput

-------------------------------------------------------------------------------
(* Every action keeps the types. *)
LEMMA TypeStep == TypeOK /\ CallInv /\ [Next]_vars => TypeOK'
<1> SUFFICES ASSUME TypeOK, CallInv, [Next]_vars PROVE TypeOK'
  OBVIOUS
<1> USE LlamaRuntimeAssumption DEF session, records
<1>1. ASSUME NEW len \in 1 .. MaxTokens, Prefill(len) PROVE TypeOK'
  <2>1. fwd' \in CallRecords
    BY <1>1 DEF Prefill, Positions, CallRecords
  <2>2. calls' \in 0 .. MaxCalls /\ 0 .. calls \subseteq 0 .. calls'
    BY <1>1 DEF Prefill, TypeOK
  <2> QED
    BY <1>1, <2>1, <2>2 DEF Prefill, TypeOK, CallRecords
<1>2. CASE Decode
  <2>1. fwd' \in CallRecords
    BY <1>2 DEF Decode, Positions, TypeOK, CallRecords
  <2>2. calls' \in 0 .. MaxCalls /\ 0 .. calls \subseteq 0 .. calls'
    BY <1>2 DEF Decode, TypeOK
  <2> QED
    BY <1>2, <2>1, <2>2 DEF Decode, TypeOK, CallRecords
<1>3. CASE Project
  <2>1. fwd # Idle
    BY <1>3 DEF Project, Idle
  <2>2. fwd' \in CallRecords
    BY <1>3, <2>1, CallType DEF Project, CallRecords
  <2>3. kv' \in [Layers -> [Positions -> 0 .. calls]]
    <3>1. calls \in 0 .. calls
      BY DEF TypeOK
    <3>2. fwd.layer \in Layers /\ fwd.pos \in Positions
      BY <1>3, <2>1, CallType DEF Project, CallInv, Busy, Layers
    <3>3. [kv[fwd.layer] EXCEPT ![fwd.pos] = calls] \in [Positions -> 0 .. calls]
      BY <3>1, <3>2 DEF TypeOK
    <3>4. kv' = [kv EXCEPT ![fwd.layer] = [kv[fwd.layer] EXCEPT ![fwd.pos] = calls]]
      BY <1>3 DEF Project
    <3> QED
      BY <3>2, <3>3, <3>4 DEF TypeOK
  <2>4. /\ slots' \in [Stages -> 0 .. calls]
        /\ intra_state' \in {"UNINITIALIZED", "ACTIVE", "READY", "INVALID"}
    BY <1>3, ObserveType DEF Project
  <2> QED
    BY <1>3, <2>2, <2>3, <2>4 DEF Project, TypeOK, CallRecords
<1>4. CASE Attend
  <2>1. fwd # Idle
    BY <1>4 DEF Attend, Idle
  <2>2. fwd' \in CallRecords
    BY <1>4, <2>1, CallType DEF Attend, CallRecords
  <2>3. /\ slots' \in [Stages -> 0 .. calls]
        /\ intra_state' \in {"UNINITIALIZED", "ACTIVE", "READY", "INVALID"}
    BY <1>4, ObserveType DEF Attend
  <2> QED
    BY <1>4, <2>2, <2>3 DEF Attend, TypeOK, CallRecords
<1>5. CASE Mlp
  <2>1. fwd # Idle
    BY <1>5 DEF Mlp, Idle
  <2>2. fwd.layer \in Layers /\ calls > 0
    BY <1>5, <2>1, CallType DEF Mlp, CallInv, Busy, Layers
  <2>3. fwd.layer + 1 \in 0 .. LayerCount
    BY <2>2 DEF Layers
  <2>6. fwd' \in CallRecords
    BY <1>5, <2>1, <2>3, CallType DEF Mlp, CallRecords
  <2>4. /\ slots' \in [Stages -> 0 .. calls]
        /\ intra_state' \in {"UNINITIALIZED", "ACTIVE", "READY", "INVALID"}
    BY <1>5, ObserveType DEF Mlp
  <2>5. /\ trace' \in Seq([layer : Layers, call : 1 .. MaxCalls])
        /\ append_failed' \in BOOLEAN
    BY <1>5, <2>2, AppendType DEF Mlp, TypeOK
  <2> QED
    BY <1>5, <2>4, <2>5, <2>6 DEF Mlp, TypeOK, CallRecords
<1>6. CASE NextPromptToken
  <2>1. fwd # Idle
    BY <1>6 DEF NextPromptToken, Idle
  <2>2. fwd.pos + 1 \in Positions
    BY <1>6, <2>1, CallType DEF NextPromptToken, Positions
  <2>3. fwd' \in CallRecords
    <3>1. fwd \in CallRecords
      BY <2>1, CallType
    <3>2. /\ fwd'.op = fwd.op /\ fwd'.len = fwd.len /\ fwd'.step = fwd.step
          /\ fwd'.pos = fwd.pos + 1 /\ fwd'.layer = 0 /\ fwd'.at = "project"
          /\ fwd' = [op |-> fwd.op, len |-> fwd.len, pos |-> fwd.pos + 1,
                     step |-> fwd.step, layer |-> 0, at |-> "project"]
      BY <1>6, <3>1 DEF NextPromptToken, CallRecords
    <3> QED
      BY <3>1, <3>2, <2>2 DEF CallRecords
  <2> QED
    BY <1>6, <2>3 DEF NextPromptToken, TypeOK, CallRecords
<1>7. CASE ReturnPrefill
  <2>1. fwd # Idle
    BY <1>7 DEF ReturnPrefill, Idle
  <2>2. position' \in 0 .. MaxTokens
    BY <1>7, <2>1, CallType DEF ReturnPrefill
  <2>3. committed' \in [Positions -> 0 .. calls]
    <3>1. calls \in 0 .. calls
      BY DEF TypeOK
    <3> QED
      BY <1>7, <3>1 DEF ReturnPrefill, TypeOK
  <2> QED
    BY <1>7, <2>2, <2>3 DEF ReturnPrefill, TypeOK, CallRecords
<1>8. CASE ReturnDecode
  <2>1. fwd # Idle
    BY <1>8 DEF ReturnDecode, Idle
  <2>2. position' \in 0 .. MaxTokens
    BY <1>8, <2>1, CallType DEF ReturnDecode, CallInv, Positions
  <2>3. committed' \in [Positions -> 0 .. calls]
    <3>1. calls \in 0 .. calls
      BY DEF TypeOK
    <3> QED
      BY <1>8, <3>1 DEF ReturnDecode, TypeOK
  <2> QED
    BY <1>8, <2>2, <2>3 DEF ReturnDecode, TypeOK, CallRecords
<1>9. CASE Fail
  <2>1. /\ slots' \in [Stages -> 0 .. calls]
        /\ intra_state' \in {"UNINITIALIZED", "ACTIVE", "READY", "INVALID"}
    <3>1. CASE \E n \in 0 .. 2 : Observe(0, n)
      BY <3>1, ObserveType
    <3>2. CASE \E n \in {0, 2, 3, 6} : Observe(10, n)
      BY <3>2, ObserveType
    <3>3. CASE UNCHANGED <<intra_state, slots>>
      BY <3>3 DEF TypeOK
    <3> QED
      BY <1>9, <3>1, <3>2, <3>3 DEF Fail
  <2> QED
    BY <1>9, <2>1 DEF Fail, TypeOK, CallRecords
<1>10. CASE Finalize
  BY <1>10 DEF Finalize, TypeOK
<1>11. CASE UNCHANGED vars
  BY <1>11 DEF vars, TypeOK
<1> QED
  BY <1>1, <1>2, <1>3, <1>4, <1>5, <1>6, <1>7, <1>8, <1>9, <1>10, <1>11 DEF Next, ForwardStep

-------------------------------------------------------------------------------
(* A step inside a call changes its record in the named fields only. *)
LEMMA ForwardFields ==
    ASSUME TypeOK, fwd # Idle, Project \/ Attend \/ Mlp \/ NextPromptToken
    PROVE  /\ fwd' # Idle
           /\ fwd'.op = fwd.op /\ fwd'.len = fwd.len /\ fwd'.step = fwd.step
           /\ Project => fwd.at = "project" /\ fwd'.at = "attend"
                         /\ fwd'.pos = fwd.pos /\ fwd'.layer = fwd.layer
           /\ Attend => fwd.at = "attend" /\ fwd'.at = "mlp"
                        /\ fwd'.pos = fwd.pos /\ fwd'.layer = fwd.layer
           /\ Mlp => /\ fwd.at = "mlp" /\ fwd'.pos = fwd.pos
                     /\ fwd'.layer = fwd.layer + 1
                     /\ fwd'.at = IF fwd.layer + 1 = LayerCount THEN "head" ELSE "project"
           /\ NextPromptToken => /\ fwd.at = "head" /\ fwd'.at = "project"
                                 /\ fwd'.pos = fwd.pos + 1 /\ fwd'.layer = 0
<1>1. fwd \in CallRecords
  BY CallType
<1>2. CASE Project
  BY <1>1, <1>2 DEF Project, Attend, Mlp, NextPromptToken, CallRecords, Idle
<1>3. CASE Attend
  BY <1>1, <1>3 DEF Project, Attend, Mlp, NextPromptToken, CallRecords, Idle
<1>4. CASE Mlp
  BY <1>1, <1>4 DEF Project, Attend, Mlp, NextPromptToken, CallRecords, Idle
<1>5. CASE NextPromptToken
  BY <1>1, <1>5 DEF Project, Attend, Mlp, NextPromptToken, CallRecords, Idle
<1> QED
  BY <1>2, <1>3, <1>4, <1>5

(* A call that begins or ends. *)
LEMMA IdleFields ==
    /\ \A len \in 1 .. MaxTokens : Prefill(len) =>
          /\ fwd = Idle /\ fwd' # Idle /\ fwd'.op = "prefill" /\ fwd'.pos = 0
          /\ fwd'.len = len /\ fwd'.step = 0 /\ fwd'.layer = 0 /\ fwd'.at = "project"
    /\ Decode =>
          /\ fwd = Idle /\ fwd' # Idle /\ fwd'.op = "decode" /\ fwd'.pos = position
          /\ fwd'.step = decode_step_count + 1 /\ fwd'.layer = 0 /\ fwd'.at = "project"
    /\ Idle.op = "none" /\ Idle.at = "idle"
    /\ fwd = Idle => ~ForwardStep /\ ~Fail
BY DEF Prefill, Decode, Idle, ForwardStep, Fail, Project, Attend, Mlp, NextPromptToken,
       ReturnPrefill, ReturnDecode

(* Every action keeps what CallInv says of the call in progress.            *)
LEMMA CallStep == TypeOK /\ CallInv /\ [Next]_vars => CallInv'
<1> SUFFICES ASSUME TypeOK, CallInv, [Next]_vars PROVE CallInv'
  OBVIOUS
<1> USE LlamaRuntimeAssumption DEF session, records
<1>1. ASSUME NEW len \in 1 .. MaxTokens, Prefill(len) PROVE CallInv'
  BY <1>1, IdleFields DEF CallInv, Prefill, TypeOK, Busy
<1>2. CASE Decode
  BY <1>2, IdleFields DEF CallInv, Decode, TypeOK, Busy
<1>3. CASE Project \/ Attend \/ Mlp \/ NextPromptToken
  <2>1. fwd # Idle
    BY <1>3, IdleFields DEF ForwardStep
  <2>2. UNCHANGED <<phase, position, decode_step_count, calls>>
    BY <1>3 DEF Project, Attend, Mlp, NextPromptToken
  <2>3. fwd.layer \in 0 .. LayerCount /\ fwd.pos \in Positions /\ fwd.len \in 1 .. MaxTokens
    BY <2>1, CallType
  <2>4. NextPromptToken => fwd.op = "prefill" /\ fwd.pos + 1 < fwd.len
    BY DEF NextPromptToken
  <2>5. CASE Project
    BY <2>1, <2>2, <2>5, ForwardFields DEF CallInv, Busy
  <2>6. CASE Attend
    BY <2>1, <2>2, <2>6, ForwardFields DEF CallInv, Busy
  <2>7. CASE Mlp
    BY <2>1, <2>2, <2>3, <2>7, ForwardFields DEF CallInv, Busy
  <2>8. CASE NextPromptToken
    BY <2>1, <2>2, <2>3, <2>4, <2>8, ForwardFields DEF CallInv, Busy
  <2> QED
    BY <1>3, <2>5, <2>6, <2>7, <2>8
<1>4. CASE ReturnPrefill \/ ReturnDecode \/ Fail
  <2>1. fwd' = Idle
    BY <1>4 DEF ReturnPrefill, ReturnDecode, Fail
  <2> QED
    BY <2>1 DEF CallInv, Idle, Busy
<1>5. CASE Finalize
  BY <1>5 DEF Finalize, CallInv
<1>6. CASE UNCHANGED vars
  BY <1>6 DEF vars, CallInv
<1> QED
  BY <1>1, <1>2, <1>3, <1>4, <1>5, <1>6 DEF Next, ForwardStep

(* Every action keeps the cache: stores of a call land where CacheInv says. *)
LEMMA CacheStep ==
    TypeOK /\ CallInv /\ SequenceInv /\ CacheInv /\ [Next]_vars => CacheInv'
<1> SUFFICES ASSUME TypeOK, CallInv, SequenceInv, CacheInv, [Next]_vars PROVE CacheInv'
  OBVIOUS
<1> USE LlamaRuntimeAssumption DEF session, records
<1>1. ASSUME NEW len \in 1 .. MaxTokens, Prefill(len) PROVE CacheInv'
  BY <1>1, IdleFields DEF CacheInv, Prefill, TypeOK, Layers, Positions
<1>2. CASE Decode
  BY <1>2, IdleFields DEF CacheInv, Decode, TypeOK, Layers, Positions
<1>3. CASE Project
  <2>1. fwd # Idle
    BY <1>3, IdleFields DEF ForwardStep
  <2>2. /\ fwd.layer \in Layers /\ fwd.pos \in Positions
        /\ fwd.op \in {"prefill", "decode"}
    BY <1>3, <2>1, CallType DEF Project, CallInv, Busy, Layers
  <2>3. /\ fwd'.op = fwd.op /\ fwd'.pos = fwd.pos /\ fwd'.layer = fwd.layer /\ fwd' # Idle
        /\ UNCHANGED <<position, committed, calls>>
    BY <1>3, <2>1, ForwardFields DEF Project
  <2>4. \A l \in Layers, p \in Positions :
           kv'[l][p] = IF l = fwd.layer /\ p = fwd.pos THEN calls ELSE kv[l][p]
    BY <1>3, <2>2 DEF Project, TypeOK
  <2>5. position <= fwd.pos \/ fwd.op = "prefill"
    BY <2>2 DEF CallInv, Positions
  <2>6. fwd.op = "prefill" => position = 0
    BY DEF CallInv, SequenceInv
  <2>7. position \in Nat
    BY DEF TypeOK
  <2>8. \A l \in Layers, p \in Positions : p < position => p # fwd.pos
    BY <2>2, <2>5, <2>6, <2>7 DEF Positions
  <2>9. \A p \in Positions : p < fwd.pos => p # fwd.pos
    BY <2>2 DEF Positions
  <2>10. \A l \in Layers, p \in Positions : p < position => kv'[l][p] = committed[p]
    BY <2>4, <2>8 DEF CacheInv
  <2>11. fwd.op = "prefill" =>
           \A l \in Layers, p \in Positions : p < fwd.pos => kv'[l][p] = calls
    BY <2>4, <2>9 DEF CacheInv
  <2>12. \A l \in Layers : l < fwd.layer => kv'[l][fwd.pos] = calls
    BY <2>1, <2>2, <2>4 DEF CacheInv
  <2>13. kv'[fwd.layer][fwd.pos] = calls
    BY <2>2, <2>4
  <2> QED
    BY <2>3, <2>10, <2>11, <2>12, <2>13 DEF CacheInv
<1>4. CASE Attend
  <2>1. fwd # Idle
    BY <1>4, IdleFields DEF ForwardStep
  <2> QED
    BY <1>4, <2>1, ForwardFields DEF CacheInv, Attend
<1>5. CASE Mlp
  <2>1. fwd # Idle
    BY <1>5, IdleFields DEF ForwardStep
  <2>2. fwd.layer \in 0 .. LayerCount
    BY <2>1, CallType
  <2>3. \A l \in Layers : l < fwd.layer + 1 => l < fwd.layer \/ l = fwd.layer
    BY <2>2 DEF Layers
  <2>4. /\ fwd.at = "mlp" /\ fwd'.op = fwd.op /\ fwd'.pos = fwd.pos
        /\ fwd'.layer = fwd.layer + 1 /\ fwd'.at \in {"head", "project"} /\ fwd' # Idle
        /\ UNCHANGED <<position, committed, kv, calls>>
    BY <1>5, <2>1, ForwardFields DEF Mlp
  <2> QED
    BY <2>1, <2>3, <2>4 DEF CacheInv
<1>6. CASE NextPromptToken
  <2>1. fwd # Idle
    BY <1>6, IdleFields DEF ForwardStep
  <2>2. /\ fwd.pos \in Positions /\ fwd.layer = LayerCount /\ fwd.op = "prefill"
    BY <1>6, <2>1, CallType DEF NextPromptToken, CallInv
  <2>3. /\ fwd'.op = fwd.op /\ fwd'.pos = fwd.pos + 1 /\ fwd'.layer = 0
        /\ fwd'.at = "project" /\ fwd' # Idle
        /\ UNCHANGED <<position, committed, kv, calls>>
    BY <1>6, <2>1, ForwardFields DEF NextPromptToken
  <2>4. \A l \in Layers : l < fwd.layer /\ ~(l < 0)
    BY <2>2 DEF Layers
  <2>5. \A p \in Positions : p < fwd.pos + 1 => p < fwd.pos \/ p = fwd.pos
    BY <2>2 DEF Positions
  <2>6. \A l \in Layers, p \in Positions : p < fwd.pos + 1 => kv[l][p] = calls
    BY <2>1, <2>2, <2>4, <2>5 DEF CacheInv
  <2> QED
    BY <2>3, <2>4, <2>6 DEF CacheInv
<1>7. CASE ReturnPrefill
  <2>1. fwd # Idle
    BY <1>7, IdleFields DEF ForwardStep
  <2>2. /\ fwd.pos \in Positions /\ fwd.layer = LayerCount /\ fwd.op = "prefill"
        /\ fwd.pos + 1 = fwd.len /\ fwd.len \in 1 .. MaxTokens
    BY <1>7, <2>1, CallType DEF ReturnPrefill, CallInv
  <2>3. /\ position' = fwd.len /\ fwd' = Idle /\ UNCHANGED <<kv, calls>>
        /\ \A p \in Positions : committed'[p] = IF p < fwd.len THEN calls ELSE committed[p]
    BY <1>7 DEF ReturnPrefill
  <2>4. \A l \in Layers : l < fwd.layer
    BY <2>2 DEF Layers
  <2>5. \A p \in Positions : p < fwd.len => p < fwd.pos \/ p = fwd.pos
    BY <2>2 DEF Positions
  <2>6. \A l \in Layers, p \in Positions : p < fwd.len => kv[l][p] = calls
    BY <2>1, <2>2, <2>4, <2>5 DEF CacheInv
  <2>7. \A l \in Layers, p \in Positions : p < position' => kv'[l][p] = committed'[p]
    BY <2>3, <2>6
  <2> QED
    BY <2>3, <2>7, IdleFields DEF CacheInv
<1>8. CASE ReturnDecode
  <2>1. fwd # Idle
    BY <1>8, IdleFields DEF ForwardStep
  <2>2. /\ fwd.pos \in Positions /\ fwd.layer = LayerCount /\ fwd.pos = position
    BY <1>8, <2>1, CallType DEF ReturnDecode, CallInv
  <2>3. /\ position' = position + 1 /\ fwd' = Idle /\ UNCHANGED <<kv, calls>>
        /\ \A p \in Positions : committed'[p] = IF p = fwd.pos THEN calls ELSE committed[p]
    BY <1>8, <2>2 DEF ReturnDecode, TypeOK
  <2>4. \A l \in Layers : l < fwd.layer
    BY <2>2 DEF Layers
  <2>5. \A p \in Positions : p < position + 1 => p < position \/ p = fwd.pos
    BY <2>2 DEF Positions
  <2>6. \A l \in Layers, p \in Positions : p < position' => kv'[l][p] = committed'[p]
    BY <2>1, <2>2, <2>3, <2>4, <2>5 DEF CacheInv
  <2> QED
    BY <2>3, <2>6, IdleFields DEF CacheInv
<1>9. CASE Fail
  BY <1>9, IdleFields DEF Fail, CacheInv
<1>10. CASE Finalize
  BY <1>10 DEF Finalize, CacheInv
<1>11. CASE UNCHANGED vars
  BY <1>11 DEF vars, CacheInv
<1> QED
  BY <1>1, <1>2, <1>3, <1>4, <1>5, <1>6, <1>7, <1>8, <1>9, <1>10, <1>11 DEF Next, ForwardStep

(* Every action keeps the batch position and the commits in step.           *)
LEMMA SequenceStep ==
    TypeOK /\ CallInv /\ SequenceInv /\ [Next]_vars => SequenceInv'
<1> SUFFICES ASSUME TypeOK, CallInv, SequenceInv, [Next]_vars PROVE SequenceInv'
  OBVIOUS
<1> USE LlamaRuntimeAssumption DEF session, records
<1>0. /\ calls \in Nat /\ position \in Nat /\ decode_step_count \in Nat
      /\ committed \in [Positions -> Nat] /\ 0 \in Positions
  BY DEF TypeOK, Positions
<1>1. CASE \E len \in 1 .. MaxTokens : Prefill(len)
  BY <1>0, <1>1 DEF Prefill, SequenceInv, Brought, TypeOK
<1>2. CASE Decode
  BY <1>0, <1>2 DEF Decode, SequenceInv, Brought, TypeOK
<1>3. CASE Project \/ Attend \/ Mlp \/ NextPromptToken
  <2>1. UNCHANGED <<session, calls>> /\ fwd # Idle
    BY <1>3, IdleFields DEF Project, Attend, Mlp, NextPromptToken, ForwardStep
  <2> QED
    BY <2>1 DEF SequenceInv, Brought
<1>4. CASE Fail \/ Finalize \/ UNCHANGED vars
  <2>1. UNCHANGED <<session, calls>> /\ (fwd' = Idle \/ UNCHANGED fwd)
    BY <1>4 DEF Fail, Finalize, vars
  <2> QED
    BY <2>1 DEF SequenceInv, Brought
<1>5. CASE ReturnPrefill
  <2>1. fwd # Idle
    BY <1>5, IdleFields DEF ForwardStep
  <2>2. /\ phase = "READY" /\ fwd.len \in 1 .. MaxTokens
        /\ phase' = "PREFILLED" /\ position' = fwd.len /\ fwd' = Idle
        /\ UNCHANGED <<decode_step_count, calls>>
        /\ \A p \in Positions : committed'[p] = IF p < fwd.len THEN calls ELSE committed[p]
    BY <1>5, <2>1, CallType DEF ReturnPrefill, CallInv
  <2>3. decode_step_count = 0
    BY <2>2 DEF SequenceInv
  <2>4. PICK n \in 1 .. MaxTokens : n = fwd.len
    BY <2>2
  <2>6. Brought(n)' /\ n \in 1 .. position'
    <3>1. position' = n /\ decode_step_count' = 0 /\ n \in Nat /\ 0 < n
      BY <2>2, <2>3, <2>4
    <3>2. \A p \in Positions : p < n => committed'[p] = calls
      BY <2>2, <2>4
    <3>3. \A p \in Positions : ~(n <= p /\ p < n)
      BY <3>1 DEF Positions
    <3> QED
      BY <1>0, <3>1, <3>2, <3>3 DEF Brought
  <2>5. \A p \in Positions : committed'[p] <= calls
    BY <1>0, <2>2 DEF SequenceInv
  <2> QED
    BY <2>2, <2>3, <2>5, <2>6 DEF SequenceInv
<1>6. CASE ReturnDecode
  <2>1. fwd # Idle
    BY <1>6, IdleFields DEF ForwardStep
  <2>2. /\ phase # "READY" /\ fwd.pos \in Positions /\ fwd.pos = position
        /\ phase' = "DECODING" /\ position' = position + 1 /\ fwd' = Idle
        /\ decode_step_count' = decode_step_count + 1 /\ UNCHANGED calls
        /\ \A p \in Positions : committed'[p] = IF p = position THEN calls ELSE committed[p]
    BY <1>0, <1>6, <2>1, CallType DEF ReturnDecode, CallInv
  <2>3. PICK n \in 1 .. position : Brought(n)
    BY <2>2 DEF SequenceInv
  <2>4. \A p \in Positions : committed[p] < calls
    BY <2>1 DEF SequenceInv
  <2>5. \A p \in Positions : p < position' => p < position \/ p = position
    BY <1>0, <2>2 DEF Positions
  <2>6. committed'[0] = committed[0] /\ committed[0] < calls
    BY <1>0, <2>2, <2>3, <2>4
  <2>7. \A p \in Positions : p < n => committed'[p] = committed'[0]
    BY <1>0, <2>2, <2>3, <2>6 DEF Brought, Positions
  <2>8. \A p \in Positions : n <= p /\ p < position' => committed'[p] > committed'[0]
    BY <1>0, <2>2, <2>3, <2>5, <2>6 DEF Brought
  <2>9. n \in 1 .. position' /\ position' = n + decode_step_count'
    BY <1>0, <2>2, <2>3 DEF Brought
  <2>10. Brought(n)'
    BY <2>7, <2>8, <2>9 DEF Brought
  <2>11. \A p \in Positions : committed'[p] <= calls
    BY <1>0, <2>2, <2>4
  <2> QED
    BY <1>0, <2>2, <2>9, <2>10, <2>11 DEF SequenceInv
<1> QED
  BY <1>1, <1>2, <1>3, <1>4, <1>5, <1>6 DEF Next, ForwardStep

-------------------------------------------------------------------------------
(* The step the next call makes; calls that fail make it again. *)
NextStep == IF phase = "READY" THEN 0 ELSE decode_step_count + 1

Holding == {"ACTIVE", "READY"}

(* The call in progress is that of the token whose stages are wanted, and  *)
(* so many of them were observed before the place control is at.           *)
CaptureCall ==
    /\ opts.intra /\ fwd.op = "decode"
    /\ fwd.step = opts.target /\ fwd.pos = opts.token_position

StagesDone ==
    IF ~CaptureCall \/ fwd.layer < opts.target_layer THEN 0
    ELSE IF fwd.layer > opts.target_layer THEN 17
    ELSE IF fwd.at = "attend" THEN 7
    ELSE IF fwd.at = "mlp" THEN 10 ELSE 0

OptionsInv == opts \in Options /\ ValidOptions(opts)

(* A record that was not invalidated holds stages of one call only, which  *)
(* was made for the target step, at the position expected.                 *)
RecordInv ==
    /\ (intra_state = "UNINITIALIZED") = ~opts.intra
    /\ intra_state \in Holding => \A s \in Stages : slots[s] \in {0, slots[0]}
    /\ intra_state = "READY" => \A s \in Stages : slots[s] # 0
    /\ intra_state \in Holding /\ slots[0] # 0 =>
           /\ NextStep >= opts.target
           /\ NextStep = opts.target => position = opts.token_position
           /\ NextStep > opts.target => /\ opts.token_position < position
                                        /\ slots[0] = committed[opts.token_position]

(* What the call in progress has made of the record its caller last saw.   *)
ProgressInv ==
    IF StagesDone = 0 THEN StageStatus = seen.stages
    ELSE IF seen.stages = "empty"
      THEN /\ intra_state = "ACTIVE"
           /\ \A s \in Stages : slots[s] = IF s < StagesDone THEN calls ELSE 0
      ELSE intra_state = "INVALID"

StageInv == OptionsInv /\ RecordInv /\ ProgressInv

(* The options of a run never change. *)
LEMMA OptionsStep == OptionsInv /\ [Next]_vars => OptionsInv' /\ opts' = opts
BY DEF OptionsInv, ValidOptions, Next, ForwardStep, Prefill, Decode, Project, Attend, Mlp,
       NextPromptToken, ReturnPrefill, ReturnDecode, Fail, Finalize, vars

(* The fields of the options have the types of the C structure. *)
LEMMA OptionTypes ==
    ASSUME OptionsInv
    PROVE  /\ opts.emit \in BOOLEAN /\ opts.intra \in BOOLEAN /\ opts.target \in Nat
           /\ opts.target_layer \in Nat /\ opts.token_position \in Nat
           /\ opts.intra => /\ opts.target > 0 /\ opts.target_layer < LayerCount
                            /\ opts.token_position < MaxTokens
BY LlamaRuntimeAssumption DEF OptionsInv, ValidOptions

(* The three outcomes of an observation. *)
LEMMA ObserveEffect ==
    ASSUME TypeOK, NEW first \in Nat, NEW n \in Nat, Observe(first, n)
    PROVE  \/ (~CaptureIntra \/ n = 0) /\ UNCHANGED <<intra_state, slots>>
           \/ CaptureIntra /\ n # 0 /\ intra_state' = "INVALID" /\ UNCHANGED slots
              /\ ~(intra_state = "ACTIVE" /\ \A s \in Stages : s >= first => slots[s] = 0)
           \/ /\ CaptureIntra /\ n # 0 /\ intra_state = "ACTIVE" /\ intra_state' = "ACTIVE"
              /\ \A s \in Stages : s >= first => slots[s] = 0
              /\ \A s \in Stages : slots'[s] = IF s >= first /\ s < first + n
                                              THEN calls ELSE slots[s]
BY DEF Observe

(* An observation at its place in the layer, of as many stages as the code *)
(* observes there or of fewer, keeps the record that of one call.          *)
LEMMA ObserveKeeps ==
    ASSUME TypeOK, CallInv, SequenceInv, StageInv, fwd # Idle, fwd.at \in Busy,
           NEW first \in {0, 7, 10}, NEW n \in Nat, Observe(first, n),
           first = IF fwd.at = "project" THEN 0 ELSE IF fwd.at = "attend" THEN 7 ELSE 10,
           UNCHANGED <<opts, session>>
    PROVE  RecordInv'
<1> USE LlamaRuntimeAssumption DEF StageInv, session
<1>1. /\ fwd.op \in {"prefill", "decode"} /\ fwd.layer \in Nat /\ fwd.pos \in Nat
      /\ calls \in Nat /\ calls > 0 /\ decode_step_count \in Nat /\ position \in Nat
      /\ slots \in [Stages -> Nat]
  <2>1. fwd.op \in {"prefill", "decode"} /\ fwd.layer \in Nat /\ fwd.pos \in Nat
    BY CallType DEF Positions
  <2>2. /\ calls \in Nat /\ decode_step_count \in Nat /\ position \in Nat
        /\ slots \in [Stages -> Nat]
    BY DEF TypeOK
  <2> QED
    BY <2>1, <2>2 DEF CallInv
<1>2. CASE (~CaptureIntra \/ n = 0) /\ UNCHANGED <<intra_state, slots>>
  BY <1>2 DEF RecordInv, NextStep, Holding
<1>3. CASE CaptureIntra /\ intra_state' = "INVALID" /\ UNCHANGED slots
  BY <1>3 DEF RecordInv, Holding, CaptureIntra
<1>4. CASE /\ CaptureIntra /\ n # 0 /\ intra_state = "ACTIVE" /\ intra_state' = "ACTIVE"
           /\ \A s \in Stages : s >= first => slots[s] = 0
           /\ \A s \in Stages : slots'[s] = IF s >= first /\ s < first + n
                                           THEN calls ELSE slots[s]
  <2>1. CaptureCall /\ fwd.layer = opts.target_layer
    BY <1>4 DEF CaptureIntra, CaptureCall
  <2>2. /\ NextStep = opts.target /\ position = opts.token_position
    BY <2>1, <1>1 DEF CaptureCall, CallInv, NextStep
  <2>3. 0 \in Stages /\ \A s \in Stages : s \in Nat
    BY DEF Stages
  <2>4. slots'[0] = calls
    <3>1. CASE fwd.at = "project"
      BY <1>1, <1>4, <2>3, <3>1
    <3>2. CASE fwd.at # "project"
      <4>1. StagesDone \in {7, 10}
        BY <2>1, <3>2, <1>1 DEF StagesDone, Busy
      <4>2. slots[0] = calls
        BY <1>4, <2>3, <4>1 DEF ProgressInv
      <4> QED
        BY <1>4, <2>3, <3>2, <4>2 DEF Busy
    <3> QED
      BY <3>1, <3>2
  <2>5. \A s \in Stages : slots'[s] \in {0, calls}
    <3>1. CASE fwd.at = "project"
      BY <1>1, <1>4, <2>3, <3>1
    <3>2. CASE fwd.at # "project"
      <4>1. StagesDone \in {7, 10}
        BY <2>1, <3>2, <1>1 DEF StagesDone, Busy
      <4>2. \A s \in Stages : slots[s] \in {0, calls}
        BY <1>4, <4>1 DEF ProgressInv
      <4> QED
        BY <1>4, <4>2
    <3> QED
      BY <3>1, <3>2
  <2>6. opts.intra /\ NextStep' = NextStep
    BY <2>1 DEF CaptureCall, NextStep
  <2> QED
    BY <1>4, <2>2, <2>4, <2>5, <2>6, OptionTypes DEF RecordInv, Holding
<1> QED
  BY <1>2, <1>3, <1>4, ObserveEffect

(* The status of the record, by what its slots hold. *)
LEMMA StageStatusIs ==
    ASSUME TypeOK
    PROVE  /\ (StageStatus = "empty") =
                 (intra_state = "ACTIVE" /\ \A s \in Stages : slots[s] = 0)
           /\ intra_state = "INVALID" => StageStatus = "invalid"
           /\ intra_state = "READY" => StageStatus = "ready"
           /\ (StageStatus = "off") = (intra_state = "UNINITIALIZED")
BY DEF TypeOK, StageStatus

(* RecordInv over the end of a call. *)
LEMMA RecordReturn ==
    ASSUME TypeOK, CallInv, SequenceInv, StageInv, ReturnPrefill \/ ReturnDecode
    PROVE  RecordInv'
<1> USE LlamaRuntimeAssumption DEF StageInv
<1>1. fwd # Idle
  BY IdleFields DEF ForwardStep
<1>2. UNCHANGED <<opts, intra_state, slots>>
  BY DEF ReturnPrefill, ReturnDecode, records
<1>3. /\ (intra_state' = "UNINITIALIZED") = ~opts'.intra
      /\ intra_state' \in Holding => \A s \in Stages : slots'[s] \in {0, slots'[0]}
      /\ intra_state' = "READY" => \A s \in Stages : slots'[s] # 0
  BY <1>2 DEF RecordInv
<1>4. SUFFICES ASSUME intra_state \in Holding, slots[0] # 0
               PROVE  /\ NextStep' >= opts.target
                      /\ NextStep' = opts.target => position' = opts.token_position
                      /\ NextStep' > opts.target =>
                            /\ opts.token_position < position'
                            /\ slots[0] = committed'[opts.token_position]
  BY <1>2, <1>3 DEF RecordInv
<1>5. opts.intra /\ opts.target > 0 /\ opts.target \in Nat
  BY <1>4, OptionTypes DEF RecordInv, Holding
<1>6. /\ opts.token_position \in Positions /\ opts.target_layer \in Nat
      /\ opts.target_layer < LayerCount
  BY <1>5, OptionTypes DEF Positions
<1>7. /\ NextStep >= opts.target
      /\ NextStep = opts.target => position = opts.token_position
      /\ NextStep > opts.target => /\ opts.token_position < position
                                   /\ slots[0] = committed[opts.token_position]
  BY <1>4 DEF RecordInv
<1>8. phase # "READY"
  BY <1>5, <1>7 DEF NextStep
<1>9. ReturnDecode
  BY <1>1, <1>8 DEF ReturnPrefill, CallInv
<1>10. /\ fwd.op = "decode" /\ fwd.pos = position /\ fwd.step = NextStep
       /\ fwd.layer = LayerCount /\ fwd.pos \in Positions /\ calls > 0
  BY <1>1, <1>9, CallType DEF ReturnDecode, CallInv, NextStep
<1>11. /\ NextStep' = NextStep + 1 /\ position' = position + 1
       /\ \A p \in Positions : committed'[p] = IF p = position THEN calls ELSE committed[p]
       /\ NextStep \in Nat
  <2>1. committed \in [Positions -> 0 .. calls] /\ decode_step_count \in Nat
    BY DEF TypeOK
  <2>2. /\ committed' = [committed EXCEPT ![fwd.pos] = calls] /\ position' = position + 1
        /\ phase' = "DECODING" /\ decode_step_count' = decode_step_count + 1
    BY <1>9 DEF ReturnDecode
  <2> QED
    BY <1>8, <1>10, <2>1, <2>2 DEF NextStep
<1>12. CASE NextStep = opts.target
  <2>1. CaptureCall
    BY <1>5, <1>7, <1>10, <1>12 DEF CaptureCall
  <2>2. StagesDone = 17
    BY <1>6, <1>10, <2>1 DEF StagesDone
  <2>3. slots[0] = calls
    BY <1>4, <2>2 DEF ProgressInv, Holding, Stages
  <2> QED
    BY <1>5, <1>6, <1>7, <1>10, <1>11, <1>12, <2>3 DEF Positions
<1>13. CASE NextStep > opts.target
  BY <1>5, <1>6, <1>7, <1>10, <1>11, <1>13 DEF Positions
<1> QED
  BY <1>5, <1>7, <1>11, <1>12, <1>13

(* Every action keeps the record of stages that of one call. *)
LEMMA RecordStep ==
    TypeOK /\ CallInv /\ SequenceInv /\ StageInv /\ [Next]_vars => RecordInv'
<1> SUFFICES ASSUME TypeOK, CallInv, SequenceInv, StageInv, [Next]_vars PROVE RecordInv'
  OBVIOUS
<1> USE LlamaRuntimeAssumption
<1>1. CASE \/ \E len \in 1 .. MaxTokens : Prefill(len)
           \/ Decode \/ NextPromptToken \/ UNCHANGED vars
  <2>1. UNCHANGED <<opts, session, intra_state, slots>>
    BY <1>1 DEF Prefill, Decode, NextPromptToken, vars, session, records
  <2> QED
    BY <2>1 DEF StageInv, RecordInv, NextStep, session
<1>2. CASE Project
  BY <1>2, ObserveKeeps, IdleFields DEF Project, Busy, ForwardStep
<1>3. CASE Attend
  BY <1>3, ObserveKeeps, IdleFields DEF Attend, Busy, ForwardStep
<1>4. CASE Mlp
  BY <1>4, ObserveKeeps, IdleFields DEF Mlp, Busy, ForwardStep
<1>5. CASE ReturnPrefill \/ ReturnDecode
  BY <1>5, RecordReturn
<1>6. CASE Fail
  <2>1. fwd # Idle /\ UNCHANGED <<opts, session>>
    BY <1>6, IdleFields DEF Fail
  <2>2. CASE fwd.at = "project" /\ \E n \in 0 .. 2 : Observe(0, n)
    BY <2>1, <2>2, ObserveKeeps DEF Busy
  <2>3. CASE fwd.at = "mlp" /\ \E n \in {0, 2, 3, 6} : Observe(10, n)
    BY <2>1, <2>3, ObserveKeeps DEF Busy
  <2>4. CASE UNCHANGED <<intra_state, slots>>
    BY <2>1, <2>4 DEF StageInv, RecordInv, NextStep, session
  <2> QED
    BY <1>6, <2>2, <2>3, <2>4 DEF Fail
<1>7. CASE Finalize
  <2>1. /\ opts.intra /\ UNCHANGED <<opts, phase, position, decode_step_count, committed, slots>>
        /\ \/ intra_state' = "READY" /\ intra_state \in Holding /\ \A s \in Stages : slots[s] # 0
           \/ intra_state' = "INVALID"
    BY <1>7 DEF Finalize, session, StageInv, RecordInv, Holding
  <2> QED
    BY <2>1 DEF StageInv, RecordInv, NextStep, Holding
<1> QED
  BY <1>1, <1>2, <1>3, <1>4, <1>5, <1>6, <1>7 DEF Next, ForwardStep

(* Every action keeps the progress of the record up to its layer.           *)
LEMMA ProgressStep ==
    TypeOK /\ CallInv /\ StageInv /\ [Next]_vars => ProgressInv'
<1> SUFFICES ASSUME TypeOK, CallInv, StageInv, [Next]_vars PROVE ProgressInv'
  OBVIOUS
<1> USE LlamaRuntimeAssumption DEF StageInv
<1>1. CASE (\E len \in 1 .. MaxTokens : Prefill(len)) \/ Decode
  <2>1. /\ UNCHANGED <<intra_state, slots, seen, opts>> /\ fwd = Idle
        /\ fwd'.layer = 0 /\ fwd'.at = "project" /\ fwd'.op \in {"prefill", "decode"}
    BY <1>1, IdleFields DEF Prefill, Decode, records
  <2>2. StagesDone = 0
    BY <2>1, IdleFields DEF StagesDone, CaptureCall
  <2>3. StagesDone' = 0
    BY <2>1, OptionTypes DEF StagesDone
  <2> QED
    BY <2>1, <2>2, <2>3 DEF ProgressInv, StageStatus
<1>2. CASE ReturnPrefill \/ ReturnDecode \/ Fail \/ Finalize
  <2>1. /\ seen' = Capture' /\ StageStatus' = seen'.stages /\ fwd' = Idle
    BY <1>2 DEF ReturnPrefill, ReturnDecode, Fail, Finalize, Capture, StageStatus, LayerStatus, records
  <2>2. StagesDone' = 0
    BY <2>1, IdleFields DEF StagesDone, CaptureCall
  <2> QED
    BY <2>1, <2>2 DEF ProgressInv
<1>3. CASE UNCHANGED vars
  BY <1>3 DEF vars, records, ProgressInv, StageStatus, StagesDone, CaptureCall
<1>4. CASE NextPromptToken
  <2>1. /\ UNCHANGED <<intra_state, slots, seen, opts>> /\ fwd # Idle
        /\ fwd.op = "prefill" /\ fwd'.op = "prefill"
    BY <1>4, ForwardFields, IdleFields DEF NextPromptToken, records, ForwardStep
  <2>2. StagesDone = 0 /\ StagesDone' = 0
    BY <2>1 DEF StagesDone, CaptureCall
  <2> QED
    BY <2>1, <2>2 DEF ProgressInv, StageStatus
<1>5. CASE Project \/ Attend \/ Mlp
  <2>1. fwd # Idle /\ UNCHANGED <<seen, opts, calls>>
    BY <1>5, IdleFields DEF Project, Attend, Mlp, ForwardStep
  <2>2. fwd.layer \in Nat /\ opts.target_layer \in Nat
    BY <2>1, CallType, OptionTypes
  <2>3. /\ fwd'.op = fwd.op /\ fwd'.step = fwd.step /\ fwd'.pos = fwd.pos
        /\ \/ Project /\ fwd.at = "project" /\ fwd'.at = "attend" /\ fwd'.layer = fwd.layer
           \/ Attend /\ fwd.at = "attend" /\ fwd'.at = "mlp" /\ fwd'.layer = fwd.layer
           \/ /\ Mlp /\ fwd.at = "mlp" /\ fwd'.layer = fwd.layer + 1
              /\ fwd'.at \in {"head", "project"}
    BY <1>5, <2>1, ForwardFields
  <2>4. CaptureCall' = CaptureCall
    BY <2>1, <2>3 DEF CaptureCall
  <2>5. PICK first \in {0, 7, 10}, n \in {3, 7} :
          /\ Observe(first, n)
          /\ first = IF fwd.at = "project" THEN 0 ELSE IF fwd.at = "attend" THEN 7 ELSE 10
          /\ first + n = IF fwd.at = "project" THEN 7 ELSE IF fwd.at = "attend" THEN 10 ELSE 17
    <3>1. CASE Project
      BY <3>1 DEF Project
    <3>2. CASE Attend
      BY <3>2 DEF Attend
    <3>3. CASE Mlp
      BY <3>3 DEF Mlp
    <3> QED
      BY <1>5, <3>1, <3>2, <3>3
  <2>6. CASE ~CaptureIntra
    <3>1. UNCHANGED <<intra_state, slots>>
      BY <2>5, <2>6, ObserveEffect
    <3>2. StagesDone' = StagesDone
      BY <2>1, <2>2, <2>3, <2>4, <2>6 DEF StagesDone, CaptureIntra, CaptureCall
    <3> QED
      BY <2>1, <3>1, <3>2 DEF ProgressInv, StageStatus
  <2>7. CASE CaptureIntra
    <3>1. CaptureCall /\ fwd.layer = opts.target_layer
      BY <2>7 DEF CaptureIntra, CaptureCall
    <3>2. StagesDone = first /\ StagesDone' = first + n
      BY <2>1, <2>2, <2>3, <2>4, <2>5, <3>1 DEF StagesDone
    <3>3. \A s \in Stages : s \in Nat /\ s < 17
      BY DEF Stages
    <3>4. CASE seen.stages = "empty"
      <4>1. intra_state = "ACTIVE" /\ \A s \in Stages : slots[s] = IF s < first THEN calls ELSE 0
        BY <3>2, <3>3, <3>4, StageStatusIs DEF ProgressInv
      <4>2. /\ intra_state' = "ACTIVE"
            /\ \A s \in Stages : slots'[s] = IF s >= first /\ s < first + n
                                            THEN calls ELSE slots[s]
        BY <2>5, <2>7, <3>3, <4>1, ObserveEffect
      <4>3. \A s \in Stages : slots'[s] = IF s < first + n THEN calls ELSE 0
        BY <2>5, <3>3, <4>1, <4>2
      <4> QED
        BY <2>1, <2>5, <3>2, <3>4, <4>2, <4>3 DEF ProgressInv
    <3>5. CASE seen.stages # "empty"
      <4>1. ~(intra_state = "ACTIVE" /\ \A s \in Stages : s >= first => slots[s] = 0)
        BY <3>2, <3>3, <3>5, StageStatusIs DEF ProgressInv
      <4>2. intra_state' = "INVALID"
        BY <2>5, <2>7, <4>1, ObserveEffect
      <4> QED
        BY <2>1, <2>5, <3>2, <3>5, <4>2 DEF ProgressInv
    <3> QED
      BY <3>4, <3>5
  <2> QED
    BY <2>6, <2>7
<1> QED
  BY <1>1, <1>2, <1>3, <1>4, <1>5 DEF Next, ForwardStep

-------------------------------------------------------------------------------
Captured == {trace[i].layer : i \in DOMAIN trace}

(* The record of layer outputs holds those of one call, in their order and *)
(* without a gap, and it is that of the target step once that succeeded.   *)
TraceInv ==
    /\ \A i, j \in DOMAIN trace :
          /\ i < j => trace[i].layer < trace[j].layer
          /\ trace[i].call = trace[j].call
    /\ Captured \subseteq Selected
    /\ \A k \in Captured, l \in Selected : l <= k => l \in Captured
    /\ trace # <<>> => NextStep >= opts.target
    /\ opts.emit /\ NextStep > opts.target /\ ~append_failed =>
          /\ Captured = Selected
          /\ \A i \in DOMAIN trace :
                trace[i].call = committed[(position - decode_step_count) + (opts.target - 1)]

(* What the call in progress has made of the record its caller last saw.   *)
LayerProgressInv ==
    IF EmitCheckpoints /\ fwd.layer > 0
    THEN ~append_failed => /\ seen.layers = "empty"
                           /\ Captured = {l \in Selected : l < fwd.layer}
                           /\ \A i \in DOMAIN trace : trace[i].call = calls
    ELSE LayerStatus = seen.layers

(* The selected layers are layers, and the first is one of them.            *)
LEMMA SelectedAre == /\ Selected \subseteq Layers /\ 0 \in Selected
                     /\ \A l \in Selected : l \in Nat /\ l < LayerCount
                     /\ \A l \in Layers : SelectsLayer(l) <=> l \in Selected
<1>1. Selected \subseteq Layers /\ \A l \in Layers : SelectsLayer(l) <=> l \in Selected
  BY DEF Selected
<1>2. \A l \in Layers : l \in Nat /\ l < LayerCount
  BY LlamaRuntimeAssumption DEF Layers
<1>3. SelectsLayer(0)
  BY DEF SelectsLayer
<1>4. 0 \in Layers
  BY LlamaRuntimeAssumption DEF Layers
<1> QED
  BY <1>1, <1>2, <1>3, <1>4

(* The entries of the trace are entries. *)
LEMMA TraceType ==
    ASSUME TypeOK
    PROVE  /\ trace \in Seq([layer : Layers, call : 1 .. MaxCalls])
           /\ Len(trace) \in Nat /\ DOMAIN trace = 1 .. Len(trace)
           /\ \A i \in DOMAIN trace : trace[i].layer \in Layers /\ trace[i].call \in 1 .. MaxCalls
<1>1. trace \in Seq([layer : Layers, call : 1 .. MaxCalls])
  BY DEF TypeOK
<1>2. Len(trace) \in Nat /\ DOMAIN trace = 1 .. Len(trace)
  BY <1>1
<1>3. \A i \in DOMAIN trace : trace[i] \in [layer : Layers, call : 1 .. MaxCalls]
  <2> DEFINE Entries == [layer : Layers, call : 1 .. MaxCalls]
  <2>1. trace \in Seq(Entries)
    BY <1>1
  <2> HIDE DEF Entries
  <2>2. \A i \in DOMAIN trace : trace[i] \in Entries
    BY <1>2, <2>1, ElementOfSeq
  <2> QED
    BY <2>2 DEF Entries
<1> QED
  BY <1>1, <1>2, <1>3

(* All selected layers, in order and once each, are a complete trace. *)
LEMMA CompleteTrace ==
    ASSUME TypeOK, TraceInv, ~append_failed, Captured = Selected
    PROVE  LayerStatus = "complete" /\ trace # <<>>
<1>1. Len(trace) \in Nat /\ DOMAIN trace = 1 .. Len(trace)
      /\ \A i \in DOMAIN trace : trace[i].layer \in Layers
  BY TraceType
<1>2. \A l \in Layers : l \in Nat
  BY LlamaRuntimeAssumption DEF Layers
<1>3. ExistsBijection(1 .. Len(trace), Selected)
  <2> DEFINE f == [i \in 1 .. Len(trace) |-> trace[i].layer]
  <2>1. f \in [1 .. Len(trace) -> Selected]
    BY <1>1 DEF Captured
  <2>2. \A i, j \in 1 .. Len(trace) : f[i] = f[j] => i = j
    <3> SUFFICES ASSUME NEW i \in 1 .. Len(trace), NEW j \in 1 .. Len(trace), i # j
                 PROVE  f[i] # f[j]
      OBVIOUS
    <3>1. i < j \/ j < i
      OBVIOUS
    <3>2. trace[i].layer < trace[j].layer \/ trace[j].layer < trace[i].layer
      BY <1>1, <3>1 DEF TraceInv
    <3> QED
      BY <1>1, <1>2, <3>2
  <2>3. \A l \in Selected : \E i \in 1 .. Len(trace) : f[i] = l
    BY <1>1 DEF Captured
  <2> QED
    BY <2>1, <2>2, <2>3, Fun_IsBij DEF ExistsBijection
<1>4. Len(trace) = Cardinality(Selected)
  BY <1>1, <1>3, FS_CountingElements
<1>5. trace # <<>>
  BY SelectedAre DEF Captured
<1> QED
  BY <1>4, <1>5 DEF LayerStatus

(* What a sequence is after one more element. *)
LEMMA Appended ==
    ASSUME TypeOK, calls > 0, NEW layer \in Layers,
           trace' = Append(trace, [layer |-> layer, call |-> calls])
    PROVE  /\ DOMAIN trace' = 1 .. Len(trace) + 1
           /\ \A i \in DOMAIN trace : trace'[i] = trace[i]
           /\ trace'[Len(trace) + 1].layer = layer
           /\ trace'[Len(trace) + 1].call = calls
           /\ Captured' = Captured \cup {layer}
           /\ trace' # <<>>
<1> DEFINE entry == [layer |-> layer, call |-> calls]
<1>1. entry \in [layer : Layers, call : 1 .. MaxCalls]
  BY LlamaRuntimeAssumption DEF TypeOK
<1>2. entry.layer = layer /\ entry.call = calls
  OBVIOUS
<1> HIDE DEF entry
<1>3. trace' = Append(trace, entry)
  BY DEF entry
<1>4. /\ trace' \in Seq([layer : Layers, call : 1 .. MaxCalls])
      /\ Len(trace') = Len(trace) + 1
      /\ \A i \in 1 .. Len(trace) : trace'[i] = trace[i]
      /\ trace'[Len(trace) + 1] = entry
  BY <1>1, <1>3, AppendProperties, TraceType
<1>5. DOMAIN trace' = 1 .. Len(trace) + 1 /\ DOMAIN trace = 1 .. Len(trace) /\ Len(trace) \in Nat
  BY <1>4, TraceType
<1>6. DOMAIN trace' = DOMAIN trace \cup {Len(trace) + 1}
  BY <1>5
<1>7. Captured' = Captured \cup {layer}
  BY <1>2, <1>4, <1>5, <1>6 DEF Captured
<1>8. trace' # <<>>
  BY <1>4, <1>5
<1> QED
  BY <1>2, <1>4, <1>5, <1>7, <1>8

(* One layer of the wanted call. *)
LEMMA AppendKeeps ==
    ASSUME TypeOK, CallInv, SequenceInv, StageInv, TraceInv, LayerProgressInv,
           Mlp, EmitCheckpoints
    PROVE  TraceInv' /\ LayerProgressInv'
<1> USE LlamaRuntimeAssumption
<1>1. fwd # Idle
  BY IdleFields DEF ForwardStep
<1>2. /\ fwd'.op = fwd.op /\ fwd'.len = fwd.len /\ fwd'.step = fwd.step
      /\ fwd'.pos = fwd.pos /\ fwd'.layer = fwd.layer + 1
      /\ UNCHANGED <<opts, phase, position, decode_step_count, committed, calls, seen>>
  BY <1>1, ForwardFields DEF Mlp, session
<1>3. /\ fwd.layer \in Layers /\ calls > 0 /\ fwd.layer \in Nat
      /\ fwd.op \in {"prefill", "decode"}
  BY <1>1, CallType DEF Mlp, CallInv, Busy, Layers
<1>4. EmitCheckpoints' /\ fwd'.layer > 0 /\ NextStep' = NextStep
  BY <1>2, <1>3 DEF EmitCheckpoints, NextStep
<1>5. NextStep = opts.target /\ opts.target \in Nat
  BY <1>3, OptionTypes DEF EmitCheckpoints, CallInv, NextStep, StageInv
<1>6. CASE ~SelectsLayer(fwd.layer)
  <2>1. UNCHANGED <<trace, append_failed>> /\ fwd.layer \notin Selected
    BY <1>3, <1>6, SelectedAre DEF Mlp
  <2>2. fwd.layer > 0
    BY <2>1, <1>3, SelectedAre
  <2>3. {l \in Selected : l < fwd.layer + 1} = {l \in Selected : l < fwd.layer}
    <3>1. \A l \in Selected : l < fwd.layer + 1 <=> l < fwd.layer
      BY <2>1, <1>3, SelectedAre
    <3> QED
      BY <3>1
  <2>4. LayerProgressInv'
    BY <2>1, <2>2, <2>3, <1>2, <1>4 DEF LayerProgressInv, Captured
  <2>5. TraceInv'
    BY <2>1, <1>2, <1>4 DEF TraceInv, Captured
  <2> QED
    BY <2>4, <2>5
<1>7. CASE SelectsLayer(fwd.layer) /\ UNCHANGED trace /\ append_failed'
  <2>1. LayerProgressInv'
    BY <1>4, <1>7 DEF LayerProgressInv
  <2>2. TraceInv'
    BY <1>2, <1>4, <1>7 DEF TraceInv, Captured
  <2> QED
    BY <2>1, <2>2
<1>8. CASE /\ SelectsLayer(fwd.layer) /\ ~append_failed /\ ~append_failed'
           /\ \A i \in DOMAIN trace : trace[i].layer < fwd.layer
           /\ trace' = Append(trace, [layer |-> fwd.layer, call |-> calls])
  <2>1. /\ seen.layers = "empty"
        /\ Captured = {l \in Selected : l < fwd.layer}
        /\ \A i \in DOMAIN trace : trace[i].call = calls
    <3>1. CASE fwd.layer > 0
      BY <3>1, <1>8 DEF LayerProgressInv
    <3>2. CASE fwd.layer = 0
      <4>1. DOMAIN trace = {}
        <5>1. \A l \in Layers : ~(l < 0)
          BY DEF Layers
        <5> QED
          BY <5>1, <3>2, <1>8, TraceType
      <4>2. trace = <<>>
        BY <4>1, TraceType, EmptySeq
      <4>3. seen.layers = "empty"
        BY <4>2, <3>2, <1>8 DEF LayerProgressInv, LayerStatus
      <4>4. {l \in Selected : l < 0} = {}
        <5>1. \A l \in Selected : ~(l < 0)
          BY SelectedAre
        <5> QED
          BY <5>1
      <4> QED
        BY <4>1, <4>3, <4>4, <3>2 DEF Captured
    <3> QED
      BY <3>1, <3>2, <1>3
  <2>2. fwd.layer \in Selected
    BY <1>3, <1>8, SelectedAre
  <2>3. /\ DOMAIN trace' = 1 .. Len(trace) + 1 /\ DOMAIN trace = 1 .. Len(trace)
        /\ Len(trace) \in Nat
        /\ \A i \in DOMAIN trace : trace'[i] = trace[i]
        /\ trace'[Len(trace) + 1].layer = fwd.layer
        /\ trace'[Len(trace) + 1].call = calls
        /\ Captured' = Captured \cup {fwd.layer}
    BY <1>3, <1>8, Appended, TraceType
  <2>4. Captured' = {l \in Selected : l < fwd.layer + 1}
    <3>1. \A l \in Selected : l < fwd.layer + 1 <=> l < fwd.layer \/ l = fwd.layer
      BY <1>3, SelectedAre
    <3> QED
      BY <3>1, <2>1, <2>2, <2>3
  <2>5. \A i \in DOMAIN trace' : trace'[i].call = calls
    BY <2>1, <2>3
  <2>6. \A i, j \in DOMAIN trace' : i < j => trace'[i].layer < trace'[j].layer
    <3> SUFFICES ASSUME NEW i \in DOMAIN trace', NEW j \in DOMAIN trace', i < j
                 PROVE  trace'[i].layer < trace'[j].layer
      OBVIOUS
    <3>1. i \in DOMAIN trace /\ (j \in DOMAIN trace \/ j = Len(trace) + 1)
      BY <2>3
    <3> QED
      BY <3>1, <2>3, <1>8 DEF TraceInv
  <2>7. LayerProgressInv'
    BY <2>1, <2>4, <2>5, <1>2, <1>4 DEF LayerProgressInv
  <2>8. \A k \in Captured', l \in Selected : l <= k => l \in Captured'
    BY <2>4, <1>3, SelectedAre DEF Layers
  <2>9. NextStep' >= opts'.target /\ ~(NextStep' > opts'.target)
    BY <1>2, <1>4, <1>5
  <2>10. TraceInv'
    BY <2>4, <2>5, <2>6, <2>8, <2>9 DEF TraceInv
  <2> QED
    BY <2>7, <2>10
<1> QED
  BY <1>6, <1>7, <1>8 DEF Mlp, AppendOutput

(* The end of a call keeps the trace that of one call. *)
LEMMA TraceReturn ==
    ASSUME TypeOK, CallInv, SequenceInv, StageInv, TraceInv, LayerProgressInv,
           ReturnPrefill \/ ReturnDecode
    PROVE  TraceInv'
<1> USE LlamaRuntimeAssumption
<1>1. fwd # Idle
  BY IdleFields DEF ForwardStep
<1>2. /\ UNCHANGED <<opts, trace, append_failed>> /\ opts.target \in Nat /\ Captured' = Captured
  BY OptionTypes DEF ReturnPrefill, ReturnDecode, records, Captured, StageInv
<1>3. /\ fwd.layer = LayerCount /\ fwd.pos \in Positions /\ fwd.len \in 1 .. MaxTokens
      /\ fwd.op \in {"prefill", "decode"}
  BY <1>1, CallType DEF ReturnPrefill, ReturnDecode, CallInv
<1>4. fwd.step = NextStep /\ NextStep \in Nat
  BY <1>3 DEF CallInv, NextStep, TypeOK
<1>5. NextStep' = NextStep + 1
  BY <1>3 DEF ReturnPrefill, ReturnDecode, CallInv, NextStep, SequenceInv, TypeOK
<1>6. NextStep' >= opts.target /\ NextStep' > opts.target <=> NextStep >= opts.target
  BY <1>2, <1>4, <1>5
<1>7. {l \in Selected : l < fwd.layer} = Selected
  <2>1. \A l \in Selected : l < fwd.layer
    BY <1>3, SelectedAre
  <2> QED
    BY <2>1
<1>8. ASSUME opts.emit, NextStep = opts.target, ~append_failed
      PROVE  Captured = Selected /\ \A i \in DOMAIN trace : trace[i].call = calls
  <2>1. EmitCheckpoints /\ fwd.layer > 0
    BY <1>3, <1>4, <1>8 DEF EmitCheckpoints, ReturnPrefill, ReturnDecode
  <2> QED
    BY <2>1, <1>7, <1>8 DEF LayerProgressInv
<1>9. ASSUME opts.emit, NextStep >= opts.target, ~append_failed
      PROVE  /\ Captured = Selected
             /\ \A i \in DOMAIN trace :
                   trace[i].call = committed'[(position' - decode_step_count') + (opts.target - 1)]
  <2>1. CASE ReturnPrefill
    <3>1. /\ position' = fwd.len /\ decode_step_count' = 0 /\ NextStep = 0
          /\ committed' = [p \in Positions |-> IF p < fwd.len THEN calls ELSE committed[p]]
      BY <2>1 DEF ReturnPrefill, CallInv, SequenceInv, NextStep
    <3>2. opts.target = 0
      BY <3>1, <1>2, <1>9
    <3>3. (position' - decode_step_count') + (opts.target - 1) = fwd.len - 1
      BY <3>1, <3>2, <1>3
    <3>4. committed'[fwd.len - 1] = calls
      BY <3>1, <1>3 DEF Positions
    <3> QED
      BY <3>1, <3>2, <3>3, <3>4, <1>8, <1>9
  <2>2. CASE ReturnDecode
    <3>1. /\ position' = position + 1 /\ decode_step_count' = decode_step_count + 1
          /\ fwd.pos = position /\ NextStep = decode_step_count + 1 /\ phase # "READY"
          /\ committed' = [committed EXCEPT ![fwd.pos] = calls]
      BY <2>2 DEF ReturnDecode, CallInv, NextStep
    <3>2. position \in Positions /\ decode_step_count \in Nat /\ position \in Nat
          /\ committed \in [Positions -> 0 .. calls]
      BY <3>1, <1>3 DEF TypeOK
    <3>3. \A p \in Positions : committed'[p] = IF p = position THEN calls ELSE committed[p]
      BY <3>1, <3>2
    <3>4. (position' - decode_step_count') = position - decode_step_count
      BY <3>1, <3>2
    <3>5. CASE NextStep = opts.target
      <4>1. (position' - decode_step_count') + (opts.target - 1) = position
        BY <3>1, <3>2, <3>4, <3>5
      <4> QED
        BY <4>1, <3>2, <3>3, <3>5, <1>8, <1>9
    <3>6. CASE NextStep > opts.target
      <4>1. PICK n \in 1 .. position : position = n + decode_step_count
        BY <3>1 DEF SequenceInv, Brought
      <4>2. (position - decode_step_count) + (opts.target - 1) \in 0 .. position - 1
        BY <4>1, <3>1, <3>2, <3>6, <1>2
      <4>3. 0 .. position - 1 \subseteq Positions /\ position \notin 0 .. position - 1
        BY <3>2 DEF Positions
      <4>4. committed'[(position - decode_step_count) + (opts.target - 1)]
              = committed[(position - decode_step_count) + (opts.target - 1)]
        BY <4>2, <4>3, <3>3
      <4> QED
        BY <4>4, <3>4, <3>6, <1>9 DEF TraceInv
    <3> QED
      BY <3>5, <3>6, <1>2, <1>4, <1>9
  <2> QED
    BY <2>1, <2>2
<1> QED
  BY <1>2, <1>4, <1>5, <1>9 DEF TraceInv

(* Every action keeps the trace that of one call. *)
LEMMA TraceStep ==
    TypeOK /\ CallInv /\ SequenceInv /\ StageInv /\ TraceInv /\ LayerProgressInv /\ [Next]_vars
        => TraceInv' /\ LayerProgressInv'
<1> SUFFICES ASSUME TypeOK, CallInv, SequenceInv, StageInv, TraceInv, LayerProgressInv,
                    [Next]_vars
             PROVE  TraceInv' /\ LayerProgressInv'
  OBVIOUS
<1> USE LlamaRuntimeAssumption
<1>1. CASE Mlp /\ EmitCheckpoints
  BY <1>1, AppendKeeps
<1>2. CASE ReturnPrefill \/ ReturnDecode
  <2>1. /\ seen' = Capture /\ LayerStatus' = LayerStatus /\ fwd' = Idle
    BY <1>2 DEF ReturnPrefill, ReturnDecode, records, LayerStatus
  <2>2. LayerProgressInv'
    BY <2>1 DEF LayerProgressInv, EmitCheckpoints, Idle, Capture
  <2> QED
    BY <1>2, <2>2, TraceReturn
<1>3. CASE ~(Mlp /\ EmitCheckpoints) /\ ~ReturnPrefill /\ ~ReturnDecode
  <2>1. UNCHANGED <<opts, session, trace, append_failed>>
    BY <1>3 DEF Next, ForwardStep, Prefill, Decode, Project, Attend, Mlp, NextPromptToken,
                Fail, Finalize, vars, records
  <2>2. TraceInv'
    BY <2>1 DEF TraceInv, Captured, NextStep, session
  <2>3. CASE (\E len \in 1 .. MaxTokens : Prefill(len)) \/ Decode
    <3>1. UNCHANGED seen /\ fwd = Idle /\ fwd'.layer = 0
      BY <2>3, IdleFields DEF Prefill, Decode
    <3> QED
      BY <2>1, <2>2, <3>1 DEF LayerProgressInv, EmitCheckpoints, Idle, LayerStatus
  <2>4. CASE Fail \/ Finalize
    <3>1. fwd' = Idle /\ seen' = Capture'
      BY <2>4 DEF Fail, Finalize
    <3> QED
      BY <2>2, <3>1 DEF LayerProgressInv, EmitCheckpoints, Idle, Capture
  <2>5. CASE Project \/ Attend
    <3>1. fwd # Idle /\ UNCHANGED <<seen, calls>>
      BY <2>5, IdleFields DEF ForwardStep, Project, Attend
    <3>2. /\ fwd'.op = fwd.op /\ fwd'.len = fwd.len /\ fwd'.step = fwd.step
          /\ fwd'.pos = fwd.pos /\ fwd'.layer = fwd.layer
      BY <2>5, <3>1, ForwardFields
    <3> QED
      BY <2>1, <2>2, <3>1, <3>2 DEF LayerProgressInv, EmitCheckpoints, LayerStatus, Captured
  <2>6. CASE Mlp
    <3>1. fwd # Idle /\ UNCHANGED <<seen, calls>> /\ ~EmitCheckpoints
      BY <1>3, <2>6, IdleFields DEF ForwardStep, Mlp
    <3>2. /\ fwd'.op = fwd.op /\ fwd'.len = fwd.len /\ fwd'.step = fwd.step
          /\ fwd'.pos = fwd.pos
      BY <2>6, <3>1, ForwardFields
    <3> QED
      BY <2>1, <2>2, <3>1, <3>2 DEF LayerProgressInv, EmitCheckpoints, LayerStatus
  <2>7. CASE NextPromptToken
    <3>1. fwd # Idle /\ UNCHANGED seen /\ fwd.op = "prefill" /\ fwd.pos + 1 < fwd.len
      BY <2>7, IdleFields DEF ForwardStep, NextPromptToken
    <3>2. fwd'.layer = 0 /\ fwd.len \in Nat /\ fwd.pos \in Nat
      BY <2>7, <3>1, ForwardFields, CallType DEF Positions
    <3> QED
      BY <2>1, <2>2, <3>1, <3>2 DEF LayerProgressInv, EmitCheckpoints, LayerStatus
  <2>8. CASE UNCHANGED vars
    BY <2>2, <2>8 DEF vars, records, LayerProgressInv, EmitCheckpoints, LayerStatus, Captured
  <2> QED
    BY <1>3, <2>3, <2>4, <2>5, <2>6, <2>7, <2>8 DEF Next, ForwardStep
<1> QED
  BY <1>1, <1>2, <1>3

-------------------------------------------------------------------------------
(* The token of every position the current one may attend to. *)
Context == [i \in 1 .. fwd.pos + 1 |-> Bringer(i - 1)]

(* Every layer that was behind attended to exactly these. *)
ContextInv ==
    fwd # Idle => /\ contexts \subseteq {Context}
                  /\ fwd.layer > 0 \/ fwd.at = "mlp" => contexts = {Context}

(* AttentionReadsCommitted follows from the cache and the sequence.         *)
LEMMA AttentionIs ==
    ASSUME TypeOK, CallInv, CacheInv, fwd.at \in {"attend", "mlp"}, NEW p \in 0 .. fwd.pos
    PROVE  kv[fwd.layer][p] = Bringer(p)
<1> USE LlamaRuntimeAssumption
<1>1. fwd # Idle
  BY IdleFields
<1>2. /\ fwd.layer \in Layers /\ fwd.pos \in Positions
      /\ fwd.op \in {"prefill", "decode"}
  BY <1>1, CallType DEF CallInv, Busy, Layers
<1>3. p \in Positions /\ (p < fwd.pos \/ p = fwd.pos)
  BY <1>2 DEF Positions
<1>4. CASE p = fwd.pos
  BY <1>4 DEF CacheInv, Bringer
<1>5. CASE p < fwd.pos /\ fwd.op = "prefill"
  BY <1>2, <1>3, <1>5 DEF CacheInv, Bringer
<1>6. CASE p < fwd.pos /\ fwd.op = "decode"
  <2>1. p < position /\ p # fwd.pos
    BY <1>2, <1>3, <1>6 DEF CallInv, Positions
  <2> QED
    BY <1>2, <1>3, <1>6, <2>1 DEF CacheInv, Bringer
<1> QED
  BY <1>2, <1>3, <1>4, <1>5, <1>6

(* Every action keeps what the layers of the call attended to.         *)
LEMMA ContextStep ==
    TypeOK /\ CallInv /\ CacheInv /\ ContextInv /\ [Next]_vars => ContextInv'
<1> SUFFICES ASSUME TypeOK, CallInv, CacheInv, ContextInv, [Next]_vars PROVE ContextInv'
  OBVIOUS
<1> USE LlamaRuntimeAssumption
<1>1. CASE (\E len \in 1 .. MaxTokens : Prefill(len)) \/ Decode
  <2>1. contexts' = {} /\ fwd'.layer = 0 /\ fwd'.at = "project"
    BY <1>1, IdleFields DEF Prefill, Decode
  <2> QED
    BY <2>1 DEF ContextInv
<1>2. CASE ReturnPrefill \/ ReturnDecode \/ Fail
  <2>1. fwd' = Idle
    BY <1>2 DEF ReturnPrefill, ReturnDecode, Fail
  <2> QED
    BY <2>1 DEF ContextInv
<1>3. CASE Finalize \/ UNCHANGED vars
  <2>1. UNCHANGED <<fwd, contexts, calls, committed>>
    BY <1>3 DEF Finalize, vars, session
  <2> QED
    BY <2>1 DEF ContextInv, Context, Bringer
<1>4. CASE NextPromptToken
  <2>1. fwd # Idle
    BY <1>4, IdleFields DEF ForwardStep
  <2>2. contexts' = {} /\ fwd'.layer = 0 /\ fwd'.at = "project"
    BY <1>4, <2>1, ForwardFields DEF NextPromptToken
  <2> QED
    BY <2>2 DEF ContextInv
<1>5. CASE Project \/ Attend \/ Mlp
  <2>1. fwd # Idle /\ UNCHANGED <<calls, committed>>
    BY <1>5, IdleFields DEF Project, Attend, Mlp, ForwardStep, session
  <2>2. /\ fwd'.op = fwd.op /\ fwd'.pos = fwd.pos /\ fwd' # Idle
        /\ \/ Project /\ fwd'.at = "attend" /\ fwd'.layer = fwd.layer
           \/ Attend /\ fwd'.at = "mlp" /\ fwd'.layer = fwd.layer
           \/ Mlp /\ fwd.at = "mlp" /\ fwd'.at \in {"head", "project"}
    BY <1>5, <2>1, ForwardFields
  <2>3. Context' = Context
    BY <2>1, <2>2 DEF Context, Bringer
  <2>4. CASE Attend
    <3>1. fwd.at = "attend" /\ fwd.pos \in Nat
      BY <2>1, <2>4, CallType DEF Attend, Positions
    <3>2. \A i \in 1 .. fwd.pos + 1 : i - 1 \in 0 .. fwd.pos
      BY <3>1
    <3>3. [i \in 1 .. fwd.pos + 1 |-> kv[fwd.layer][i - 1]] = Context
      BY <3>1, <3>2, AttentionIs DEF Context
    <3>4. contexts' = {Context}
      BY <2>1, <2>4, <3>3 DEF Attend, ContextInv
    <3> QED
      BY <2>3, <3>4 DEF ContextInv
  <2>5. CASE Project
    BY <2>1, <2>2, <2>3, <2>5 DEF Project, ContextInv
  <2>6. CASE Mlp
    <3>1. contexts' = contexts /\ contexts = {Context}
      BY <2>1, <2>6 DEF Mlp, ContextInv
    <3> QED
      BY <2>3, <3>1 DEF ContextInv
  <2> QED
    BY <1>5, <2>4, <2>5, <2>6
<1> QED
  BY <1>1, <1>2, <1>3, <1>4, <1>5 DEF Next, ForwardStep

(* The initial records are empty. *)
LEMMA InitRecords == Init => StageInv /\ TraceInv /\ LayerProgressInv
<1> SUFFICES ASSUME Init PROVE StageInv /\ TraceInv /\ LayerProgressInv
  OBVIOUS
<1> USE LlamaRuntimeAssumption
<1>1. OptionsInv
  BY DEF Init, OptionsInv
<1>2. opts.intra \in BOOLEAN /\ opts.target \in Nat
  BY <1>1, OptionTypes
<1>3. 0 \in Stages /\ \A s \in Stages : slots[s] = 0
  BY DEF Init, Stages
<1>4. RecordInv
  BY <1>2, <1>3 DEF Init, RecordInv, Holding
<1>5. ProgressInv
  BY DEF Init, ProgressInv, StagesDone, CaptureCall, Idle, Capture
<1>6. Captured = {} /\ DOMAIN trace = {}
  BY DEF Init, Captured
<1>7. NextStep = 0
  BY DEF Init, NextStep
<1>8. TraceInv
  BY <1>2, <1>6, <1>7 DEF Init, TraceInv
<1>9. LayerProgressInv
  BY DEF Init, LayerProgressInv, EmitCheckpoints, Idle, Capture
<1> QED
  BY <1>1, <1>4, <1>5, <1>8, <1>9 DEF StageInv

RuntimeInv ==
    /\ TypeOK /\ CallInv /\ SequenceInv /\ CacheInv
    /\ StageInv /\ TraceInv /\ LayerProgressInv /\ ContextInv

(* The inductive invariant: the properties below are consequences of it. *)
THEOREM RuntimeInductive == Spec => []RuntimeInv
<1>1. Init => RuntimeInv
  BY InitHolds, InitRecords DEF RuntimeInv, ContextInv, Init
<1>2. RuntimeInv /\ [Next]_vars => RuntimeInv'
  <2> SUFFICES ASSUME RuntimeInv, [Next]_vars PROVE RuntimeInv'
    OBVIOUS
  <2>1. StageInv'
    BY OptionsStep, RecordStep, ProgressStep DEF RuntimeInv, StageInv
  <2> QED
    BY <2>1, TypeStep, CallStep, SequenceStep, CacheStep, TraceStep, ContextStep
       DEF RuntimeInv
<1> QED
  BY <1>1, <1>2, PTL DEF Spec

(* The prompt are the positions that one call brought. *)
LEMMA PromptIs ==
    ASSUME TypeOK, NEW n \in 1 .. position, Brought(n)
    PROVE  PromptLength = n
<1>1. n \in Nat /\ position \in Nat /\ position <= MaxTokens /\ n <= position
  BY LlamaRuntimeAssumption DEF TypeOK
<1>2. 0 .. n - 1 \subseteq Positions
  BY <1>1, LlamaRuntimeAssumption DEF Positions
<1>3. committed \in [Positions -> Nat] /\ 0 \in Positions
  BY <1>1, <1>2, LlamaRuntimeAssumption DEF TypeOK, Positions
<1>4. {p \in Positions : p < position /\ committed[p] = committed[0]} = 0 .. n - 1
  <2>1. ASSUME NEW p \in Positions, p < position, committed[p] = committed[0]
        PROVE  p \in 0 .. n - 1
    BY <1>1, <1>3, <2>1 DEF Brought, Positions
  <2>2. ASSUME NEW p \in 0 .. n - 1
        PROVE  p \in Positions /\ p < position /\ committed[p] = committed[0]
    BY <1>1, <1>2, <2>2 DEF Brought
  <2> QED
    BY <2>1, <2>2
<1>5. Cardinality(0 .. n - 1) = n
  BY <1>1, FS_Interval
<1> QED
  BY <1>4, <1>5 DEF PromptLength

-------------------------------------------------------------------------------
(* Every variable keeps its type, however many calls are made and fail. *)
THEOREM TypeCorrect == Spec => []TypeOK
BY RuntimeInductive, PTL DEF RuntimeInv

(* For every prompt, context length and succession of successes and        *)
(* failures: the batch position is the prompt and one token per counted    *)
(* decode step, and the phase says which.                                  *)
THEOREM PositionCorrect == Spec => []PositionCountsSteps
<1>1. RuntimeInv => PositionCountsSteps
  <2> SUFFICES ASSUME RuntimeInv PROVE PositionCountsSteps
    OBVIOUS
  <2>1. phase # "READY" => position = PromptLength + decode_step_count
    BY PromptIs DEF RuntimeInv, SequenceInv, Brought
  <2> QED
    BY <2>1 DEF RuntimeInv, SequenceInv, PositionCountsSteps
<1> QED
  BY <1>1, RuntimeInductive, PTL

(* For every number of layers and positions: what attention reads was      *)
(* stored by the tokens of this sequence, never by a call that failed.     *)
THEOREM AttentionCorrect == Spec => []AttentionReadsCommitted
<1>1. RuntimeInv => AttentionReadsCommitted
  BY AttentionIs DEF RuntimeInv, AttentionReadsCommitted
<1> QED
  BY <1>1, RuntimeInductive, PTL

(* For every number of layers, options and succession of failures and      *)
(* retries: a layer trace that may be written is of one pass, without a    *)
(* gap, and complete and of the committed pass once the target step        *)
(* succeeded.                                                              *)
THEOREM TraceCorrect == Spec => []TraceIsOnePass
<1>1. RuntimeInv => TraceIsOnePass
  <2> SUFFICES ASSUME RuntimeInv, ~append_failed PROVE TraceIsOnePass
    BY DEF TraceIsOnePass
  <2> USE LlamaRuntimeAssumption DEF RuntimeInv
  <2>1. \A i, j \in DOMAIN trace : trace[i].call = trace[j].call
    BY DEF TraceInv
  <2>2. ASSUME NEW i \in DOMAIN trace
        PROVE  {trace[j].layer : j \in 1 .. i} = {l \in Selected : l <= trace[i].layer}
    <3>1. /\ DOMAIN trace = 1 .. Len(trace) /\ Len(trace) \in Nat
          /\ \A j \in DOMAIN trace : trace[j].layer \in Selected /\ trace[j].layer \in Nat
      BY TraceType, SelectedAre DEF TraceInv, Captured
    <3>2. ASSUME NEW j \in 1 .. i PROVE trace[j].layer \in {l \in Selected : l <= trace[i].layer}
      <4>1. j \in DOMAIN trace /\ (j < i \/ j = i)
        BY <2>2, <3>1
      <4> QED
        BY <2>2, <3>1, <4>1 DEF TraceInv
    <3>3. ASSUME NEW l \in Selected, l <= trace[i].layer
          PROVE  \E j \in 1 .. i : trace[j].layer = l
      <4>1. PICK j \in DOMAIN trace : trace[j].layer = l
        BY <2>2, <3>3 DEF TraceInv, Captured
      <4>2. ~(i < j)
        BY <2>2, <3>1, <3>3, <4>1 DEF TraceInv
      <4> QED
        BY <2>2, <3>1, <4>1, <4>2
    <3> QED
      BY <3>2, <3>3
  <2>3. ASSUME opts.emit, TargetCommitted
        PROVE  /\ LayerStatus = "complete"
               /\ trace[1].call = committed[PromptLength + opts.target - 1]
    <3>1. /\ phase # "READY" /\ opts.target \in Nat /\ decode_step_count \in Nat
          /\ position \in Nat /\ NextStep > opts.target
      BY <2>3, OptionTypes DEF TargetCommitted, NextStep, StageInv, TypeOK
    <3>2. PICK n \in 1 .. position : Brought(n)
      BY <3>1 DEF SequenceInv
    <3>3. PromptLength = n /\ position - decode_step_count = n /\ n \in Nat
      BY <3>1, <3>2, PromptIs DEF Brought
    <3>4. Captured = Selected
      BY <2>3, <3>1 DEF TraceInv
    <3>5. LayerStatus = "complete" /\ trace # <<>>
      BY <3>4, CompleteTrace
    <3>6. 1 \in DOMAIN trace
      BY <3>5, TraceType, EmptySeq
    <3>7. (position - decode_step_count) + (opts.target - 1) = PromptLength + opts.target - 1
      BY <3>1, <3>3
    <3> QED
      BY <2>3, <3>1, <3>5, <3>6, <3>7 DEF TraceInv
  <2> QED
    BY <2>1, <2>2, <2>3 DEF TraceIsOnePass
<1> QED
  BY <1>1, RuntimeInductive, PTL

(* A READY intra-layer record holds all stages of one call, and once the   *)
(* target step succeeded that is the call that succeeded.                  *)
THEOREM RecordCorrect == Spec => []ReadyRecordIsOnePass
<1>1. RuntimeInv => ReadyRecordIsOnePass
  <2> SUFFICES ASSUME RuntimeInv, intra_state = "READY" PROVE ReadyRecordIsOnePass
    BY DEF ReadyRecordIsOnePass
  <2>1. \A s \in Stages : slots[s] # 0 /\ slots[s] = slots[0]
    BY DEF RuntimeInv, StageInv, RecordInv, Holding
  <2>2. 0 \in Stages
    BY DEF Stages
  <2>3. TargetCommitted => NextStep > opts.target
    BY OptionTypes DEF RuntimeInv, StageInv, TargetCommitted, NextStep, TypeOK
  <2> QED
    BY <2>1, <2>2, <2>3 DEF RuntimeInv, StageInv, RecordInv, Holding, ReadyRecordIsOnePass
<1> QED
  BY <1>1, RuntimeInductive, PTL

-------------------------------------------------------------------------------
(* The mapping onto DecodeSession. *)
HeldSequence == [i \in 1 .. position |-> committed[i - 1]]
CallsReturned == IF fwd = Idle THEN calls ELSE calls - 1

(* The status of the record is one of three, by its slots. *)
LEMMA StageStatusValues ==
    ASSUME TypeOK
    PROVE  /\ intra_state = "ACTIVE" => StageStatus \in {"empty", "partial", "full"}
           /\ (StageStatus = "full") =
                 (intra_state = "ACTIVE" /\ \A s \in Stages : slots[s] # 0)
           /\ StageStatus = "ready" => intra_state = "READY"
<1>1. 0 \in Stages
  BY DEF Stages
<1>2. CASE intra_state = "ACTIVE" /\ \A s \in Stages : slots[s] # 0
  <2>1. {s \in Stages : slots[s] # 0} = Stages /\ Stages # {}
    BY <1>1, <1>2
  <2> QED
    BY <1>2, <2>1 DEF StageStatus
<1>3. CASE intra_state = "ACTIVE" /\ ~(\A s \in Stages : slots[s] # 0)
  <2>1. {s \in Stages : slots[s] # 0} # Stages
    BY <1>3
  <2> QED
    BY <1>3, <2>1 DEF StageStatus
<1>4. CASE intra_state # "ACTIVE"
  BY <1>4 DEF StageStatus, TypeOK
<1> QED
  BY <1>2, <1>3, <1>4

(* The status of the trace is one of three, by its length. *)
LEMMA LayerStatusValues ==
    /\ LayerStatus \in {"unusable", "empty", "partial", "complete"}
    /\ append_failed <=> LayerStatus = "unusable"
BY DEF LayerStatus

(* A call that ends well has captured all of what was wanted. *)
LEMMA LayersReturned ==
    ASSUME RuntimeInv, ReturnPrefill \/ ReturnDecode
    PROVE  seen'.layers \in IF ~Session!WantsLayers(fwd.step) THEN {seen.layers}
                            ELSE IF seen.layers = "empty" THEN {"complete", "unusable"}
                            ELSE {"unusable"}
<1> USE LlamaRuntimeAssumption DEF RuntimeInv
<1>1. fwd # Idle /\ seen' = Capture
  BY IdleFields DEF ForwardStep, ReturnPrefill, ReturnDecode
<1>2. seen'.layers = LayerStatus
  BY <1>1 DEF Capture
<1>3. fwd.layer = LayerCount /\ fwd.layer > 0
  BY DEF ReturnPrefill, ReturnDecode, CallInv
<1>4. EmitCheckpoints <=> Session!WantsLayers(fwd.step)
  BY DEF ReturnPrefill, ReturnDecode, EmitCheckpoints, Session!WantsLayers
<1>5. CASE ~EmitCheckpoints
  BY <1>2, <1>4, <1>5 DEF LayerProgressInv
<1>6. CASE EmitCheckpoints /\ append_failed
  BY <1>2, <1>4, <1>6, LayerStatusValues
<1>7. CASE EmitCheckpoints /\ ~append_failed
  <2>1. seen.layers = "empty" /\ Captured = {l \in Selected : l < fwd.layer}
    BY <1>3, <1>7 DEF LayerProgressInv
  <2>2. {l \in Selected : l < fwd.layer} = Selected
    BY <1>3, SelectedAre
  <2>3. LayerStatus = "complete"
    BY <1>7, <2>1, <2>2, CompleteTrace
  <2> QED
    BY <1>2, <1>4, <1>7, <2>1, <2>3
<1> QED
  BY <1>5, <1>6, <1>7

(* The same of the record of stages. *)
LEMMA StagesReturned ==
    ASSUME RuntimeInv, ReturnPrefill \/ ReturnDecode
    PROVE  seen'.stages = IF ~Session!WantsStages(fwd.step, fwd.pos) THEN seen.stages
                          ELSE IF seen.stages = "empty" THEN "full" ELSE "invalid"
<1> USE LlamaRuntimeAssumption DEF RuntimeInv
<1>1. fwd # Idle /\ seen' = Capture
  BY IdleFields DEF ForwardStep, ReturnPrefill, ReturnDecode
<1>2. seen'.stages = StageStatus
  BY <1>1 DEF Capture
<1>3. fwd.layer = LayerCount /\ fwd.op \in {"prefill", "decode"}
  BY <1>1, CallType DEF ReturnPrefill, ReturnDecode, CallInv
<1>4. opts.intra => opts.target > 0 /\ opts.target_layer < LayerCount /\ opts.target_layer \in Nat
  BY OptionTypes DEF StageInv
<1>5. CaptureCall <=> Session!WantsStages(fwd.step, fwd.pos)
  <2>1. fwd.op = "prefill" => fwd.step = 0
    BY DEF CallInv
  <2> QED
    BY <1>3, <1>4, <2>1 DEF CaptureCall, Session!WantsStages
<1>6. CASE ~CaptureCall
  <2>1. StagesDone = 0
    BY <1>6 DEF StagesDone
  <2> QED
    BY <1>2, <1>5, <1>6, <2>1 DEF StageInv, ProgressInv
<1>7. CASE CaptureCall
  <2>1. StagesDone = 17
    BY <1>3, <1>4, <1>7 DEF StagesDone, CaptureCall
  <2>2. CASE seen.stages = "empty"
    <3>1. intra_state = "ACTIVE" /\ calls > 0
      BY <1>1, <2>1, <2>2 DEF StageInv, ProgressInv, CallInv
    <3>2. \A s \in Stages : slots[s] = calls
      BY <2>1, <2>2 DEF StageInv, ProgressInv, Stages
    <3>3. StageStatus = "full"
      BY <3>1, <3>2, StageStatusValues
    <3> QED
      BY <1>2, <1>5, <1>7, <2>2, <3>3
  <2>3. CASE seen.stages # "empty"
    BY <1>2, <1>5, <1>7, <2>1, <2>3, StageStatusIs DEF StageInv, ProgressInv
  <2> QED
    BY <2>2, <2>3
<1> QED
  BY <1>6, <1>7

(* A call that fails has captured some of it. *)
LEMMA LayersLeft ==
    ASSUME RuntimeInv, Fail
    PROVE  seen'.layers \in IF ~Session!WantsLayers(fwd.step) THEN {seen.layers}
                            ELSE IF seen.layers = "empty"
                              THEN {"empty", "partial", "complete", "unusable"}
                            ELSE {seen.layers, "unusable"}
<1> USE LlamaRuntimeAssumption DEF RuntimeInv
<1>1. seen'.layers = LayerStatus
  BY DEF Fail, Capture, LayerStatus
<1>2. EmitCheckpoints => Session!WantsLayers(fwd.step)
  BY DEF EmitCheckpoints, Session!WantsLayers
<1>3. CASE ~(EmitCheckpoints /\ fwd.layer > 0)
  BY <1>1, <1>3, LayerStatusValues DEF LayerProgressInv
<1>4. CASE EmitCheckpoints /\ fwd.layer > 0
  BY <1>1, <1>2, <1>4, LayerStatusValues DEF LayerProgressInv
<1> QED
  BY <1>3, <1>4

(* The same of the record of stages. *)
LEMMA StagesLeft ==
    ASSUME RuntimeInv, Fail
    PROVE  seen'.stages \in IF ~Session!WantsStages(fwd.step, fwd.pos) THEN {seen.stages}
                            ELSE IF seen.stages = "empty" THEN {"empty", "partial", "full"}
                            ELSE {seen.stages, "invalid"}
<1> USE LlamaRuntimeAssumption DEF RuntimeInv
<1>1. seen'.stages = StageStatus' /\ fwd # Idle
  BY IdleFields DEF Fail, Capture, StageStatus
<1>3. opts.intra => opts.target > 0
  BY OptionTypes DEF StageInv
<1>4. CaptureCall <=> Session!WantsStages(fwd.step, fwd.pos)
  <2>1. fwd.op \in {"prefill", "decode"} /\ (fwd.op = "prefill" => fwd.step = 0)
    BY <1>1, CallType DEF CallInv
  <2> QED
    BY <1>3, <2>1 DEF CaptureCall, Session!WantsStages
<1>5. CaptureIntra => CaptureCall /\ fwd.layer = opts.target_layer
  BY DEF CaptureIntra, CaptureCall
<1>6. \/ UNCHANGED <<intra_state, slots>>
      \/ \E first \in {0, 10}, n \in {1, 2, 3, 6} :
            /\ CaptureIntra /\ Observe(first, n)
            /\ fwd.at = IF first = 0 THEN "project" ELSE "mlp"
  <2>1. CASE fwd.at = "project" /\ \E n \in 0 .. 2 : Observe(0, n)
    BY <2>1, ObserveEffect
  <2>2. CASE fwd.at = "mlp" /\ \E n \in {0, 2, 3, 6} : Observe(10, n)
    BY <2>2, ObserveEffect
  <2> QED
    BY <2>1, <2>2 DEF Fail
<1>7. StagesDone # 0 => CaptureCall
  BY DEF StagesDone
<1>8. CASE UNCHANGED <<intra_state, slots>>
  <2>1. StageStatus' = StageStatus
    BY <1>8 DEF StageStatus
  <2>2. CASE StagesDone = 0
    BY <1>1, <1>4, <2>1, <2>2, StageStatusValues, StageStatusIs DEF StageInv, ProgressInv
  <2>3. CASE StagesDone # 0
    BY <1>1, <1>4, <1>7, <2>1, <2>3, StageStatusValues, StageStatusIs DEF StageInv, ProgressInv
  <2> QED
    BY <2>2, <2>3
<1>9. ASSUME NEW first \in {0, 10}, NEW n \in {1, 2, 3, 6}, CaptureIntra, Observe(first, n),
             fwd.at = IF first = 0 THEN "project" ELSE "mlp"
      PROVE  seen'.stages \in IF seen.stages = "empty" THEN {"empty", "partial", "full"}
                              ELSE {seen.stages, "invalid"}
  <2>1. intra_state' \in {"ACTIVE", "INVALID"}
    BY <1>9, ObserveEffect
  <2>2. CASE seen.stages = "empty"
    <3>1. intra_state = "ACTIVE" /\ \A s \in Stages : s >= first => slots[s] = 0
      <4>1. StagesDone = first
        BY <1>5, <1>9, OptionTypes, CallType, <1>1 DEF StagesDone, StageInv
      <4> QED
        BY <2>2, <4>1, StageStatusIs DEF StageInv, ProgressInv, Stages
    <3>2. intra_state' = "ACTIVE"
      BY <1>9, <3>1, ObserveEffect
    <3>3. (StageStatus \in {"empty", "partial", "full"})'
      BY <3>2 DEF StageStatus
    <3> QED
      BY <1>1, <2>2, <3>3
  <2>3. CASE seen.stages # "empty"
    <3>1. ~(intra_state = "ACTIVE" /\ \A s \in Stages : s >= first => slots[s] = 0)
      <4>1. StagesDone = first
        BY <1>5, <1>9, OptionTypes, CallType, <1>1 DEF StagesDone, StageInv
      <4> QED
        BY <2>3, <4>1, StageStatusIs DEF StageInv, ProgressInv, Stages
    <3>2. intra_state' = "INVALID"
      BY <1>9, <3>1, ObserveEffect
    <3>3. (StageStatus = "invalid")'
      BY <3>2 DEF StageStatus
    <3> QED
      BY <1>1, <2>3, <3>3
  <2> QED
    BY <2>2, <2>3
<1> QED
  BY <1>4, <1>5, <1>6, <1>8, <1>9

(* What the session sees held is what the records hold. *)
LEMMA HeldIs ==
    ASSUME TypeOK, SequenceInv
    PROVE  /\ HeldSequence \in Seq(Nat) /\ Len(HeldSequence) = position
           /\ (HeldSequence = <<>>) <=> position = 0
           /\ (phase = "READY") <=> position = 0
<1> USE LlamaRuntimeAssumption
<1>1. position \in Nat /\ position <= MaxTokens /\ committed \in [Positions -> Nat]
  BY DEF TypeOK
<1>2. \A i \in 1 .. position : i - 1 \in Positions
  BY <1>1 DEF Positions
<1>3. HeldSequence \in [1 .. position -> Nat]
  BY <1>1, <1>2 DEF HeldSequence
<1>4. HeldSequence \in Seq(Nat) /\ Len(HeldSequence) = position
  BY <1>1, <1>3
<1>5. (HeldSequence = <<>>) <=> position = 0
  BY <1>4, EmptySeq
<1>6. (phase = "READY") <=> position = 0
  BY <1>1 DEF SequenceInv
<1> QED
  BY <1>4, <1>5, <1>6

(* A prefill that ends well is a step of the session. *)
LEMMA PrefillImplements == RuntimeInv /\ ReturnPrefill => Session!Next
<1> SUFFICES ASSUME RuntimeInv, ReturnPrefill PROVE Session!Next
  OBVIOUS
<1> USE LlamaRuntimeAssumption DEF RuntimeInv
<1>1. fwd # Idle
  BY IdleFields DEF ForwardStep
<1>2. /\ fwd.len \in 1 .. MaxTokens /\ fwd.pos \in Positions /\ fwd.op = "prefill"
      /\ fwd.pos + 1 = fwd.len /\ fwd.step = 0 /\ phase = "READY" /\ calls \in Nat /\ calls > 0
      /\ calls <= MaxCalls /\ fwd.layer > 0
  BY <1>1, CallType DEF ReturnPrefill, CallInv, TypeOK
<1>3. /\ fwd' = Idle /\ position' = fwd.len /\ answer' = contexts
      /\ committed' = [p \in Positions |-> IF p < fwd.len THEN calls ELSE committed[p]]
      /\ UNCHANGED <<opts, decode_step_count, calls>>
  BY DEF ReturnPrefill
<1>4. HeldSequence = <<>>
  BY <1>2, HeldIs
<1>5. HeldSequence' = [i \in 1 .. fwd.len |-> calls]
  <2>1. \A i \in 1 .. fwd.len : i - 1 \in Positions /\ i - 1 < fwd.len
    BY <1>2 DEF Positions
  <2> QED
    BY <1>3, <2>1 DEF HeldSequence
<1>6. contexts = {[i \in 1 .. fwd.len |-> calls]}
  BY <1>1, <1>2 DEF ContextInv, Context, Bringer
<1>7. CallsReturned = calls - 1 /\ CallsReturned' = calls
  BY <1>1, <1>3 DEF CallsReturned
<1>8. Session!CaptureAll(0, fwd.len - 1)
  <2>1. fwd.pos = fwd.len - 1
    BY <1>2 DEF Positions
  <2> QED
    BY <1>2, <2>1, LayersReturned, StagesReturned DEF Session!CaptureAll
<1>9. PICK n \in 1 .. MaxTokens : n = fwd.len
  BY <1>2
<1>10. Session!Prefill(n)
  <2>1. calls - 1 < MaxCalls /\ (calls - 1) + 1 = calls
    BY <1>2
  <2>2. /\ [i \in 1 .. position |-> committed[i - 1]] = <<>>
        /\ ([i \in 1 .. position |-> committed[i - 1]])' = [i \in 1 .. n |-> calls]
        /\ answer' = {[i \in 1 .. n |-> calls]}
    BY <1>3, <1>4, <1>5, <1>6, <1>9 DEF HeldSequence
  <2>3. (IF fwd = Idle THEN calls ELSE calls - 1) = calls - 1
        /\ (IF fwd = Idle THEN calls ELSE calls - 1)' = calls
    BY <1>7 DEF CallsReturned
  <2> QED
    BY <1>3, <1>8, <1>9, <2>1, <2>2, <2>3 DEF Session!Prefill
<1> QED
  BY <1>10 DEF Session!Next

(* A decode that ends well is a step of the session. *)
LEMMA DecodeImplements == RuntimeInv /\ ReturnDecode => Session!Next
<1> SUFFICES ASSUME RuntimeInv, ReturnDecode PROVE Session!Next
  OBVIOUS
<1> USE LlamaRuntimeAssumption DEF RuntimeInv
<1>1. fwd # Idle
  BY IdleFields DEF ForwardStep
<1>2. /\ fwd.pos = position /\ position \in Positions /\ fwd.op = "decode"
      /\ fwd.step = decode_step_count + 1 /\ phase # "READY" /\ calls \in Nat /\ calls > 0
      /\ calls <= MaxCalls /\ fwd.layer > 0 /\ position \in Nat
  BY <1>1, CallType DEF ReturnDecode, CallInv, TypeOK
<1>3. /\ fwd' = Idle /\ position' = position + 1 /\ answer' = contexts
      /\ committed' = [committed EXCEPT ![fwd.pos] = calls]
      /\ decode_step_count' = decode_step_count + 1
      /\ UNCHANGED <<opts, calls>>
  BY DEF ReturnDecode
<1>4. /\ HeldSequence \in Seq(Nat) /\ Len(HeldSequence) = position /\ HeldSequence # <<>>
      /\ position < MaxTokens
  BY <1>2, HeldIs DEF Positions
<1>5. Append(HeldSequence, calls) = [i \in 1 .. position + 1 |->
                                       IF i = position + 1 THEN calls ELSE committed[i - 1]]
  BY <1>2, <1>4 DEF HeldSequence
<1>6. HeldSequence' = Append(HeldSequence, calls)
  <2>1. \A i \in 1 .. position + 1 : i - 1 \in Positions /\ (i - 1 = position <=> i = position + 1)
    BY <1>2 DEF Positions
  <2>2. \A p \in Positions : committed'[p] = IF p = position THEN calls ELSE committed[p]
    BY <1>2, <1>3 DEF TypeOK
  <2> QED
    BY <1>3, <1>5, <2>1, <2>2 DEF HeldSequence
<1>7. contexts = {Append(HeldSequence, calls)}
  <2>1. \A i \in 1 .. position + 1 : i - 1 = position <=> i = position + 1
    BY <1>2
  <2>2. Context = [i \in 1 .. position + 1 |->
                     IF i = position + 1 THEN calls ELSE committed[i - 1]]
    BY <1>2, <2>1 DEF Context, Bringer
  <2> QED
    BY <1>1, <1>2, <1>5, <2>2 DEF ContextInv
<1>8. CallsReturned = calls - 1 /\ CallsReturned' = calls
  BY <1>1, <1>3 DEF CallsReturned
<1>9. Session!CaptureAll(decode_step_count + 1, position)
  BY <1>2, LayersReturned, StagesReturned DEF Session!CaptureAll
<1>10. Session!Decode
  <2>1. calls - 1 < MaxCalls /\ (calls - 1) + 1 = calls
    BY <1>2
  <2> QED
    BY <1>3, <1>4, <1>6, <1>7, <1>8, <1>9, <2>1
    DEF Session!Decode, HeldSequence, CallsReturned
<1> QED
  BY <1>10 DEF Session!Next

(* A call that fails is a step of the session. *)
LEMMA FailImplements == RuntimeInv /\ Fail => Session!Next
<1> SUFFICES ASSUME RuntimeInv, Fail PROVE Session!Next
  OBVIOUS
<1> USE LlamaRuntimeAssumption DEF RuntimeInv
<1>1. fwd # Idle
  BY IdleFields
<1>2. /\ fwd.op \in {"prefill", "decode"} /\ fwd.pos \in Positions
      /\ calls \in Nat /\ calls > 0 /\ calls <= MaxCalls
  BY <1>1, CallType DEF CallInv, TypeOK
<1>3. /\ fwd' = Idle /\ answer' = {}
      /\ UNCHANGED <<opts, position, committed, decode_step_count, calls>>
  BY DEF Fail, session
<1>4. CallsReturned = calls - 1 /\ CallsReturned' = calls /\ HeldSequence' = HeldSequence
  BY <1>1, <1>3 DEF CallsReturned, HeldSequence
<1>5. calls - 1 < MaxCalls /\ (calls - 1) + 1 = calls
  BY <1>2
<1>6. Session!CaptureSome(fwd.step, fwd.pos)
  BY LayersLeft, StagesLeft DEF Session!CaptureSome
<1>7. CASE fwd.op = "prefill"
  <2>1. fwd.step = 0 /\ HeldSequence = <<>>
    BY <1>7, HeldIs DEF CallInv
  <2>2. fwd.pos \in 0 .. (MaxTokens - 1)
    BY <1>2 DEF Positions
  <2>3. Session!FailPrefill
    BY <1>3, <1>4, <1>5, <1>6, <2>1, <2>2
    DEF Session!FailPrefill, HeldSequence, CallsReturned
  <2> QED
    BY <2>3 DEF Session!Next
<1>8. CASE fwd.op = "decode"
  <2>1. /\ fwd.step = decode_step_count + 1 /\ fwd.pos = position /\ position < MaxTokens
        /\ HeldSequence # <<>> /\ Len(HeldSequence) = position
    BY <1>2, <1>8, HeldIs DEF CallInv, Positions
  <2>2. Session!FailDecode
    BY <1>3, <1>4, <1>5, <1>6, <2>1
    DEF Session!FailDecode, HeldSequence, CallsReturned
  <2> QED
    BY <2>2 DEF Session!Next
<1> QED
  BY <1>2, <1>7, <1>8

(* Finalizing is a step of the session. *)
LEMMA FinalizeImplements == RuntimeInv /\ Finalize => Session!Next
<1> SUFFICES ASSUME RuntimeInv, Finalize PROVE Session!Next
  OBVIOUS
<1> USE LlamaRuntimeAssumption DEF RuntimeInv
<1>1. /\ fwd = Idle /\ opts.intra /\ seen' = Capture'
      /\ UNCHANGED <<opts, position, committed, decode_step_count, fwd, trace, append_failed,
                     slots, calls, answer>>
      /\ intra_state' = IF \/ intra_state = "READY"
                           \/ intra_state = "ACTIVE" /\ \A s \in Stages : slots[s] # 0
                         THEN "READY" ELSE "INVALID"
  BY DEF Finalize, session
<1>2. ~EmitCheckpoints /\ ~CaptureCall
  BY <1>1 DEF EmitCheckpoints, CaptureCall, Idle
<1>3. LayerStatus = seen.layers /\ StageStatus = seen.stages
  <2>1. StagesDone = 0
    BY <1>2 DEF StagesDone
  <2> QED
    BY <1>2, <2>1 DEF LayerProgressInv, StageInv, ProgressInv
<1>4. seen'.layers = seen.layers /\ seen'.stages = StageStatus'
  <2>1. LayerStatus' = LayerStatus
    BY <1>1 DEF LayerStatus
  <2> QED
    BY <1>1, <1>3, <2>1 DEF Capture
<1>6. StageStatus' = IF seen.stages \in {"full", "ready"} THEN "ready" ELSE "invalid"
  <2>1. (intra_state' = "READY") <=> seen.stages \in {"full", "ready"}
    <3>1. CASE intra_state = "READY"
      BY <1>1, <1>3, <3>1, StageStatusIs
    <3>2. CASE intra_state = "ACTIVE" /\ \A s \in Stages : slots[s] # 0
      BY <1>1, <1>3, <3>2, StageStatusValues
    <3>3. CASE /\ intra_state # "READY"
               /\ ~(intra_state = "ACTIVE" /\ \A s \in Stages : slots[s] # 0)
      <4>1. intra_state' = "INVALID" /\ StageStatus # "ready" /\ StageStatus # "full"
        BY <1>1, <3>3, StageStatusValues
      <4> QED
        BY <1>3, <4>1
    <3> QED
      BY <3>1, <3>2, <3>3
  <2>2. (intra_state = "READY" => StageStatus = "ready")'
        /\ (intra_state = "INVALID" => StageStatus = "invalid")'
    BY DEF StageStatus
  <2> QED
    BY <1>1, <2>1, <2>2
<1>7. Session!Finalize
  BY <1>1, <1>4, <1>6 DEF Session!Finalize
<1> QED
  BY <1>7 DEF Session!Next

(* Inside a call nothing of the session changes. *)
LEMMA InsideCall ==
    ASSUME RuntimeInv,
           \/ \E len \in 1 .. MaxTokens : Prefill(len)
           \/ Decode \/ Project \/ Attend \/ Mlp \/ NextPromptToken \/ UNCHANGED vars
    PROVE  UNCHANGED Session!session
<1> USE LlamaRuntimeAssumption DEF RuntimeInv
<1>1. UNCHANGED <<opts, position, committed, decode_step_count, answer, seen>>
  BY DEF Prefill, Decode, Project, Attend, Mlp, NextPromptToken, vars, session
<1>2. CallsReturned' = CallsReturned
  <2>1. CASE (\E len \in 1 .. MaxTokens : Prefill(len)) \/ Decode
    BY <2>1, IdleFields DEF Prefill, Decode, CallsReturned, TypeOK
  <2>2. CASE Project \/ Attend \/ Mlp \/ NextPromptToken
    <3>1. fwd # Idle /\ calls' = calls
      BY <2>2, IdleFields DEF Project, Attend, Mlp, NextPromptToken, ForwardStep
    <3> QED
      BY <2>2, <3>1, ForwardFields DEF CallsReturned
  <2>3. CASE UNCHANGED vars
    BY <2>3 DEF vars, CallsReturned
  <2> QED
    BY <2>1, <2>2, <2>3
<1> QED
  BY <1>1, <1>2 DEF Session!session, HeldSequence, CallsReturned

(* The runtime implements DecodeSession for every number of layers,        *)
(* context length and options: whatever it caches, and wherever a call     *)
(* gives up, it answers from the sequence its successful calls built, and  *)
(* its records hold what DecodeSession says.                               *)
THEOREM SessionImplemented == Spec => ImplementsSession
<1>1. Init => Session!Init
  <2> SUFFICES ASSUME Init PROVE Session!Init
    OBVIOUS
  <2> USE LlamaRuntimeAssumption
  <2>1. RuntimeInv
    BY InitHolds, InitRecords DEF RuntimeInv, ContextInv, Init
  <2>2. HeldSequence = <<>>
    BY <2>1, HeldIs DEF RuntimeInv, Init
  <2>3. LayerStatus = "empty"
    BY DEF Init, LayerStatus
  <2>4. StageStatus = IF opts.intra THEN "empty" ELSE "off"
    BY <2>1, StageStatusIs DEF Init, RuntimeInv
  <2> QED
    BY <2>2, <2>3, <2>4 DEF Init, Session!Init, HeldSequence, Capture
<1>2. RuntimeInv /\ [Next]_vars => [Session!Next]_(Session!session)
  BY PrefillImplements, DecodeImplements, FailImplements, FinalizeImplements, InsideCall
  DEF Next, ForwardStep
<1> QED
  BY <1>1, <1>2, RuntimeInductive, PTL DEF Spec, ImplementsSession, Session!Spec
===============================================================================
