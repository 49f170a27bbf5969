---------------------------- MODULE GenerationProofs ----------------------------
(***************************************************************************)
(* Proofs about Generation for every context length, prompt, generation    *)
(* limit and number of calls: the token lists of the driver and the        *)
(* sequence of the runtime agree, the reported reason is the right one, a  *)
(* success is reported, and a layer trace that is written is whole.        *)
(*                                                                         *)
(* None is inductive as it stands: a report is a copy of lists that were   *)
(* built while the loop ran, and a layer trace a copy of what the runtime  *)
(* captured in calls long ago.  GenInv says how the lists, the step of the *)
(* loop and the sequence go together at each place of the loop (ListsInv,  *)
(* LoopInv), what was captured so far (CaptureInv), why the run ended      *)
(* (EndInv), and what the files hold (FilesInv).                           *)
(***************************************************************************)
EXTENDS Generation, SequenceTheorems, TLAPS

Looping  == {"prefill", "select", "decode", "emit", "force", "score"}
Writing  == {"report", "trace", "layer_trace"}
Places   == Looping \cup Writing \cup {"ran", "out", "done"}
Captured == {"empty", "partial", "complete", "unusable"}
Staged   == {"off", "empty", "partial", "full", "invalid", "ready"}
Reports  == [status : Statuses \cup {"none", "torn"}, stop : StopReasons,
             selected : Seq(Kinds), emitted : Seq(Kinds)]

\* Every variable has its type.
TypeInv ==
    /\ opts \in Options /\ seq \in Seq(Nat) /\ steps \in Nat /\ calls \in Nat
    /\ layers \in Captured /\ stages \in Staged
    /\ cfg \in [prompt : 1 .. MaxPrompt, limit : 1 .. MaxLimit, prefix : 0 .. MaxLimit]
    /\ Accepted(cfg, opts)
    /\ pc \in Places /\ status \in Statuses /\ step \in Nat /\ token \in Kinds
    /\ selected \in Seq(Kinds) /\ emitted \in Seq(Kinds)
    /\ traced \in Seq([token : Kinds, stop : StopReasons])
    /\ stop_reason \in StopReasons
    /\ report \in Reports /\ artifact_emitted \in BOOLEAN
    /\ layer_file \in {"none", "torn", "empty", "partial", "complete"}

\* The lists of the driver: only the last selected token is missing from the
\* emitted ones, and only the last one may have been a reason to stop.
ListsInv ==
    /\ Len(emitted) <= Len(selected) /\ Len(selected) <= Len(emitted) + 1
    /\ \A i \in 1 .. Len(emitted) : emitted[i] = selected[i]
    /\ \A i \in 1 .. Len(selected) - 1 : selected[i] = "plain"
    /\ \A i \in 1 .. Len(traced) - 1 : traced[i].stop = "NONE"
    /\ cfg.prefix = 0 => /\ Len(traced) = Len(selected)
                         /\ \A i \in 1 .. Len(traced) : traced[i].token = selected[i]

\* The loop: where the runtime, the step and the lists are at each place.
LoopInv ==
    /\ pc \in Looping => status = "OK" /\ stop_reason = "NONE"
    /\ pc = "prefill" => /\ seq = <<>> /\ steps = 0 /\ step = 0
                         /\ selected = <<>> /\ emitted = <<>> /\ traced = <<>>
    /\ pc \in {"select", "decode", "emit", "force", "score"} =>
           Len(seq) = cfg.prompt + steps
    /\ pc \in {"select", "decode", "emit"} =>
           /\ cfg.prefix = 0 /\ cfg.prompt <= MaxTokens /\ step < cfg.limit
           /\ Len(emitted) = step
           /\ \A i \in 1 .. Len(traced) : traced[i].stop = "NONE"
    /\ pc = "select" => /\ Len(selected) = step /\ steps = step
                        /\ \A i \in 1 .. Len(selected) : selected[i] = "plain"
    /\ pc \in {"decode", "emit"} =>
           /\ Len(selected) = step + 1 /\ selected[step + 1] = token
           /\ ~ShouldStop(token)
           /\ steps = IF pc = "decode" THEN step ELSE step + 1
    /\ pc \in {"force", "score"} =>
           /\ cfg.prefix > 0 /\ selected = <<>> /\ emitted = <<>> /\ traced = <<>>
           /\ steps = step
           /\ IF pc = "force" THEN step < cfg.prefix ELSE step = cfg.prefix

\* While no call has failed, everything that was asked for up to this step is
\* captured, and nothing else.
LayersWhole == IF opts.emit /\ steps >= opts.target THEN layers \in {"complete", "unusable"}
               ELSE layers = "empty"
StagesWhole ==
    opts.intra => stages = IF steps >= opts.target THEN "full" ELSE "empty"
CaptureInv ==
    /\ pc = "prefill" => layers = "empty"
    /\ pc = "prefill" /\ opts.intra => stages = "empty"
    /\ pc \in (Looping \ {"prefill"}) \cup Writing \/ (pc = "ran" /\ status = "OK") =>
           LayersWhole
    /\ pc \in Looping \ {"prefill"} \/ (pc = "ran" /\ status = "OK") => StagesWhole
    /\ pc \in Writing /\ opts.intra => stages = "ready" /\ steps >= opts.target
    /\ pc = "layer_trace" => opts.emit

\* A reason that the tokens show, for a run that succeeded.
Shown(stop, chosen, given) ==
    CASE stop = "MODEL_EOS"          -> IsEos(chosen[Len(chosen)])
      [] stop = "STRUCTURAL_CONTROL" -> chosen[Len(chosen)] = "control" /\ chosen # given
      [] stop = "DECODE_LIMIT"       -> /\ chosen[Len(chosen)] = "plain"
                                        /\ cfg.prefix = 0 => Len(given) = cfg.limit
      [] OTHER -> FALSE

\* The same for one that hit the context limit.
LimitShown(stop, given) ==
    IF cfg.prompt > MaxTokens THEN stop = "RUNTIME_ERROR"
    ELSE stop = "CONTEXT_LIMIT" /\ cfg.prompt + Len(given) = MaxTokens

\* Why the run ended, from its end to the exit.
EndInv ==
    /\ pc \in Writing => status \in {"OK", "ERROR"}
    /\ pc \in {"report", "trace"} => status = "OK"
    /\ pc \in Writing \/ (pc \in {"ran", "out", "done"} /\ status = "OK") =>
           Shown(stop_reason, selected, emitted)
    /\ pc = "ran" /\ status = "LIMIT_EXCEEDED" =>
           IF cfg.prompt > MaxTokens THEN stop_reason = "NONE" /\ seq = <<>>
           ELSE stop_reason = "CONTEXT_LIMIT" /\ cfg.prompt + Len(emitted) = MaxTokens
    /\ pc \in {"out", "done"} /\ status = "LIMIT_EXCEEDED" => LimitShown(stop_reason, emitted)
    /\ pc \in Writing \cup {"ran", "out", "done"} /\ status # "ERROR" /\ cfg.prefix = 0 =>
           Len(seq) = (IF seq = <<>> THEN 0 ELSE cfg.prompt) + Len(emitted)

\* What the files hold.
FilesInv ==
    /\ pc \in Looping \cup {"ran", "report"} => report = NoReport /\ ~artifact_emitted
    /\ pc \in {"trace", "layer_trace", "out", "done"} /\ status = "OK" =>
           artifact_emitted /\ report \in {Torn, Report}
    /\ report.status = "OK" => Shown(report.stop, report.selected, report.emitted)
    /\ report.status = "LIMIT_EXCEEDED" => LimitShown(report.stop, report.emitted)
    /\ pc \notin {"out", "done"} => layer_file = "none"
    /\ pc \in {"out", "done"} /\ status = "OK" /\ opts.emit =>
           layers \in {"empty", "complete"} /\ layer_file \in {layers, "torn"}
    /\ LayerFileIsWhole

GenInv == TypeInv /\ ListsInv /\ LoopInv /\ CaptureInv /\ EndInv /\ FilesInv
-------------------------------------------------------------------------------
LEMMA OptionTypes ==
    ASSUME TypeInv
    PROVE  /\ opts.emit \in BOOLEAN /\ opts.intra \in BOOLEAN
           /\ opts.target \in Nat /\ opts.token_position \in Nat
           /\ cfg.prompt \in Nat \ {0} /\ cfg.limit \in Nat \ {0} /\ cfg.prefix \in Nat
BY SessionAssumption, GenerationAssumption DEF TypeInv

LEMMA ReportTypes ==
    ASSUME TypeInv
    PROVE  NoReport \in Reports /\ Torn \in Reports /\ Report \in Reports
<1>1. NoReport \in Reports
  BY DEF Reports, NoReport, StopReasons
<1>2. Torn \in Reports
  <2>1. Torn = [status |-> "torn", stop |-> "NONE", selected |-> <<>>, emitted |-> <<>>]
    BY DEF Torn, NoReport
  <2> QED
    BY <2>1 DEF Reports, StopReasons
<1>3. Report \in Reports
  BY DEF Reports, Report, TypeInv
<1> QED
  BY <1>1, <1>2, <1>3

(* What a call of the runtime does, whether or not it succeeds. *)
LEMMA PrefillIs ==
    ASSUME TypeInv, Prefill(cfg.prompt)
    PROVE  /\ opts' = opts /\ steps' = steps /\ calls' \in Nat
           /\ seq' \in Seq(Nat) /\ Len(seq') = cfg.prompt
           /\ layers' \in Captured /\ stages' = stages
           /\ layers = "empty" /\ steps = 0 => LayersWhole'
<1> USE OptionTypes
<1>1. /\ opts' = opts /\ steps' = steps /\ calls' = calls + 1 /\ calls \in Nat
      /\ seq' = [i \in 1 .. cfg.prompt |-> calls + 1]
      /\ CaptureAll(0, cfg.prompt - 1)
  BY DEF Prefill, TypeInv
<1>2. seq' \in Seq(Nat) /\ Len(seq') = cfg.prompt
  BY <1>1
<1>3. layers' \in Captured /\ stages' = stages
  BY <1>1 DEF CaptureAll, WantsStages, TypeInv, Captured
<1>4. layers = "empty" /\ steps = 0 => LayersWhole'
  BY <1>1 DEF CaptureAll, WantsLayers, LayersWhole
<1> QED
  BY <1>1, <1>2, <1>3, <1>4

LEMMA DecodeIs ==
    ASSUME TypeInv, Decode
    PROVE  /\ opts' = opts /\ steps' = steps + 1 /\ calls' \in Nat
           /\ seq' \in Seq(Nat) /\ Len(seq') = Len(seq) + 1
           /\ layers' \in Captured /\ stages' \in Staged
<1>1. /\ opts' = opts /\ steps' = steps + 1 /\ calls' = calls + 1 /\ calls \in Nat
      /\ seq' = Append(seq, calls + 1) /\ seq \in Seq(Nat)
      /\ CaptureAll(steps + 1, Len(seq))
  BY DEF Decode, TypeInv
<1>2. seq' \in Seq(Nat) /\ Len(seq') = Len(seq) + 1
  BY <1>1
<1>3. layers' \in Captured /\ stages' \in Staged
  BY <1>1 DEF CaptureAll, TypeInv, Captured, Staged
<1> QED
  BY <1>1, <1>2, <1>3

(* A decode captures what is wanted of its step, and it is not yet captured. *)
LEMMA DecodeCaptures ==
    ASSUME TypeInv, Decode, LayersWhole, StagesWhole, Len(seq) = cfg.prompt + steps
    PROVE  LayersWhole' /\ StagesWhole'
<1> USE OptionTypes
<1>1. /\ opts' = opts /\ steps' = steps + 1 /\ steps \in Nat
      /\ CaptureAll(steps + 1, Len(seq))
  BY DEF Decode, TypeInv
<1>2. LayersWhole'
  BY <1>1 DEF CaptureAll, WantsLayers, LayersWhole
<1>3. opts.intra => opts.target > 0 /\ opts.token_position = cfg.prompt + opts.target - 1
  BY DEF TypeInv, Accepted
<1>4. ASSUME opts.intra, steps + 1 = opts.target
      PROVE  WantsStages(steps + 1, Len(seq))
  BY <1>1, <1>3, <1>4 DEF WantsStages
<1>5. StagesWhole'
  <2>1. CASE opts.intra /\ steps + 1 = opts.target
    BY <1>1, <1>4, <2>1 DEF CaptureAll, StagesWhole
  <2>2. CASE opts.intra /\ steps + 1 # opts.target
    BY <1>1, <2>2 DEF CaptureAll, StagesWhole, WantsStages
  <2> QED
    BY <1>1, <2>1, <2>2 DEF StagesWhole
<1> QED
  BY <1>2, <1>5

LEMMA FailureIs ==
    ASSUME TypeInv, FailPrefill \/ FailDecode
    PROVE  /\ opts' = opts /\ steps' = steps /\ seq' = seq /\ calls' \in Nat
           /\ layers' \in Captured /\ stages' \in Staged
BY DEF FailPrefill, FailDecode, CaptureSome, TypeInv, Captured, Staged

LEMMA FinalizeIs ==
    ASSUME TypeInv, Finalize
    PROVE  /\ opts' = opts /\ steps' = steps /\ seq' = seq /\ calls' = calls
           /\ layers' = layers /\ stages' \in Staged
BY DEF Finalize, TypeInv, Staged

(* Parts of the invariant that a step leaves alone. *)
LEMMA ListsKept ==
    ASSUME ListsInv, UNCHANGED <<selected, emitted, traced, cfg>>
    PROVE  ListsInv'
BY DEF ListsInv

LEMMA FilesKept ==
    ASSUME FilesInv, UNCHANGED <<cfg, files>>, pc \in Looping \cup {"ran", "report"},
           pc' \in Looping \cup {"ran", "report"} \/ (pc' \in {"out", "done"} /\ status' # "OK")
    PROVE  FilesInv'
<1>1. report = NoReport /\ layer_file = "none" /\ layer_file' = "none" /\ report' = report
      /\ artifact_emitted' = artifact_emitted
  BY DEF FilesInv, files, Looping
<1>2. report'.status = "none" /\ NoReport' = NoReport
  BY <1>1 DEF NoReport
<1>3. LayerFileIsWhole'
  BY <1>1 DEF LayerFileIsWhole
<1> QED
  BY <1>1, <1>2, <1>3 DEF FilesInv, Looping

-------------------------------------------------------------------------------
LEMMA InitHolds == GInit => GenInv
<1> SUFFICES ASSUME GInit PROVE GenInv
  OBVIOUS
<1> USE DEF GInit, Init
<1>1. TypeInv
  <2>1. /\ seq \in Seq(Nat) /\ selected \in Seq(Kinds) /\ emitted \in Seq(Kinds)
        /\ traced \in Seq([token : Kinds, stop : StopReasons])
    OBVIOUS
  <2>2. report \in Reports
    BY DEF Reports, NoReport, StopReasons
  <2>3. stages \in Staged /\ layers \in Captured
    BY DEF Staged, Captured
  <2>4. pc \in Places /\ status \in Statuses /\ token \in Kinds /\ stop_reason \in StopReasons
    BY DEF Places, Looping, Statuses, Kinds, StopReasons
  <2> QED
    BY <2>1, <2>2, <2>3, <2>4 DEF TypeInv
<1>2. ListsInv /\ LoopInv
  BY DEF ListsInv, LoopInv
<1>3. CaptureInv
  BY DEF CaptureInv, Looping, Writing
<1>4. EndInv
  BY DEF EndInv, Writing
<1>5. FilesInv
  BY DEF FilesInv, NoReport, LayerFileIsWhole, Looping
<1> QED
  BY <1>1, <1>2, <1>3, <1>4, <1>5 DEF GenInv

(* A part of the invariant for each conjunct; the lists of an ended run are *)
(* looked at by EndInv only.                                                *)
LEMMA CallPrefillKeeps == ASSUME GenInv, CallPrefill PROVE GenInv'
<1> USE DEF GenInv
<1> USE OptionTypes
<1>1. /\ pc = "prefill" /\ UNCHANGED <<cfg, step, token, selected, emitted, traced, stop_reason>>
      /\ UNCHANGED files /\ UNCHANGED <<report, artifact_emitted, layer_file>>
      /\ seq = <<>> /\ steps = 0 /\ step = 0 /\ status = "OK" /\ stop_reason = "NONE"
      /\ selected = <<>> /\ emitted = <<>> /\ traced = <<>> /\ layers = "empty"
      /\ opts.intra => stages = "empty"
  BY DEF CallPrefill, loop, files, LoopInv, CaptureInv, Looping
<1>2. CASE /\ cfg.prompt <= MaxTokens /\ Prefill(cfg.prompt)
           /\ pc' = IF cfg.prefix > 0 THEN "force" ELSE "select"
           /\ UNCHANGED status
  <2>1. /\ opts' = opts /\ steps' = 0 /\ calls' \in Nat
        /\ seq' \in Seq(Nat) /\ Len(seq') = cfg.prompt
        /\ layers' \in Captured /\ stages' = stages /\ LayersWhole'
    BY <1>1, <1>2, PrefillIs
  <2>2. TypeInv'
    BY <1>1, <1>2, <2>1 DEF TypeInv, Places, Looping
  <2>3. ListsInv'
    BY <1>1, ListsKept
  <2>4. LoopInv'
    BY <1>1, <1>2, <2>1 DEF LoopInv, Looping
  <2>5. CaptureInv'
    <3>1. opts.intra => opts.target > 0
      BY DEF TypeInv, Accepted
    <3>2. StagesWhole'
      BY <1>1, <2>1, <3>1 DEF StagesWhole
    <3> QED
      BY <1>2, <2>1, <3>2 DEF CaptureInv, Looping, Writing
  <2>6. EndInv'
    BY <1>2 DEF EndInv, Writing
  <2>7. FilesInv'
    BY <1>1, <1>2, FilesKept DEF Looping
  <2> QED
    BY <2>2, <2>3, <2>4, <2>5, <2>6, <2>7
<1>3. CASE cfg.prompt <= MaxTokens /\ FailPrefill /\ GiveUp("ERROR")
  <2>1. /\ opts' = opts /\ steps' = steps /\ seq' = seq /\ calls' \in Nat
        /\ layers' \in Captured /\ stages' \in Staged
    BY <1>3, FailureIs
  <2>2. pc' = "ran" /\ status' = "ERROR"
    BY <1>3 DEF GiveUp
  <2>3. TypeInv'
    BY <1>1, <2>1, <2>2 DEF TypeInv, Places, Statuses
  <2>4. ListsInv'
    BY <1>1, ListsKept
  <2>5. LoopInv' /\ CaptureInv' /\ EndInv'
    BY <2>2 DEF LoopInv, CaptureInv, EndInv, Looping, Writing
  <2>6. FilesInv'
    BY <1>1, <2>2, FilesKept DEF Looping
  <2> QED
    BY <2>3, <2>4, <2>5, <2>6
<1>4. CASE cfg.prompt > MaxTokens /\ GiveUp("LIMIT_EXCEEDED") /\ UNCHANGED session
  <2>1. UNCHANGED <<opts, seq, steps, calls, answer, layers, stages>>
    BY <1>4 DEF session
  <2>2. pc' = "ran" /\ status' = "LIMIT_EXCEEDED"
    BY <1>4 DEF GiveUp
  <2>3. TypeInv'
    BY <1>1, <2>1, <2>2 DEF TypeInv, Places, Statuses
  <2>4. ListsInv'
    BY <1>1, ListsKept
  <2>5. LoopInv' /\ CaptureInv'
    BY <2>2 DEF LoopInv, CaptureInv, Looping, Writing
  <2>6. EndInv'
    BY <1>1, <1>4, <2>1, <2>2 DEF EndInv, Writing
  <2>7. FilesInv'
    BY <1>1, <2>2, FilesKept DEF Looping
  <2> QED
    BY <2>3, <2>4, <2>5, <2>6, <2>7
<1> QED
  BY <1>2, <1>3, <1>4 DEF CallPrefill

LEMMA SelectKeeps == ASSUME GenInv, Select PROVE GenInv'
<1> USE DEF GenInv
<1> USE OptionTypes
<1>1. /\ pc = "select" /\ UNCHANGED <<opts, seq, steps, calls, layers, stages>>
      /\ UNCHANGED <<cfg, status, step, emitted>> /\ UNCHANGED files
      /\ UNCHANGED <<report, artifact_emitted, layer_file>>
  BY DEF Select, session, files
<1>2. PICK k \in Kinds :
         /\ token' = k
         /\ selected' = Append(selected, k)
         /\ traced' = Append(traced, [token |-> k, stop |-> IF ShouldStop(k) THEN Reason(k)
                                                           ELSE "NONE"])
         /\ IF ShouldStop(k)
              THEN stop_reason' = Reason(k) /\ pc' = "ran"
              ELSE UNCHANGED stop_reason /\ pc' = "decode"
  BY DEF Select
<1>3. /\ status = "OK" /\ stop_reason = "NONE" /\ Len(seq) = cfg.prompt + steps
      /\ cfg.prefix = 0 /\ cfg.prompt <= MaxTokens /\ step < cfg.limit
      /\ Len(emitted) = step /\ Len(selected) = step /\ steps = step
      /\ \A i \in 1 .. Len(traced) : traced[i].stop = "NONE"
      /\ \A i \in 1 .. Len(selected) : selected[i] = "plain"
      /\ step \in Nat /\ steps \in Nat /\ Len(traced) = step
      /\ \A i \in 1 .. Len(traced) : traced[i].token = selected[i]
      /\ \A i \in 1 .. Len(emitted) : emitted[i] = selected[i]
  BY <1>1 DEF LoopInv, ListsInv, TypeInv, Looping
<1> DEFINE mark == [token |-> k, stop |-> IF ShouldStop(k) THEN Reason(k) ELSE "NONE"]
<1>4. Reason(k) \in StopReasons
  BY DEF Reason, StopReasons
<1>5. mark \in [token : Kinds, stop : StopReasons]
  BY <1>4 DEF StopReasons
<1>6. /\ selected' \in Seq(Kinds) /\ Len(selected') = step + 1 /\ selected'[step + 1] = k
      /\ \A i \in 1 .. step : selected'[i] = selected[i]
  BY <1>2, <1>3 DEF TypeInv
<1>7. /\ traced' \in Seq([token : Kinds, stop : StopReasons])
      /\ Len(traced') = step + 1 /\ traced'[step + 1] = mark
      /\ \A i \in 1 .. step : traced'[i] = traced[i]
  <2>1. traced' = Append(traced, mark) /\ traced \in Seq([token : Kinds, stop : StopReasons])
    BY <1>2 DEF TypeInv
  <2> HIDE DEF mark
  <2> QED
    BY <1>3, <1>5, <2>1
<1>8. TypeInv'
  BY <1>1, <1>2, <1>4, <1>6, <1>7 DEF TypeInv, Places, Looping
<1>9. ListsInv'
  <2>1. \A i \in 1 .. step + 1 : i \in 1 .. step \/ i = step + 1
    BY <1>3
  <2>2. \A i \in 1 .. Len(traced') : traced'[i].token = selected'[i]
    BY <1>3, <1>6, <1>7, <2>1
  <2> QED
    BY <1>1, <1>3, <1>6, <1>7, <2>2 DEF ListsInv
<1>10. LoopInv'
  <2>1. CASE ShouldStop(k)
    BY <1>2, <2>1 DEF LoopInv, Looping
  <2>2. CASE ~ShouldStop(k)
    <3>1. \A i \in 1 .. Len(traced') : traced'[i].stop = "NONE"
      <4> SUFFICES ASSUME NEW i \in 1 .. Len(traced') PROVE traced'[i].stop = "NONE"
        OBVIOUS
      <4>1. i \in 1 .. step \/ i = step + 1
        BY <1>3, <1>7
      <4> QED
        BY <1>3, <1>7, <2>2, <4>1
    <3> QED
      BY <1>1, <1>2, <1>3, <1>6, <2>2, <3>1 DEF LoopInv, Looping
  <2> QED
    BY <2>1, <2>2
<1>11. CaptureInv'
  <2>1. LayersWhole /\ StagesWhole
    BY <1>1, <1>3 DEF CaptureInv, Looping
  <2>2. LayersWhole' /\ StagesWhole'
    BY <1>1, <2>1 DEF LayersWhole, StagesWhole
  <2>3. pc' \in {"ran", "decode"}
    BY <1>2
  <2> QED
    BY <2>2, <2>3 DEF CaptureInv, Looping, Writing
<1>12. EndInv'
  <2>1. CASE ShouldStop(k)
    <3>1. Shown(stop_reason, selected, emitted)'
      <4>1. selected'[Len(selected')] = k /\ Len(selected') # Len(emitted')
        BY <1>1, <1>3, <1>6
      <4>2. CASE k = "control"
        <5>1. stop_reason' = "STRUCTURAL_CONTROL"
          <6>1. stop_reason' = Reason(k)
            BY <1>2, <2>1
          <6> QED
            BY <4>2, <6>1 DEF Reason, ShouldStop, IsEos
        <5> QED
          BY <4>1, <4>2, <5>1 DEF Shown
      <4>3. CASE k = "eos_control"
        <5>1. stop_reason' = "MODEL_EOS"
          <6>1. stop_reason' = Reason(k)
            BY <1>2, <2>1
          <6> QED
            BY <4>3, <6>1 DEF Reason, ShouldStop, IsEos
        <5> QED
          BY <4>1, <4>3, <5>1 DEF Shown, IsEos
      <4> QED
        BY <2>1, <4>2, <4>3 DEF ShouldStop
    <3>2. seq' # <<>>
      BY <1>1, <1>3
    <3> QED
      BY <1>1, <1>2, <1>3, <2>1, <3>1, <3>2 DEF EndInv, Writing
  <2>2. CASE ~ShouldStop(k)
    BY <1>2, <2>2 DEF EndInv, Writing
  <2> QED
    BY <2>1, <2>2
<1>13. FilesInv'
  BY <1>1, <1>2, FilesKept DEF Looping
<1> QED
  BY <1>8, <1>9, <1>10, <1>11, <1>12, <1>13

LEMMA CallDecodeKeeps == ASSUME GenInv, CallDecode PROVE GenInv'
<1> USE DEF GenInv
<1> USE OptionTypes
<1>1. /\ pc = "decode" /\ UNCHANGED <<cfg, step, token, selected, emitted, traced>>
      /\ UNCHANGED files /\ UNCHANGED <<report, artifact_emitted, layer_file>>
  BY DEF CallDecode, loop, files
<1>2. /\ status = "OK" /\ stop_reason = "NONE" /\ Len(seq) = cfg.prompt + steps
      /\ cfg.prefix = 0 /\ cfg.prompt <= MaxTokens /\ step < cfg.limit
      /\ Len(emitted) = step /\ steps = step /\ step \in Nat /\ LayersWhole /\ StagesWhole
      /\ Len(selected) = step + 1 /\ selected[step + 1] = token /\ ~ShouldStop(token)
      /\ \A i \in 1 .. Len(traced) : traced[i].stop = "NONE"
  BY <1>1 DEF LoopInv, CaptureInv, TypeInv, Looping
<1>3. ListsInv'
  BY <1>1, ListsKept
<1>4. CASE Decode /\ pc' = "emit" /\ UNCHANGED <<status, stop_reason>>
  <2>1. /\ opts' = opts /\ steps' = steps + 1 /\ calls' \in Nat
        /\ seq' \in Seq(Nat) /\ Len(seq') = Len(seq) + 1
        /\ layers' \in Captured /\ stages' \in Staged
    BY <1>4, DecodeIs
  <2>2. TypeInv'
    BY <1>1, <1>4, <2>1 DEF TypeInv, Places, Looping
  <2>3. LoopInv'
    BY <1>1, <1>2, <1>4, <2>1 DEF LoopInv, Looping
  <2>4. LayersWhole' /\ StagesWhole'
    BY <1>2, <1>4, DecodeCaptures
  <2>5. CaptureInv' /\ EndInv'
    BY <1>4, <2>4 DEF CaptureInv, EndInv, Looping, Writing
  <2>6. FilesInv'
    BY <1>1, <1>4, FilesKept DEF Looping
  <2> QED
    BY <1>3, <2>2, <2>3, <2>5, <2>6
<1>5. CASE FailDecode /\ stop_reason' = "RUNTIME_ERROR" /\ GiveUp("ERROR")
  <2>1. /\ opts' = opts /\ steps' = steps /\ seq' = seq /\ calls' \in Nat
        /\ layers' \in Captured /\ stages' \in Staged
    BY <1>5, FailureIs
  <2>2. pc' = "ran" /\ status' = "ERROR" /\ stop_reason' = "RUNTIME_ERROR"
    BY <1>5 DEF GiveUp
  <2>3. TypeInv'
    BY <1>1, <2>1, <2>2 DEF TypeInv, Places, Statuses, StopReasons
  <2>4. LoopInv' /\ CaptureInv' /\ EndInv'
    BY <2>2 DEF LoopInv, CaptureInv, EndInv, Looping, Writing
  <2>5. FilesInv'
    BY <1>1, <2>2, FilesKept DEF Looping
  <2> QED
    BY <1>3, <2>3, <2>4, <2>5
<1>6. CASE /\ Len(seq) = MaxTokens /\ stop_reason' = "CONTEXT_LIMIT"
           /\ GiveUp("LIMIT_EXCEEDED") /\ UNCHANGED session
  <2>1. UNCHANGED <<opts, seq, steps, calls, answer, layers, stages>>
    BY <1>6 DEF session
  <2>2. pc' = "ran" /\ status' = "LIMIT_EXCEEDED" /\ stop_reason' = "CONTEXT_LIMIT"
    BY <1>6 DEF GiveUp
  <2>3. TypeInv'
    BY <1>1, <2>1, <2>2 DEF TypeInv, Places, Statuses, StopReasons
  <2>4. LoopInv' /\ CaptureInv'
    BY <2>2 DEF LoopInv, CaptureInv, Looping, Writing
  <2>5. seq' # <<>>
    BY <1>2, <2>1
  <2>6. EndInv'
    BY <1>1, <1>2, <1>6, <2>1, <2>2, <2>5 DEF EndInv, Writing
  <2>7. FilesInv'
    BY <1>1, <2>2, FilesKept DEF Looping
  <2> QED
    BY <1>3, <2>3, <2>4, <2>6, <2>7
<1> QED
  BY <1>4, <1>5, <1>6 DEF CallDecode

LEMMA EmitKeeps == ASSUME GenInv, Emit PROVE GenInv'
<1> USE DEF GenInv
<1> USE OptionTypes
<1>1. /\ pc = "emit" /\ UNCHANGED <<opts, seq, steps, calls, layers, stages>>
      /\ UNCHANGED <<cfg, token, selected, traced>> /\ UNCHANGED files
      /\ UNCHANGED <<report, artifact_emitted, layer_file>>
  BY DEF Emit, session, files
<1>2. /\ status = "OK" /\ stop_reason = "NONE" /\ Len(seq) = cfg.prompt + steps
      /\ cfg.prefix = 0 /\ cfg.prompt <= MaxTokens /\ step < cfg.limit
      /\ Len(emitted) = step /\ steps = step + 1 /\ step \in Nat
      /\ Len(selected) = step + 1 /\ selected[step + 1] = token /\ ~ShouldStop(token)
      /\ \A i \in 1 .. Len(traced) : traced[i].stop = "NONE"
      /\ token \in {"plain", "eos"} /\ Len(traced) = step + 1
      /\ \A i \in 1 .. Len(selected) - 1 : selected[i] = "plain"
      /\ \A i \in 1 .. Len(emitted) : emitted[i] = selected[i]
  BY <1>1 DEF LoopInv, ListsInv, TypeInv, Looping, Kinds, ShouldStop
<1>3. LayersWhole' /\ StagesWhole'
  <2>1. LayersWhole /\ StagesWhole
    BY <1>1 DEF CaptureInv, Looping
  <2> QED
    BY <1>1, <2>1 DEF LayersWhole, StagesWhole
<1>4. CASE /\ emitted' = Append(emitted, token) /\ stop_reason' = Reason(token)
           /\ UNCHANGED status
           /\ IF IsEos(token) \/ step + 1 = cfg.limit
                THEN pc' = "ran" /\ UNCHANGED step
                ELSE pc' = "select" /\ step' = step + 1
  <2>1. /\ emitted' \in Seq(Kinds) /\ Len(emitted') = step + 1 /\ emitted'[step + 1] = token
        /\ \A i \in 1 .. step : emitted'[i] = emitted[i]
    BY <1>2, <1>4 DEF TypeInv
  <2>2. pc' \in {"ran", "select"} /\ step' \in Nat /\ status' = "OK"
    BY <1>2, <1>4
  <2>3. stop_reason' \in StopReasons
    BY <1>4 DEF Reason, StopReasons
  <2>4. TypeInv'
    BY <1>1, <2>1, <2>2, <2>3 DEF TypeInv, Places, Looping, Statuses
  <2>5. ListsInv'
    <3>1. \A i \in 1 .. step + 1 : i \in 1 .. step \/ i = step + 1
      BY <1>2
    <3>2. \A i \in 1 .. Len(emitted') : emitted'[i] = selected'[i]
      BY <1>1, <1>2, <2>1, <3>1
    <3> QED
      BY <1>1, <1>2, <2>1, <3>2 DEF ListsInv
  <2>6. CaptureInv'
    BY <1>3, <2>2 DEF CaptureInv, Looping, Writing
  <2>7. CASE IsEos(token) \/ step + 1 = cfg.limit
    <3>1. pc' = "ran"
      BY <1>4, <2>7
    <3>2. LoopInv'
      BY <3>1 DEF LoopInv, Looping
    <3>3. selected'[Len(selected')] = token
      BY <1>1, <1>2
    <3>4. Shown(stop_reason, selected, emitted)'
      <4>1. CASE token = "eos"
        <5>1. stop_reason' = "MODEL_EOS"
          BY <1>4, <4>1 DEF Reason, IsEos
        <5> QED
          BY <3>3, <4>1, <5>1 DEF Shown, IsEos
      <4>2. CASE token = "plain"
        <5>1. stop_reason' = "DECODE_LIMIT" /\ step + 1 = cfg.limit
          BY <1>4, <2>7, <4>2 DEF Reason, IsEos, ShouldStop
        <5> QED
          BY <1>1, <2>1, <3>3, <4>2, <5>1 DEF Shown
      <4> QED
        BY <1>2, <4>1, <4>2
    <3>5. seq' # <<>>
      BY <1>1, <1>2
    <3>6. EndInv'
      BY <1>1, <1>2, <2>1, <2>2, <3>1, <3>4, <3>5 DEF EndInv, Writing
    <3>7. FilesInv'
      BY <1>1, <3>1, FilesKept DEF Looping
    <3> QED
      BY <2>4, <2>5, <2>6, <3>2, <3>6, <3>7
  <2>8. CASE ~(IsEos(token) \/ step + 1 = cfg.limit)
    <3>1. pc' = "select" /\ step' = step + 1 /\ token = "plain" /\ stop_reason' = "NONE"
      BY <1>2, <1>4, <2>8 DEF IsEos, ShouldStop, Reason
    <3>2. \A i \in 1 .. Len(selected') : selected'[i] = "plain"
      <4>1. \A i \in 1 .. step + 1 : i \in 1 .. step \/ i = step + 1
        BY <1>2
      <4> QED
        BY <1>1, <1>2, <3>1, <4>1
    <3>3. LoopInv'
      BY <1>1, <1>2, <2>1, <2>2, <2>8, <3>1, <3>2 DEF LoopInv, Looping
    <3>4. EndInv'
      BY <3>1 DEF EndInv, Writing
    <3>5. FilesInv'
      BY <1>1, <3>1, FilesKept DEF Looping
    <3> QED
      BY <2>4, <2>5, <2>6, <3>3, <3>4, <3>5
  <2> QED
    BY <2>7, <2>8
<1>5. CASE stop_reason' = "RUNTIME_ERROR" /\ GiveUp("ERROR") /\ UNCHANGED <<step, emitted>>
  <2>1. pc' = "ran" /\ status' = "ERROR"
    BY <1>5 DEF GiveUp
  <2>2. TypeInv'
    BY <1>1, <1>5, <2>1 DEF TypeInv, Places, Statuses, StopReasons
  <2>3. ListsInv'
    BY <1>1, <1>5, ListsKept
  <2>4. LoopInv' /\ CaptureInv' /\ EndInv'
    BY <2>1 DEF LoopInv, CaptureInv, EndInv, Looping, Writing
  <2>5. FilesInv'
    BY <1>1, <2>1, FilesKept DEF Looping
  <2> QED
    BY <2>2, <2>3, <2>4, <2>5
<1> QED
  BY <1>4, <1>5 DEF Emit

LEMMA ForcePrefixKeeps == ASSUME GenInv, ForcePrefix PROVE GenInv'
<1> USE DEF GenInv
<1> USE OptionTypes
<1>1. /\ pc = "force" /\ UNCHANGED <<cfg, token, selected, emitted, traced, stop_reason>>
      /\ UNCHANGED files /\ UNCHANGED <<report, artifact_emitted, layer_file>>
  BY DEF ForcePrefix, files
<1>2. /\ status = "OK" /\ stop_reason = "NONE" /\ Len(seq) = cfg.prompt + steps
      /\ cfg.prefix > 0 /\ steps = step /\ step < cfg.prefix /\ step \in Nat
      /\ selected = <<>> /\ emitted = <<>> /\ traced = <<>>
      /\ LayersWhole /\ StagesWhole
  BY <1>1 DEF LoopInv, CaptureInv, TypeInv, Looping
<1>3. ListsInv'
  BY <1>1, ListsKept
<1>4. CASE /\ Decode /\ pc' = IF step + 1 = cfg.prefix THEN "score" ELSE "force"
           /\ step' = step + 1 /\ UNCHANGED status
  <2>1. /\ opts' = opts /\ steps' = steps + 1 /\ calls' \in Nat
        /\ seq' \in Seq(Nat) /\ Len(seq') = Len(seq) + 1
        /\ layers' \in Captured /\ stages' \in Staged
    BY <1>4, DecodeIs
  <2>2. TypeInv'
    BY <1>1, <1>4, <2>1 DEF TypeInv, Places, Looping
  <2>3. LoopInv'
    <3>1. /\ cfg' = cfg /\ selected' = <<>> /\ emitted' = <<>> /\ traced' = <<>>
          /\ status' = "OK" /\ stop_reason' = "NONE"
      BY <1>1, <1>2, <1>4
    <3>2. Len(seq') = cfg'.prompt + steps' /\ steps' = step'
      <4>1. step \in Nat /\ steps = step /\ cfg.prompt \in Nat
        BY <1>2, OptionTypes
      <4>2. Len(seq) = cfg.prompt + steps /\ Len(seq') = Len(seq) + 1
        BY <1>2, <2>1
      <4>3. cfg' = cfg /\ step' = step + 1 /\ steps' = steps + 1
        BY <1>4, <2>1, <3>1
      <4> QED
        BY ONLY <4>1, <4>2, <4>3
    <3>3. CASE step + 1 = cfg.prefix
      <4>1. pc' = "score" /\ step' = cfg'.prefix
        BY <1>1, <1>4, <3>3
      <4> QED
        BY <1>2, <3>1, <3>2, <4>1 DEF LoopInv, Looping
    <3>4. CASE step + 1 # cfg.prefix
      <4>1. pc' = "force" /\ step' < cfg'.prefix
        BY <1>1, <1>2, <1>4, <3>4
      <4> QED
        BY <1>2, <3>1, <3>2, <4>1 DEF LoopInv, Looping
    <3> QED
      BY <3>3, <3>4
  <2>4. LayersWhole' /\ StagesWhole'
    BY <1>2, <1>4, DecodeCaptures
  <2>5. CaptureInv' /\ EndInv'
    BY <1>4, <2>4 DEF CaptureInv, EndInv, Looping, Writing
  <2>6. FilesInv'
    BY <1>1, <1>4, FilesKept DEF Looping
  <2> QED
    BY <1>3, <2>2, <2>3, <2>5, <2>6
<1>5. CASE FailDecode /\ GiveUp("ERROR") /\ UNCHANGED step
  <2>1. /\ opts' = opts /\ steps' = steps /\ seq' = seq /\ calls' \in Nat
        /\ layers' \in Captured /\ stages' \in Staged
    BY <1>5, FailureIs
  <2>2. pc' = "ran" /\ status' = "ERROR"
    BY <1>5 DEF GiveUp
  <2>3. TypeInv'
    BY <1>1, <1>5, <2>1, <2>2 DEF TypeInv, Places, Statuses
  <2>4. LoopInv' /\ CaptureInv' /\ EndInv'
    BY <2>2 DEF LoopInv, CaptureInv, EndInv, Looping, Writing
  <2>5. FilesInv'
    BY <1>1, <2>2, FilesKept DEF Looping
  <2> QED
    BY <1>3, <2>3, <2>4, <2>5
<1> QED
  BY <1>4, <1>5 DEF ForcePrefix

LEMMA ScoreKeeps == ASSUME GenInv, Score PROVE GenInv'
<1> USE DEF GenInv
<1> USE OptionTypes
<1>1. /\ pc = "score" /\ pc' = "ran" /\ UNCHANGED <<opts, seq, steps, calls, layers, stages>>
      /\ UNCHANGED <<cfg, status, step, emitted, traced>> /\ UNCHANGED files
      /\ UNCHANGED <<report, artifact_emitted, layer_file>>
  BY DEF Score, session, files
<1>2. PICK k \in Kinds :
         /\ token' = k
         /\ selected' = Append(selected, k)
         /\ stop_reason' = IF IsEos(k) THEN "MODEL_EOS"
                           ELSE IF ShouldStop(k) THEN "STRUCTURAL_CONTROL"
                           ELSE "DECODE_LIMIT"
  BY DEF Score
<1>3. /\ status = "OK" /\ cfg.prefix > 0 /\ selected = <<>> /\ emitted = <<>> /\ traced = <<>>
  BY <1>1 DEF LoopInv, Looping
<1>4. selected' = <<k>> /\ Len(selected') = 1 /\ selected'[1] = k /\ selected' \in Seq(Kinds)
  BY <1>2, <1>3
<1>5. stop_reason' \in StopReasons
  BY <1>2 DEF StopReasons, IsEos, ShouldStop
<1>6. TypeInv'
  BY <1>1, <1>2, <1>4, <1>5 DEF TypeInv, Places
<1>7. ListsInv'
  BY <1>1, <1>3, <1>4 DEF ListsInv
<1>8. LoopInv'
  BY <1>1 DEF LoopInv, Looping
<1>9. LayersWhole' /\ StagesWhole'
  <2>1. LayersWhole /\ StagesWhole
    BY <1>1 DEF CaptureInv, Looping
  <2> QED
    BY <1>1, <2>1 DEF LayersWhole, StagesWhole
<1>10. CaptureInv'
  BY <1>1, <1>9 DEF CaptureInv, Looping, Writing
<1>11. Shown(stop_reason, selected, emitted)'
  <2>1. selected'[Len(selected')] = k /\ selected' # emitted' /\ cfg'.prefix # 0
    BY <1>1, <1>3, <1>4
  <2>2. CASE IsEos(k)
    <3>1. stop_reason' = "MODEL_EOS"
      BY <1>2, <2>2
    <3> QED
      BY <2>1, <2>2, <3>1 DEF Shown
  <2>3. CASE k = "control"
    <3>1. stop_reason' = "STRUCTURAL_CONTROL"
      BY <1>2, <2>3 DEF IsEos, ShouldStop
    <3> QED
      BY <2>1, <2>3, <3>1 DEF Shown
  <2>4. CASE k = "plain"
    <3>1. stop_reason' = "DECODE_LIMIT"
      BY <1>2, <2>4 DEF IsEos, ShouldStop
    <3> QED
      BY <2>1, <2>4, <3>1 DEF Shown
  <2> QED
    BY <2>2, <2>3, <2>4 DEF Kinds, IsEos
<1>12. EndInv'
  BY <1>1, <1>3, <1>11 DEF EndInv, Writing
<1>13. FilesInv'
  BY <1>1, FilesKept DEF Looping
<1> QED
  BY <1>6, <1>7, <1>8, <1>10, <1>12, <1>13

-------------------------------------------------------------------------------
LEMMA FailedKeeps == ASSUME GenInv, Failed PROVE GenInv'
<1> USE DEF GenInv
<1> USE OptionTypes
<1>1. /\ pc = "ran" /\ pc' = "out" /\ status # "OK" /\ status' = status
      /\ UNCHANGED <<opts, seq, steps, calls, layers, stages>>
      /\ UNCHANGED <<cfg, step, token, selected, emitted, traced>> /\ UNCHANGED files
      /\ UNCHANGED <<report, artifact_emitted, layer_file>>
      /\ stop_reason' = IF stop_reason # "NONE" THEN stop_reason
                        ELSE IF status = "LIMIT_EXCEEDED" /\ Len(seq) >= MaxTokens
                          THEN "CONTEXT_LIMIT" ELSE "RUNTIME_ERROR"
  BY DEF Failed, session, loop, files
<1>2. TypeInv'
  BY <1>1 DEF TypeInv, Places, StopReasons
<1>3. ListsInv'
  BY <1>1, ListsKept
<1>4. LoopInv' /\ CaptureInv'
  BY <1>1 DEF LoopInv, CaptureInv, Looping, Writing
<1>5. EndInv'
  <2>1. ASSUME status = "LIMIT_EXCEEDED" PROVE LimitShown(stop_reason, emitted)'
    <3>1. IF cfg.prompt > MaxTokens THEN stop_reason = "NONE" /\ seq = <<>>
          ELSE stop_reason = "CONTEXT_LIMIT" /\ cfg.prompt + Len(emitted) = MaxTokens
      BY <1>1, <2>1 DEF EndInv
    <3>2. seq = <<>> => ~(Len(seq) >= MaxTokens)
      BY SessionAssumption
    <3> QED
      BY <1>1, <2>1, <3>1, <3>2 DEF LimitShown
  <2>2. status # "ERROR" /\ cfg.prefix = 0 =>
            Len(seq) = (IF seq = <<>> THEN 0 ELSE cfg.prompt) + Len(emitted)
    BY <1>1 DEF EndInv
  <2> QED
    BY <1>1, <2>1, <2>2 DEF EndInv, Writing
<1>6. FilesInv'
  BY <1>1, FilesKept
<1> QED
  BY <1>2, <1>3, <1>4, <1>5, <1>6

LEMMA CompletedKeeps == ASSUME GenInv, Completed PROVE GenInv'
<1> USE DEF GenInv
<1> USE OptionTypes
<1>1. /\ pc = "ran" /\ status = "OK"
      /\ UNCHANGED <<cfg, step, token, selected, emitted, traced, stop_reason>>
      /\ UNCHANGED files /\ UNCHANGED <<report, artifact_emitted, layer_file>>
  BY DEF Completed, loop, files
<1>2. /\ Shown(stop_reason, selected, emitted) /\ LayersWhole /\ StagesWhole
      /\ cfg.prefix = 0 =>
           Len(seq) = (IF seq = <<>> THEN 0 ELSE cfg.prompt) + Len(emitted)
  BY <1>1 DEF EndInv, CaptureInv
<1>3. /\ opts' = opts /\ steps' = steps /\ seq' = seq /\ calls' = calls
      /\ layers' = layers /\ stages' \in Staged /\ status' \in {"OK", "ERROR"}
      /\ pc' \in {"report", "out"} /\ (pc' = "report" => status' = "OK")
      /\ (pc' = "out" => status' = "ERROR")
      /\ pc' = "report" /\ opts.intra => stages' = "ready" /\ steps >= opts.target
  <2>1. CASE opts.intra
    <3>1. /\ Finalize
          /\ IF stages' = "ready" THEN pc' = "report" /\ UNCHANGED status
             ELSE pc' = "out" /\ status' = "ERROR"
      BY <2>1 DEF Completed
    <3>2. stages = IF steps >= opts.target THEN "full" ELSE "empty"
      BY <1>2, <2>1 DEF StagesWhole
    <3>3. stages' = IF stages \in {"full", "ready"} THEN "ready" ELSE "invalid"
      BY <3>1 DEF Finalize
    <3> QED
      BY <1>1, <3>1, <3>2, <3>3, FinalizeIs
  <2>2. CASE ~opts.intra
    BY <1>1, <2>2 DEF Completed, session, TypeInv
  <2> QED
    BY <2>1, <2>2
<1>4. TypeInv'
  BY <1>1, <1>3 DEF TypeInv, Places, Writing, Statuses
<1>5. ListsInv'
  BY <1>1, ListsKept
<1>6. LoopInv'
  BY <1>3 DEF LoopInv, Looping
<1>7. CaptureInv'
  <2>1. LayersWhole'
    BY <1>2, <1>3 DEF LayersWhole
  <2> QED
    BY <1>3, <2>1 DEF CaptureInv, Looping, Writing
<1>8. EndInv'
  <2>1. Shown(stop_reason, selected, emitted)'
    BY <1>1, <1>2 DEF Shown
  <2> QED
    BY <1>1, <1>2, <1>3, <2>1 DEF EndInv, Writing
<1>9. FilesInv'
  BY <1>1, <1>3, FilesKept
<1> QED
  BY <1>4, <1>5, <1>6, <1>7, <1>8, <1>9

LEMMA WriteReportKeeps == ASSUME GenInv, WriteReport PROVE GenInv'
<1> USE DEF GenInv
<1> USE OptionTypes
<1>1. /\ pc = "report" /\ UNCHANGED <<opts, seq, steps, calls, layers, stages>>
      /\ UNCHANGED <<cfg, step, token, selected, emitted, traced, stop_reason, layer_file>>
      /\ report' \in {NoReport, Torn, Report}
      /\ \/ /\ pc' = "trace" /\ status' = status
            /\ report' \in {Torn, Report} /\ artifact_emitted' = TRUE
         \/ pc' = "out" /\ status' = "ERROR" /\ artifact_emitted' = artifact_emitted
  BY DEF WriteReport, session, loop
<1>2. /\ status = "OK" /\ layer_file = "none"
      /\ Shown(stop_reason, selected, emitted)
      /\ cfg.prefix = 0 =>
           Len(seq) = (IF seq = <<>> THEN 0 ELSE cfg.prompt) + Len(emitted)
  BY <1>1 DEF EndInv, FilesInv, Writing
<1>3. NoReport \in Reports /\ Torn \in Reports /\ Report \in Reports
  BY ReportTypes
<1>4. TypeInv'
  BY <1>1, <1>3 DEF TypeInv, Places, Writing, Statuses
<1>5. ListsInv'
  BY <1>1, ListsKept
<1>6. LoopInv'
  BY <1>1 DEF LoopInv, Looping
<1>7. CaptureInv'
  <2>1. LayersWhole /\ (opts.intra => stages = "ready" /\ steps >= opts.target)
    BY <1>1 DEF CaptureInv, Writing
  <2>2. LayersWhole'
    BY <1>1, <2>1 DEF LayersWhole
  <2> QED
    BY <1>1, <2>1, <2>2 DEF CaptureInv, Looping, Writing
<1>8. EndInv'
  <2>1. Shown(stop_reason, selected, emitted)'
    BY <1>1, <1>2 DEF Shown
  <2> QED
    BY <1>1, <1>2, <2>1 DEF EndInv, Writing
<1>9. FilesInv'
  <2>1. report'.status = "OK" => Shown(report.stop, report.selected, report.emitted)'
    <3>1. report'.status = "OK" => report' = Report
      BY <1>1 DEF NoReport, Torn
    <3>2. /\ Report.stop = stop_reason /\ Report.selected = selected
          /\ Report.emitted = emitted
      BY DEF Report
    <3> QED
      BY <1>1, <1>2, <3>1, <3>2 DEF Shown
  <2>2. report'.status # "LIMIT_EXCEEDED"
    BY <1>1, <1>2 DEF NoReport, Torn, Report
  <2>3. status' = "OK" => artifact_emitted' /\ report' \in {Torn, Report}'
    BY <1>1 DEF Report, Torn, NoReport
  <2>4. LayerFileIsWhole'
    BY <1>1, <1>2 DEF LayerFileIsWhole
  <2> QED
    BY <1>1, <1>2, <2>1, <2>2, <2>3, <2>4 DEF FilesInv, Looping
<1> QED
  BY <1>4, <1>5, <1>6, <1>7, <1>8, <1>9

LEMMA WriteTraceKeeps == ASSUME GenInv, WriteTrace PROVE GenInv'
<1> USE DEF GenInv
<1> USE OptionTypes
<1>1. /\ pc = "trace" /\ UNCHANGED <<opts, seq, steps, calls, layers, stages>>
      /\ UNCHANGED <<cfg, step, token, selected, emitted, traced, stop_reason>>
      /\ UNCHANGED <<report, artifact_emitted, layer_file>>
      /\ status' \in {"OK", "ERROR"}
      /\ pc' = IF opts.emit THEN "layer_trace" ELSE "out"
  BY DEF WriteTrace, session, loop, files
<1>2. /\ status = "OK" /\ layer_file = "none" /\ artifact_emitted
      /\ report \in {Torn, Report}
      /\ Shown(stop_reason, selected, emitted)
      /\ cfg.prefix = 0 =>
           Len(seq) = (IF seq = <<>> THEN 0 ELSE cfg.prompt) + Len(emitted)
  BY <1>1 DEF EndInv, FilesInv, Writing
<1>3. TypeInv'
  BY <1>1 DEF TypeInv, Places, Writing, Statuses
<1>4. ListsInv'
  BY <1>1, ListsKept
<1>5. LoopInv'
  BY <1>1 DEF LoopInv, Looping
<1>6. CaptureInv'
  <2>1. LayersWhole /\ (opts.intra => stages = "ready" /\ steps >= opts.target)
    BY <1>1 DEF CaptureInv, Writing
  <2>2. LayersWhole'
    BY <1>1, <2>1 DEF LayersWhole
  <2> QED
    BY <1>1, <2>1, <2>2 DEF CaptureInv, Looping, Writing
<1>7. EndInv'
  <2>1. Shown(stop_reason, selected, emitted)'
    BY <1>1, <1>2 DEF Shown
  <2> QED
    BY <1>1, <1>2, <2>1 DEF EndInv, Writing
<1>8. FilesInv'
  <2>1. /\ report'.status = "OK" => Shown(report.stop, report.selected, report.emitted)'
        /\ report'.status = "LIMIT_EXCEEDED" => LimitShown(report.stop, report.emitted)'
    BY <1>1 DEF FilesInv, Shown, LimitShown
  <2>2. status' = "OK" => artifact_emitted' /\ report' \in {Torn, Report}'
    BY <1>1, <1>2 DEF Report, Torn, NoReport
  <2>3. LayerFileIsWhole'
    BY <1>1, <1>2 DEF LayerFileIsWhole
  <2> QED
    BY <1>1, <1>2, <2>1, <2>2, <2>3 DEF FilesInv, Looping
<1> QED
  BY <1>3, <1>4, <1>5, <1>6, <1>7, <1>8

LEMMA WriteLayerTraceKeeps == ASSUME GenInv, WriteLayerTrace PROVE GenInv'
<1> USE DEF GenInv
<1> USE OptionTypes
<1>1. /\ pc = "layer_trace" /\ pc' = "out"
      /\ UNCHANGED <<opts, seq, steps, calls, layers, stages>>
      /\ UNCHANGED <<cfg, step, token, selected, emitted, traced, stop_reason>>
      /\ UNCHANGED <<report, artifact_emitted>>
      /\ IF layers = "unusable"
           THEN status' = "ERROR" /\ UNCHANGED layer_file
           ELSE \/ layer_file' \in {layers, "torn"} /\ UNCHANGED status
                \/ layer_file' \in {"none", "torn"} /\ status' = "ERROR"
  BY DEF WriteLayerTrace, session, loop
<1>2. /\ status \in {"OK", "ERROR"} /\ layer_file = "none" /\ opts.emit
      /\ status = "OK" => artifact_emitted /\ report \in {Torn, Report}
      /\ Shown(stop_reason, selected, emitted)
      /\ status # "ERROR" /\ cfg.prefix = 0 =>
           Len(seq) = (IF seq = <<>> THEN 0 ELSE cfg.prompt) + Len(emitted)
      /\ LayersWhole /\ (opts.intra => stages = "ready" /\ steps >= opts.target)
  BY <1>1 DEF EndInv, FilesInv, CaptureInv, Writing
<1>3. layers \in {"empty", "complete", "unusable"}
      /\ (layers = "empty" => ~(steps >= opts.target))
      /\ (layers = "complete" => steps >= opts.target)
  BY <1>2 DEF LayersWhole
<1>4. /\ layer_file' \in {"none", "torn", "empty", "complete"}
      /\ status' = "OK" => /\ status = "OK" /\ layers \in {"empty", "complete"}
                           /\ layer_file' \in {layers, "torn"}
      /\ layer_file' = "empty" => layers = "empty"
      /\ layer_file' = "complete" => layers = "complete"
      /\ status' \in {"OK", "ERROR"}
  <2>1. CASE layers = "unusable"
    BY <1>1, <1>2, <2>1
  <2>2. CASE layers # "unusable" /\ layer_file' \in {layers, "torn"} /\ UNCHANGED status
    BY <1>2, <1>3, <2>2
  <2>3. CASE layers # "unusable" /\ layer_file' \in {"none", "torn"} /\ status' = "ERROR"
    BY <2>3
  <2> QED
    BY <1>1, <2>1, <2>2, <2>3
<1>5. TypeInv'
  BY <1>1, <1>4 DEF TypeInv, Places, Statuses
<1>6. ListsInv'
  BY <1>1, ListsKept
<1>7. LoopInv' /\ CaptureInv'
  BY <1>1 DEF LoopInv, CaptureInv, Looping, Writing
<1>8. EndInv'
  <2>1. Shown(stop_reason, selected, emitted)'
    BY <1>1, <1>2 DEF Shown
  <2> QED
    BY <1>1, <1>2, <1>4, <2>1 DEF EndInv, Writing
<1>9. FilesInv'
  <2>1. /\ report'.status = "OK" => Shown(report.stop, report.selected, report.emitted)'
        /\ report'.status = "LIMIT_EXCEEDED" => LimitShown(report.stop, report.emitted)'
    BY <1>1 DEF FilesInv, Shown, LimitShown
  <2>2. status' = "OK" => artifact_emitted' /\ report' \in {Torn, Report}'
    BY <1>1, <1>2, <1>4 DEF Report, Torn, NoReport
  <2>3. LayerFileIsWhole'
    <3>1. steps \in Nat
      BY DEF TypeInv
    <3> QED
      BY <1>1, <1>2, <1>3, <1>4, <3>1 DEF LayerFileIsWhole
  <2> QED
    BY <1>1, <1>4, <2>1, <2>2, <2>3 DEF FilesInv, Looping
<1> QED
  BY <1>5, <1>6, <1>7, <1>8, <1>9

LEMMA FinishKeeps == ASSUME GenInv, Finish PROVE GenInv'
<1> USE DEF GenInv
<1> USE OptionTypes
<1>1. /\ pc = "out" /\ pc' = "done"
      /\ UNCHANGED <<opts, seq, steps, calls, layers, stages>>
      /\ UNCHANGED <<cfg, step, token, selected, emitted, traced, stop_reason>>
      /\ UNCHANGED <<artifact_emitted, layer_file>>
      /\ IF artifact_emitted \/ cfg.prefix > 0
           THEN UNCHANGED <<report, status>>
           ELSE \/ report' \in {Torn, Report} /\ UNCHANGED status
                \/ /\ report' \in {report, Torn, Report}
                   /\ status' = IF status = "OK" THEN "ERROR" ELSE status
  BY DEF Finish, session, loop
<1>2. /\ status = "OK" => artifact_emitted /\ report \in {Torn, Report}
      /\ status = "OK" => Shown(stop_reason, selected, emitted)
      /\ status = "LIMIT_EXCEEDED" => LimitShown(stop_reason, emitted)
      /\ status # "ERROR" /\ cfg.prefix = 0 =>
           Len(seq) = (IF seq = <<>> THEN 0 ELSE cfg.prompt) + Len(emitted)
      /\ status = "OK" /\ opts.emit => /\ layers \in {"empty", "complete"}
                                       /\ layer_file \in {layers, "torn"}
      /\ LayerFileIsWhole
  BY <1>1 DEF EndInv, FilesInv
<1>3. status' = status
  <2>1. CASE status = "OK"
    BY <1>1, <1>2, <2>1
  <2>2. CASE status # "OK"
    BY <1>1, <2>2
  <2> QED
    BY <2>1, <2>2
<1>4. /\ report' = report \/ (report' \in {Torn, Report} /\ status # "OK")
      /\ status = "OK" => report' = report
  BY <1>1, <1>2
<1>5. TypeInv'
  <2>1. Torn \in Reports /\ Report \in Reports
    BY ReportTypes
  <2> QED
    BY <1>1, <1>3, <1>4, <2>1 DEF TypeInv, Places
<1>6. ListsInv'
  BY <1>1, ListsKept
<1>7. LoopInv' /\ CaptureInv'
  BY <1>1 DEF LoopInv, CaptureInv, Looping, Writing
<1>8. EndInv'
  <2>1. /\ status = "OK" => Shown(stop_reason, selected, emitted)'
        /\ status = "LIMIT_EXCEEDED" => LimitShown(stop_reason, emitted)'
    BY <1>1, <1>2 DEF Shown, LimitShown
  <2> QED
    BY <1>1, <1>2, <1>3, <2>1 DEF EndInv, Writing
<1>9. FilesInv'
  <2>1. /\ report'.status = "OK" => Shown(report.stop, report.selected, report.emitted)'
        /\ report'.status = "LIMIT_EXCEEDED" => LimitShown(report.stop, report.emitted)'
    <3>1. CASE report' = report
      BY <1>1, <3>1 DEF FilesInv, Shown, LimitShown
    <3>2. CASE report' = Torn
      BY <3>2 DEF Torn, NoReport
    <3>3. CASE report' = Report /\ status # "OK"
      <4>1. /\ Report.stop = stop_reason /\ Report.emitted = emitted
            /\ Report.status = status
        BY DEF Report
      <4> QED
        BY <1>1, <1>2, <3>3, <4>1 DEF LimitShown
    <3> QED
      BY <1>4, <3>1, <3>2, <3>3
  <2>2. status' = "OK" => artifact_emitted' /\ report' \in {Torn, Report}'
    BY <1>1, <1>2, <1>3, <1>4 DEF Report, Torn, NoReport
  <2>3. LayerFileIsWhole'
    BY <1>1, <1>2 DEF LayerFileIsWhole
  <2> QED
    BY <1>1, <1>2, <1>3, <2>1, <2>2, <2>3 DEF FilesInv, Looping
<1> QED
  BY <1>5, <1>6, <1>7, <1>8, <1>9

LEMMA StutterKeeps == ASSUME GenInv, UNCHANGED vars PROVE GenInv'
<1> USE DEF GenInv
<1>1. /\ UNCHANGED <<opts, seq, steps, calls, answer, layers, stages>>
      /\ UNCHANGED <<cfg, pc, status, step, token, selected, emitted, traced>>
      /\ UNCHANGED <<stop_reason, report, artifact_emitted, layer_file>>
  BY DEF vars, session, loop, files
<1>2. TypeInv' /\ ListsInv' /\ LoopInv'
  BY <1>1 DEF TypeInv, ListsInv, LoopInv
<1>3. CaptureInv'
  BY <1>1 DEF CaptureInv, LayersWhole, StagesWhole
<1>4. EndInv'
  BY <1>1 DEF EndInv, Shown, LimitShown
<1>5. FilesInv'
  BY <1>1 DEF FilesInv, Shown, LimitShown, Report, Torn, NoReport, LayerFileIsWhole
<1> QED
  BY <1>2, <1>3, <1>4, <1>5

-------------------------------------------------------------------------------
(* The lists, the sequence, the captures and the files go together at every *)
(* place of the driver (srcs/cli/driver.c).                                 *)
THEOREM GenerationInvariance == GSpec => []GenInv
<1>1. GenInv /\ [GNext]_vars => GenInv'
  BY CallPrefillKeeps, SelectKeeps, CallDecodeKeeps, EmitKeeps, ForcePrefixKeeps,
     ScoreKeeps, FailedKeeps, CompletedKeeps, WriteReportKeeps, WriteTraceKeeps,
     WriteLayerTraceKeeps, FinishKeeps, StutterKeeps DEF GNext, DriverStep, Exited
<1> QED
  BY <1>1, InitHolds, PTL DEF GSpec

(* What was emitted was selected, in this order, and is in the sequence the *)
(* next logits come from (lis_cli_run_inference's lists and lis_llama_decode). *)
THEOREM TokensAgreeAlways == GSpec => []TokensAgree
<1>1. GenInv => TokensAgree
  <2> SUFFICES ASSUME GenInv PROVE TokensAgree
    OBVIOUS
  <2> USE DEF GenInv
  <2> USE OptionTypes
  <2>1. Len(selected) \in {Len(emitted), Len(emitted) + 1}
    BY DEF ListsInv, TypeInv
  <2>2. emitted = SubSeq(selected, 1, Len(emitted))
    BY DEF ListsInv, TypeInv
  <2>3. cfg.prefix = 0 => /\ Len(traced) = Len(selected)
                          /\ \A i \in DOMAIN traced : traced[i].token = selected[i]
    BY DEF ListsInv, TypeInv
  <2>4. ASSUME cfg.prefix = 0, pc \in {"select", "decode", "out"}, status # "ERROR"
        PROVE  Len(seq) = (IF seq = <<>> THEN 0 ELSE cfg.prompt) + Len(emitted)
    <3>1. CASE pc = "out"
      BY <2>4, <3>1 DEF EndInv
    <3>2. CASE pc \in {"select", "decode"}
      <4>1. Len(seq) = cfg.prompt + steps /\ steps = Len(emitted) /\ steps \in Nat
        BY <3>2 DEF LoopInv, TypeInv
      <4>2. seq # <<>>
        BY <4>1
      <4> QED
        BY <4>1, <4>2
    <3> QED
      BY <2>4, <3>1, <3>2
  <2> QED
    BY <2>1, <2>2, <2>3, <2>4 DEF TokensAgree
<1> QED
  BY <1>1, GenerationInvariance, PTL

(* The reported reason is the one its tokens show, and no run went past an  *)
(* EOS or a stop token (the loop of lis_cli_run_inference and               *)
(* lis_cli_write_execution_artifact).                                       *)
THEOREM ReportReasonIsRightAlways == GSpec => []ReportReasonIsRight
<1>1. GenInv => ReportReasonIsRight
  BY DEF GenInv, ListsInv, FilesInv, Shown, LimitShown, ReportReasonIsRight
<1> QED
  BY <1>1, GenerationInvariance, PTL

(* An exit of success never stands for a report or a layer trace that was   *)
(* not written, a failed capture, or a report of an earlier status or other *)
(* tokens; the file may be torn, since its writer looks at fclose only (the *)
(* end of lis_cli_run_inference, lis_artifact_write_run_report).            *)
THEOREM SuccessIsReportedAlways == GSpec => []SuccessIsReported
<1>1. GenInv => SuccessIsReported
  BY DEF GenInv, FilesInv, SuccessIsReported
<1> QED
  BY <1>1, GenerationInvariance, PTL

(* A layer trace that is whole holds every selected layer of its step, or   *)
(* none because the run ended before it (lis_cli_write_layer_trace).        *)
THEOREM LayerFileIsWholeAlways == GSpec => []LayerFileIsWhole
<1>1. GenInv => LayerFileIsWhole
  BY DEF GenInv, FilesInv
<1> QED
  BY <1>1, GenerationInvariance, PTL

(* Every step of the driver is a step of the runtime it has initialised, or *)
(* leaves it alone: the calls of lis_cli_run_inference satisfy what         *)
(* LlamaRuntime promises its callers only under.                            *)
THEOREM DriverFollowsSession == GSpec => Spec
<1>1. ASSUME GenInv, DriverStep PROVE [Next]_session
  <2> USE OptionTypes
  <2>1. CASE CallPrefill
    <3>1. CASE cfg.prompt <= MaxTokens /\ Prefill(cfg.prompt)
      <4>1. cfg.prompt \in 1 .. MaxTokens
        BY <1>1, <3>1, SessionAssumption DEF GenInv
      <4> QED
        BY <3>1, <4>1 DEF Next
    <3>2. CASE FailPrefill
      BY <3>2 DEF Next
    <3> QED
      BY <2>1, <3>1, <3>2 DEF CallPrefill
  <2>2. CASE CallDecode
    BY <2>2 DEF CallDecode, Next
  <2>3. CASE ForcePrefix
    BY <2>3 DEF ForcePrefix, Next
  <2>4. CASE Completed
    BY <2>4 DEF Completed, Next
  <2>5. CASE Select \/ Emit \/ Score \/ Failed
    BY <2>5 DEF Select, Emit, Score, Failed
  <2>6. CASE WriteReport \/ WriteTrace \/ WriteLayerTrace \/ Finish
    BY <2>6 DEF WriteReport, WriteTrace, WriteLayerTrace, Finish
  <2> QED
    BY <1>1, <2>1, <2>2, <2>3, <2>4, <2>5, <2>6 DEF DriverStep
<1>2. GenInv /\ [GNext]_vars => [Next]_session
  BY <1>1 DEF GNext, Exited, vars
<1>3. GInit => Init
  BY DEF GInit
<1> QED
  BY <1>2, <1>3, GenerationInvariance, PTL DEF GSpec, Spec
===============================================================================
