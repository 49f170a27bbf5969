------------------------------ MODULE Generation ------------------------------
(***************************************************************************)
(* A batch-1 decoder run of the command line, lis_cli_run_inference of     *)
(* srcs/cli/driver.c from the initialised runtime to its exit status:      *)
(* prefill, the token loop or the forced prefix, and the three artifacts.  *)
(* The runtime is the DecodeSession that LlamaRuntime implements; the      *)
(* actions of the driver call its actions.                                 *)
(*                                                                         *)
(* A token is what the loop tells apart: a model EOS, a token that stops   *)
(* generation (should_stop), both, or any other.                           *)
(***************************************************************************)
EXTENDS DecodeSession

CONSTANTS MaxLimit,  \* bound on --generation-limit
          MaxPrompt  \* bound on the prompt, which may exceed the context

ASSUME GenerationAssumption == MaxLimit \in Nat /\ MaxPrompt \in Nat

VARIABLES
    cfg,          \* prompt length, generation_limit and forced-prefix length
    pc,           \* where the driver is
    status,       \* its lis_status
    step,         \* the index of the generation or prefix loop
    token,        \* token_id of this step
    selected,     \* execution_record.selected_token_ids
    emitted,      \* execution_record.emitted_token_ids
    traced,       \* the steps of trace_record
    stop_reason,  \* execution_record.stop_reason
    report,       \* the file of --report-json
    artifact_emitted,
    layer_file    \* what of the layer outputs the file of --layer-trace-json holds

loop  == <<step, token, selected, emitted, traced>>
files == <<report, artifact_emitted, layer_file>>
vars  == <<session, cfg, pc, status, loop, stop_reason, files>>

Kinds == {"plain", "eos", "control", "eos_control"}
IsEos(k)      == k \in {"eos", "eos_control"}
ShouldStop(k) == k \in {"control", "eos_control"}

Statuses == {"OK", "LIMIT_EXCEEDED", "ERROR"}
StopReasons == {"NONE", "MODEL_EOS", "STRUCTURAL_CONTROL", "DECODE_LIMIT",
                "CONTEXT_LIMIT", "RUNTIME_ERROR"}

NoReport == [status |-> "none", stop |-> "NONE", selected |-> <<>>, emitted |-> <<>>]
Torn     == [NoReport EXCEPT !.status = "torn"]
Report   == [status |-> status, stop |-> stop_reason, selected |-> selected,
             emitted |-> emitted]

(* The bindings the driver checks before it initialises the runtime: a      *)
(* bound forced prefix and its checkpoint, and the intra-layer position.    *)
Accepted(c, o) ==
    /\ c.prefix > 0 =>
         /\ c.prefix < c.limit
         /\ c.prompt + c.prefix <= MaxTokens
         /\ o.emit => o.target = c.prefix + 1
    /\ o.intra =>
         /\ o.emit
         /\ o.target > 0
         /\ o.token_position = c.prompt + o.target - 1
         /\ o.token_position < MaxTokens

GInit ==
    /\ Init
    /\ cfg \in [prompt : 1 .. MaxPrompt, limit : 1 .. MaxLimit, prefix : 0 .. MaxLimit]
    /\ Accepted(cfg, opts)
    /\ pc = "prefill"
    /\ status = "OK"
    /\ step = 0
    /\ token = "plain"
    /\ selected = <<>>
    /\ emitted = <<>>
    /\ traced = <<>>
    /\ stop_reason = "NONE"
    /\ report = NoReport
    /\ artifact_emitted = FALSE
    /\ layer_file = "none"

GiveUp(s) == status' = s /\ pc' = "ran"

-------------------------------------------------------------------------------
(* The call of prefill; a prompt longer than the context is rejected. *)
CallPrefill ==
    /\ pc = "prefill"
    /\ \/ /\ cfg.prompt <= MaxTokens
          /\ Prefill(cfg.prompt)
          /\ pc' = IF cfg.prefix > 0 THEN "force" ELSE "select"
          /\ UNCHANGED status
       \/ /\ cfg.prompt <= MaxTokens
          /\ FailPrefill
          /\ GiveUp("ERROR")
       \/ /\ cfg.prompt > MaxTokens
          /\ GiveUp("LIMIT_EXCEEDED")
          /\ UNCHANGED session
    /\ UNCHANGED <<cfg, loop, stop_reason, files>>

(* Mutant: the stop token is looked at before the EOS. *)
ReasonStopFirst(k) == IF ShouldStop(k) THEN "STRUCTURAL_CONTROL"
                      ELSE IF IsEos(k) THEN "MODEL_EOS"
                      ELSE IF step + 1 = cfg.limit THEN "DECODE_LIMIT" ELSE "NONE"

(* Why generation stops at token k of this step, if it does. *)
Reason(k) == IF IsEos(k) THEN "MODEL_EOS"
             ELSE IF ShouldStop(k) THEN "STRUCTURAL_CONTROL"
             ELSE IF step + 1 = cfg.limit THEN "DECODE_LIMIT" ELSE "NONE"

(* lis_cli_select_generation_token, the records of its choice, and the stop *)
(* at a token that is not decoded.                                          *)
Select ==
    /\ pc = "select"
    /\ \E k \in Kinds :
         /\ token' = k
         /\ selected' = Append(selected, k)
         /\ traced' = Append(traced, [token |-> k, stop |-> IF ShouldStop(k) THEN Reason(k)
                                                           ELSE "NONE"])
         /\ IF ShouldStop(k)
              THEN stop_reason' = Reason(k) /\ pc' = "ran"
              ELSE UNCHANGED stop_reason /\ pc' = "decode"
    /\ UNCHANGED <<session, cfg, status, step, emitted, files>>

(* Mutant: the token that found the context full is emitted all the same. *)
CallDecodeEmitting ==
    /\ pc = "decode"
    /\ \/ /\ Decode
          /\ pc' = "emit"
          /\ UNCHANGED <<status, stop_reason, emitted>>
       \/ /\ Len(seq) = MaxTokens
          /\ stop_reason' = "CONTEXT_LIMIT"
          /\ emitted' = Append(emitted, token)
          /\ GiveUp("LIMIT_EXCEEDED")
          /\ UNCHANGED session
    /\ UNCHANGED <<cfg, step, token, selected, traced, files>>

(* The call of decode with the selected token. *)
CallDecode ==
    /\ pc = "decode"
    /\ \/ /\ Decode
          /\ pc' = "emit"
          /\ UNCHANGED <<status, stop_reason>>
       \/ /\ FailDecode
          /\ stop_reason' = "RUNTIME_ERROR"
          /\ GiveUp("ERROR")
       \/ /\ Len(seq) = MaxTokens
          /\ stop_reason' = "CONTEXT_LIMIT"
          /\ GiveUp("LIMIT_EXCEEDED")
          /\ UNCHANGED session
    /\ UNCHANGED <<cfg, loop, files>>

(* lis_cli_emit_token and the end of the step. *)
Emit ==
    /\ pc = "emit"
    /\ \/ /\ emitted' = Append(emitted, token)
          /\ stop_reason' = Reason(token)
          /\ UNCHANGED status
          /\ IF IsEos(token) \/ step + 1 = cfg.limit
               THEN pc' = "ran" /\ UNCHANGED step
               ELSE pc' = "select" /\ step' = step + 1
       \/ /\ stop_reason' = "RUNTIME_ERROR"
          /\ GiveUp("ERROR")
          /\ UNCHANGED <<step, emitted>>
    /\ UNCHANGED <<session, cfg, token, selected, traced, files>>

(* lis_cli_run_forced_prefix_diagnostics: each prefix token is decoded, *)
(* then the next one is selected but not decoded.                       *)
ForcePrefix ==
    /\ pc = "force"
    /\ \/ /\ Decode
          /\ pc' = IF step + 1 = cfg.prefix THEN "score" ELSE "force"
          /\ step' = step + 1
          /\ UNCHANGED status
       \/ /\ FailDecode
          /\ GiveUp("ERROR")
          /\ UNCHANGED step
    /\ UNCHANGED <<cfg, token, selected, emitted, traced, stop_reason, files>>

Score ==
    /\ pc = "score"
    /\ \E k \in Kinds :
         /\ token' = k
         /\ selected' = Append(selected, k)
         /\ stop_reason' = IF IsEos(k) THEN "MODEL_EOS"
                           ELSE IF ShouldStop(k) THEN "STRUCTURAL_CONTROL"
                           ELSE "DECODE_LIMIT"
    /\ pc' = "ran"
    /\ UNCHANGED <<session, cfg, status, step, emitted, traced, files>>

-------------------------------------------------------------------------------
(* Mutant: a failed run writes its artifacts like a completed one. *)
FailedWriting ==
    /\ pc = "ran"
    /\ status # "OK"
    /\ stop_reason' = IF stop_reason # "NONE" THEN stop_reason ELSE "RUNTIME_ERROR"
    /\ pc' = "report"
    /\ UNCHANGED <<session, cfg, status, loop, files>>

(* The run is over.  A failed one goes to the report of its failure. *)
Failed ==
    /\ pc = "ran"
    /\ status # "OK"
    /\ stop_reason' = IF stop_reason # "NONE" THEN stop_reason
                      ELSE IF status = "LIMIT_EXCEEDED" /\ Len(seq) >= MaxTokens
                        THEN "CONTEXT_LIMIT" ELSE "RUNTIME_ERROR"
    /\ pc' = "out"
    /\ UNCHANGED <<session, cfg, status, loop, files>>

(* A completed one finalizes its intra-layer record first. *)
Completed ==
    /\ pc = "ran"
    /\ status = "OK"
    /\ IF opts.intra
         THEN /\ Finalize
              /\ IF stages' = "ready" THEN pc' = "report" /\ UNCHANGED status
                 ELSE pc' = "out" /\ status' = "ERROR"
         ELSE pc' = "report" /\ UNCHANGED <<session, status>>
    /\ UNCHANGED <<cfg, loop, stop_reason, files>>

(* Mutant: the result of the writer is not looked at. *)
WriteReportUnchecked ==
    /\ pc = "report"
    /\ report' \in {NoReport, Torn, Report}
    /\ artifact_emitted' = TRUE
    /\ pc' = "trace"
    /\ UNCHANGED <<session, cfg, status, loop, stop_reason, layer_file>>

(* lis_cli_write_execution_artifact, JSON and then Markdown: a failure leaves *)
(* no JSON, a piece of it, or all of it.  The writers look at what fopen and *)
(* fclose return and at no fprintf or fputs: success may leave a piece too.  *)
WriteReport ==
    /\ pc = "report"
    /\ \/ /\ report' \in {Torn, Report}
          /\ artifact_emitted' = TRUE
          /\ pc' = "trace"
          /\ UNCHANGED status
       \/ /\ report' \in {NoReport, Torn, Report}
          /\ pc' = "out"
          /\ status' = "ERROR"
          /\ UNCHANGED artifact_emitted
    /\ UNCHANGED <<session, cfg, loop, stop_reason, layer_file>>

(* lis_cli_write_trace_artifact: a failure is remembered, and the run goes on. *)
WriteTrace ==
    /\ pc = "trace"
    /\ status' \in {"OK", "ERROR"}
    /\ pc' = IF opts.emit THEN "layer_trace" ELSE "out"
    /\ UNCHANGED <<session, cfg, loop, stop_reason, files>>

(* The layer trace is suppressed when the capture failed.  Its writer, too,  *)
(* looks at fopen and fclose only.                                           *)
WriteLayerTrace ==
    /\ pc = "layer_trace"
    /\ pc' = "out"
    /\ IF layers = "unusable"
         THEN status' = "ERROR" /\ UNCHANGED layer_file
         ELSE \/ layer_file' \in {layers, "torn"} /\ UNCHANGED status
              \/ layer_file' \in {"none", "torn"} /\ status' = "ERROR"
    /\ UNCHANGED <<session, cfg, loop, stop_reason, report, artifact_emitted>>

(* Mutant: a report that could not be written is tried again. *)
FinishRetrying ==
    /\ pc = "out"
    /\ IF artifact_emitted \/ cfg.prefix > 0
         THEN pc' = "done" /\ UNCHANGED report
         ELSE \/ report' \in {Torn, Report} /\ pc' = "done"
              \/ report' \in {NoReport, Torn} /\ UNCHANGED pc
    /\ UNCHANGED <<session, cfg, status, loop, stop_reason, artifact_emitted, layer_file>>

(* out: the report that was not written yet, unless a prefix was forced. *)
Finish ==
    /\ pc = "out"
    /\ pc' = "done"
    /\ IF artifact_emitted \/ cfg.prefix > 0
         THEN UNCHANGED <<report, status>>
         ELSE \/ report' \in {Torn, Report} /\ UNCHANGED status
              \/ /\ report' \in {report, Torn, Report}
                 /\ status' = IF status = "OK" THEN "ERROR" ELSE status
    /\ UNCHANGED <<session, cfg, loop, stop_reason, artifact_emitted, layer_file>>

DriverStep ==
    \/ CallPrefill
    \/ Select
    \/ CallDecode
    \/ Emit
    \/ ForcePrefix
    \/ Score
    \/ Failed
    \/ Completed
    \/ WriteReport
    \/ WriteTrace
    \/ WriteLayerTrace
    \/ Finish

(* The process has exited. *)
Exited == pc = "done" /\ UNCHANGED vars

GNext == DriverStep \/ Exited
GSpec == GInit /\ [][GNext]_vars /\ WF_vars(DriverStep)

-------------------------------------------------------------------------------
(* The report's token lists, the trace and the runtime agree at every step:  *)
(* what was emitted was selected, at most the last selected token was not    *)
(* emitted, and every emitted token, in this order, is in the sequence the   *)
(* next logits come from (docs/architecture.md: the step that hits the       *)
(* context limit does not append).                                           *)
TokensAgree ==
    /\ Len(selected) \in {Len(emitted), Len(emitted) + 1}
    /\ emitted = SubSeq(selected, 1, Len(emitted))
    /\ cfg.prefix = 0 => /\ Len(traced) = Len(selected)
                         /\ \A i \in DOMAIN traced : traced[i].token = selected[i]
    /\ cfg.prefix = 0 /\ pc \in {"select", "decode", "out"} /\ status # "ERROR" =>
         Len(seq) = (IF seq = <<>> THEN 0 ELSE cfg.prompt) + Len(emitted)

(* The report gives the reason the tokens in it show, for a run that        *)
(* succeeded and for one that hit the context limit; and no run went on     *)
(* past an EOS or a stop token that it then reports as an ordinary one.     *)
ReportReasonIsRight ==
    LET last == report.selected[Len(report.selected)] IN
    /\ \A i \in 1 .. Len(selected) - 1 : selected[i] = "plain"
    /\ \A i \in 1 .. Len(traced) - 1 : traced[i].stop = "NONE"
    /\ report.status = "OK" =>
         CASE report.stop = "MODEL_EOS"          -> IsEos(last)
           [] report.stop = "STRUCTURAL_CONTROL" -> last = "control" /\ report.selected # report.emitted
           [] report.stop = "DECODE_LIMIT"       -> /\ last = "plain"
                                                    /\ cfg.prefix = 0 => Len(report.emitted) = cfg.limit
           [] OTHER -> FALSE
    /\ report.status = "LIMIT_EXCEEDED" =>
         IF cfg.prompt > MaxTokens THEN report.stop = "RUNTIME_ERROR"
         ELSE /\ report.stop = "CONTEXT_LIMIT"
              /\ cfg.prompt + Len(report.emitted) = MaxTokens

(* An exit of success never stands for a report or a layer trace that was   *)
(* not written, for a capture that failed, or for a report of an earlier     *)
(* status or other tokens: what can be read whole is the run's own.  It is   *)
(* no promise that the files are whole, which the unchecked writes cannot    *)
(* give.                                                                     *)
SuccessIsReported ==
    pc = "done" /\ status = "OK" =>
        /\ report \in {Torn, Report}
        /\ opts.emit => /\ layers \in {"empty", "complete"}
                        /\ layer_file \in {layers, "torn"}

(* A layer trace that can be read whole holds every selected layer of the   *)
(* target step, or none because the run stopped before that step.           *)
LayerFileIsWhole ==
    /\ layer_file # "partial"
    /\ layer_file = "empty" => steps < opts.target
    /\ layer_file = "complete" => steps >= opts.target
    /\ layer_file # "none" /\ opts.intra => stages = "ready" /\ steps >= opts.target

(* The driver always reaches its exit. *)
Terminates == <>(pc = "done")

(* docs/differential_verification.md, of a forced prefix of N tokens: the   *)
(* Pass-2 verification checks "checkpoint capture at runtime checkpoint     *)
(* step N + 1".  The run that is accepted with that checkpoint decodes only *)
(* the N prefix tokens.                                                     *)
ForcedPrefixReachesTarget ==
    pc = "done" /\ status = "OK" /\ cfg.prefix > 0 /\ opts.emit =>
        layers = "complete"
===============================================================================
