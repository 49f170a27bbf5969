----------------------------- MODULE Calibration -----------------------------
(***************************************************************************)
(* Pass 0 of tools/lis_verify: may two runs be compared, and how strongly? *)
(* The four calibrators of domains.py, the aggregation of pass0.py with    *)
(* the severities of reason_codes.py, and the gate of gate.py.             *)
(*                                                                         *)
(* A side is a record of what one run's report says, NoValue standing for  *)
(* what it does not say.  Reason codes no severity depends on are left out *)
(* (the FMA and reduction-order remarks, and what the report says of an    *)
(* external oracle, which this repository never consults).                 *)
(***************************************************************************)
NoValue == "none"

\* The build profile: the default policy, the families whose rms_norm_eps is
\* bound at run time, and whether KV writes round to nearest even.
Profile(penalty, suppression, eps_bound, rne) ==
    [penalty |-> penalty, suppression |-> suppression,
     eps_bound |-> eps_bound, rne |-> rne]

\* default_build_profile: a non-neutral penalty, suppression, Llama's epsilon fixed.
DefaultProfile == Profile("non_neutral", "on", {"qwen3_dense_decoder"}, FALSE)

\* RunSide.from_run_report: a real run has direct tokens and no policy override.
RunSide(family, config, backend, prompt) ==
    [family |-> family, config |-> config, backend |-> backend, input |-> "tokens",
     prompt_array |-> prompt, prompt_digest |-> NoValue,
     penalty |-> NoValue, suppression |-> NoValue]

Known(a, b) == a # NoValue /\ b # NoValue
Or(value, default) == IF value = NoValue THEN default ELSE value

(* calibrate_decode_policy *)
Policy(side, profile) ==
    [penalty     |-> Or(side.penalty, profile.penalty),
     suppression |-> Or(side.suppression, profile.suppression)]

DecodePolicyCodes(ref, cand, profile) ==
    LET policy == Policy(ref, profile) IN
    IF policy # Policy(cand, profile) THEN {"incompatible_decode_policy"}
    ELSE   (IF policy.penalty = "non_neutral" THEN {"policy_modified_greedy"} ELSE {})
      \cup (IF policy.suppression = "on" THEN {"decode_policy_not_raw"} ELSE {})

(* calibrate_tokenizer *)
PromptIdentityEvidence(ref, cand) ==
    CASE Known(ref.prompt_array, cand.prompt_array) ->
             IF ref.prompt_array = cand.prompt_array THEN "array_equal" ELSE "divergent"
      [] /\ ~Known(ref.prompt_array, cand.prompt_array)
         /\ Known(ref.prompt_digest, cand.prompt_digest)
         /\ ref.prompt_digest = cand.prompt_digest -> "digest_only"
      [] OTHER -> "unverified"

TokenizerCodes(ref, cand) ==
    LET direct   == ref.input = "tokens" /\ cand.input = "tokens"
        evidence == PromptIdentityEvidence(ref, cand)
        boundary == IF direct THEN {} ELSE {"text_prompt_boundary"}
    IN  IF evidence = "divergent" THEN boundary \cup {"input_token_divergence"}
        ELSE boundary
             \cup (IF Known(ref.prompt_array, cand.prompt_array) THEN {}
                   ELSE {"prompt_token_array_missing"})
             \cup (IF evidence = "array_equal" THEN {}
                   ELSE {"prompt_token_identity_unverified"})
             \cup (IF direct /\ evidence = "array_equal" THEN {}
                   ELSE {"tokenizer_boundary_uncalibrated"})

(* calibrate_config, and the comparison of the model families *)
ConfigCodes(ref, cand, profile) ==
    LET bound == ref.family \in profile.eps_bound
        equal == Known(ref.config, cand.config) /\ ref.config = cand.config
    IN  (CASE ~Known(ref.config, cand.config) -> {"runtime_config_fingerprint_missing"}
           [] ref.config = cand.config        -> {}
           [] OTHER                           -> {"config_fingerprint_mismatch"})
        \cup (IF bound THEN {}
              ELSE {"rms_norm_eps_runtime_unbound", "requires_fix_or_guard"})
        \cup (IF bound /\ equal THEN {} ELSE {"config_semantics_uncalibrated"})

FamilyCodes(ref, cand) ==
    IF Known(ref.family, cand.family) /\ ref.family # cand.family
    THEN {"incompatible_model_family"} ELSE {}

(* calibrate_numeric *)
NumericCodes(ref, cand, profile) ==
    (IF profile.rne THEN {}
     ELSE {"kv_write_rounding_unverified", "numeric_policy_uncalibrated"})
    \cup (IF Known(ref.backend, cand.backend) /\ ref.backend # cand.backend
          THEN {"tolerance_caveat"} ELSE {})

(***************************************************************************)
(* run_calibration_preflight and build_gate.  Without a submode a config   *)
(* mismatch is escalated to a block; every other code that is left has one *)
(* severity in the modes LIS compares itself in.                           *)
(***************************************************************************)
ReasonCodes(ref, cand, profile) ==
    DecodePolicyCodes(ref, cand, profile) \cup TokenizerCodes(ref, cand)
    \cup ConfigCodes(ref, cand, profile) \cup FamilyCodes(ref, cand)
    \cup NumericCodes(ref, cand, profile)

EffectiveSeverity(code, submode) ==
    CASE code \in {"incompatible_decode_policy", "input_token_divergence",
                   "incompatible_model_family"} -> "block"
      [] code = "config_fingerprint_mismatch" ->
             IF submode = "configuration_equivalence" THEN "informational" ELSE "block"
      [] OTHER -> "downgrade"

Pass0Verdict(codes, submode) ==
    LET severities == {EffectiveSeverity(code, submode) : code \in codes} IN
    CASE "block" \in severities -> "comparison_blocked"
      [] "block" \notin severities /\ "downgrade" \in severities ->
             "limited_comparison_allowed"
      [] OTHER -> "comparison_allowed"

CalibrationPreflight(ref, cand, profile, submode) ==
    LET codes == ReasonCodes(ref, cand, profile) IN
    [codes |-> codes, verdict |-> Pass0Verdict(codes, submode),
     prompt |-> PromptIdentityEvidence(ref, cand)]

Proceed(pass0) == pass0.verdict # "comparison_blocked"
=============================================================================
