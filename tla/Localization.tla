----------------------------- MODULE Localization ----------------------------
(***************************************************************************)
(* Passes 1 to 4 of tools/lis_verify as functions of their evidence: the   *)
(* first selected token two runs differ in, whether reruns reproduced the  *)
(* boundary before it, the first captured layer output and the first       *)
(* captured stage of that layer whose digests differ.                      *)
(*                                                                         *)
(* Generated steps, layers and stages are counted from 0.  A report is a   *)
(* record [level, ids, config], a rerun has the forced prefix it reports   *)
(* and its layer trace besides: the step and layer it was asked for, what  *)
(* it captured, and the digests.                                           *)
(***************************************************************************)
EXTENDS Integers, Sequences, FiniteSets, SequencesExt, FiniteSetsExt

CONSTANT StageCount  \* the stages of a layer, in the order they are computed

ASSUME LocalizationAssumption == StageCount \in Nat \ {0}

Stages == 0 .. StageCount - 1

NoStep  == -1
NoToken == "none"
Entry   == -1          \* "entry" and "selected_layer_entry", before the first
Output  == StageCount  \* "parent:layer_output", after the last stage

-----------------------------------------------------------------------------
(* Pass 1 *)
TokenAt(ids, step) == IF step < Len(ids) THEN ids[step + 1] ELSE NoToken

Shorter(ref, cand) == IF Len(ref) < Len(cand) THEN Len(ref) ELSE Len(cand)

\* locate_first_selected_token_mismatch, for a pair that is not equal
FirstMismatchStep(ref, cand) ==
    LET differing == {n \in 0 .. Shorter(ref, cand) - 1 : ref[n + 1] # cand[n + 1]}
    IN  IF differing = {} THEN Shorter(ref, cand) ELSE Min(differing)

NoLocation(status) ==
    [status |-> status, step |-> NoStep, reference |-> NoToken, candidate |-> NoToken,
     prefix |-> <<>>]

Located(ref, cand) ==
    LET step == FirstMismatchStep(ref, cand) IN
    [status |-> "first_mismatch_found", step |-> step,
     reference |-> TokenAt(ref, step), candidate |-> TokenAt(cand, step),
     prefix |-> SubSeq(ref, 1, step)]

\* Mutant: tokens are compared up to the end of the shorter output.
RunTokenLocalizationZip(proceed, ref, cand) ==
    LET levels == {ref.level, cand.level} IN
    IF ~proceed THEN NoLocation("comparison_blocked_by_pass0")
    ELSE IF levels = {"digest_only"} THEN NoLocation("selected_token_identity_unverified")
    ELSE IF levels # {"array_exact"} THEN NoLocation("selected_token_array_missing")
    ELSE IF \A n \in 1 .. Shorter(ref.ids, cand.ids) : ref.ids[n] = cand.ids[n] THEN NoLocation("token_equivalent_on_observed_range")
    ELSE Located(ref.ids, cand.ids)

RunTokenLocalization(proceed, ref, cand) ==
    LET levels == {ref.level, cand.level} IN
    IF ~proceed THEN NoLocation("comparison_blocked_by_pass0")
    ELSE IF levels = {"digest_only"} THEN NoLocation("selected_token_identity_unverified")
    ELSE IF levels # {"array_exact"} THEN NoLocation("selected_token_array_missing")
    ELSE IF ref.ids = cand.ids THEN NoLocation("token_equivalent_on_observed_range")
    ELSE Located(ref.ids, cand.ids)

Mismatch(pass1) == pass1.status = "first_mismatch_found"

\* Decode step n consumes the token selected at n - 1.
CheckpointStep(pass1) == pass1.step + 1
-----------------------------------------------------------------------------
(* Forced prefixes and Pass 2 *)

\* build_forced_prefix_metadata refuses a report without a config fingerprint.
BindsPrefix(report) == report.config # "none"

\* validate_forced_prefix_reproduction
ReproducesTarget(pass1, original, rerun) ==
    /\ rerun.forced = pass1.prefix
    /\ Len(rerun.ids) = 1
    /\ pass1.step < Len(original.ids)
    /\ rerun.ids[1] = original.ids[pass1.step + 1]

HasPrefix(prefix, report) == IsPrefix(prefix, report.ids)
RerunHasPrefix(prefix, rerun) ==
    IF rerun.forced = <<>> THEN HasPrefix(prefix, rerun) ELSE rerun.forced = prefix

\* run_prefix_policy_reproduction, for a mismatch and a pair of reruns of the
\* same binaries.  Nothing is compared when the mismatch is at the first token.
PrefixPolicyReproduction(pass1, originals, reruns) ==
    CASE \E r \in DOMAIN originals : originals[r].config = "none" -> "inconclusive"
      [] /\ \A r \in DOMAIN originals : originals[r].config # "none"
         /\ \/ pass1.prefix = <<>>
            \/ \A r \in DOMAIN originals : /\ HasPrefix(pass1.prefix, originals[r])
                                           /\ RerunHasPrefix(pass1.prefix, reruns[r])
             -> "reproduction_verified"
      [] OTHER -> "prefix_reproduction_failed"
-----------------------------------------------------------------------------
(* Pass 3 *)
LayerInterval(last_equal, layer) == [after |-> last_equal, upto |-> layer]

LayerLocalization(pass1, ref, cand) ==
    LET common  == ref.captured \cap cand.captured
        differ  == {l \in common : ref.layers[l] # cand.layers[l]}
        before  == {l \in common : l < Min(differ)}
        Result(status, layer, last_equal) ==
            [status |-> status, step |-> CheckpointStep(pass1), layer |-> layer,
             interval |-> LayerInterval(last_equal, layer)]
    IN  CASE common = {} -> Result("insufficient_common_coverage", Entry, Entry)
          [] common # {} /\ differ = {} ->
                 Result("no_mismatch_in_captured_coverage", Entry, Entry)
          [] OTHER -> Result("observable_mismatch_found", Min(differ),
                             IF before = {} THEN Entry ELSE Max(before))

LayerFound(pass3) == pass3.status = "observable_mismatch_found"
-----------------------------------------------------------------------------
(* Pass 4 *)

\* bind_pass4_parent_inputs: the gates on the two Pass 3 results and on the
\* traces the second came from.
BindsParents(discovery, authoritative, traces) ==
    /\ LayerFound(authoritative) /\ authoritative.step # 0
    /\ LayerFound(discovery)
    /\ discovery.layer = authoritative.layer
    /\ discovery.step = authoritative.step
    /\ \A r \in DOMAIN traces : traces[r].target = authoritative.layer

StageInterval(start, end) == [after |-> start, upto |-> end]

\* Mutant: the interval begins after the last equal stage of all.
IntraLayerLocalizationLastEqual(ref, cand) ==
    LET common == ref.stage_captured \cap cand.stage_captured
        differ == {s \in common : ref.stages[s] # cand.stages[s]}
        before == {s \in common : s \notin differ}
        Result(status, start, end) ==
            [status |-> status, interval |-> StageInterval(start, end)]
    IN  CASE common = {} ->
                 Result("insufficient_common_intra_layer_coverage", Entry, Entry)
          [] common # {} /\ differ = {} ->
                 Result("mismatch_bounded_to_inherited_closing_boundary",
                        Max(common), Output)
          [] OTHER ->
                 Result("observable_intra_layer_mismatch_found",
                        IF before = {} THEN Entry ELSE Max(before), Min(differ))

\* localize_bound_intra_layer_inputs
IntraLayerLocalization(ref, cand) ==
    LET common == ref.stage_captured \cap cand.stage_captured
        differ == {s \in common : ref.stages[s] # cand.stages[s]}
        before == {s \in common : s < Min(differ)}
        Result(status, start, end) ==
            [status |-> status, interval |-> StageInterval(start, end)]
    IN  CASE common = {} ->
                 Result("insufficient_common_intra_layer_coverage", Entry, Entry)
          [] common # {} /\ differ = {} ->
                 Result("mismatch_bounded_to_inherited_closing_boundary",
                        Max(common), Output)
          [] OTHER ->
                 Result("observable_intra_layer_mismatch_found",
                        IF before = {} THEN Entry ELSE Max(before), Min(differ))
=============================================================================
