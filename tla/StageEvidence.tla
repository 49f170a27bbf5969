----------------------------- MODULE StageEvidence -----------------------------
(***************************************************************************)
(* Gates 6 to 8 of Pass 4 and its result: the stages two runs captured     *)
(* inside the layer discovery had found are read (pass4_inputs), compared  *)
(* (pass4) and written as a result whose constructor checks it again       *)
(* (pass4_model, pass4_contract).                                          *)
(*   trace.intra  None, or [supported, step, layer, position, requested,   *)
(*                captured, missing, contract, payload, wellformed,        *)
(*                entries]                                                 *)
(*   entries      of [coordinate, phase, shape, precision, digest,         *)
(*                wellformed]                                              *)
(* A stage is its place in INTRA_LAYER_STAGES; its name, its tensor role   *)
(* and its execution ordinal are the same piece of information.            *)
(***************************************************************************)
EXTENDS ParentGates

CONSTANT StageCount  \* 17 in the code

ASSUME StageCountAssumption == StageCount \in Nat \ {0}

StageIds    == 0 .. StageCount - 1
StagePhase  == "decode"
StageDigest == "lis.intra.fp32le/v1"

StageCoordinate(step, layer, position, stage) ==
    [step |-> step, layer |-> layer, position |-> position, stage |-> stage]

\* requested_coordinates: every stage of one layer, in order.
RequestedStages(step, layer, position) ==
    [i \in 1 .. StageCount |-> StageCoordinate(step, layer, position, i - 1)]

StagePrecedes(a, b) ==
    \/ a.step < b.step
    \/ a.step = b.step /\ a.layer < b.layer
    \/ a.step = b.step /\ a.layer = b.layer /\ a.stage < b.stage

\* validate_coordinate_sequence: no coordinate twice, each after the last.
StagesInOrder(cs) ==
    IsInjective(cs) /\ \A i \in 2 .. Len(cs) : StagePrecedes(cs[i - 1], cs[i])

OnlyThose(cs, kept) == Picked(cs, {i \in DOMAIN cs : cs[i] \in kept})

\* Mutant: a side has to have captured every stage.
IsWholeLayer(requested, captured, missing) == captured = requested /\ missing = <<>>

\* IntraLayerSideCoverage
IsStagePartition(requested, captured, missing) ==
    /\ ToSet(captured) \subseteq ToSet(requested)
    /\ captured = OnlyThose(requested, ToSet(captured))
    /\ CoordinatesOf(missing) = OnlyThose(requested, ToSet(requested) \ ToSet(captured))
-----------------------------------------------------------------------------
(* Gate 6: the identity of the trace, and its layout. *)
TraceIdentity(outcome, s, trace) ==
    FirstRefusal(<< Gate(trace = outcome.bindings[s].trace,
                         "source_binding_inconsistent", "trace_sha_mismatch") >>)

SummaryDemand(passes, reason) == Gate(passes, "checkpoint_summary_malformed", reason)

StageLayout(intra) ==
    IF intra = None
    THEN FirstRefusal(<< Gate(FALSE, "unsupported_intra_layer_layout",
                              "intra_layout_or_taxonomy_unsupported") >>)
    ELSE FirstRefusal(
         << Gate(intra.supported,
                 "unsupported_intra_layer_layout", "intra_layout_or_taxonomy_unsupported"),
            SummaryDemand(intra.step >= 1 /\ intra.layer >= 0 /\ intra.position >= 0,
                          "coverage_partition_malformed"),
            SummaryDemand(StagesInOrder(intra.requested) /\ StagesInOrder(intra.captured),
                          "duplicate_or_out_of_order_coordinate"),
            SummaryDemand(\A i \in DOMAIN intra.missing : intra.missing[i].state # "captured",
                          "coverage_partition_malformed"),
            SummaryDemand(StagesInOrder(CoordinatesOf(intra.missing)),
                          "duplicate_or_out_of_order_coordinate"),
            Gate(intra.requested = RequestedStages(intra.step, intra.layer, intra.position),
                 "unsupported_intra_layer_layout", "requested_stage_set_unsupported"),
            SummaryDemand(intra.contract # Malformed, "digest_field_malformed"),
            SummaryDemand(IsStagePartition(intra.requested, intra.captured, intra.missing),
                          "coverage_partition_malformed") >>)

StageTarget(intra, target) ==
    FirstRefusal(
    << Gate(intra.step = target.step,
            "checkpoint_alignment_inconsistent", "step_alignment_mismatch"),
       Gate(intra.layer = target.layer,
            "checkpoint_alignment_inconsistent", "layer_alignment_mismatch") >>)

\* Gate 6 is completed for both sides before gate 7 looks at an entry.
StageLayouts(outcome, traces) ==
    LET ref  == traces["reference"].intra
        cand == traces["candidate"].intra
        layouts == FirstOf(<< StageLayout(ref), StageLayout(cand) >>)
    IN  IF layouts # Passed THEN layouts
        ELSE FirstOf(
             << FirstRefusal(<< Gate(ref.requested = cand.requested,
                    "unsupported_intra_layer_layout", "requested_stage_set_unsupported") >>),
                StageTarget(ref, outcome.target), StageTarget(cand, outcome.target) >>)
-----------------------------------------------------------------------------
(* Gate 7: the entries. *)
StageEntry(entry) ==
    FirstRefusal(
    << SummaryDemand(entry.wellformed, "summary_field_malformed"),
       Gate(entry.phase = StagePhase,
            "checkpoint_alignment_inconsistent", "phase_or_position_alignment_mismatch"),
       SummaryDemand(entry.digest # Malformed, "digest_field_malformed") >>)

StageEntries(intra) ==
    LET at == CoordinatesOf(intra.entries) IN
    FirstOf(
    << FirstRefusal(<< SummaryDemand(intra.payload = "none", "prohibited_payload_present"),
                       SummaryDemand(intra.wellformed, "summary_field_malformed") >>),
       EachInTurn(intra.entries, StageEntry),
       FirstRefusal(<< SummaryDemand(StagesInOrder(at), "duplicate_or_out_of_order_coordinate"),
                       SummaryDemand(at = intra.captured, "coverage_partition_malformed") >>) >>)

\* parse_pass4_intra_layer_inputs
ParseStages(outcome, traces) ==
    LET identities == FirstOf(<< TraceIdentity(outcome, "reference", traces["reference"]),
                                 TraceIdentity(outcome, "candidate", traces["candidate"]) >>)
        layouts == StageLayouts(outcome, traces)
        entries == FirstOf(<< StageEntries(traces["reference"].intra),
                              StageEntries(traces["candidate"].intra) >>)
    IN  IF identities # Passed THEN identities
        ELSE IF layouts # Passed THEN layouts
        ELSE entries
-----------------------------------------------------------------------------
(* Gate 8: what both sides captured is compared. *)
StageCoverage(reference, candidate, comparable) ==
    LET ref  == ToSet(reference.captured)
        cand == ToSet(candidate.captured)
    IN  [requested  |-> reference.requested,
         captured   |-> [reference |-> reference.captured, candidate |-> candidate.captured],
         common     |-> OnlyThose(reference.captured, cand),
         comparable |-> comparable,
         only       |-> [reference |-> OnlyThose(reference.captured, ref \ cand),
                         candidate |-> OnlyThose(candidate.captured, cand \ ref)]]

EntryAt(intra, coordinate) ==
    intra.entries[CHOOSE i \in DOMAIN intra.entries : intra.entries[i].coordinate = coordinate]

StageAlignment(reference, candidate, coordinate) ==
    LET left  == EntryAt(reference, coordinate)
        right == EntryAt(candidate, coordinate)
    IN  FirstRefusal(
        << Gate(left.shape = right.shape,
                "checkpoint_alignment_inconsistent", "shape_or_count_alignment_mismatch"),
           Gate(left.precision = right.precision,
                "checkpoint_alignment_inconsistent", "dtype_or_precision_alignment_mismatch") >>)

StagePolicy(reference, candidate) ==
    FirstRefusal(<< Gate(reference.contract = StageDigest /\ candidate.contract = StageDigest,
                         "comparison_policy_unavailable", "digest_contract_unknown") >>)

\* Every common stage is compared: there is no early end.
StageComparisons(reference, candidate, comparable) ==
    [i \in DOMAIN comparable |->
       [coordinate |-> comparable[i],
        equivalent |-> EntryAt(reference, comparable[i]).digest
                     = EntryAt(candidate, comparable[i]).digest]]

\* Mutant: the stage right after the last equal one is left out.
StagesStrictlyBetween(first, last, common) ==
    {stage \in first + 1 .. last : \A i \in DOMAIN common : common[i].stage # stage}
    \cap StageIds

StagesBetween(first, last, common) ==
    {stage \in first .. last : \A i \in DOMAIN common : common[i].stage # stage}
    \cap StageIds

\* From the last equal stage, or the entry of the layer, to the first that
\* differs, or to the layer output Pass 3 found different.
StageInterval(last, mismatch, common, parentMismatch) ==
    LET first == IF last = None THEN 0 ELSE last.stage + 1
        end   == IF mismatch = None THEN StageCount ELSE mismatch.stage
    IN  [start   |-> IF last = None THEN "selected_layer_entry" ELSE "local_coordinate",
         last    |-> last,
         end     |-> IF mismatch = None THEN "inherited_parent_boundary" ELSE "local_coordinate",
         mismatch |-> mismatch,
         parent  |-> IF mismatch = None THEN parentMismatch ELSE None,
         missing |-> StagesBetween(first, end, common)]
-----------------------------------------------------------------------------
(* Pass4Result *)
DispositionOf(status) ==
    CASE status \in {"observable_intra_layer_mismatch_found",
                     "mismatch_bounded_to_inherited_closing_boundary"}
                                                  -> "suspect_interval_available"
      [] status = "not_applicable"                -> "not_applicable"
      [] status \in {"unsupported_parent", "unsupported_intra_layer_layout"} -> "unsupported"
      [] status = "parent_revalidation_inconsistent" -> "inconclusive"
      [] OTHER                                    -> "blocked"

NoStages == [target |-> NoTarget, coverage |-> None, comparisons |-> <<>>,
             mismatch |-> None, last |-> None, closing |-> None, interval |-> None]

Pass4Result(outcome, refusal, stages) ==
    [status |-> refusal.status, reasons |-> <<refusal.reason>>,
     disposition |-> DispositionOf(refusal.status),
     parent |-> outcome.parent, bindings |-> outcome.bindings, stages |-> stages]

\* _merged_warnings, _warning_overflow_result: the inherited warnings leave no room
\* for the one that was added.
WarningsOverflow(outcome) ==
    outcome.warnings.added /\ OneMore(outcome.warnings.inherited) = "unfit"

OverflowResult ==
    Pass4Result([parent |-> None, bindings |-> NoBindings],
                [status |-> "comparison_blocked_by_pass3",
                 reason |-> "parent_typed_artifact_incoherent"], NoStages)

AsymmetricStages(coverage) == \E s \in Sides : coverage.only[s] # <<>>

Localized(outcome, at, reference, candidate) ==
    LET common    == at.coverage.comparable
        compared  == StageComparisons(reference, candidate, common)
        differing == {i \in DOMAIN compared : ~compared[i].equivalent}
        first     == FirstIn(differing)
        mismatch  == IF differing = {} THEN None ELSE compared[first].coordinate
        last      == IF differing = {} THEN compared[Len(compared)].coordinate
                     ELSE IF first = 1 THEN None ELSE compared[first - 1].coordinate
        parentMismatch == outcome.parent.localization.mismatch
        stages == [at EXCEPT !.comparisons = compared, !.mismatch = mismatch, !.last = last,
                             !.closing = IF differing = {} THEN parentMismatch ELSE None,
                             !.interval = StageInterval(last, mismatch, common, parentMismatch)]
        found == IF differing = {}
                 THEN [status |-> "mismatch_bounded_to_inherited_closing_boundary",
                       reason |-> "no_local_mismatch_before_inherited_boundary"]
                 ELSE [status |-> "observable_intra_layer_mismatch_found",
                       reason |-> "local_digest_mismatch"]
        result == Pass4Result(outcome, found, stages)
    IN  IF AsymmetricStages(at.coverage)
        THEN [result EXCEPT !.reasons = Append(@, "asymmetric_coverage_retained")]
        ELSE result

\* localize_bound_intra_layer_inputs, for an outcome that proceeds.
LocalizeStages(outcome, traces) ==
    LET ref  == traces["reference"].intra
        cand == traces["candidate"].intra
        captured == StageCoverage(ref, cand, <<>>)
        coverage == StageCoverage(ref, cand, captured.common)
        target   == [step |-> outcome.target.step, layer |-> outcome.target.layer,
                     precision |-> outcome.target.precision, position |-> ref.position]
        aligned  == EachInTurn(captured.common, LAMBDA c : StageAlignment(ref, cand, c))
        policy   == StagePolicy(ref, cand)
        at(found) == [NoStages EXCEPT !.target = target, !.coverage = found]
    IN  IF captured.common = <<>>
        THEN Pass4Result(outcome, [status |-> "insufficient_common_intra_layer_coverage",
                                   reason |-> "no_common_captured_coordinates"], at(captured))
        ELSE IF aligned # Passed THEN Pass4Result(outcome, aligned, at(captured))
        ELSE IF policy # Passed THEN Pass4Result(outcome, policy, at(coverage))
        ELSE Localized(outcome, at(coverage), ref, cand)
-----------------------------------------------------------------------------
(* What the constructor of Pass4Result insists on. *)
ParentFailures == {"not_applicable", "comparison_blocked_by_pass3", "unsupported_parent",
                   "parent_revalidation_inconsistent"}
Localizations  == {"observable_intra_layer_mismatch_found",
                   "mismatch_bounded_to_inherited_closing_boundary"}
AfterCoverage  == Localizations \cup
    {"insufficient_common_intra_layer_coverage", "comparison_policy_unavailable"}
BeforeCoverage == ParentFailures \cup
    {"source_binding_inconsistent", "unsupported_intra_layer_layout",
     "checkpoint_summary_malformed"}

\* FIELD_POLICY: a status keeps the evidence of the gates it passed.
KeepsItsEvidence(result) ==
    LET at == result.stages
        bound == \A s \in Sides : result.bindings[s] # None
    IN  /\ result.status # "comparison_blocked_by_pass3" => result.parent # None
        /\ result.status \in ParentFailures => \A s \in Sides : result.bindings[s] = None
        /\ result.status \notin ParentFailures \cup {"source_binding_inconsistent"} => bound
        /\ result.status \in AfterCoverage => at.target # NoTarget /\ at.coverage # None
        /\ result.status \in ParentFailures \cup {"source_binding_inconsistent"} =>
              at.target = NoTarget
        /\ result.status \in BeforeCoverage => at.coverage = None
        /\ result.status \in Localizations <=> at.comparisons # <<>>
        /\ result.status \in Localizations <=> at.interval # None
        /\ result.status = "observable_intra_layer_mismatch_found" <=> at.mismatch # None
        /\ result.status = "mismatch_bounded_to_inherited_closing_boundary"
              <=> at.closing # None
        /\ at.last # None => result.status \in Localizations

CoverageIsOfTarget(result) ==
    LET at == result.stages IN
    at.coverage # None =>
        /\ result.parent.step = at.target.step /\ result.parent.layer = at.target.layer
        /\ at.coverage.requested =
             RequestedStages(at.target.step, at.target.layer, at.target.position)
        /\ (result.status = "insufficient_common_intra_layer_coverage") =
           (at.coverage.common = <<>>)

\* validate_interval_against_coverage
StageIntervalIsExact(interval, comparable, mismatch, parentMismatch) ==
    LET first == IF interval.last = None THEN 0 ELSE interval.last.stage + 1
        end   == IF mismatch = None THEN StageCount ELSE mismatch.stage
    IN  /\ interval.mismatch = mismatch
        /\ interval.parent = IF mismatch = None THEN parentMismatch ELSE None
        /\ interval.last # None /\ mismatch # None => StagePrecedes(interval.last, mismatch)
        /\ mismatch # None => mismatch \in ToSet(comparable)
        /\ interval.missing = StagesBetween(first, end, comparable)

ComparisonIsExact(result) ==
    LET at == result.stages
        differing == {i \in DOMAIN at.comparisons : ~at.comparisons[i].equivalent}
        first == FirstIn(differing)
    IN  /\ CoordinatesOf(at.comparisons) = at.coverage.comparable
        /\ at.interval.last = at.last
        /\ StageIntervalIsExact(at.interval, at.coverage.comparable, at.mismatch,
                                result.parent.localization.mismatch)
        /\ IF at.mismatch # None
           THEN /\ differing # {} /\ at.mismatch = at.comparisons[first].coordinate
                /\ at.last = IF first = 1 THEN None ELSE at.comparisons[first - 1].coordinate
           ELSE /\ differing = {}
                /\ at.last = at.comparisons[Len(at.comparisons)].coordinate
                /\ at.closing = result.parent.localization.mismatch

\* validate_status_algebra
StatusIsCoherent(result) ==
    /\ result.disposition = DispositionOf(result.status)
    /\ IsInjective(result.reasons) /\ result.reasons[1] \in ReasonsOf(result.status)
    /\ "asymmetric_coverage_retained" \in ToSet(result.reasons) =>
          /\ result.status \in Localizations
          /\ AsymmetricStages(result.stages.coverage)

Pass4ResultIsValid(result) ==
    /\ StatusIsCoherent(result)
    /\ KeepsItsEvidence(result)
    /\ result.parent # None =>
          result.parent.classification = Classification(result.status)
    /\ CoverageIsOfTarget(result)
    /\ result.status \in Localizations => ComparisonIsExact(result)
=============================================================================
