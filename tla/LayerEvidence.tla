---------------------------- MODULE LayerEvidence ----------------------------
(***************************************************************************)
(* Pass 3 of tools/lis_verify: which files it accepts for the two sides,   *)
(* what of a layer trace it accepts, how it compares the layers both sides *)
(* captured, and what its artifact says of that.                           *)
(*                                                                         *)
(* The SHA-256 of a canonical artifact is modelled by the artifact it is   *)
(* taken of, so equal hashes are equal artifacts and nothing else.         *)
(*   report    [kind, set, manifest]                                       *)
(*   trace     [kind, set, manifest, payload, layout, summaries, intra]    *)
(*   manifest  [family, precision, step, intra, setup]: intra is the layer *)
(*             whose stages the run captured (Absent: none), setup stands  *)
(*             for the fields two generations of one verification share    *)
(*   layout    [supported, step, total, requested, captured, missing,      *)
(*             contract]                                                   *)
(*   summary   [coordinate, shape, digest, wellformed]                     *)
(*   pass2     [status, tier, generated, step, localization, original,     *)
(*              reproduction, warnings]: localization stands for the       *)
(*              Pass 1 artifact                                            *)
(*   warnings  the lists of short texts that are handed on from pass to    *)
(*             pass, warnings and reasons of earlier passes: "few" leaves  *)
(*             room for another one, "full" is MAX_WARNINGS warnings, and  *)
(*             of "unfit" a list has more, or an entry that is empty, too  *)
(*             long or repeated                                            *)
(* A text no reader could accept is Malformed, a missing number Absent, a  *)
(* missing object, and an artifact set id that is missing or malformed,    *)
(* None.                                                                   *)
(***************************************************************************)
EXTENDS Gates, FiniteSets, SequencesExt

CONSTANT MaxComparisons  \* MAX_SERIALIZED_COMPARISONS, 256 in the code

ASSUME MaxComparisonsAssumption == MaxComparisons \in Nat

Sides       == {"reference", "candidate"}
Malformed   == "malformed"
Absent      == -1
None        == <<>>
RequestOnly == "reproduction_request_only"
Independent == "independent_rerun_verified"
Contract    == "lis.checkpoint.fp32le/v1"
Family      == "llama3_decoder"
-----------------------------------------------------------------------------
(* Coordinates of layer outputs: [step, layer, ordinal].  Role, batch,
   sequence and stage are the same for all of them. *)
LogicalKey(c) == <<c.step, c.layer>>

Precedes(a, b) ==
    \/ a.step < b.step
    \/ a.step = b.step /\ a.layer < b.layer
    \/ a.step = b.step /\ a.layer = b.layer /\ a.ordinal < b.ordinal

\* A set of integers in ascending order, and the elements of a sequence at some of
\* its positions, in their order.  These are SetToSortSeq and SelectSeq, as counting
\* gives them: the provers know neither of the two, and both know counting.
Ascending(set) ==
    [n \in 1 .. Cardinality(set) |-> CHOOSE x \in set : Cardinality({y \in set : y < x}) = n - 1]

Picked(s, positions) ==
    LET at == Ascending(positions) IN [n \in DOMAIN at |-> s[at[n]]]

Keys(cs)              == {LogicalKey(cs[i]) : i \in DOMAIN cs}
WithKeys(cs, keys)    == Picked(cs, {i \in DOMAIN cs : LogicalKey(cs[i]) \in keys})
WithoutKeys(cs, keys) == Picked(cs, {i \in DOMAIN cs : LogicalKey(cs[i]) \notin keys})

\* No key twice, every coordinate after the one before it: at each position
\* the duplicate is looked for first.
CoordinateOrder(cs) ==
    FirstOf([i \in DOMAIN cs |->
        FirstRefusal(
        << Gate(LogicalKey(cs[i]) \notin Keys(SubSeq(cs, 1, i - 1)),
                "checkpoint_alignment_inconsistent", "duplicate_checkpoint_coordinate"),
           Gate(i = 1 \/ Precedes(cs[i - 1], cs[i]),
                "checkpoint_alignment_inconsistent", "checkpoint_alignment_inconsistent") >>)])
-----------------------------------------------------------------------------
(* Gate A: Pass 2 is ready, and the artifact handed over with it is the one
   its result is written as. *)
TypedPass2Ready(pass2) ==
    FirstRefusal(
    << Gate(pass2.tier # RequestOnly,
            "comparison_blocked_by_pass2", "reproduction_request_only"),
       Gate(/\ pass2.status = "reproduction_verified"
            /\ pass2.generated >= 0
            /\ pass2.step = pass2.generated + 1,
            "comparison_blocked_by_pass2", "pass2_not_ready") >>)

Pass2ArtifactCoheres(pass2, artifact) ==
    FirstRefusal(
    << Gate(artifact.status # Malformed,
            "comparison_blocked_by_pass2", "pass2_artifact_identity_inconsistent"),
       Gate(artifact = pass2,
            "comparison_blocked_by_pass2", "pass2_object_artifact_inconsistent") >>)

\* The reports Pass 2 speaks of: those of the reruns when it compared reruns.
SelectedSources(pass2) ==
    IF pass2.tier = Independent THEN pass2.reproduction ELSE pass2.original

SourceRoles(pass2) ==
    IF pass2.tier = Independent
    THEN [reference |-> "reference_reproduction", candidate |-> "candidate_reproduction"]
    ELSE [reference |-> "reference_original", candidate |-> "candidate_original"]

(* Gate B: the report is the one Pass 2 names for the side, and the trace was
   written by the run that wrote the report, for the step of the mismatch. *)
ReportIsBound(pass2, side, report) ==
    FirstRefusal(
    << Gate(report = SelectedSources(pass2)[side],
            "source_binding_inconsistent", "run_report_canonical_sha_inconsistent") >>)

RunReportBinding(pass2, report, trace) ==
    FirstRefusal(
    << Gate(trace.kind = "layer_trace" /\ trace.set # None,
            "source_binding_inconsistent", "binding_metadata_missing"),
       Gate(trace.layout.step # Absent,
            "unsupported_checkpoint_layout", "unsupported_checkpoint_layout"),
       Gate(trace.layout.step = pass2.step,
            "checkpoint_alignment_inconsistent", "runtime_checkpoint_step_mismatch"),
       Gate(report.kind = "run_report" /\ report.set # None,
            "source_binding_inconsistent", "binding_metadata_missing"),
       Gate(report.set = trace.set,
            "source_binding_inconsistent", "artifact_set_id_inconsistent"),
       Gate(report.manifest = trace.manifest,
            "source_binding_inconsistent", "source_binding_inconsistent"),
       Gate(report.manifest.step = pass2.step,
            "checkpoint_alignment_inconsistent", "runtime_checkpoint_step_mismatch") >>)

\* Both hashes are compared before anything of either side is read.
BothSourceBindings(pass2, reports, traces) ==
    FirstOf(
    << FirstRefusal(<< Gate(\A s \in Sides : SelectedSources(pass2)[s] # None,
                            "source_binding_inconsistent", "binding_metadata_missing") >>),
       ReportIsBound(pass2, "reference", reports["reference"]),
       ReportIsBound(pass2, "candidate", reports["candidate"]),
       RunReportBinding(pass2, reports["reference"], traces["reference"]),
       RunReportBinding(pass2, reports["candidate"], traces["candidate"]) >>)

SourceBinding(role, report, trace) ==
    [role |-> role, report |-> report, trace |-> trace,
     manifest |-> report.manifest, set |-> trace.set]
-----------------------------------------------------------------------------
(* Gates C and D: layout, coverage, contract, summaries. *)
LayoutIsSupported(trace) ==
    FirstRefusal(
    << Gate(trace.payload # "tensor_values",
            "checkpoint_summary_malformed", "checkpoint_summary_malformed"),
       Gate(trace.layout.supported,
            "unsupported_checkpoint_layout", "unsupported_checkpoint_layout"),
       Gate(trace.layout.total > 0,
            "checkpoint_summary_malformed", "checkpoint_summary_malformed") >>)

CoverageIsDeclared(layout) ==
    LET missing == [i \in DOMAIN layout.missing |-> layout.missing[i].coordinate] IN
    FirstOf(
    << CoordinateOrder(layout.requested), CoordinateOrder(layout.captured),
       CoordinateOrder(missing),
       FirstRefusal(
       << Gate(/\ Keys(layout.captured) \cap Keys(missing) = {}
               /\ Keys(layout.requested) = Keys(layout.captured) \cup Keys(missing)
               /\ \A i \in DOMAIN layout.requested : layout.requested[i].layer < layout.total,
               "checkpoint_summary_malformed", "checkpoint_summary_malformed"),
          Gate(\A i \in DOMAIN layout.requested : layout.requested[i].step = layout.step,
               "checkpoint_alignment_inconsistent", "checkpoint_alignment_inconsistent") >>) >>)

ContractIsKnown(trace) ==
    FirstRefusal(
    << Gate(trace.layout.contract = Contract,
            "comparison_policy_unavailable", "checkpoint_digest_incompatible"),
       Gate(trace.manifest.family = Family,
            "unsupported_checkpoint_layout", "unsupported_checkpoint_layout"),
       Gate(trace.manifest.precision # Malformed,
            "checkpoint_summary_malformed", "checkpoint_summary_malformed") >>)

SummaryIsRead(summary) ==
    FirstRefusal(
    << Gate(summary.wellformed,
            "checkpoint_summary_malformed", "checkpoint_summary_malformed"),
       Gate(summary.digest # "missing",
            "comparison_policy_unavailable", "summary_field_missing"),
       Gate(summary.digest # Malformed,
            "comparison_policy_unavailable", "checkpoint_digest_incompatible") >>)

SummariesAreCaptured(trace) ==
    LET at == [i \in DOMAIN trace.summaries |-> trace.summaries[i].coordinate] IN
    FirstOf(
    << CoordinateOrder(at),
       FirstRefusal(
       << Gate(Keys(at) = Keys(trace.layout.captured),
               "checkpoint_summary_malformed", "checkpoint_summary_malformed"),
          Gate(at = trace.layout.captured,
               "checkpoint_alignment_inconsistent", "checkpoint_alignment_inconsistent") >>) >>)

NormalizeLayerTrace(trace) ==
    FirstOf(<< LayoutIsSupported(trace), CoverageIsDeclared(trace.layout),
               ContractIsKnown(trace), EachInTurn(trace.summaries, SummaryIsRead),
               SummariesAreCaptured(trace) >>)
-----------------------------------------------------------------------------
(* The comparison, over what both sides captured. *)
SummaryAt(trace, key) ==
    trace.summaries[CHOOSE i \in DOMAIN trace.summaries :
                        LogicalKey(trace.summaries[i].coordinate) = key]

\* Mutant: the comparison begins at the second common layer.
CoverageFromSecond(reference, candidate) ==
    LET ref  == reference.layout
        cand == candidate.layout
        common == WithKeys(ref.captured, Keys(cand.captured))
    IN  [requested  |-> [reference |-> ref.requested, candidate |-> cand.requested],
         captured   |-> [reference |-> ref.captured, candidate |-> cand.captured],
         missing    |-> [reference |-> ref.missing, candidate |-> cand.missing],
         common     |-> common,
         only       |-> [reference |-> WithoutKeys(ref.captured, Keys(cand.captured)),
                         candidate |-> WithoutKeys(cand.captured, Keys(ref.captured))],
         comparable |-> IF Len(common) > 1 THEN Tail(common) ELSE common]

CoverageOf(reference, candidate) ==
    LET ref  == reference.layout
        cand == candidate.layout
        common == WithKeys(ref.captured, Keys(cand.captured))
    IN  [requested  |-> [reference |-> ref.requested, candidate |-> cand.requested],
         captured   |-> [reference |-> ref.captured, candidate |-> cand.captured],
         missing    |-> [reference |-> ref.missing, candidate |-> cand.missing],
         common     |-> common,
         only       |-> [reference |-> WithoutKeys(ref.captured, Keys(cand.captured)),
                         candidate |-> WithoutKeys(cand.captured, Keys(ref.captured))],
         comparable |-> common]

Asymmetric(coverage) == \E s \in Sides : coverage.only[s] # <<>>

NoCoverage ==
    LET none == [reference |-> <<>>, candidate |-> <<>>]
    IN  [requested |-> none, captured |-> none, missing |-> none,
         common |-> <<>>, only |-> none, comparable |-> <<>>]

\* Two summaries of one key are of one tensor: shape, precision and ordinal.
Aligned(reference, candidate, coverage) ==
    \A i \in DOMAIN coverage.common :
        LET left  == SummaryAt(reference, LogicalKey(coverage.common[i]))
            right == SummaryAt(candidate, LogicalKey(coverage.common[i]))
        IN  /\ left.shape = right.shape
            /\ reference.manifest.precision = candidate.manifest.precision
            /\ left.coordinate.ordinal = right.coordinate.ordinal

Equivalent(reference, candidate, c) ==
    SummaryAt(reference, LogicalKey(c)).digest = SummaryAt(candidate, LogicalKey(c)).digest

\* Layer by layer, up to and including the first that differs.
Comparisons(reference, candidate, comparable) ==
    LET outcome == [i \in DOMAIN comparable |->
                      [coordinate |-> comparable[i],
                       equivalent |-> Equivalent(reference, candidate, comparable[i])]]
        differing == {i \in DOMAIN outcome : ~outcome[i].equivalent}
    IN  IF differing = {} THEN outcome ELSE SubSeq(outcome, 1, FirstIn(differing))

Interval(lastEqual, mismatch) ==
    IF lastEqual = None
    THEN [start |-> "runtime_entry", startExclusive |-> FALSE, endInclusive |-> TRUE,
          last |-> None, mismatch |-> mismatch, unobserved |-> 0 .. mismatch.layer - 1]
    ELSE [start |-> "observed_checkpoint", startExclusive |-> TRUE, endInclusive |-> TRUE,
          last |-> lastEqual, mismatch |-> mismatch,
          unobserved |-> lastEqual.layer + 1 .. mismatch.layer - 1]
-----------------------------------------------------------------------------
(* Pass3Result: what each outcome carries. *)
Tier1 == [level |-> "tier1_bounded_digest", field |-> "digest.value", contract |-> Contract]
NoDecision == [level |-> "unavailable", field |-> Malformed, contract |-> Malformed]
NoBindings == [reference |-> None, candidate |-> None]

Pass2Evidence(pass2) ==
    [tier |-> pass2.tier, generated |-> pass2.generated, step |-> pass2.step,
     localization |-> pass2.localization, original |-> pass2.original, reproduction |-> pass2.reproduction]

\* A list of warnings with one more that is new.
OneMore(warnings) == IF warnings = "few" THEN "few" ELSE "unfit"

Blocked(pass2, refusal) ==
    [status |-> refusal.status, disposition |-> "blocked", reasons |-> <<refusal.reason>>,
     pass2 |-> None, coherent |-> FALSE, evidence |-> None,
     sources |-> NoBindings, bound |-> FALSE, step |-> pass2.step,
     coverage |-> NoCoverage, comparisons |-> <<>>, last |-> None, mismatch |-> None,
     layer |-> Absent, interval |-> None, decision |-> NoDecision,
     warnings |-> pass2.warnings]

\* Gate A passed: the artifact is identified, and its evidence inherited.
WithPass2(result, pass2) ==
    [result EXCEPT !.pass2 = pass2, !.coherent = TRUE, !.evidence = Pass2Evidence(pass2)]

\* Gate B passed: both sources are bound.
WithSources(result, pass2, reports, traces) ==
    [result EXCEPT
       !.sources = [s \in Sides |-> SourceBinding(SourceRoles(pass2)[s], reports[s], traces[s])],
       !.bound = TRUE]

AsymmetryOf(coverage) == IF Asymmetric(coverage) THEN <<"asymmetric_coverage">> ELSE <<>>

InsufficientReasons(coverage) ==
    << "insufficient_common_coverage" >>
    \o (IF coverage.captured["reference"] = <<>> THEN <<"reference_checkpoint_missing">> ELSE <<>>)
    \o (IF coverage.captured["candidate"] = <<>> THEN <<"candidate_checkpoint_missing">> ELSE <<>>)
    \o AsymmetryOf(coverage)

Compared(bound, coverage, comparisons) ==
    LET n        == Len(comparisons)
        diverges == ~comparisons[n].equivalent
        last     == IF ~diverges THEN comparisons[n].coordinate
                    ELSE IF n = 1 THEN None ELSE comparisons[n - 1].coordinate
        scoped   == [bound EXCEPT !.coverage = coverage, !.comparisons = comparisons,
                                  !.last = last, !.decision = Tier1]
        at       == comparisons[n].coordinate
    IN  IF diverges
        THEN [scoped EXCEPT !.status = "observable_mismatch_found",
                !.disposition = "suspect_interval_available",
                !.reasons = <<"observable_mismatch_found">> \o AsymmetryOf(coverage),
                !.mismatch = at, !.layer = at.layer, !.interval = Interval(last, at)]
        ELSE [scoped EXCEPT !.status = "no_mismatch_in_captured_coverage",
                !.disposition = "exploratory_localization_only",
                !.reasons = <<"no_mismatch_in_captured_coverage">> \o AsymmetryOf(coverage)]

Complete == {"observable_mismatch_found", "no_mismatch_in_captured_coverage"}

\* What Pass3Result's constructor insists on.
Pass3ResultIsValid(r) ==
    /\ r.status = "observable_mismatch_found" =>
          /\ r.mismatch # None /\ r.interval # None /\ r.layer = r.mismatch.layer
          /\ r.disposition = "suspect_interval_available"
    /\ r.status # "observable_mismatch_found" =>
          r.mismatch = None /\ r.interval = None /\ r.layer = Absent
    /\ r.status = "no_mismatch_in_captured_coverage" =>
          r.disposition = "exploratory_localization_only"
    /\ r.status \notin Complete => r.disposition = "blocked"
    /\ r.evidence # None /\ r.status \in Complete => r.evidence.tier # RequestOnly
    /\ r.bound => r.coherent /\ \A s \in Sides : r.sources[s] # None

\* run_coverage_scoped_layer_localization
LocalizeLayers(pass2, artifact, reports, traces) ==
    LET gateA == FirstOf(<< TypedPass2Ready(pass2), Pass2ArtifactCoheres(pass2, artifact) >>)
        gateB == BothSourceBindings(pass2, reports, traces)
        gateC == FirstOf(<< NormalizeLayerTrace(traces["reference"]),
                            NormalizeLayerTrace(traces["candidate"]) >>)
        ref   == traces["reference"]
        cand  == traces["candidate"]
        coverage == CoverageOf(ref, cand)
        blocked(refusal) == Blocked(pass2, refusal)
        bound(refusal) ==
            WithSources(WithPass2(blocked(refusal), pass2), pass2, reports, traces)
    IN  IF gateA # Passed THEN blocked(gateA)
        ELSE IF gateB # Passed THEN WithPass2(blocked(gateB), pass2)
        ELSE IF gateC # Passed THEN bound(gateC)
        ELSE IF coverage.common = <<>>
             THEN [bound([status |-> "insufficient_common_coverage", reason |-> "none"])
                     EXCEPT !.coverage = coverage, !.reasons = InsufficientReasons(coverage)]
        ELSE IF ~Aligned(ref, cand, coverage)
             THEN [bound([status |-> "checkpoint_alignment_inconsistent",
                          reason |-> "checkpoint_alignment_inconsistent"])
                     EXCEPT !.coverage = coverage, !.warnings = OneMore(@)]
        ELSE Compared(bound(Passed), coverage, Comparisons(ref, cand, coverage.comparable))

\* The artifact: the result with at most MaxComparisons of its comparisons.
SerializePass3(result) ==
    LET total == Len(result.comparisons)
        kept  == IF total <= MaxComparisons THEN total ELSE MaxComparisons
    IN  [result EXCEPT !.comparisons =
            [items |-> SubSeq(result.comparisons, 1, kept), total |-> total,
             serialized |-> kept, truncated |-> kept # total]]
=============================================================================
