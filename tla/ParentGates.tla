------------------------------ MODULE ParentGates ------------------------------
(***************************************************************************)
(* Gates 1 to 5 of Pass 4 (bind_pass4_parent_inputs).  Pass 3 ran twice:   *)
(* on the discovery generation, whose reruns captured layers only, and on  *)
(* the authoritative one, whose reruns captured the stages of the layer    *)
(* discovery had found.  Before Pass 4 reads a stage it decides whether    *)
(* everything it was handed is one chain of evidence.                      *)
(*                                                                         *)
(* What it is handed, for each generation g and side s:                    *)
(*   given.result[g]    the typed result of Pass 3                         *)
(*   given.artifact[g]  its canonical artifact                             *)
(*   given.pass2[g]     the Pass 2 artifact (None: not given, discovery)   *)
(*   given.report[g][s], given.trace[g][s]                                 *)
(***************************************************************************)
EXTENDS LayerEvidence

Generations == {"discovery", "authoritative"}

\* _fail of gates 1 and 2: the status is always the same.
Demand(passes, reason) == Gate(passes, "comparison_blocked_by_pass3", reason)
-----------------------------------------------------------------------------
(* _validate_pass3_representation: what an artifact of Pass 3 may say. *)
KeySequence(cs) == [i \in DOMAIN cs |-> LogicalKey(cs[i])]
CoordinatesOf(s) == [i \in DOMAIN s |-> s[i].coordinate]
InOrder(cs)     == CoordinateOrder(cs) = Passed

IsPartition(requested, captured, missing) ==
    /\ InOrder(requested) /\ InOrder(captured) /\ InOrder(CoordinatesOf(missing))
    /\ \A i \in DOMAIN missing : missing[i].state # "captured"
    /\ KeySequence(captured) = KeySequence(WithKeys(requested, Keys(captured)))
    /\ KeySequence(CoordinatesOf(missing)) = KeySequence(WithoutKeys(requested, Keys(captured)))

CoverageIsCoherent(coverage) ==
    LET ref  == coverage.captured["reference"]
        cand == coverage.captured["candidate"]
    IN  /\ \A s \in Sides :
              IsPartition(coverage.requested[s], coverage.captured[s], coverage.missing[s])
        /\ InOrder(coverage.common) /\ InOrder(coverage.comparable)
        /\ coverage.common = WithKeys(ref, Keys(cand))
        /\ coverage.only["reference"] = WithoutKeys(ref, Keys(cand))
        /\ coverage.only["candidate"] = WithoutKeys(cand, Keys(ref))
        /\ coverage.comparable = WithKeys(coverage.common, Keys(coverage.comparable))

ItemsAreComparable(items, comparable) ==
    LET at == CoordinatesOf(items)
    IN  /\ Cardinality(Keys(at)) = Len(at)
        /\ ToSet(at) \subseteq ToSet(comparable)

\* Mutant: the last equal layer itself is counted as unobserved.
IntervalHoldsLastEqual(interval, last, mismatch) ==
    /\ interval.last = last /\ interval.mismatch = mismatch
    /\ interval.unobserved =
         (IF last = None THEN 0 ELSE last.layer) .. mismatch.layer - 1

\* The interval runs from the last equal layer, or the entry, to the mismatch.
IntervalIsExact(interval, last, mismatch) ==
    /\ interval.last = last /\ interval.mismatch = mismatch /\ interval.endInclusive
    /\ IF last = None
       THEN interval.start = "runtime_entry" /\ ~interval.startExclusive
       ELSE interval.start = "observed_checkpoint" /\ interval.startExclusive
    /\ interval.unobserved =
         (IF last = None THEN 0 ELSE last.layer + 1) .. mismatch.layer - 1

MismatchIsTheFirst(raw) ==
    LET items     == raw.comparisons.items
        differing == {i \in DOMAIN items : ~items[i].equivalent}
        first     == FirstIn(differing)
    IN  /\ raw.mismatch # None /\ raw.interval # None /\ differing # {}
        /\ items[first].coordinate = raw.mismatch
        /\ LogicalKey(raw.mismatch) \in Keys(raw.coverage.comparable)
        /\ raw.layer = raw.mismatch.layer
        /\ raw.last = IF first = 1 THEN None ELSE items[first - 1].coordinate
        /\ IntervalIsExact(raw.interval, raw.last, raw.mismatch)

LocalizationIsCoherent(raw) ==
    IF raw.status = "observable_mismatch_found" THEN MismatchIsTheFirst(raw)
    ELSE raw.mismatch = None /\ raw.interval = None

CoverageAndLocalization(raw) ==
    FirstRefusal(
    << Demand(CoverageIsCoherent(raw.coverage), "parent_localization_incoherent"),
       Demand(raw.status \in Complete =>
                 \A s \in Sides : raw.coverage.requested[s] # <<>>,
              "parent_localization_incoherent"),
       Demand(~raw.comparisons.truncated /\ raw.comparisons.total = raw.comparisons.serialized
                 /\ raw.comparisons.serialized = Len(raw.comparisons.items),
              "parent_comparisons_truncated"),
       Demand(ItemsAreComparable(raw.comparisons.items, raw.coverage.comparable),
              "parent_localization_incoherent"),
       Demand(LocalizationIsCoherent(raw), "parent_localization_incoherent") >>)

\* Pass 2 stands behind a complete comparison, for the step it was made at.
EvidenceIsUsable(raw) ==
    /\ raw.coherent /\ raw.bound /\ raw.evidence # None
    /\ raw.evidence.tier # RequestOnly
    /\ raw.evidence.generated >= 0
    /\ raw.evidence.step = raw.evidence.generated + 1
    /\ raw.evidence.step = raw.step

DispositionOfPass3(status) ==
    CASE status = "observable_mismatch_found" -> "suspect_interval_available"
      [] status = "no_mismatch_in_captured_coverage" -> "exploratory_localization_only"
      [] OTHER -> "blocked"

IdentityAndEvidence(raw) ==
    LET whenComplete(condition) == raw.status \in Complete => condition IN
    FirstRefusal(
    << Demand(whenComplete(raw.pass2 # None), "parent_upstream_evidence_incoherent"),
       Demand(raw.step >= 0, "parent_localization_incoherent"),
       Demand(whenComplete(EvidenceIsUsable(raw)), "parent_upstream_evidence_incoherent"),
       Demand(whenComplete(\A s \in Sides : raw.sources[s] # None),
              "parent_upstream_evidence_incoherent"),
       Demand(whenComplete(raw.decision # NoDecision), "parent_typed_artifact_incoherent"),
       Demand(raw.reasons # <<>> /\ IsInjective(raw.reasons),
              "parent_typed_artifact_incoherent"),
       Demand(raw.disposition = DispositionOfPass3(raw.status),
              "parent_typed_artifact_incoherent") >>)

Representation(raw) == FirstOf(<< IdentityAndEvidence(raw), CoverageAndLocalization(raw) >>)

\* validate_pass3_artifact_coherence
ArtifactCoherence(given, g) ==
    FirstOf(
    << FirstRefusal(<< Demand(given.artifact[g] = SerializePass3(given.result[g]),
                              "parent_typed_artifact_incoherent") >>),
       Representation(given.artifact[g]) >>)
-----------------------------------------------------------------------------
(* Gate 2: the Pass 2 artifact is the one the parent was compared under, and
   names the reports the parent is bound to. *)
BindsPass2(raw, pass2) ==
    /\ pass2 = raw.pass2 /\ raw.coherent
    /\ pass2.tier # RequestOnly /\ pass2.status = "reproduction_verified"
    /\ pass2.generated >= 0 /\ pass2.step = pass2.generated + 1 /\ raw.step = pass2.step
    /\ raw.evidence # None
    /\ raw.evidence.step = pass2.step /\ raw.evidence.generated = pass2.generated
    /\ raw.evidence.tier = pass2.tier /\ raw.evidence.localization = pass2.localization
    /\ \A s \in Sides :
          /\ raw.sources[s] # None
          /\ SelectedSources(pass2)[s] = raw.sources[s].report
          /\ SelectedSources(raw.evidence)[s] = SelectedSources(pass2)[s]

Pass2Binding(raw, pass2) ==
    FirstRefusal(<< Demand(BindsPass2(raw, pass2), "parent_upstream_evidence_incoherent") >>)

\* Both parents name their sources and their Pass 2.
ParentBinding(raw) ==
    FirstRefusal(
    << Demand(raw.pass2 # None /\ \A s \in Sides : raw.sources[s] # None,
              "parent_upstream_evidence_incoherent") >>)

BlockedByPass3 ==
    {"comparison_blocked_by_pass2", "insufficient_common_coverage",
     "source_binding_inconsistent", "checkpoint_alignment_inconsistent",
     "checkpoint_artifact_missing", "checkpoint_summary_malformed", "inconclusive"}

\* Mutant: only the authoritative artifact is compared with its result.
LineageOfAuthoritative(given) ==
    FirstOf(
    << ArtifactCoherence(given, "authoritative"),
       FirstRefusal(<< Demand(given.artifact["authoritative"].status \notin BlockedByPass3,
                              "parent_status_blocked") >>),
       Pass2Binding(given.artifact["authoritative"], given.pass2["authoritative"]),
       IF given.pass2["discovery"] = None THEN Passed
       ELSE Pass2Binding(given.artifact["discovery"], given.pass2["discovery"]),
       ParentBinding(given.artifact["discovery"]),
       ParentBinding(given.artifact["authoritative"]) >>)

\* Gates 1 and 2, in the order of the code.
Lineage(given) ==
    LET discovery     == given.artifact["discovery"]
        authoritative == given.artifact["authoritative"]
    IN  FirstOf(
        << ArtifactCoherence(given, "discovery"),
           ArtifactCoherence(given, "authoritative"),
           FirstRefusal(<< Demand(authoritative.status \notin BlockedByPass3,
                                  "parent_status_blocked") >>),
           Pass2Binding(authoritative, given.pass2["authoritative"]),
           IF given.pass2["discovery"] = None THEN Passed
           ELSE Pass2Binding(discovery, given.pass2["discovery"]),
           ParentBinding(discovery), ParentBinding(authoritative) >>)
-----------------------------------------------------------------------------
(* Gate 3: what kind of parent this is.  The first that holds decides. *)
PolicyIsKnown(raw) == raw.decision = Tier1

Gate3(discovery, authoritative) ==
    FirstRefusal(
    << Gate(authoritative.status # "unsupported_checkpoint_layout",
            "unsupported_parent", "parent_contract_or_family_unsupported"),
       Gate(authoritative.status # "comparison_policy_unavailable",
            "unsupported_parent", "parent_digest_policy_unsupported"),
       Gate(authoritative.status # "no_mismatch_in_captured_coverage",
            "not_applicable", "parent_has_no_observed_mismatch"),
       Demand(authoritative.status = "observable_mismatch_found", "parent_status_blocked"),
       Gate(PolicyIsKnown(authoritative),
            "unsupported_parent", "parent_digest_policy_unsupported"),
       Gate(authoritative.step # 0, "unsupported_parent", "parent_phase_unsupported"),
       Demand(discovery.status = "observable_mismatch_found" /\ PolicyIsKnown(discovery),
              "parent_upstream_evidence_incoherent") >>)

(* Gate 4: discovery and recapture speak of one question, and of one layer. *)
Drift(discovery, authoritative) ==
    LET same(reader(_)) == reader(discovery) = reader(authoritative)
        changed == "discovery_rebound_semantics_changed"
        gate(passes, reason) == Gate(passes, "parent_revalidation_inconsistent", reason)
    IN  FirstRefusal(
        << gate(same(LAMBDA raw : raw.layer), "discovery_rebound_layer_changed"),
           gate(same(LAMBDA raw : raw.step), changed),
           gate(same(LAMBDA raw : raw.coverage.requested), changed),
           gate(same(LAMBDA raw : raw.decision), changed),
           gate(same(LAMBDA raw : [tier |-> raw.evidence.tier, step |-> raw.evidence.step,
                                   generated |-> raw.evidence.generated]), changed) >>)
-----------------------------------------------------------------------------
(* Gate 5: the reports and traces are the files the parents were bound to, and
   each run captured what its generation was for. *)
RoleIsOf(role, s) ==
    role \in IF s = "reference" THEN {"reference_original", "reference_reproduction"}
            ELSE {"candidate_original", "candidate_reproduction"}

CaptureIsOf(g, manifest, layer) ==
    IF g = "authoritative" THEN manifest.intra = layer ELSE manifest.intra = Absent

BindSource(given, g, s) ==
    LET recorded == given.artifact[g].sources[s]
        step     == given.artifact[g].step
        report   == given.report[g][s]
        trace    == given.trace[g][s]
        gate(passes, reason) == Gate(passes, "source_binding_inconsistent", reason)
    IN  FirstRefusal(
        << gate(RoleIsOf(recorded.role, s), "source_role_mismatch"),
           gate(trace.kind = "layer_trace", "trace_sha_mismatch"),
           gate(report.kind = "run_report", "run_report_binding_mismatch"),
           gate(report = recorded.report, "run_report_binding_mismatch"),
           gate(trace = recorded.trace, "trace_sha_mismatch"),
           gate(report.manifest = trace.manifest /\ report.manifest = recorded.manifest,
                "semantic_manifest_binding_mismatch"),
           gate(/\ None \notin {report.set, trace.set}
                /\ report.set = trace.set /\ report.set = recorded.set,
                "artifact_set_binding_mismatch"),
           Gate(report.manifest.family = Family,
                "unsupported_parent", "parent_contract_or_family_unsupported"),
           gate(report.manifest.precision # Malformed, "runtime_capture_identity_mismatch"),
           gate(report.manifest.step = step /\ trace.layout.step = step,
                "runtime_capture_identity_mismatch"),
           gate(CaptureIsOf(g, report.manifest, given.artifact[g].layer),
                "runtime_capture_identity_mismatch") >>)

BindGeneration(given, g) ==
    FirstOf(
    << BindSource(given, g, "reference"), BindSource(given, g, "candidate"),
       FirstRefusal(
       << Gate(given.report[g]["reference"].manifest.precision =
               given.report[g]["candidate"].manifest.precision,
               "source_binding_inconsistent", "runtime_capture_identity_mismatch") >>) >>)

\* _CROSS_GENERATION_PATHS: what two generations of one verification share.
Shared(manifest) ==
    [family |-> manifest.family, precision |-> manifest.precision,
     step |-> manifest.step, setup |-> manifest.setup]

CrossGeneration(given, s) ==
    LET report(g) == given.report[g][s]
        trace(g)  == given.trace[g][s]
    IN  FirstRefusal(
        << Gate(/\ trace("discovery") # trace("authoritative")
                /\ report("discovery") # report("authoritative"),
                "source_binding_inconsistent", "runtime_capture_identity_mismatch"),
           Gate(Shared(report("discovery").manifest) = Shared(report("authoritative").manifest),
                "parent_revalidation_inconsistent", "discovery_rebound_semantics_changed") >>)

Sources(given) ==
    FirstOf(
    << BindGeneration(given, "authoritative"), BindGeneration(given, "discovery"),
       CrossGeneration(given, "reference"), CrossGeneration(given, "candidate") >>)
-----------------------------------------------------------------------------
(* Pass3ParentEvidence: what a result of Pass 4 keeps of its parents. *)
Classification(status) ==
    IF status \in {"not_applicable", "comparison_blocked_by_pass3", "unsupported_parent",
                   "parent_revalidation_inconsistent"}
    THEN status ELSE "eligible"

NoLocalization ==
    [mismatch |-> None, last |-> None, interval |-> None,
     decision |-> NoDecision, tier |-> Malformed]

BuildParent(classification, given, crossVerified) ==
    LET discovery     == given.artifact["discovery"]
        authoritative == given.artifact["authoritative"]
        contradicts   == discovery.layer # authoritative.layer
        mayDiffer     == classification \in {"eligible", "parent_revalidation_inconsistent"}
    IN  [classification |-> classification,
         found |-> discovery.layer,
         layer |-> IF contradicts /\ ~mayDiffer THEN Absent ELSE authoritative.layer,
         step  |-> authoritative.step,
         crossVerified |-> crossVerified,
         localization |->
            IF classification # "eligible" THEN NoLocalization
            ELSE [mismatch |-> given.result["authoritative"].mismatch,
                  last     |-> given.result["authoritative"].last,
                  interval |-> given.result["authoritative"].interval,
                  decision |-> authoritative.decision,
                  tier     |-> authoritative.evidence.tier]]

EligibleIsComplete(p) ==
    LET at == p.localization IN
    /\ p.crossVerified /\ Absent \notin {p.found, p.layer}
    /\ at.mismatch # None /\ at.interval # None
    /\ at.mismatch.layer = p.layer /\ at.mismatch.step = p.step
    /\ at.decision = Tier1 /\ at.tier \notin {RequestOnly, Malformed}
    /\ at.last # None => Precedes(at.last, at.mismatch)
    /\ at.interval.mismatch = at.mismatch /\ at.interval.last = at.last

ParentEvidenceIsValid(p) ==
    LET drift == p.classification = "parent_revalidation_inconsistent"
        both  == Absent \notin {p.found, p.layer}
    IN  /\ p.step >= 1
        /\ ~drift /\ both => p.found = p.layer
        /\ p.classification = "eligible" => EligibleIsComplete(p)
        /\ p.classification # "eligible" => p.localization = NoLocalization
        /\ drift /\ p.crossVerified => both /\ p.found # p.layer
        /\ p.classification = "not_applicable" => p.layer = Absent
-----------------------------------------------------------------------------
(* Pass4ParentBindingOutcome: proceed, or one classified refusal.  Raised is
   the outcome of a constructor that refuses outside of every try. *)
NoTarget == [step |-> Absent, layer |-> Absent, precision |-> Malformed]

\* What is handed on with an outcome: the lists of the authoritative Pass 3, and
\* whether a warning is added, that one Pass 2 stands behind both parents.  A
\* parent that was blocked is left before that is looked at, and a refusal of
\* gates 1 and 2 inherits nothing.
NoWarnings == [inherited |-> "few", added |-> FALSE]

BlockedWarnings(given) ==
    [NoWarnings EXCEPT !.inherited = given.result["authoritative"].warnings]

Warnings(given) ==
    [BlockedWarnings(given) EXCEPT
       !.added = given.artifact["discovery"].pass2 = given.artifact["authoritative"].pass2]

Raised == [status |-> "raised", reason |-> "none", parent |-> None,
           bindings |-> NoBindings, target |-> NoTarget, warnings |-> NoWarnings]

Terminal(refusal, parent, warnings) ==
    [status |-> refusal.status, reason |-> refusal.reason, parent |-> parent,
     bindings |-> NoBindings, target |-> NoTarget, warnings |-> warnings]

Proceed(given, parent) ==
    [status |-> "proceed", reason |-> "none", parent |-> parent,
     bindings |-> given.artifact["authoritative"].sources,
     target |-> [step  |-> given.artifact["authoritative"].step,
                 layer |-> given.artifact["authoritative"].layer,
                 precision |-> given.report["authoritative"]["reference"].manifest.precision],
     warnings |-> Warnings(given)]

\* REASON_ALLOWED_STATUSES, of the reasons given: each belongs to one status, and
\* a result may name no other.
ReasonsOf(status) ==
    CASE status = "observable_intra_layer_mismatch_found" -> {"local_digest_mismatch"}
      [] status = "mismatch_bounded_to_inherited_closing_boundary" ->
            {"no_local_mismatch_before_inherited_boundary"}
      [] status = "not_applicable" -> {"parent_has_no_observed_mismatch"}
      [] status = "comparison_blocked_by_pass3" ->
            {"parent_status_blocked", "parent_typed_artifact_incoherent",
             "parent_comparisons_truncated", "parent_localization_incoherent",
             "parent_upstream_evidence_incoherent"}
      [] status = "parent_revalidation_inconsistent" ->
            {"discovery_rebound_layer_changed", "discovery_rebound_semantics_changed"}
      [] status = "source_binding_inconsistent" ->
            {"trace_sha_mismatch", "source_role_mismatch", "run_report_binding_mismatch",
             "artifact_set_binding_mismatch", "semantic_manifest_binding_mismatch",
             "runtime_capture_identity_mismatch"}
      [] status = "insufficient_common_intra_layer_coverage" ->
            {"no_common_captured_coordinates"}
      [] status = "checkpoint_alignment_inconsistent" ->
            {"step_alignment_mismatch", "layer_alignment_mismatch",
             "phase_or_position_alignment_mismatch", "shape_or_count_alignment_mismatch",
             "dtype_or_precision_alignment_mismatch"}
      [] status = "checkpoint_summary_malformed" ->
            {"coverage_partition_malformed", "duplicate_or_out_of_order_coordinate",
             "summary_field_malformed", "digest_field_malformed", "prohibited_payload_present"}
      [] status = "comparison_policy_unavailable" -> {"digest_contract_unknown"}
      [] status = "unsupported_parent" ->
            {"parent_contract_or_family_unsupported", "parent_phase_unsupported",
             "parent_digest_policy_unsupported"}
      [] status = "unsupported_intra_layer_layout" ->
            {"intra_layout_or_taxonomy_unsupported", "requested_stage_set_unsupported"}

ParentPolicy(status) ==
    IF status = "comparison_blocked_by_pass3" THEN "optional" ELSE "required"

\* _bounded_tuple, of every inherited list.
ListsAreBounded(outcome) == outcome.warnings.inherited # "unfit"

OutcomeIsValid(outcome) ==
    LET p == outcome.parent IN
    /\ ListsAreBounded(outcome)
    /\ IF outcome.status = "proceed"
       THEN /\ p.classification = "eligible" /\ \A s \in Sides : outcome.bindings[s] # None
            /\ outcome.target.step >= 1 /\ outcome.target.layer >= 0
            /\ p.step = outcome.target.step /\ p.layer = outcome.target.layer
       ELSE /\ outcome.reason \in ReasonsOf(outcome.status)
            /\ ParentPolicy(outcome.status) = "required" => p # None
            /\ p # None => p.classification = Classification(outcome.status)

Outcome(outcome) == IF OutcomeIsValid(outcome) THEN outcome ELSE Raised

\* Mutant: every refused parent is written as cross-verified.
CrossVerifiedTerminal(refusal, given) ==
    LET p == BuildParent(Classification(refusal.status), given, TRUE)
    IN  IF ParentEvidenceIsValid(p) THEN Outcome(Terminal(refusal, p, Warnings(given)))
        ELSE Raised

\* _parent_terminal
ParentTerminal(refusal, given) ==
    LET p == BuildParent(Classification(refusal.status), given, FALSE)
    IN  IF ParentEvidenceIsValid(p) THEN Outcome(Terminal(refusal, p, Warnings(given)))
        ELSE Raised

\* A blocked parent that cannot be represented is left out.  What the outcome's own
\* constructor raises is not caught.
BlockedTerminal(refusal, given) ==
    LET p == BuildParent(Classification(refusal.status), given, FALSE)
    IN  Outcome(Terminal(refusal, IF ParentEvidenceIsValid(p) THEN p ELSE None,
                         Warnings(given)))

\* A refusal of gates 1 and 2 has no parent.
LineageTerminal(refusal, given) ==
    Outcome(Terminal(refusal, None, IF refusal.reason = "parent_status_blocked"
                                    THEN BlockedWarnings(given) ELSE NoWarnings))

Bind(given) ==
    LET discovery     == given.artifact["discovery"]
        authoritative == given.artifact["authoritative"]
        lineage  == Lineage(given)
        kind     == Gate3(discovery, authoritative)
        drift    == Drift(discovery, authoritative)
        eligible == BuildParent("eligible", given, TRUE)
        sources  == Sources(given)
    IN  IF lineage # Passed THEN LineageTerminal(lineage, given)
        ELSE IF kind.status = "comparison_blocked_by_pass3" THEN BlockedTerminal(kind, given)
        ELSE IF kind # Passed  THEN ParentTerminal(kind, given)
        ELSE IF drift # Passed THEN ParentTerminal(drift, given)
        ELSE IF ~ParentEvidenceIsValid(eligible) THEN Raised
        ELSE IF sources = Passed THEN Outcome(Proceed(given, eligible))
        ELSE IF sources.status = "source_binding_inconsistent"
             THEN Outcome(Terminal(sources, eligible, Warnings(given)))
        ELSE ParentTerminal(sources, given)
=============================================================================
