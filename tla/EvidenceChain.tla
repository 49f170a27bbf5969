----------------------------- MODULE EvidenceChain -----------------------------
(***************************************************************************)
(* The evidence Pass 4 needs, from the files two generations of runs left  *)
(* behind to the stage interval: capture with layers, Pass 3A, capture of  *)
(* the stages of the layer found, Pass 3B, gates 1 to 5, gates 6 and 7,    *)
(* localization.  The objects are handed from call to call by the caller   *)
(* (run_coverage_scoped_intra_layer_localization takes fourteen of them),  *)
(* so a wrong one may be handed over, and a file may not say what a run of *)
(* this build writes.                                                      *)
(*                                                                         *)
(* The candidate differs from the reference from an onset on, a stage of a *)
(* layer: stage StageCount is the output of the layer itself.  Files hold  *)
(* digests, of which only equality matters.                                *)
(***************************************************************************)
EXTENDS StageEvidence

CONSTANTS
    LayerCount,     \* layers of the model
    Onsets,         \* where the candidate may begin to differ
    Captures,       \* the pairs of layer sets the two sides may have captured
    StageCaptures,  \* the pairs of stage sets they may have captured
    FileFaults,     \* the ways in which files of a run may be odd
    MaxOddRuns,     \* bound on the generations with an odd file, or that drift
    MaxWrongSlots   \* bound on the slots that are handed a wrong object, by OddRuns

Layers == 0 .. LayerCount - 1
Step   == 2

ASSUME EvidenceChainAssumption ==
    /\ LayerCount \in Nat \ {0}
    /\ Onsets \subseteq [layer : Layers, stage : 0 .. StageCount]
    /\ Captures \subseteq [Sides -> SUBSET Layers]
    /\ StageCaptures \subseteq [Sides -> SUBSET StageIds]
    /\ MaxOddRuns \in Nat /\ MaxWrongSlots \in [0 .. MaxOddRuns -> Nat]

VARIABLES
    pc,       \* the next call
    run,      \* per generation, what its runs did and what is odd about their files
    result,   \* per generation, the result of Pass 3
    handed,   \* per slot of the call of Pass 4, whose object is handed over
    outcome,  \* of gates 1 to 5
    parsed,   \* of gates 6 and 7
    final     \* the result of Pass 4

vars == <<pc, run, result, handed, outcome, parsed, final>>

NoFault == [kind |-> "none", side |-> "reference"]
-----------------------------------------------------------------------------
(* The files of a run. *)
LayerDiffers(onset, s, layer) == s = "candidate" /\ layer >= onset.layer

StageDiffers(onset, s, layer, stage) ==
    /\ s = "candidate"
    /\ \/ layer > onset.layer
       \/ layer = onset.layer /\ stage >= onset.stage

DigestOf(differs) == IF differs THEN "other" ELSE "same"

LayerAt(layer) == [step |-> Step, layer |-> layer, ordinal |-> layer]

LayersAt(set)     == [i \in 1 .. Cardinality(set) |-> LayerAt(Ascending(set)[i])]
NotCaptured(cs)   == [i \in DOMAIN cs |-> [coordinate |-> cs[i], state |-> "not_captured"]]

Manifest(r) ==
    [family |-> Family, precision |-> "fp32", step |-> Step, intra |-> r.target, setup |-> "same"]

LayerLayout(captured) ==
    [supported |-> TRUE, step |-> Step, total |-> LayerCount, requested |-> LayersAt(Layers),
     captured |-> LayersAt(captured), missing |-> NotCaptured(LayersAt(Layers \ captured)),
     contract |-> Contract]

LayerSummaries(r, s) ==
    LET at == LayersAt(r.captured[s])
    IN  [i \in DOMAIN at |->
           [coordinate |-> at[i], shape |-> "hidden", wellformed |-> TRUE,
            digest |-> DigestOf(LayerDiffers(r.onset, s, at[i].layer))]]

StagesAt(r, set) ==
    [i \in 1 .. Cardinality(set) |-> StageCoordinate(Step, r.target, 0, Ascending(set)[i])]

StageBlock(r, s) ==
    LET at == StagesAt(r, r.stages[s])
    IN  [supported |-> TRUE, step |-> Step, layer |-> r.target, position |-> 0,
         requested |-> RequestedStages(Step, r.target, 0), captured |-> at,
         missing |-> NotCaptured(StagesAt(r, StageIds \ r.stages[s])),
         contract |-> StageDigest, payload |-> "none", wellformed |-> TRUE,
         entries |-> [i \in DOMAIN at |->
            [coordinate |-> at[i], phase |-> StagePhase, shape |-> "hidden",
             precision |-> "fp32", wellformed |-> TRUE,
             digest |-> DigestOf(StageDiffers(r.onset, s, r.target, at[i].stage))]]]

\* Every run has an artifact set of its own.
WrittenReport(r, s) ==
    [kind |-> "run_report", set |-> <<r.generation, s>>, manifest |-> Manifest(r)]

WrittenTrace(r, s) ==
    [kind |-> "layer_trace", set |-> <<r.generation, s>>, manifest |-> Manifest(r),
     payload |-> "none", layout |-> LayerLayout(r.captured[s]),
     summaries |-> LayerSummaries(r, s),
     intra |-> IF r.target = Absent THEN None ELSE StageBlock(r, s)]

\* Files may come from another build, or be damaged in a readable way.
OddManifest(manifest, kind) ==
    CASE kind = "setup"     -> [manifest EXCEPT !.setup = "other"]
      [] kind = "precision" -> [manifest EXCEPT !.precision = "other"]
      [] kind = "family"    -> [manifest EXCEPT !.family = "other"]
      [] kind = "step"      -> [manifest EXCEPT !.step = Step + 1]
      [] kind = "captured_other_layer" -> [manifest EXCEPT !.intra = (@ + 1) % LayerCount]
      [] OTHER              -> manifest

OddLayout(layout, kind) ==
    CASE kind = "unsupported"      -> [layout EXCEPT !.supported = FALSE]
      [] kind = "layout_step"      -> [layout EXCEPT !.step = Step + 1]
      [] kind = "contract"         -> [layout EXCEPT !.contract = "other"]
      [] kind = "missing_captured" ->
            [layout EXCEPT !.missing = [i \in DOMAIN @ |-> [@[i] EXCEPT !.state = "captured"]]]
      [] kind = "reordered"        -> [layout EXCEPT !.captured = Reverse(@)]
      [] kind = "requests_captured" ->
            [layout EXCEPT !.requested = layout.captured, !.missing = <<>>]
      [] OTHER                     -> layout

OddSummary(summary, kind) ==
    CASE kind = "summary"       -> [summary EXCEPT !.wellformed = FALSE]
      [] kind = "no_digest"     -> [summary EXCEPT !.digest = "missing"]
      [] kind = "shape"         -> [summary EXCEPT !.shape = "other"]
      [] OTHER                  -> summary

OddEntry(entry, kind) ==
    CASE kind = "stage_entry"     -> [entry EXCEPT !.wellformed = FALSE]
      [] kind = "stage_phase"     -> [entry EXCEPT !.phase = "other"]
      [] kind = "stage_shape"     -> [entry EXCEPT !.shape = "other"]
      [] kind = "stage_precision" -> [entry EXCEPT !.precision = "other"]
      [] kind = "stage_digest"    -> [entry EXCEPT !.digest = Malformed]
      [] OTHER                    -> entry

\* What is odd about a sequence is odd about its last element.
WithLast(s, Odd(_)) == IF s = <<>> THEN s ELSE [s EXCEPT ![Len(s)] = Odd(@)]

OddStages(intra, kind) ==
    IF intra = None \/ kind = "no_stages" THEN None
    ELSE
    CASE kind = "stage_layout"   -> [intra EXCEPT !.supported = FALSE]
      [] kind = "stage_step"     -> [intra EXCEPT !.step = Step + 1]
      [] kind = "stage_position" ->
            [intra EXCEPT !.position = 1, !.requested = RequestedStages(Step, intra.layer, 1)]
      [] kind = "stage_request"  -> [intra EXCEPT !.requested = intra.captured, !.missing = <<>>]
      [] kind = "stage_contract" -> [intra EXCEPT !.contract = "other"]
      [] kind = "stage_payload"  -> [intra EXCEPT !.payload = "values"]
      [] kind = "stage_order"    -> [intra EXCEPT !.entries = Reverse(@)]
      [] kind = "stage_missing"  -> [intra EXCEPT !.missing = <<>>]
      [] OTHER -> [intra EXCEPT !.entries = WithLast(@, LAMBDA e : OddEntry(e, kind))]

KindAt(r, s) == IF r.fault.side = s THEN r.fault.kind ELSE "none"

ReportOf(r, s) ==
    LET kind == KindAt(r, s) IN
    [WrittenReport(r, s) EXCEPT
       !.set = IF kind = "report_set" THEN <<"other">> ELSE @,
       !.manifest = OddManifest(@, kind)]

TraceOf(r, s) ==
    LET kind == KindAt(r, s) IN
    [WrittenTrace(r, s) EXCEPT
       !.kind = IF kind = "trace_kind" THEN "other" ELSE @,
       !.payload = IF kind = "payload" THEN "tensor_values" ELSE @,
       !.manifest = OddManifest(@, kind),
       !.layout = OddLayout(@, kind),
       !.summaries = WithLast(@, LAMBDA x : OddSummary(x, kind)),
       !.intra = OddStages(@, kind)]

\* The original runs, of which Pass 4 only sees that Pass 2 names them.
OriginalOf(r, s) == [WrittenReport(r, s) EXCEPT !.set = <<r.generation, s, "original">>]

Pass2Of(r) ==
    LET kind  == r.fault.kind
        first == [s \in Sides |-> OriginalOf(r, s)]
        last  == [s \in Sides |-> ReportOf(r, s)]
    IN  [status |-> IF kind = "unverified" THEN "reproduction_unverified"
                    ELSE "reproduction_verified",
         tier |-> CASE kind = "request_only"  -> RequestOnly
                    [] kind = "original_pair" -> "original_pair_boundary_consistent"
                    [] OTHER                  -> Independent,
         generated |-> Step - 1, step |-> Step, localization |-> r.generation,
         original |-> IF kind = "original_pair" THEN last ELSE first,
         reproduction |-> IF kind = "original_pair" THEN NoBindings ELSE last,
         warnings |-> CASE kind = "full_warnings"  -> "full"
                        [] kind = "unfit_warnings" -> "unfit"
                        [] OTHER                   -> "few"]
-----------------------------------------------------------------------------
(* What the caller hands to Pass 4: the result, the artifact and Pass 2 of
   each generation, the report and the trace of each of its sides. *)
Files == {"report", "trace"}
Slot  == [of : {"result", "artifact", "pass2"}, g : Generations, s : {"reference"}]
    \cup [of : Files, g : Generations, s : Sides]

Own(x)  == [g |-> x.g, s |-> x.s]
Rightly == [x \in Slot |-> Own(x)]
Wrong   == {x \in Slot : handed[x] # Own(x)}

\* A slot takes objects of its kind; only the Pass 2 of discovery may be left out.
MayHold(x) ==
    [g : Generations, s : IF x.of \in Files THEN Sides ELSE {x.s}]
    \cup (IF x.of = "pass2" /\ x.g = "discovery" THEN {None} ELSE {})

Given ==
    LET from(of, g, s) == handed[[of |-> of, g |-> g, s |-> s]]
        whole(of, g)   == from(of, g, "reference")
    IN  [result   |-> [g \in Generations |-> result[whole("result", g).g]],
         artifact |-> [g \in Generations |-> SerializePass3(result[whole("artifact", g).g])],
         pass2    |-> [g \in Generations |-> IF whole("pass2", g) = None THEN None
                                             ELSE Pass2Of(run[whole("pass2", g).g])],
         report   |-> [g \in Generations |-> [s \in Sides |->
                          ReportOf(run[from("report", g, s).g], from("report", g, s).s)]],
         trace    |-> [g \in Generations |-> [s \in Sides |->
                          TraceOf(run[from("trace", g, s).g], from("trace", g, s).s)]]]
-----------------------------------------------------------------------------
Init ==
    /\ pc = "discover"
    /\ run = [g \in Generations |-> None] /\ result = run
    /\ handed = Rightly
    /\ outcome = None /\ parsed = None /\ final = None

OddRuns == Cardinality({g \in Generations : run[g] # None /\ run[g].fault # NoFault})

Fault == {NoFault} \cup
    IF OddRuns < MaxOddRuns THEN [kind : FileFaults, side : Sides] ELSE {}

\* The reruns of a generation.  The target of the recapture is the layer
\* discovery found; a caller that goes on without one names the first layer.
Captured(g, target, stages, onset) ==
    \E captured \in Captures, fault \in Fault :
        run' = [run EXCEPT ![g] =
                  [generation |-> g, target |-> target, onset |-> onset,
                   captured |-> captured, stages |-> stages, fault |-> fault]]

Discover ==
    /\ pc = "discover"
    /\ \E onset \in Onsets :
          Captured("discovery", Absent, [s \in Sides |-> {}], onset)
    /\ pc' = "pass3a"
    /\ UNCHANGED <<result, handed, outcome, parsed, final>>

Recapture ==
    /\ pc = "recapture"
    /\ \E stages \in StageCaptures, onset \in Onsets :
          /\ onset = run["discovery"].onset
          /\ Captured("authoritative",
                      IF result["discovery"].layer = Absent THEN 0
                      ELSE result["discovery"].layer, stages, onset)
    /\ pc' = "pass3b"
    /\ UNCHANGED <<result, handed, outcome, parsed, final>>

\* The recaptured runs compute something else.
RecaptureDrifts ==
    /\ pc = "recapture" /\ OddRuns < MaxOddRuns
    /\ \E stages \in StageCaptures, captured \in Captures, onset \in Onsets :
          /\ onset # run["discovery"].onset
          /\ run' = [run EXCEPT !["authoritative"] =
                [generation |-> "authoritative", onset |-> onset,
                 target |-> IF result["discovery"].layer = Absent THEN 0
                            ELSE result["discovery"].layer,
                 captured |-> captured, stages |-> stages,
                 fault |-> [kind |-> "drift", side |-> "candidate"]]]
    /\ pc' = "pass3b"
    /\ UNCHANGED <<result, handed, outcome, parsed, final>>

LocalizationOf(g) ==
    LocalizeLayers(Pass2Of(run[g]), Pass2Of(run[g]),
                   [s \in Sides |-> ReportOf(run[g], s)],
                   [s \in Sides |-> TraceOf(run[g], s)])

Pass3(g, here, next) ==
    /\ pc = here
    /\ result' = [result EXCEPT ![g] = LocalizationOf(g)]
    /\ pc' = next
    /\ UNCHANGED <<run, handed, outcome, parsed, final>>

Pass3A == Pass3("discovery", "pass3a", "recapture")
Pass3B == Pass3("authoritative", "pass3b", "hand_over")

HandWrong ==
    /\ pc = "hand_over" /\ Cardinality(Wrong) < MaxWrongSlots[OddRuns]
    /\ \E x \in Slot \ Wrong : \E from \in MayHold(x) \ {Own(x)} :
          handed' = [handed EXCEPT ![x] = from]
    /\ UNCHANGED <<pc, run, result, outcome, parsed, final>>

\* A generation may be handed over as the other.
HandOver ==
    /\ pc = "hand_over"
    /\ \/ UNCHANGED handed
       \/ /\ Wrong = {}
          /\ \E roles \in [Generations -> Generations] :
                handed' = [x \in Slot |-> [g |-> roles[x.g], s |-> x.s]]
    /\ pc' = "bind"
    /\ UNCHANGED <<run, result, outcome, parsed, final>>

\* An exception ends the call: nothing comes after it.
BindParents ==
    /\ pc = "bind"
    /\ outcome' = Bind(Given)
    /\ pc' = IF outcome' = Raised THEN "raised" ELSE "parse"
    /\ UNCHANGED <<run, result, handed, parsed, final>>

Parse ==
    /\ pc = "parse"
    /\ parsed' = IF outcome.status # "proceed"
                 THEN [status |-> outcome.status, reason |-> outcome.reason]
                 ELSE ParseStages(outcome, Given.trace["authoritative"])
    /\ pc' = "localize"
    /\ UNCHANGED <<run, result, handed, outcome, final>>

Localize ==
    /\ pc = "localize"
    /\ final' = IF WarningsOverflow(outcome) THEN OverflowResult
                ELSE IF parsed # Passed THEN Pass4Result(outcome, parsed, NoStages)
                ELSE LocalizeStages(outcome, Given.trace["authoritative"])
    /\ pc' = "done"
    /\ UNCHANGED <<run, result, handed, outcome, parsed>>

Next ==
    \/ Discover \/ Pass3A \/ Recapture \/ RecaptureDrifts \/ Pass3B
    \/ HandWrong \/ HandOver \/ BindParents \/ Parse \/ Localize

Spec == Init /\ [][Next]_vars
-----------------------------------------------------------------------------
(* Properties.  HandedRun(g) is the run whose Pass 3 result was handed over as
   that of generation g. *)
HandedGeneration(g) == handed[[of |-> "result", g |-> g, s |-> "reference"]].g
HandedRun(g)        == run[HandedGeneration(g)]

\* Every object of a generation g, as it should be handed over with the result.
Lineages ==
    LET r(g) == HandedRun(g) IN
    [artifact |-> [g \in Generations |-> SerializePass3(result[HandedGeneration(g)])],
     pass2    |-> [g \in Generations |-> Pass2Of(r(g))],
     report   |-> [g \in Generations |-> [s \in Sides |-> ReportOf(r(g), s)]],
     trace    |-> [g \in Generations |-> [s \in Sides |-> TraceOf(r(g), s)]]]

Proceeds  == outcome # None /\ outcome.status = "proceed"
Localizes == final # None /\ final.status \in Localizations

\* Pass 4 goes on only with one chain of evidence: for each generation the
\* typed result, its artifact, its Pass 2 and all four files are those of one
\* pair of runs, the two generations are two different pairs, and the second
\* was captured inside the layer the first had found.  Whatever is handed over
\* in a wrong slot, or is odd in a file, is refused before (bind_pass4_parent_inputs).
ProceedIsOneLineage ==
    Proceeds =>
        LET given == Given
            own   == Lineages
        IN  /\ HandedGeneration("discovery") # HandedGeneration("authoritative")
            /\ given.artifact = own.artifact
            /\ given.report = own.report /\ given.trace = own.trace
            /\ given.pass2["authoritative"] = own.pass2["authoritative"]
            /\ given.pass2["discovery"] \in {None, own.pass2["discovery"]}
            /\ HandedRun("discovery").target = Absent
            /\ HandedRun("authoritative").target = given.result["discovery"].layer

CommonLayers(r) == r.captured["reference"] \cap r.captured["candidate"]
Differing(r)    == {l \in CommonLayers(r) : LayerDiffers(r.onset, "candidate", l)}
FoundIn(r)      == IF Differing(r) = {} THEN Absent
                   ELSE CHOOSE l \in Differing(r) : \A m \in Differing(r) : l <= m

\* The layer Pass 4 looks into is, in both generations, the first layer in
\* which the runs really differ among those both sides captured.
TargetIsFirstMismatch ==
    Proceeds => \A g \in Generations : FoundIn(HandedRun(g)) = outcome.target.layer

\* Where a localization ends, the onset is: the last equal layer is before it;
\* when the onset is in the layer found, its stage is the stage reported, or one
\* of those listed as missing, or the layer output; when it is in an earlier
\* layer, the interval begins at the entry of the layer.
StageIntervalHoldsOnset ==
    Localizes =>
        LET onset == HandedRun("authoritative").onset
            at    == final.stages
            end   == IF at.mismatch = None THEN StageCount ELSE at.mismatch.stage
            last  == final.parent.localization.last
        IN  /\ onset.layer <= at.target.layer
            /\ last # None => last.layer < onset.layer
            /\ IF onset.layer = at.target.layer
               THEN onset.stage \in at.interval.missing \cup {end}
               ELSE at.interval.start = "selected_layer_entry" /\ at.mismatch # None

\* Whatever is handed over, every pass ends in one of its classified outcomes, and
\* no constructor refuses what the code before it built, with one exception: lists
\* that are unfit make the outcome of gates 1 to 5 raise, in every outcome that
\* inherits them, also in a refusal.  A full list is no exception, although a
\* warning may be added to it (_bounded_tuple, _inherited_parent_evidence,
\* _warning_overflow_result).
FitInputIsClassified ==
    LET given == Given IN
    /\ \A g \in Generations : result[g] # None => Pass3ResultIsValid(result[g])
    /\ outcome # None =>
          (outcome = Raised <=>
              /\ given.result["authoritative"].warnings = "unfit"
              /\ Lineage(given).reason \in {"none", "parent_status_blocked"})
    /\ pc = "done" => Pass4ResultIsValid(final)

Genuine == OddRuns = 0 /\ Wrong = {}

Looked(r) == {l \in CommonLayers(r) : FoundIn(r) = Absent \/ l <= FoundIn(r)}

ExpectedStatus ==
    LET d == run["discovery"]
        a == run["authoritative"]
        common == a.stages["reference"] \cap a.stages["candidate"]
        shown  == {s \in common : StageDiffers(a.onset, "candidate", a.target, s)}
    IN  IF \/ \E g \in Generations : Cardinality(Looked(run[g])) > MaxComparisons
           \/ CommonLayers(a) = {}          THEN "comparison_blocked_by_pass3"
        ELSE IF FoundIn(a) = Absent         THEN "not_applicable"
        ELSE IF FoundIn(d) = Absent         THEN "comparison_blocked_by_pass3"
        ELSE IF FoundIn(d) # FoundIn(a)     THEN "parent_revalidation_inconsistent"
        ELSE IF common = {}                 THEN "insufficient_common_intra_layer_coverage"
        ELSE IF shown = {}                  THEN "mismatch_bounded_to_inherited_closing_boundary"
        ELSE "observable_intra_layer_mismatch_found"

\* Evidence without a fault is never refused for a wrong reason: what Pass 4
\* says of it follows from what was captured and where the runs differ.
GenuineEvidenceIsLocalized ==
    pc = "done" /\ Genuine => final.status = ExpectedStatus

\* Pass 4 can read whatever Pass 3 writes: only a truncated list of comparisons,
\* and a coordinate a file called captured and missing at once, are refused.
EveryArtifactIsRepresentable ==
    \A g \in Generations :
        /\ result[g] # None
        /\ Len(result[g].comparisons) <= MaxComparisons
        /\ run[g].fault.kind # "missing_captured"
        => Representation(SerializePass3(result[g])) = Passed
=============================================================================
