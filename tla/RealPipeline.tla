---------------------------- MODULE RealPipeline -----------------------------
(***************************************************************************)
(* run_real_pipeline as a producer of evidence: two builds run the same    *)
(* prompt, Pass 1 finds the first selected token they differ in, reruns    *)
(* reproduce the boundary with layer captures (discovery), everything runs *)
(* again with captures inside the layer found (recapture), and the report  *)
(* says how far the divergence was localized.  VerifyAttempt has the stage *)
(* machine and the files of the same attempt; here they are left out, and  *)
(* what the passes compare is kept.                                        *)
(*                                                                         *)
(* A build is deterministic up to MaxDrifts runs of an attempt, which may  *)
(* print other tokens or compute other layer outputs.  A digest is 0 for   *)
(* the reference and 0 or 1 for the candidate: only equality is looked at. *)
(***************************************************************************)
EXTENDS Localization, Calibration

CONSTANTS
    Id,             \* token ids
    Config,         \* the fingerprints of a configuration, "none" without one
    MaxTokens,      \* bound on the tokens of a run
    LayerCount,
    Selected,       \* the layers a trace samples
    StageCaptures,  \* the sets of stages an intra-layer capture may hold
    MaxDrifts       \* bound on the runs that differ from an earlier one

ASSUME RealPipelineAssumption ==
    /\ NoToken \notin Id
    /\ MaxTokens \in Nat \ {0}
    /\ LayerCount \in Nat \ {0}
    /\ Selected \subseteq 0 .. LayerCount - 1
    /\ StageCaptures \subseteq SUBSET Stages
    /\ MaxDrifts \in Nat

VARIABLES
    pc,         \* the step of the pipeline
    turn,       \* the role that runs next
    generation, \* discovery, or the recapture under a target layer
    program,    \* what each build reports of its run, when nothing drifts
    drifts,
    original,   \* the reports of the original runs
    rerun,      \* the reports and traces of the last reruns
    pass1, pass3,
    report

builds   == <<program, drifts>>
runs     == <<original, rerun>>
evidence == <<pass1, pass3>>
vars == <<pc, turn, generation, builds, runs, evidence, report>>

Role == {"reference", "candidate"}
Generation == {"discovery", "recapture"}
Layers == 0 .. LayerCount - 1
Classification == {"unsupported", "inconclusive", "harness_error"}

TokenIds == UNION {[1 .. n -> Id] : n \in 1 .. MaxTokens}
RunReport == [level : {"array_exact"}, ids : TokenIds, config : Config]
        \cup [level : {"digest_only", "missing"}, ids : {<<>>}, config : Config]
NoReport == [level |-> "none", ids |-> <<>>, config |-> "none"]

Equal(indices) == [i \in indices |-> 0]
Digests(role, indices) ==
    IF role = "reference" THEN {Equal(indices)} ELSE [indices -> {0, 1}]
NoRerun ==
    [forced |-> <<>>, ids |-> <<>>, target |-> Entry,
     captured |-> {}, layers |-> Equal(Layers),
     stage_captured |-> {}, stages |-> Equal(Stages)]

NoLayer == [status |-> "not_run", step |-> NoStep, layer |-> Entry,
            interval |-> LayerInterval(Entry, Entry)]
NoReportYet == [verdict |-> "none", token |-> NoLocation("not_run"),
                layer |-> LayerInterval(Entry, Entry),
                stage |-> StageInterval(Entry, Entry)]
-----------------------------------------------------------------------------
Init ==
    /\ pc = "preflight" /\ turn = "reference" /\ generation = "discovery"
    /\ program \in [Role -> RunReport] /\ drifts = 0
    /\ original = [g \in Generation |-> [r \in Role |-> NoReport]]
    /\ rerun = [r \in Role |-> NoRerun]
    /\ pass1 = [g \in Generation |-> NoLocation("not_run")]
    /\ pass3 = [g \in Generation |-> NoLayer]
    /\ report = NoReportYet
-----------------------------------------------------------------------------
(* Reports and failures *)

\* _blocked_report and the reports without localization
Stop(verdict, location) ==
    /\ pc' = "done"
    /\ report' = [NoReportYet EXCEPT !.verdict = verdict, !.token = location]
    /\ UNCHANGED <<turn, generation, builds, runs>>

VerdictOfClass(class) ==
    CASE class = "unsupported"  -> "UNSUPPORTED"
      [] class = "inconclusive" -> "INCONCLUSIVE"
      [] OTHER                  -> "HARNESS_ERROR"
\* Mutant: a failure is reported by its class, whatever is already known.
FailureVerdictOfClass(class) == VerdictOfClass(class)


FailureVerdict(class) ==
    IF Mismatch(pass1["discovery"]) THEN "REGRESSION" ELSE VerdictOfClass(class)

Fail(class) ==
    /\ Stop(FailureVerdict(class), pass1["discovery"])
    /\ UNCHANGED evidence

\* The set-up of the attempt and RealLISExecutor.run fail in each class.  A run
\* that was asked for stages of a layer and does not reach it fails as well.
RunFails ==
    /\ pc \in {"preflight", "originals", "reruns"}
    /\ \E class \in Classification : Fail(class)
-----------------------------------------------------------------------------
(* Originals, Pass 0 and Pass 1 *)
Goto(step) ==
    /\ pc' = step
    /\ UNCHANGED report

NextRole(step) ==
    /\ turn' = IF turn = "reference" THEN "candidate" ELSE "reference"
    /\ pc' = IF turn = "reference" THEN pc ELSE step
    /\ UNCHANGED <<generation, program, evidence, report>>

Preflight ==
    /\ pc = "preflight"
    /\ Goto("originals")
    /\ UNCHANGED <<turn, generation, builds, runs, evidence>>

\* A run shows what the build usually shows, or drifts.
Drift(usual) ==
    /\ drifts' = IF usual THEN drifts ELSE drifts + 1
    /\ drifts' <= MaxDrifts

RunOriginal ==
    /\ pc = "originals"
    /\ \E ids \in TokenIds \cup {<<>>} :
           /\ (ids = <<>>) = (program[turn].level # "array_exact")
           /\ Drift(ids = program[turn].ids)
           /\ original' = [original EXCEPT ![generation][turn] =
                               [program[turn] EXCEPT !.ids = ids]]
    /\ NextRole("calibrate")
    /\ UNCHANGED rerun

\* _run_pass0 and _run_pass1, on a pair of originals
Side(run) == RunSide("llama3_decoder", run.config, "cpu", "profile tokens")
RunPass0(pair) ==
    CalibrationPreflight(Side(pair["reference"]), Side(pair["candidate"]),
                         DefaultProfile, NoValue)
RunPass1(pair) ==
    RunTokenLocalization(Proceed(RunPass0(pair)), pair["reference"], pair["candidate"])

Calibrate ==
    /\ pc = "calibrate"
    /\ IF generation = "discovery" /\ ~Proceed(RunPass0(original["discovery"]))
       THEN Stop("UNSUPPORTED", pass1["discovery"])
       ELSE Goto("locate") /\ UNCHANGED <<turn, generation, builds, runs>>
    /\ UNCHANGED evidence

LocateToken ==
    LET found == RunPass1(original[generation]) IN
    /\ pc = "locate"
    /\ pass1' = [pass1 EXCEPT ![generation] = found]
    /\ UNCHANGED pass3
    /\ CASE Mismatch(found) ->
                /\ Goto("reruns")
                /\ UNCHANGED <<turn, generation, builds, runs>>
         [] ~Mismatch(found) /\ generation = "recapture" ->
                Stop(FailureVerdict("harness_error"), pass1["discovery"])
         [] OTHER -> Stop(IF found.status = "token_equivalent_on_observed_range"
                          THEN "PASS" ELSE "INCONCLUSIVE", found)
-----------------------------------------------------------------------------
(* Reruns and Pass 2 *)
Prefix == pass1[generation].prefix

\* The bindings of both forced prefixes are built before the first rerun.
BindingRefused ==
    /\ turn = "reference" /\ Prefix # <<>>
    /\ \E r \in Role : ~BindsPrefix(original[generation][r])

BindingFails ==
    /\ pc = "reruns"
    /\ BindingRefused
    /\ Fail("harness_error")

\* With a forced prefix a run selects one token and stops.
UsualIds(role) ==
    LET ids == program[role].ids IN
    CASE Prefix = <<>> -> {ids}
      [] Prefix # <<>> /\ Len(Prefix) < Len(ids) -> {<<ids[Len(Prefix) + 1]>>}
      [] OTHER -> [1 .. 1 -> Id]
PossibleIds == IF Prefix = <<>> THEN TokenIds ELSE [1 .. 1 -> Id]

\* The checkpoint step is a decode step: it runs if the token it selects exists.
ReachesCheckpoint(ids) == Prefix = <<>> /\ CheckpointStep(pass1[generation]) < Len(ids)

\* The stages of a layer are captured in the recapture only.
Target == IF generation = "discovery" THEN Entry ELSE pass3["discovery"].layer
Captures == IF Target = Entry THEN {{}} ELSE StageCaptures
StageDigests(role) == IF Target = Entry THEN {Equal(Stages)} ELSE Digests(role, Stages)

Reruns(role, ids) ==
    IF ~ReachesCheckpoint(ids)
    THEN {[NoRerun EXCEPT !.forced = Prefix, !.ids = ids, !.target = Target]}
    ELSE {[forced |-> Prefix, ids |-> ids, target |-> Target,
           captured |-> Selected, layers |-> layers,
           stage_captured |-> captured, stages |-> stages] :
              layers \in Digests(role, Layers), captured \in Captures,
              stages \in StageDigests(role)}

IsUsual(run) ==
    /\ run.ids \in UsualIds(turn)
    /\ generation = "recapture" => run.layers = rerun[turn].layers

RunRerun ==
    /\ pc = "reruns"
    /\ ~BindingRefused
    /\ \E ids \in PossibleIds : \E run \in Reruns(turn, ids) :
           /\ generation = "recapture" => run.captured # {}
           /\ Drift(IsUsual(run))
           /\ rerun' = [rerun EXCEPT ![turn] = run]
    /\ NextRole("reproduce")
    /\ UNCHANGED original

\* validate_paired_forced_prefix_reproductions, and the boundary of the recapture
ForcedFails ==
    Prefix # <<>> /\ \E r \in Role :
        ~ReproducesTarget(pass1[generation], original[generation][r], rerun[r])
SameBoundary(a, b) ==
    a.step = b.step /\ a.reference = b.reference /\ a.candidate = b.candidate
\* Mutant: only the step of the mismatch is compared.
BoundaryStepDrifted ==
    generation = "recapture" /\ pass1["recapture"].step # pass1["discovery"].step

BoundaryDrifted ==
    generation = "recapture" /\ ~SameBoundary(pass1["recapture"], pass1["discovery"])

Reproduce ==
    LET verified == PrefixPolicyReproduction(pass1[generation], original[generation],
                                             rerun) = "reproduction_verified"
    IN  /\ pc = "reproduce"
        /\ CASE ForcedFails \/ (generation = "recapture" /\ ~verified) \/ BoundaryDrifted ->
                     Fail("harness_error")
             [] ~ForcedFails /\ generation = "discovery" /\ ~verified ->
                     Stop("REGRESSION", pass1["discovery"])
             [] OTHER ->
                     Goto("layers") /\ UNCHANGED <<turn, generation, builds, runs>>
        /\ UNCHANGED evidence
-----------------------------------------------------------------------------
(* Pass 3, before and after the recapture, and Pass 4 *)
LocateLayer ==
    LET found == LayerLocalization(pass1[generation], rerun["reference"],
                                   rerun["candidate"])
    IN  /\ pc = "layers"
        /\ pass3' = [pass3 EXCEPT ![generation] = found]
        /\ UNCHANGED pass1
        /\ CASE ~LayerFound(found) \/ (generation = "recapture"
                                       /\ found.layer # pass3["discovery"].layer) ->
                     Stop("REGRESSION", pass1["discovery"])
             [] LayerFound(found) /\ generation = "discovery" ->
                     /\ generation' = "recapture"
                     /\ Goto("originals")
                     /\ UNCHANGED <<turn, builds, runs>>
             [] OTHER ->
                     Goto("stages") /\ UNCHANGED <<turn, generation, builds, runs>>

\* Parents that Pass 4 refuses leave the layers without stages.
LocateStage ==
    LET found == IntraLayerLocalization(rerun["reference"], rerun["candidate"])
        bound == BindsParents(pass3["discovery"], pass3["recapture"], rerun)
    IN  /\ pc = "stages"
        /\ pc' = "done"
        /\ report' = [verdict |-> "REGRESSION", token |-> pass1["discovery"],
                      layer |-> pass3["recapture"].interval,
                      stage |-> IF bound THEN found.interval
                                ELSE StageInterval(Entry, Entry)]
        /\ UNCHANGED <<turn, generation, builds, runs, evidence>>

Next ==
    \/ Preflight \/ RunFails
    \/ RunOriginal \/ Calibrate \/ LocateToken
    \/ BindingFails \/ RunRerun \/ Reproduce
    \/ LocateLayer \/ LocateStage

Spec == Init /\ [][Next]_vars
-----------------------------------------------------------------------------
(* Properties *)
OfDiscovery(role) == original["discovery"][role]
BothExact == \A r \in Role : OfDiscovery(r).level = "array_exact"
FirstDifference(n) ==
    LET ref == OfDiscovery("reference").ids
        cand == OfDiscovery("candidate").ids
    IN  /\ n <= Shorter(ref, cand)
        /\ \A i \in 1 .. n : ref[i] = cand[i]
        /\ TokenAt(ref, n) # TokenAt(cand, n)
        /\ report.token.reference = TokenAt(ref, n)
        /\ report.token.candidate = TokenAt(cand, n)

\* A verdict about the tokens rests on the exact tokens of the first two runs,
\* which Pass 0 allowed to be compared: REGRESSION names the first step at which
\* they differ and what each selected there, even when the pipeline ended in a
\* later pass or during the recapture, and PASS means they are the same.
RegressionIsProven ==
    /\ report.verdict \in {"PASS", "REGRESSION"} =>
           BothExact /\ Proceed(RunPass0(original["discovery"]))
    /\ report.verdict = "REGRESSION" => FirstDifference(report.token.step)
    /\ report.verdict = "PASS" =>
           OfDiscovery("reference").ids = OfDiscovery("candidate").ids

\* Once two comparable outputs are known to differ, no later failure, timeout,
\* refused binding or drift in the recapture turns the verdict into another.
MismatchIsNeverLost ==
    /\ pc = "done" /\ BothExact
    /\ Proceed(RunPass0(original["discovery"]))
    /\ OfDiscovery("reference").ids # OfDiscovery("candidate").ids
    => report.verdict = "REGRESSION"

LayerReported == report.layer # LayerInterval(Entry, Entry)
StageReported == report.stage # StageInterval(Entry, Entry)

\* A layer is reported only if both generations of original runs differ first at
\* the same step and by the same tokens, and both pairs of traces first differ in
\* that layer.
LocalizationSurvivesRecapture ==
    LayerReported =>
        /\ LET pair == original["recapture"] IN
               SameBoundary(Located(pair["reference"].ids, pair["candidate"].ids),
                            report.token)
        /\ FirstDifference(report.token.step)
        /\ \A g \in Generation : pass3[g].layer = report.layer.upto

LayerDiffers(l) ==
    l \in Layers /\ rerun["reference"].layers[l] # rerun["candidate"].layers[l]
StageDiffers(s) ==
    CASE s = Entry  -> LayerDiffers(report.layer.upto - 1)
      [] s = Output -> LayerDiffers(report.layer.upto)
      [] OTHER      -> rerun["reference"].stages[s] # rerun["candidate"].stages[s]

\* Outputs go from equal to different after one place and at or before the other.
OnsetInLayers(after, upto) ==
    \E l \in after + 1 .. upto : LayerDiffers(l) /\ ~LayerDiffers(l - 1)
OnsetInStages(after, upto) ==
    \E s \in after + 1 .. upto : StageDiffers(s) /\ ~StageDiffers(s - 1)

\* The reported layers hold a place where the outputs of two consecutive layers,
\* sampled by the trace or not, go from equal to different.  The reported stages
\* hold such a place inside the last of them, captured or not, unless the divergence
\* came in through the layers before it, and then those hold it.
IntervalsHoldOnset ==
    /\ LayerReported => OnsetInLayers(report.layer.after, report.layer.upto)
    /\ StageReported => \/ OnsetInLayers(report.layer.after, report.layer.upto - 1)
                        \/ OnsetInStages(report.stage.after, report.stage.upto)

=============================================================================
