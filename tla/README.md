# TLA+ verification of the Local Inference System

LIS is a C program that runs a decoder language model from local files (`srcs/`), and a set of Python tools
that compare two of its executions and publish a verdict (`tools/lis_verify`). This directory holds TLA+
modules of the parts whose correctness depends on the order of things: threads, calls that fail half way,
files that are written one after the other, evidence that is collected twice. TLC checks them on small instances.
TLAPS proves, for every value of the constants: the thread pool, with its safety refinement; the decoder runtime, with its
refinement; the driver, and that it uses the runtime as its specification allows; the bounded executor; the attempt and its
ledger for every number of failing calls, with its safety refinement; the verdicts and intervals of the verification
pipeline for every pair of builds; and, of the evidence that Passes 3 and 4 hand on, that Pass 4 goes on with nothing but one
chain of it, looks into the first layer that differs, reads whatever Pass 3 writes, classifies whatever it is given unless a list it
inherits is unfit, and names an interval that holds the place.

How to run: `tlc -config MCThreadPool.cfg MCThreadPool`, and so on for each row of *Runs*;
`tlapm ThreadPoolProofs.tla`, and so on for each module whose name ends in `Proofs`.

## Inventory

| Component | State | Operations | What is hard about it |
|---|---|---|---|
| thread pool (`srcs/runtime/thread_pool.c`) | one slot, mutex and two conditions per worker | `init`, `dispatch`, `destroy`, worker loop | lost and spurious wakeups, slot reuse, chunk arithmetic, ignored `pthread_create` failure |
| decoder runtime (`srcs/runtime/llama.c`, `runtime.c`, `kv_cache.c`, `batch.c`) | phase, position, step count, KV cache | `prefill`, `decode` | a pass that fails in the middle of the layers leaves its writes; retries; context limit |
| layer trace and intra-layer record (`srcs/core/layer_trace.c`, `intra_layer_trace.c`) | appended layer outputs, sticky failure; 17 stage slots and a state | append, append observation, finalize, write | both belong to exactly one pass; failed passes and retries |
| driver (`srcs/cli/driver.c`) | execution record, stop reason, three artifacts | generation loop, forced prefix, artifact writing | several stop reasons at once, failure paths that still write artifacts |
| lis-verify orchestration (`orchestrator.py`, `real_pipeline.py`, `state_machine.py`) | stage results, active stage | start and finish of 12 stages | early stops from seven places, nested `except` clauses, verdict authority |
| ledger (`ledger.py`) | append-only JSON lines | append, finish, abort | torn or unsynced appends; the file ahead of the object |
| publication and workspace (`report_artifact.py`, `workspace.py`) | four directory entries, runtime directory | prepare, link, unlink, roll back, clean | crash or failure between any two system calls |
| subprocess supervision (`execution.py`) | process group, two pipes, deadline, signal handlers | `run`, `_terminate` | descendants, zombies, a shared output limit, a second signal |
| loader, tokenizer, core types | parsed files | parse, merge, look up | numeric edges |
| backends and kernels, qwen3 | none / as the decoder | operators | floating point |
| passes 0 to 4 (`domains.py`, `pass*.py`, `forced_prefix.py`) | immutable evidence | calibrate, compare, reproduce, localize | partial captures, outputs that end early, evidence of two generations of runs, a dozen look-alike objects handed from call to call |
| demo, golden, acceptance, provenance, CI gate, `lis_inspect` | files | one-shot checks, viewing | little |

How they interact. The driver owns one runtime and calls `prefill` and `decode` one at a time; within a
pass `lis_attention` and the matrix kernels hand their work to the thread pool and wait for it. A pass also
appends to the two capture records when its step is the target. The driver writes the report, the trace and the layer
trace when the loop is over. On the Python side the orchestrator runs one attempt: a mode runner drives the stage
machine and the ledger together, and in the execution stages starts the C program through `BoundedExecutor`;
then the orchestrator cleans the runtime directory, finishes the ledger and publishes the report.

What makes each correct: a dispatch is a fork and join of each index once; attention reads what the committed
sequence stored and nothing else; captures are of one pass; artifacts tell the truth about the run that wrote them; a
visible report is a complete commit of one attempt with the verdict that Pass 1 earned; Pass 4 looks into a layer only with one
chain of evidence in its hands, and names an interval that holds the place; a supervised run ends, is bounded, and leaves nothing behind. `PROJECT.json` lists the hazards by line with the properties that cover them.

## Modules

| Module | Models | Kind |
|---|---|---|
| `ForkJoin` | what `lis_thread_pool_dispatch` promises | abstract specification |
| `ThreadPool` | the pool, one action per critical section | detailed, implements `ForkJoin` |
| `ThreadPoolProofs` | | TLAPS proofs about `ThreadPool` |
| `DecodeSession` | what the runtime promises the driver: the sequence of tokens, the last answer, the captures | abstract specification |
| `LlamaRuntime` | the runtime, layer by layer, with the cache and both records | detailed, implements `DecodeSession` |
| `Generation` | the driver on top of `DecodeSession` (it extends it: driver actions call its actions) | composition |
| `VerifyContract` | the frozen contract as pure operators: stages, dependencies, valid ledgers and reports, exit codes | operators |
| `AttemptPromise` | what an attempt directory promises its readers | abstract specification |
| `VerifyAttempt` | runner, stage machine, ledger, workspace and publication of one attempt | composition, implements `AttemptPromise` |
| `Calibration` | Pass 0: which reason codes two runs have and whether they may be compared | operators |
| `Localization` | Passes 1 to 4 as functions of their evidence | operators |
| `RealPipeline` | `run_real_pipeline` as a producer of evidence: originals, reruns, recapture, report | composition of the two |
| `RealPipelineProofs` | | TLAPS proofs about `RealPipeline` |
| `BoundedExecutor` | `BoundedExecutor.run` against a process group | detailed |
| `Gates` | a reader that refuses at its first failing check | operators |
| `LayerEvidence` | Pass 3: files, traces, the comparison of layers, its artifact | operators, extends `Gates` |
| `ParentGates` | gates 1 to 5 of Pass 4, and the record of the parents | operators, extends `LayerEvidence` |
| `StageEvidence` | gates 6 to 8 of Pass 4, the comparison of stages, its result | operators, extends `ParentGates` |
| `EvidenceChain` | discovery, recapture and the calls from Pass 3 to Pass 4, with odd files and wrong arguments | composition, extends `StageEvidence` |
| `LlamaRuntimeProofs`, `GenerationProofs`, `BoundedExecutorProofs` | | TLAPS proofs about `LlamaRuntime`, `Generation` and `BoundedExecutor` |
| `VerifyAttemptProofs` | | TLAPS proofs: about the lines of a ledger, and about `VerifyAttempt` |
| `EvidenceProofs`, `EvidenceChainProofs` | | TLAPS proofs: what the readers and comparisons of `LayerEvidence`, `ParentGates` and `StageEvidence` return, and about `EvidenceChain` |
| `MCThreadPool`, `MCLlamaRuntime`, `MCGeneration`, `MCRealPipeline`, `MCEvidenceChain` | | model values for TLC; the other modules take plain numbers from their `.cfg` |

### Correspondence

*ThreadPool.* `item`, `has_work`, `shutdown` are the fields of `lis_worker`; `wpc` and `cpc` say where the worker loop
and the caller are; `local` is the worker's copy of its item. A step is what happens between two points where
the mutex is free, or the signal that follows. `pthread_cond_wait` is two steps (park, wake) and `Spurious*` wakes it
without a signal. Work is a set of indices `0..total-1`; what `work_fn` does with them is not looked at, `done` counts them.

*LlamaRuntime.* A value is the number of the call that produced it, so "attention read garbage" is "read a call
that did not commit this position". `Project`, `Attend` and `Mlp` are the parts of one layer in the order of the
code: keys and values are stored, then read, then the residual stream is completed and captured. `Fail` may happen
in any of them, as lookups and allocations can fail in each. `position` and `decode_step_count` move only on return.

*Generation.* `pc` follows `lis_cli_run_inference`. A token is its kind (EOS, stop, both, neither). Each writer
may fail; a failed report may be absent, cut short, or complete (Markdown is written after JSON). A writer that returns
success may leave a torn file as well: `lis_artifact_write_run_report` and `lis_layer_trace_artifact_write` look at the results of
`fopen` and `fclose` only, and a buffered write that failed in between need not fail again. So exit status 0 does not say that a file is
whole, and a reader has to look; `SuccessIsReported` says what status 0 still excludes.

*VerifyAttempt.* `results` and `active` are the stage machine, `ledger.disk` the file and `ledger.mem` what the object
knows of it. `AppendFails` covers a failing `write`, a write cut short and a failing `fsync`: the file has nothing,
a torn line or the whole line more than the object, and `HasAuthority` then refuses every later append as the code's size
comparison does. `plan` says where the pipeline stopped and how it fills the remaining stages. Each of the two `link`s
and `unlink`s, the directory `fsync`, each append and the removal of the runtime directory is a step that may fail;
`Crash` may come between any two. Exit status 130 stands for 130 and 143.

*RealPipeline.* `VerifyAttempt` and `RealPipeline` are two views of the same function. The first keeps the stage machine, the
ledger and the files and lets each pass have any outcome; the second keeps what the passes compare and leaves the
files out. `program` is what each build prints, a run that drifts prints or computes something else, and
`generation` says whether the pipeline is in the discovery or in the recapture that looks into one layer. A rerun with
a forced prefix selects one token and never reaches its checkpoint step (`forced_prefix_capture` shows why), so only a
mismatch at the first token gets past Pass 3. Then the prefix is empty, and Pass 2 is verified whatever the
reruns select; that is in the model too. `RunFails` is every way in which a child run, its report or its inputs are
refused. Pass 4 refusing its parents is a report without stages, as in the code. A length mismatch is a REGRESSION here and is
lost later, when `VerifyAttempt`'s contract refuses the report.

*Gates, LayerEvidence, ParentGates, StageEvidence.* Each file is a record with the fields that some check reads. A reader of
the code raises at the first check that fails, with a status and a reason; here it is a sequence of gates in the code's
order and its outcome the refusal of the first that does not pass. `Raised` is an exception of a constructor that no caller turns
into a status; it ends the call (`pc = "raised"`). `warnings` stands for the five lists a result of Pass 3 hands on: "few" leaves room for what
the passes add, "full" for nothing more, and "unfit" is one that `_bounded_tuple` refuses (too many entries, or one that is empty, repeated or too long). The SHA-256 of a canonical artifact is the artifact itself, so equal hashes are equal artifacts; a digest of
a tensor is a value of which only equality is looked at. The name, role and ordinal of a stage are one number.

*EvidenceChain.* A step is a call: `discover` and `recapture` are the child runs of a generation (`run` keeps what they did), `pass3a` and
`pass3b` are `LocalizeLayers`, `hand_over` picks the fourteen arguments of `run_coverage_scoped_intra_layer_localization`, `bind` is gates 1 to
5, `parse` 6 and 7, `localize` 8 with the comparison. `fault` is what is odd about the files of a run (36 kinds: a field of a
manifest, a layout, a summary, a stage entry, a binding; and lists of warnings that are full or unfit). `handed` maps each of the fourteen slots to the generation and side whose object
it is given; `HandWrong` puts a wrong object of the same kind into one, `HandOver` may give a generation in the place of the other.
The function is public, so callers other than `run_real_pipeline`, which checks some of this before, are part of the model.

*BoundedExecutor.* The group is the child and one descendant, which may inherit either pipe. Data is counted. The
clock is two Booleans, the stage deadline and the grace period.

## Runs

| Run | Instance | Shows |
|---|---|---|
| `thread_pool` | up to 4 threads, 6 indices, 2 dispatches | no lost wakeup, slots not overwritten, disjoint chunks, each index once, join before return, every call returns (`CallsReturn`); implements `ForkJoin` |
| `thread_pool_create_fails` | 2 threads, creation may fail | **violation**: dispatch waits for a worker that was never created |
| `llama_runtime` | 8 layers, context 3, 3 calls, each capture option | cache, positions and both records survive failed passes and retries; implements `DecodeSession` |
| `generation` | up to 3 tokens, prompt up to 5 in a context of 4, forced prefixes | tokens, stop reason, report, trace and layer file agree where they can be read whole; the driver exits |
| `forced_prefix_capture` | as above | **violation**: the checkpoint step a forced prefix demands is never executed |
| `verify_attempt` | every outcome of every stage, 2 failing system calls, a crash | see below |
| `verify_attempt_length_mismatch` | no failing call | **violation**: a mismatch in length is refused by the report's validation |
| `real_pipeline` | 3 token ids, outputs of 1 or 2 tokens, 3 layers of which 2 are sampled, 2 stages, 1 drift | see below |
| `bounded_executor` | limit 2, 2 units per stream, 2 signals | bounded output, `ok` is complete, ended runs leave no process, `run` returns |
| `bounded_executor_detached` | as above, a child that closed its streams may go on | **violation**: `run` waits without a deadline |
| `evidence_chain` | 3 layers, 2 stages, 4 pairs of layer captures, 3 onsets; one odd file or drift, or 2 wrong slots | see below |
| `evidence_stages` | 2 layers, 3 stages, every pair of stage captures, every onset, no fault | see below |

`verify_attempt` checks six invariants and one refinement. `CommitIsComplete`: whoever sees a report finds a valid ledger
with the same verdict, stage states and residue. `LedgerFollowsMachine`, `FinishIsAccepted`: the ledger and the stage
machine agree on every path, and no retry in an `except` clause turns a torn ledger into a finished one.
`VerdictHasAuthority`, `ExitIsEarned`: PASS and REGRESSION come from Pass 1, and from nothing later.
`NothingLeftBehind`: what one failing call can do to the directory.

`real_pipeline` checks four invariants. `RegressionIsProven`, `MismatchIsNeverLost`: the verdict is what the first two outputs say,
whatever fails, is blocked or drifts afterwards. `LocalizationSurvivesRecapture`: a layer is named only if the recapture saw
the same mismatch and the same layer. `IntervalsHoldOnset`: the intervals of layers and of stages hold a place where the builds
part, although only some are captured and differences may vanish again.

`evidence_chain` checks four invariants over everything Pass 4 can be handed. `ProceedIsOneLineage`: gates 1 to 5 let through
one chain of evidence and nothing else, however many look-alikes were exchanged. `FitInputIsClassified`: gates
1 to 5 end in an exception exactly when they inherit an unfit list, in a refusal too, because `Pass4ParentBindingOutcome` is built outside every
`try`; a refusal of gates 1 and 2 that inherits nothing does not. Everything else is classified, although the record of the parents a refusal
builds has a constructor with rules of its own: a full list to which a warning is added becomes `comparison_blocked_by_pass3`.
`EveryArtifactIsRepresentable`: what Pass 3 writes, Pass 4 can read, although each has its own code for the same rules.
`TargetIsFirstMismatch`: the layer looked into is the first captured one that differs. `evidence_stages` checks, on genuine
evidence, `StageIntervalHoldsOnset` (the reported interval holds the onset) and `GenuineEvidenceIsLocalized` (Pass 4 says exactly what
follows from the onset and from what was captured; it does not refuse good evidence).

Why the bounds are enough. Chunk arithmetic has a case for fewer, as many and more indices than workers and for each
remainder; four threads and six indices have them all, and a second dispatch reuses every slot (the proofs drop these
bounds). Eight layers are the least for which the selected layers (first, quarters, last) differ from all layers; a
prefill and two decodes, or retries of them, put a failed pass before, at and after the target step. Three tokens
tell the first, a middle and the last step apart. Two failing calls are what it takes to break a handler inside a
handler; nothing in the attempt has a third level. One descendant is enough for a group that outlives its leader, two
signals for one that interrupts the handling of the other, two units over a limit of two for under, at and over it.
Outputs of two tokens have a mismatch at the first token, at the second and in the length; a third token id lets a recapture
mismatch at the same step by another token. A layer that is not sampled lies between two that are. One drift in any
run makes discovery and recapture disagree; the invariants are of one recapture, so a second adds nothing.
In `EvidenceChain`, `MaxOddRuns = 1` is one odd file: a gate looks at one field or at the equality of two, and every field has its kind
of fault. `MaxWrongSlots` bounds the wrong slots by the number of odd generations: two when no file is odd, which lets two wrong objects agree with
each other, and that is what a gate that compares them cannot see; none besides an odd file, a product too large for a run that is
repeated often (a whole generation may still be handed over as the other). `LineageAlways` has no such bound. The layer captures are complete, partial,
different and disjoint; `MaxComparisons` (256 in the code) is one less than the layers that can be common, so truncation of the list happens.
Three stages are the least with a stage strictly between two captured ones; there every pair of captures is tried.

`CHECK_DEADLOCK FALSE` is given where a behaviour ends: calls are used up (`LlamaRuntime`), the attempt or the run has
returned (`VerifyAttempt`, `RealPipeline`, `EvidenceChain`, `BoundedExecutor`).

Fairness. `ThreadPool`: weak fairness of the caller and of each worker, which is what a scheduler gives a
runnable thread; spurious wakeups get none. `Generation`: weak fairness of the driver, whose calls return.
`VerifyAttempt`: weak fairness of the process and none of the crash, given that the child processes it waits for come back,
which is `Returns` of `BoundedExecutor`. `BoundedExecutor`: weak fairness of the parent and of the clock. The
group owes nothing, with one exception: a child that has closed both streams ends. The code relies on that (its last
`wait` has no timeout); `Lingers` takes it away, and then `run` need not return. `LlamaRuntime`, `RealPipeline` and `EvidenceChain` have
no fairness and no liveness property: they are calls their caller makes.

## Proofs

`ThreadPoolProofs` proves, for every `MaxThreads`, `MaxTotal` and `MaxDispatches` that satisfy `ThreadPoolAssumption`,
with or without failing thread creation:

- `TypeCorrect`, `JoinCorrect`, `DisjointCorrect`, `WakeupCorrect`: the four invariants of the run;
- `SlotCorrect` (`SlotNotOverwritten`), `OnceCorrect` (`EachIndexOnce`): its two action properties;
- `ForkJoinSafety`: each step of the pool is a step of `ForkJoin` or a stutter.

`TypeOK`, `JoinBeforeReturn` and the others are not inductive: that a caller who passed worker `i` may go on says nothing
of the indices unless the slots, the worker copies and the caller's `offset` are tied together. The inductive invariant is

    IInv == TypeOK /\ CallerInv /\ SlotInv /\ DisjointInv /\ TodoInv /\ NoLostWakeup

`CallerInv` relates `idx`, `offset` and `total` (the chunks up to `idx` end at `offset`), `SlotInv` a worker's `wpc` to its slot and
copy, `DisjointInv` the chunks of different workers, `TodoInv` the unfinished indices to the slots that hold them, and
`NoLostWakeup` every sleeping thread to a condition that still is false or a thread about to signal it. The one
arithmetic fact, that the chunks of `dispatch` tile `0..total-1`, is the lemma `ChunksPartition`, from `DivMod` and
`MulMonotone`. `Invariance` then has one lemma for each group of actions.

`RealPipelineProofs` proves, for every set of token ids and fingerprints, every length of output, number of layers and stages,
sampling, captures and number of drifts that satisfy `RealPipelineAssumption`:

- `RegressionCorrect`, `MismatchCorrect`, `LocalizationCorrect`, `OnsetCorrect` (`IntervalsHoldOnset`): the four invariants of the run;
- `FirstMismatch`: the step that Pass 1 computes is the first at which two different outputs differ.

The first three speak of finished attempts, so they need to know what the pipeline holds in its hands at each place. The
inductive invariant is

    IInv == EvidenceInv /\ DiscoveryInv /\ RecaptureInv /\ ReportInv

`EvidenceInv` types the evidence, `DiscoveryInv` says that Pass 1 of the discovery is not computed, or is the mismatch of the
first two runs and stays so, `RecaptureInv` what the recapture has confirmed so far, and `ReportInv` holds the three
invariants. `OnsetCorrect` needs more: the traces in hand are those of runs of this model (`TracesInv`), and whatever Pass 3 and Pass 4
made of them holds an onset (`OnsetInv`). That an interval from an equal layer to a different one holds an onset is `OnsetExists`: the
least layer that differs after the last equal one. `LayerLocalizationIs` and `StageLocalizationIs` say what the passes make of two traces. `MismatchEvidence` and `MismatchFound` say what a Pass 1 mismatch means, `MinExists` that a least
differing step exists. `StopKeeps` and `FailKeeps` are shared by all actions that end an attempt; then there is one lemma for each action.

`LlamaRuntimeProofs` proves, for every `LayerCount`, `MaxTokens`, `MaxCalls` and `Options` that satisfy `LlamaRuntimeAssumption` (which
types the options: they are `bool` and `uint32_t` in C):

- `TypeCorrect`, `PositionCorrect`, `AttentionCorrect`, `TraceCorrect`, `RecordCorrect`: the five invariants of the run;
- `SessionImplemented`: `Spec => ImplementsSession`, the whole refinement; `DecodeSession` has no liveness part.

None of the five is inductive: that attention reads what the sequence stored depends on what failed calls left in the
cache, and that a trace is of one pass on what a call in progress has appended so far. `RuntimeInv` adds what the call in
progress was made for (`CallInv`), who brought each position (`SequenceInv`), which call stored each key and value (`CacheInv`), and how
far the two records are at each layer (`StageInv`, `TraceInv`, `LayerProgressInv`, `ContextInv`). One lemma takes a part over every
action; `PrefillImplements`, `DecodeImplements`, `FailImplements`, `FinalizeImplements` and `InsideCall` are the cases of the refinement.

`GenerationProofs` proves, for every context, prompt, forced prefix, limit and option that `SessionAssumption` and
`GenerationAssumption` allow:

- `TokensAgreeAlways`, `ReportReasonIsRightAlways`, `SuccessIsReportedAlways`, `LayerFileIsWholeAlways`: the four invariants of the run;
- `DriverFollowsSession`: `GSpec => Spec` of `DecodeSession`. `LlamaRuntime` implements `DecodeSession`, so what is proved of the
  driver does not rest on more than the runtime gives.

The four invariants speak of lists that are written to files long after the loop, and a writer may fail in between. The
inductive invariant is

    GenInv == TypeInv /\ ListsInv /\ LoopInv /\ CaptureInv /\ EndInv /\ FilesInv

`ListsInv` ties `selected`, `emitted`, `traced` and the sequence of the runtime together, place by place; `LoopInv` says how far the
loop can be, in tokens and steps; `CaptureInv` how far both captures are for the steps made; `EndInv` why the loop was left, which
is what the report will say; `FilesInv` what each file holds once its writer was called.

`EvidenceChainProofs` proves `LineageAlways` (`ProceedIsOneLineage`) for every number of layers and stages, every capture, every kind
and number of odd files that the constants allow, and every number of wrong slots. TLC tries at most two wrong slots and none together with an odd file;
the theorem needs neither `MaxWrongSlots` nor `MaxOddRuns`. The invariant `ChainInv` is small: what was handed over are objects of their
kind (`HandedInv`), the second run was captured at the layer the first had found, and without a fault with the same onset (`RunsInv`),
a result of Pass 3 is `LocalizeLayers` of the files of its runs (`ResultsInv`), the outcome is `Bind` of what was handed over, and the call has raised if that is `Raised` (`OutcomeInv`). The argument is about the gates. A gate refuses and never lets proceed (`DemandRefuses` and one lemma for each
reader), so a parent proceeds only when all seven gates of `Lineage`, `Drift` and `Sources` pass (`BindProceeds`). Then the artifact is that
of the result; a result names the Pass 2 and the files it was made from or none (`LocalizationIs`), and a bound parent names them; each file is the
one named; so all belong to the run of the result (`ArtifactIs`). Two parents of one run would have one trace. A file that is odd on one side leaves
the other to tell which layer the run captured (`OneSideShowsTheTarget`).

The other invariants of `EvidenceChain` are about content: which coordinates two captures share, in which order, and what is made of
them. They hold for every value of the constants too:

- `TargetAlways` (`TargetIsFirstMismatch`), `OnsetAlways` (`StageIntervalHoldsOnset`), `RepresentableAlways`
  (`EveryArtifactIsRepresentable`), `ClassifiedAlways` (`FitInputIsClassified`), `GenuineAlways` (`GenuineEvidenceIsLocalized`).

What the calls return is the larger part, in `EvidenceProofs`. A sequence of coordinates is a set in ascending order (`Ascending`), a
selection from it the positions that were picked (`Picked`), both defined by counting: the n-th element is the one with n - 1 below it. Every
sequence of coordinates in a file is that of a set of layers (`LayersAtIs`), what both sides captured is again that of a set
(`WithKeysOfLayers`), and so are what one lacks and what neither has (`LayersArePartitioned`). A reader passes only when each of its gates does:
one lemma for each reader lists the conditions (`LineageReads`, `Gate3Reads`, `DriftReads`, `BindSourceReads` and so on). Then:

- *Target.* The comparison of Pass 3 ends at the least common layer that differs (`ComparisonsAre`), and that is what an artifact names
  that Pass 4 accepts (`MismatchIsFound`).
- *Representability.* `ResultsSay` lists what an artifact says of coverage, comparisons and mismatch, and
  `ArtifactIsRepresentable` takes it through the gates of `Representation`. The coverage is read back
  as sequences of keys; `LayoutIsPartitioned` and `CoverageOfCoheres` show that they are a partition in order.
- *Classification.* Whatever is handed over, a refusal carries a reason allowed for its status, and the record of the parents it builds is
  one its constructor accepts (`ParentsAre`); a parent that proceeds is complete (`EligibleIs`). So the lists are all that an outcome
  can be refused for: it is `Raised` when they are unfit and is what the gates made of it otherwise (`TerminalIs`, `ParentTerminalIs`, `BindSays`,
  where `Inherits` says which outcomes take the lists over). A result of Pass 4 is one `Pass4Result` accepts (`FinalIsValid`, and
  `OverflowIsValid` for full lists), and so is every result of Pass 3 for its constructor (`ResultIsValid`).
- *Onset.* Both sides' stages are those captured (`IntraIs`), a stage is equivalent exactly when the builds agree at it
  (`StageIsEquivalent`), and the interval runs from the last equal to the first different one, or from the input of the layer.
- *Genuine evidence.* All gates in the other direction: with no fault in a file and every object in its place, each of them
  passes (`GenuineLocalization`, `GenuineLineage`, `GenuineKind`, `GenuineDrift`, `GenuineSources`, `GenuineParse`), so what
  Pass 4 says is what the captures and the onset make of it (`GenuineBind`, `GenuineStages`, `GenuineFinal`). Three facts are needed beyond the
  other proofs: no list is full or unfit (`GenuineWarnings`); each generation goes by its own name (`NamesInv`), or the second would be refused as a repetition of the first; and as many
  comparisons are made as there are layers to look at (`LookedIs`), on which the bound on the comparisons written depends.

`BoundedExecutorProofs` proves, for every limit, amount of output and number of signals, and whether or not a child may linger:
`OutputIsBoundedAlways`, `OkIsCompleteAlways`, `NoProcessLeftAlways`. The invariant is

    IInv == TypeInv /\ StreamInv /\ StatusInv /\ LimitInv /\ GroupInv

`StreamInv` ties who can still write to who is alive and what was read to what was written, `StatusInv` says which status
there can be at each place, `LimitInv` that a reached limit is exact, `GroupInv` who may be alive after which signal was sent.

`VerifyAttemptProofs` proves, for every `MaxFaults`:

- `CommitAlwaysComplete`, `LedgerAlwaysFollows`, `FinishAlwaysAccepted`, `VerdictAlwaysHasAuthority`, `ExitAlwaysEarned`,
  `NothingEverLeftBehind`: the six invariants of the run;
- `KeepsPromise`: an attempt starts as `AttemptPromise` says and each of its steps is a step of it or a stutter.

That a visible report is committed needs what the ledger held when it was finished; that needs that the ledger
knew every result of the stage machine at each place before, also after lines that were torn, or that reached the file
without the object knowing. The inductive invariant is

    IInv == /\ TypeInv /\ MachineInv /\ PlanInv /\ VerdictInv /\ AgreeInv /\ LedgerInv
            /\ CommitInv /\ BundleInv

Place by place: where the stage machine is (`MachineInv`), how the stages in front of the plan went (`PlanInv`), what Pass 1
decided (`VerdictInv`), how the ledger and its file compare with the machine (`AgreeInv`), which lines they hold (`LedgerInv`), that
a finished ledger stays what the report says (`CommitInv`), and which files there are (`BundleInv`). Each part is preserved with the parts
before it. The first part of the module has the facts about lines the appends need: what a line does to a well-formed ledger, and
that a well-formed ledger with its last line loads (`ValidLedger`).

Only model-checked: liveness (`CallsReturn`, `Terminates`, `Returns`, and the fairness parts of the two refinements checked whole, `ForkJoin` and
`AttemptPromise`), which is out of the prover's reach. Every invariant and every action property that a passing run checks has a theorem.
The provers know neither `SelectSeq` nor `SetToSortSeq`, whose results follow by induction over the sequence or the set; that is why `LayerEvidence`
has `Ascending` and `Picked`, and TLC compares the two pairs on every set and sequence of a small instance (`AscendingIsSorted`, `PickedIsSelected` of
`MCEvidenceChain`). Several modules import theorems about finite
sets, functions, sequences and well-founded relations from the TLAPS library; nothing else is assumed beyond the named assumptions of the modules.

## Where the code and its documents part

Four runs expect a violation; their findings are in `PROJECT.json`. Two more differences were met and are only told here:

- `run_real_pipeline` reports every blocked Pass 0 as UNSUPPORTED (`real_pipeline.py:659`) and every stop of Pass 1 as
  INCONCLUSIVE (line 698). `docs/lis_verify_contract.md:95` and `product_contract.py:277-279, 415-423` give HARNESS_ERROR or UNSUPPORTED for some
  reasons. `VerifyAttempt` follows `run_real_pipeline`.
- A second signal while `_terminate` handles the first one (`execution.py:232`) leaves `run` with the process group alive and no
  SIGKILL; `docs/lis_verify_contract.md:192` promises a 10-second grace window. `BoundedExecutor` has that path (`Interrupt`, `raised`), and
  `NoProcessLeft` speaks of a `run` that returns.

## Not modelled

Floating point, hashes as bytes, byte formats and text. Power loss that keeps one directory entry and loses another. Memory
ordering below the mutexes (all shared state is behind them, except the status that failing attention workers write).
The demo pipeline, `golden`, `acceptance`, `provenance`, `ci_gate`, `lis_inspect`. The windows in which a signal
arrives outside `BoundedExecutor.run` (the interpreter's default applies: covered by `Crash`). `lis_runtime_decode_step` of synthetic models.
Two failing `unlink`s of the report's two names in a row, after which the report is visible without a summary, are in the model
but excluded from `NothingLeftBehind`, which speaks of one failing call. Failures of the ledger's constructor, which is outside the orchestrator's `try`.

Of Passes 3 and 4: loading of files, and bounds on the size and depth of JSON. Of lists of warnings and reasons the model knows whether they are few, full or
unfit; it has no texts, does not say which of the five inherited lists is unfit, and of what Pass 4 finds itself (at most 24 entries for
a bound of 32) it has one warning, that one Pass 2 stands behind both parents. The passes of this build write a few short, different warnings; full and unfit lists come from results of Pass 2 and Pass
3 made by other callers, whose data classes set no bound. Branches that no value reaches are left out: a digest of `None` in the loop of Pass
3, conflicting bases, the family in the alignment of stages (a manifest of another family was refused before), `PARENT_PHASE_UNSUPPORTED` and the evidence
policy, a contract version that is a constant. Entries of a layer trace without semantic markers are skipped by Pass 3 and not in
the records. Pass 3 takes a missing coordinate with state `captured`, which Pass 4 refuses; `EveryArtifactIsRepresentable`
excludes that one fault, which no writer of this build produces. A token position that differs between the sides is reported as
`REQUESTED_STAGE_SET_UNSUPPORTED`. `EvidenceChain` lets differences stay once they appear, `RealPipeline` lets digests become equal again.

## Plan

1. Done: thread pool, decoder runtime, supervision and attempt, with proofs; driver; Passes 0 to 4 and the pipeline's
   evidence, with proofs.
2. Done in large part: artifacts against each other in Passes 3 and 4 as a chain of gates. Left: the fields of reports and
   ledgers (`product_contract.py`), and the readers of Passes 1 and 2 (`pass1_inputs.py`, `pass2.py`).
3. Loader and core types: overflow-checked sizes over `% 2^w`, safetensors header and offsets, shard index, EOS list.
4. Tokenizer: the merge loop of `bpe.c` against a reference definition; the token-id file and its bounds.
5. Backend choice and fallback; `qwen3.c` as a second implementation of `DecodeSession`; the `lis_runtime_decode_step` path.
6. Attempt creation, stale-attempt detection and the CI gate as readers of `AttemptPromise`; ledger constructor.
7. Proofs: with the modules of items 3 to 6, their invariants.
