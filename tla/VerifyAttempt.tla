---------------------------- MODULE VerifyAttempt ----------------------------
(***************************************************************************)
(* One attempt of lis-verify: the mode runner run_real_pipeline under      *)
(* run_orchestration, with the stage machine, the append-only ledger, the  *)
(* scoped workspace and the publication of the report bundle.              *)
(*                                                                         *)
(* Every durable effect is a step of its own.  The process may die between *)
(* any two steps, and each write, fsync, link, unlink and rmtree may fail. *)
(* A stage is its index; results[i] is the machine's result for stage i.   *)
(***************************************************************************)
EXTENDS VerifyContract, SequencesExt

CONSTANT MaxFaults  \* bound on the failures of system calls in an attempt

ASSUME VerifyAttemptAssumption == MaxFaults \in Nat

VARIABLES
    request,   \* require_supported and debug_retain of the command
    pc,        \* where the attempt is
    results,   \* StageMachine._results
    active,    \* StageMachine._active, 0 for None
    ledger,    \* the file, the entries the object knows, and _finished
    pass0,     \* the blocking reason of Pass 0, "allowed" or "none"
    pass1,     \* the Pass 1 status; "length" is a mismatch of lengths
    plan,      \* where the pipeline stopped, how it fills the rest, its verdict
    guarded,   \* control is in the try of run_real_pipeline
    signalled, \* signal_exit is set
    cleanup,   \* the residue observed by cleanup_runtime, "none" before it ran
    files,     \* the files of the bundle that exist
    published, \* the artifacts marked published
    ledger_finished,
    exit,      \* the exit status handed to the shell
    faults

machine  == <<results, active>>
evidence == <<pass0, pass1, plan, signalled>>
bundle   == <<files, published>>
vars == <<request, pc, machine, ledger, evidence, guarded, cleanup, bundle,
          ledger_finished, exit, faults>>

Classification == {"unsupported", "inconclusive", "harness_error"}
\* The blocking reasons the two LIS-internal comparison modes can produce.
Pass0Block == {"incompatible_decode_policy", "input_token_divergence",
               "config_fingerprint_mismatch"}
Pass1Stop == {"selected_token_array_missing", "selected_token_identity_unverified",
              "unsupported_comparison", "inconclusive"}
Pass1Mismatch == {"mismatch", "length"}
Residue == {"none_observed", "present", "unknown", "retained_debug"}

Open == [at |-> Aggregation, fill |-> "none", verdict |-> "none"]

next_stage == Len(results) + 1
Result(state, blocker) == [state |-> state, blocker |-> blocker]
States == [i \in DOMAIN results |-> results[i].state]

Init ==
    /\ request \in [require_supported : BOOLEAN, debug_retain : BOOLEAN]
    /\ pc = "start_attempt"
    /\ results = <<>> /\ active = 0
    /\ ledger = [disk |-> <<>>, mem |-> <<>>, finished |-> FALSE]
    /\ pass0 = "none" /\ pass1 = "none" /\ plan = Open
    /\ guarded = FALSE /\ signalled = FALSE /\ cleanup = "none"
    /\ files = {} /\ published = {}
    /\ ledger_finished = FALSE /\ exit = -1 /\ faults = 0

Faults(n) == faults + n <= MaxFaults /\ faults' = faults + n
Fault == Faults(1)
Goto(label) == pc' = label
Leave(status) == pc' = "done" /\ exit' = status
-----------------------------------------------------------------------------
(***************************************************************************)
(* AppendOnlyLedger._append.  A line that reached the file, whole or in    *)
(* part, before the call failed leaves the file longer than the object     *)
(* expects, and every later append is refused.                             *)
(***************************************************************************)
\* Mutant: the size of the file is not compared.
HasAuthorityUnchecked == ~ledger.finished

HasAuthority == ~ledger.finished /\ ledger.disk = ledger.mem

Appended(line) ==
    /\ HasAuthority
    /\ ledger' = [ledger EXCEPT !.mem = Append(@, line), !.disk = Append(@, line)]
    /\ UNCHANGED faults

AppendFails(line) ==
    \/ ~HasAuthority /\ UNCHANGED <<ledger, faults>>
    \/ /\ HasAuthority /\ Fault
       /\ \/ UNCHANGED ledger
          \/ \E l \in {line, TornLine} : ledger' = [ledger EXCEPT !.disk = Append(@, l)]

\* StageMachine.finish accepts a result for the active stage; a refusal would
\* raise, and FinishIsAccepted says that none does.
MachineAccepts(result) ==
    /\ active # 0
    /\ result.state = "executed" /\ active # Aggregation =>
           \A d \in STAGE_DEPENDENCIES[active] : results[d].state = "executed"
    /\ result.state = "blocked" => result.blocker \in DOMAIN results

MachineFinishes(result) == results' = Append(results, result) /\ active' = 0

\* AppendOnlyLedger.finish_stage needs the stage started and not finished.
LedgerFinishes(state) ==
    /\ active \in Started(ledger.mem) \ Finished(ledger.mem)
    /\ Appended(StageFinished(active, state))
LedgerFinishFails(state) ==
    \/ active \notin Started(ledger.mem) /\ UNCHANGED <<ledger, faults>>
    \/ active \in Started(ledger.mem) /\ AppendFails(StageFinished(active, state))
-----------------------------------------------------------------------------
(***************************************************************************)
(* The stages.  Up to plan.at the pipeline does each stage's work; from    *)
(* there to aggregation it only records plan.fill.                         *)
(***************************************************************************)
HasWork(stage) == stage < Aggregation /\ stage <= plan.at

\* Mutant: the stages after a stop are recorded as executed with it.
StageResultExecuted(stage) ==
    IF plan.fill = "not_applicable" THEN Result("not_applicable", 0)
    ELSE Result("executed", 0)

StageResult(stage) ==
    IF stage >= Aggregation \/ stage <= plan.at THEN Result("executed", 0)
    ELSE Result(plan.fill, IF plan.fill = "blocked" THEN plan.at ELSE 0)

StartAttempt ==
    /\ pc = "start_attempt"
    /\ \/ Appended(AttemptStarted) /\ Goto("start")
       \/ AppendFails(AttemptStarted) /\ Goto("handle")
    /\ UNCHANGED <<request, machine, evidence, guarded, cleanup, bundle,
                   ledger_finished, exit>>

\* RunContext.start_stage: the machine moves first.  An append that fails in
\* the try of the pipeline reaches its except clause, which fails the stage in
\* the machine and is refused by the ledger.
StartStage ==
    /\ pc = "start" /\ active = 0
    /\ \/ /\ Appended(StageStarted(next_stage))
          /\ active' = next_stage /\ UNCHANGED results
          /\ guarded' = (guarded \/ next_stage = 1)
          /\ Goto(IF HasWork(next_stage) THEN "work" ELSE "finish")
       \/ /\ AppendFails(StageStarted(next_stage))
          /\ IF guarded
             THEN results' = Append(results, Result("failed", 0)) /\ UNCHANGED active
             ELSE active' = next_stage /\ UNCHANGED results
          /\ guarded' = FALSE /\ Goto("handle")
    /\ UNCHANGED <<request, evidence, cleanup, bundle, ledger_finished, exit>>

\* Mutant: the ledger is told of a stage before the machine has it.
FinishStageLedgerFirst ==
    /\ pc = "finish"
    /\ LET result == StageResult(active) IN
       \/ LedgerFinishes(result.state) /\ Goto("finish") /\ UNCHANGED machine
       \/ /\ active \in Finished(ledger.mem) /\ MachineFinishes(result) /\ Goto("start")
          /\ UNCHANGED <<ledger, faults>>
    /\ UNCHANGED <<request, evidence, guarded, cleanup, bundle, ledger_finished, exit>>

\* RunContext.finish_stage.  With no stage active the except clause re-raises.
FinishStage ==
    /\ pc = "finish"
    /\ LET result == StageResult(active) IN
       /\ MachineAccepts(result) /\ MachineFinishes(result)
       /\ \/ /\ LedgerFinishes(result.state)
             /\ Goto(CASE active = Aggregation -> "return"
                       [] active = Cleanup     -> "finalize"
                       [] OTHER                -> "start")
          \/ LedgerFinishFails(result.state) /\ Goto("handle")
    /\ UNCHANGED <<request, evidence, guarded, cleanup, bundle, ledger_finished, exit>>

Working(stage) ==
    /\ pc = "work" /\ active = stage
    /\ UNCHANGED <<request, cleanup, bundle, ledger_finished, exit>>

\* The work is done and its stage can finish as executed.
Worked == Goto("finish") /\ UNCHANGED <<machine, ledger, faults, guarded, signalled>>

Continue == Worked /\ UNCHANGED plan
Stop(fill, verdict) ==
    Worked /\ plan' = [at |-> active, fill |-> fill, verdict |-> verdict]

\* Mutant: the failure's own class decides, a proven mismatch or not.
FailureVerdictOfClass(class) ==
    CASE class = "unsupported"  -> "UNSUPPORTED"
      [] class = "inconclusive" -> "INCONCLUSIVE"
      [] OTHER                  -> "HARNESS_ERROR"

FailureVerdict(class) ==
    IF pass1 \in Pass1Mismatch THEN "REGRESSION"
    ELSE CASE class = "unsupported"  -> "UNSUPPORTED"
           [] class = "inconclusive" -> "INCONCLUSIVE"
           [] OTHER                  -> "HARNESS_ERROR"

\* The except clause of run_real_pipeline.
Fails(class, signal) ==
    /\ MachineFinishes(Result("failed", 0))
    /\ plan' = [at |-> active, fill |-> "blocked", verdict |-> FailureVerdict(class)]
    /\ signalled' = (signalled \/ signal)
    /\ guarded' = FALSE
    /\ \/ LedgerFinishes("failed") /\ Goto("start")
       \/ LedgerFinishFails("failed") /\ Goto("handle")
    /\ UNCHANGED <<pass0, pass1>>

\* RealLISExecutor.run: a timeout or an interruption is inconclusive, any
\* other failure of the child or of its report a harness error.
ExecutionFails ==
    \/ \E class \in {"inconclusive", "harness_error"} : Fails(class, FALSE)
    \/ Fails("inconclusive", TRUE)

Preflight ==
    /\ Working(1)
    /\ \/ Continue /\ UNCHANGED <<pass0, pass1>>
       \/ \E class \in Classification : Fails(class, FALSE)

\* Either original execution; the reference may have chosen another backend
\* than the mode expects, the candidate none that is optimized.
OriginalExecution ==
    /\ Working(2) \/ Working(3)
    /\ \/ Continue /\ UNCHANGED <<pass0, pass1>>
       \/ ExecutionFails
       \/ Fails("unsupported", FALSE)

Calibrate ==
    /\ Working(Pass0)
    /\ \/ Continue /\ pass0' = "allowed" /\ UNCHANGED pass1
       \/ Stop("blocked", "UNSUPPORTED") /\ pass0' \in Pass0Block /\ UNCHANGED pass1
       \/ Fails("harness_error", FALSE)

LocalizeToken ==
    /\ Working(Pass1)
    /\ \/ Continue /\ pass1' \in Pass1Mismatch /\ UNCHANGED pass0
       \/ Stop("not_applicable", "PASS") /\ pass1' = "equal" /\ UNCHANGED pass0
       \/ Stop("blocked", "INCONCLUSIVE") /\ pass1' \in Pass1Stop /\ UNCHANGED pass0
       \/ Fails("harness_error", FALSE)

\* Passes 2, 3A and 3B: the evidence may be complete, incomplete or malformed.
Localization(stage) ==
    /\ Working(stage)
    /\ \/ (Continue \/ Stop("blocked", "REGRESSION")) /\ UNCHANGED <<pass0, pass1>>
       \/ Fails("harness_error", FALSE)

ReproducePrefix ==
    \/ Localization(6)
    \/ Working(6) /\ ExecutionFails

DiscoverLayer == Localization(7)

\* _new_generation runs both originals again, then both reproductions, and
\* the first of them may find another backend.
Recapture ==
    /\ Working(8)
    /\ \/ Continue /\ UNCHANGED <<pass0, pass1>>
       \/ ExecutionFails
       \/ Fails("unsupported", FALSE)

LocalizeLayer == Localization(9)

LocalizeIntraLayer ==
    /\ Working(10)
    /\ \/ Stop("blocked", "REGRESSION") /\ UNCHANGED <<pass0, pass1>>
       \/ Fails("harness_error", FALSE)

Work == \/ Preflight \/ OriginalExecution \/ Calibrate \/ LocalizeToken
        \/ ReproducePrefix \/ DiscoverLayer \/ Recapture \/ LocalizeLayer
        \/ LocalizeIntraLayer
-----------------------------------------------------------------------------
(***************************************************************************)
(* The orchestrator after the runner returned.                             *)
(***************************************************************************)
\* AttemptWorkspace.cleanup_runtime: it runs once and never raises.
CleansRuntime ==
    IF cleanup # "none" THEN UNCHANGED <<cleanup, faults>>
    ELSE IF request.debug_retain THEN cleanup' = "retained_debug" /\ UNCHANGED faults
    ELSE \/ cleanup' = "none_observed" /\ UNCHANGED faults
         \/ cleanup' \in {"present", "unknown"} /\ Fault

CleanupRuntime ==
    /\ pc = "return" /\ next_stage = Cleanup
    /\ guarded' = FALSE
    /\ CleansRuntime
    /\ Goto("start")
    /\ UNCHANGED <<request, machine, ledger, evidence, bundle, ledger_finished, exit>>

TokenProjection ==
    [status  |-> CASE pass1 = "equal"            -> "equal"
                   [] pass1 \in Pass1Mismatch    -> "mismatch"
                   [] OTHER                      -> "unavailable",
     null_id |-> pass1 = "length"]

\* finalize() of the machine, then _finalize_report.
FinalizeReport ==
    /\ pc = "finalize"
    /\ Goto(IF active = 0 /\ ValidReport(plan.verdict, TokenProjection, States)
            THEN "prepare_summary" ELSE "handle")
    /\ UNCHANGED <<request, machine, ledger, evidence, guarded, cleanup, bundle,
                   ledger_finished, exit, faults>>

\* prepare_report_bundle: a file that cannot be completed is removed, and with
\* the report's the summary's.  If that fails too, nobody holds what is left.
PrepareSummary ==
    /\ pc = "prepare_summary"
    /\ \/ files' = {"summary_tmp"} /\ Goto("prepare_report") /\ UNCHANGED faults
       \/ UNCHANGED files /\ Goto("handle") /\ Fault
       \/ files' = {"stray"} /\ Goto("handle") /\ Faults(2)
    /\ UNCHANGED <<request, machine, ledger, evidence, guarded, cleanup, published,
                   ledger_finished, exit>>

PrepareReport ==
    /\ pc = "prepare_report"
    /\ \/ files' = files \cup {"report_tmp"} /\ Goto("observe_cleanup") /\ UNCHANGED faults
       \/ files' = {} /\ Goto("handle") /\ Fault
       \/ files' = {"stray"} /\ Goto("handle") /\ Faults(2)
    /\ UNCHANGED <<request, machine, ledger, evidence, guarded, cleanup, published,
                   ledger_finished, exit>>

ObserveCleanup ==
    /\ pc = "observe_cleanup"
    /\ \/ Appended(CleanupObserved(cleanup)) /\ Goto("finish_attempt")
       \/ AppendFails(CleanupObserved(cleanup)) /\ Goto("handle")
    /\ UNCHANGED <<request, machine, evidence, guarded, cleanup, bundle,
                   ledger_finished, exit>>

\* AppendOnlyLedger.finish_attempt
CanFinishAttempt(verdict) ==
    /\ Of(ledger.mem, "cleanup_observed") # {}
    /\ Started(ledger.mem) = Finished(ledger.mem)
    /\ ValidLedger(Append(ledger.mem, AttemptFinished(verdict)))

AttemptFinishes(verdict) ==
    /\ CanFinishAttempt(verdict) /\ HasAuthority
    /\ LET line == AttemptFinished(verdict) IN
       ledger' = [mem |-> Append(ledger.mem, line), disk |-> Append(ledger.disk, line),
                  finished |-> TRUE]
    /\ UNCHANGED faults

AttemptFinishFails(verdict) ==
    IF CanFinishAttempt(verdict) THEN AppendFails(AttemptFinished(verdict))
    ELSE UNCHANGED <<ledger, faults>>

\* Mutant: the bundle is published although the ledger could not be finished.
FinishAttemptUnchecked ==
    /\ pc = "finish_attempt"
    /\ Goto("link_summary")
    /\ \/ AttemptFinishes(plan.verdict) /\ ledger_finished' = TRUE
       \/ AttemptFinishFails(plan.verdict) /\ UNCHANGED ledger_finished
    /\ UNCHANGED <<request, machine, evidence, guarded, cleanup, bundle, exit>>

FinishAttempt ==
    /\ pc = "finish_attempt"
    /\ \/ AttemptFinishes(plan.verdict) /\ Goto("link_summary") /\ ledger_finished' = TRUE
       \/ AttemptFinishFails(plan.verdict) /\ Goto("handle") /\ UNCHANGED ledger_finished
    /\ UNCHANGED <<request, machine, evidence, guarded, cleanup, bundle, exit>>
-----------------------------------------------------------------------------
(***************************************************************************)
(* publish_report_bundle: link the final name, then drop the temporary     *)
(* one, for the summary and then for the report.  The directory is private *)
(* to the attempt, so the final names are free.                            *)
(***************************************************************************)
Temporary(artifact) == IF artifact = "summary" THEN "summary_tmp" ELSE "report_tmp"

Link(artifact, label, then) ==
    /\ pc = label
    /\ artifact \notin files
    /\ \/ files' = files \cup {artifact} /\ Goto(then) /\ UNCHANGED faults
       \/ Fault /\ UNCHANGED files /\ Goto("rollback")
    /\ UNCHANGED <<request, machine, ledger, evidence, guarded, cleanup, published,
                   ledger_finished, exit>>

Unlink(artifact, label, then) ==
    /\ pc = label
    /\ \/ /\ files' = files \ {Temporary(artifact)}
          /\ published' = published \cup {artifact} /\ Goto(then) /\ UNCHANGED faults
       \/ /\ Fault /\ UNCHANGED <<files, published>>
          /\ Goto(IF artifact = "summary" THEN "unlink_summary" ELSE "unlink_report")
    /\ UNCHANGED <<request, machine, ledger, evidence, guarded, cleanup,
                   ledger_finished, exit>>

\* The temporary name could not be removed: take the final one back.
Unpublish(artifact, label) ==
    /\ pc = label
    /\ \/ files' = files \ {artifact} /\ UNCHANGED faults
       \/ Fault /\ UNCHANGED files
    /\ Goto("rollback")
    /\ UNCHANGED <<request, machine, ledger, evidence, guarded, cleanup, published,
                   ledger_finished, exit>>

LinkSummary == Link("summary", "link_summary", "drop_summary_tmp")
DropSummaryTemporary == Unlink("summary", "drop_summary_tmp", "link_report")
UnpublishSummary == Unpublish("summary", "unlink_summary")
LinkReport == Link("report", "link_report", "drop_report_tmp")
DropReportTemporary == Unlink("report", "drop_report_tmp", "sync")
UnpublishReport == Unpublish("report", "unlink_report")

\* real.run_real replaces the exit status when a child was interrupted.
SyncDirectory ==
    /\ pc = "sync"
    /\ \/ /\ Leave(IF signalled THEN 130
                   ELSE ExitCode(plan.verdict, request.require_supported))
          /\ UNCHANGED faults
       \/ Fault /\ Goto("rollback") /\ UNCHANGED exit
    /\ UNCHANGED <<request, machine, ledger, evidence, guarded, cleanup, bundle,
                   ledger_finished>>

\* PreparedReportBundle.discard; the first unlink that fails ends it.
Undiscarded == {Temporary(a) : a \in {"summary", "report"} \ published} \cap files

Orphan == IF "summary" \in published /\ "report" \notin published THEN {"summary"} ELSE {}

\* The except clause of publish_report_bundle, which re-raises.
RollsBack(orphan, then) ==
    /\ pc = "rollback"
    /\ \/ files' = (files \ Undiscarded) \ orphan /\ UNCHANGED faults
       \/ Undiscarded # {} /\ Fault /\ files' \in {files, files \ {"summary_tmp"}}
       \/ orphan # {} /\ Fault /\ files' = files \ Undiscarded
    /\ Goto(then)
    /\ UNCHANGED <<request, machine, ledger, evidence, guarded, cleanup, published,
                   ledger_finished, exit>>

\* Mutants: the failure is swallowed; a published summary stays.
RollbackSwallowed     == RollsBack(Orphan, "sync")
RollbackLeavesSummary == RollsBack({}, "handle")

Rollback == RollsBack(Orphan, "handle")
-----------------------------------------------------------------------------
(***************************************************************************)
(* The except clause of run_orchestration.                                 *)
(***************************************************************************)
Handle ==
    /\ pc = "handle"
    /\ guarded' = FALSE
    /\ \/ /\ files' = files \ Undiscarded
          /\ CleansRuntime
          /\ Goto(IF ledger_finished THEN "raise" ELSE "fail_stage")
       \/ /\ Undiscarded # {} /\ Fault /\ Goto("raise")
          /\ files' \in {files, files \ {"summary_tmp"}} /\ UNCHANGED cleanup
    /\ UNCHANGED <<request, machine, ledger, evidence, published, ledger_finished, exit>>

\* A second failure: the ledger is aborted as it stands.
Abort == Goto("raise")

FailActiveStage ==
    /\ pc = "fail_stage"
    /\ IF active = 0
       THEN Goto("late_cleanup") /\ UNCHANGED <<machine, ledger, faults>>
       ELSE /\ MachineFinishes(Result("failed", 0))
            /\ \/ LedgerFinishes("failed") /\ Goto("late_cleanup")
               \/ LedgerFinishFails("failed") /\ Abort
    /\ UNCHANGED <<request, evidence, guarded, cleanup, bundle, ledger_finished, exit>>

ObserveLateCleanup ==
    /\ pc = "late_cleanup"
    /\ IF Of(ledger.mem, "cleanup_observed") # {}
       THEN Goto("late_finish") /\ UNCHANGED <<ledger, faults>>
       ELSE \/ Appended(CleanupObserved(cleanup)) /\ Goto("late_finish")
            \/ AppendFails(CleanupObserved(cleanup)) /\ Abort
    /\ UNCHANGED <<request, machine, evidence, guarded, cleanup, bundle,
                   ledger_finished, exit>>

FinishFailedAttempt ==
    /\ pc = "late_finish"
    /\ AttemptFinishes("HARNESS_ERROR") \/ AttemptFinishFails("HARNESS_ERROR")
    /\ Goto("raise")
    /\ UNCHANGED <<request, machine, evidence, guarded, cleanup, bundle,
                   ledger_finished, exit>>

\* OrchestrationError reaches cli.main.
Raise ==
    /\ pc = "raise"
    /\ Leave(2)
    /\ UNCHANGED <<request, machine, ledger, evidence, guarded, cleanup, bundle,
                   ledger_finished, faults>>

\* SIGKILL, a host crash, or a KeyboardInterrupt, which no except clause takes.
Crash ==
    /\ pc \notin {"done", "crashed"}
    /\ Goto("crashed")
    /\ UNCHANGED <<request, machine, ledger, evidence, guarded, cleanup, bundle,
                   ledger_finished, exit, faults>>

Publish == \/ LinkSummary \/ DropSummaryTemporary \/ UnpublishSummary
           \/ LinkReport \/ DropReportTemporary \/ UnpublishReport
           \/ SyncDirectory \/ Rollback

Orchestrate == \/ CleanupRuntime \/ FinalizeReport \/ PrepareSummary \/ PrepareReport
               \/ ObserveCleanup \/ FinishAttempt

Recover == \/ Handle \/ FailActiveStage \/ ObserveLateCleanup \/ FinishFailedAttempt \/ Raise

Run == StartAttempt \/ StartStage \/ Work \/ FinishStage \/ Orchestrate \/ Publish \/ Recover

Next == Run \/ Crash

\* A single process: while it lives it keeps running, given that each call of
\* BoundedExecutor.run it waits for returns (Returns of BoundedExecutor).
Spec == Init /\ [][Next]_vars /\ WF_vars(Run)
-----------------------------------------------------------------------------
Lines(l) == {l[k] : k \in DOMAIN l}
DiskVerdict == IF Of(ledger.disk, "attempt_finished") = {} THEN "none"
               ELSE Last(ledger.disk).verdict

\* A visible verification_report.json is a commit: in whatever state a reader
\* or a crash meets it, the ledger file is complete and names the verdict, the
\* stage states and the residue that the report names.
CommitIsComplete ==
    "report" \in files =>
        /\ ValidLedger(ledger.disk)
        /\ DiskVerdict = plan.verdict
        /\ \A i \in Stage : StageFinished(i, results[i].state) \in Lines(ledger.disk)
        /\ CleanupObserved(cleanup) \in Lines(ledger.disk)

\* The ledger follows the stage machine: it is never ahead of it, agrees with
\* it on every stage it names as finished, and lacks at most one stage; and when
\* it ends in attempt_finished it loads, whichever append failed, was torn or was
\* retried by the except clause before.
LedgerFollowsMachine ==
    /\ DiskVerdict # "none" => ValidLedger(ledger.disk)
    /\ Finished(ledger.disk) \subseteq DOMAIN results
    /\ Started(ledger.disk) \subseteq DOMAIN results \cup {active}
    /\ \A k \in Of(ledger.disk, "stage_finished") :
           ledger.disk[k].state = results[ledger.disk[k].stage].state
    /\ Cardinality(DOMAIN results \ Finished(ledger.disk)) <= 1

\* The stage machine never refuses a result of the pipeline, on any of its
\* early stops and failure paths.
FinishIsAccepted == pc = "finish" => MachineAccepts(StageResult(active))

\* PASS and REGRESSION come from Pass 1 and from nothing else: an equal or a
\* mismatching selected-token comparison over executed stages, which no later
\* failure, timeout or interruption takes back.
VerdictHasAuthority ==
    pc = "return" \/ "report" \in files =>
        /\ plan.verdict = "PASS" <=> pass1 = "equal"
        /\ plan.verdict = "REGRESSION" <=> pass1 \in Pass1Mismatch
        /\ plan.verdict \in {"PASS", "REGRESSION"} =>
               \A i \in 1 .. Pass1 : results[i].state = "executed"

\* An exit status other than 2 comes with a committed bundle, and a zero exit
\* under --require-supported only with equal tokens.
ExitIsEarned ==
    exit \notin {-1, 2} =>
        /\ {"summary", "report"} \subseteq files /\ DiskVerdict = plan.verdict
        /\ request.require_supported /\ exit = 0 => pass1 = "equal"

\* The process never returns before the runtime directory was cleaned or
\* retained; and after at most one failure it leaves no temporary file and no
\* summary without its report, and at no time a report without its summary.
NothingLeftBehind ==
    /\ pc = "done" => cleanup # "none"
    /\ faults <= 1 /\ pc = "done" => files \in {{}, {"summary", "report"}}
    /\ faults <= 1 /\ "report" \in files => "summary" \in files

\* A reader of the directory sees what AttemptPromise promises.
Promise == INSTANCE AttemptPromise WITH
    recorded <- DiskVerdict,
    shown    <- IF "report" \in files THEN plan.verdict ELSE "none",
    over     <- pc \in {"done", "crashed"}
ImplementsPromise == Promise!Spec

\* docs/lis_verify_contract.md, section 3: a valid Pass 1 mismatch remains
\* REGRESSION, so an attempt without any failing call reports it.
MismatchIsReported ==
    pc = "done" /\ faults = 0 /\ pass1 \in Pass1Mismatch =>
        "report" \in files /\ plan.verdict = "REGRESSION"
=============================================================================
