--------------------------- MODULE VerifyContract ---------------------------
(***************************************************************************)
(* The frozen contract of tools/lis_verify/product_contract.py as far as   *)
(* an attempt depends on it: the canonical stages and their dependencies,  *)
(* the ledger's events, what validate_report accepts, and exit codes.      *)
(* A stage is its place in CANONICAL_STAGES.                               *)
(***************************************************************************)
EXTENDS Integers, Sequences, FiniteSets

CANONICAL_STAGES ==
    <<"preflight", "reference_original_execution", "candidate_original_execution",
      "pass0_calibration", "pass1_token_localization",
      "pass2_prefix_policy_reproduction", "pass3a_discovery", "bounded_recapture",
      "pass3b_authoritative_localization", "pass4_intra_layer_localization",
      "aggregation", "cleanup">>

Stage == DOMAIN CANONICAL_STAGES
At(name) == CHOOSE i \in Stage : CANONICAL_STAGES[i] = name

Pass0 == At("pass0_calibration")
Pass1 == At("pass1_token_localization")
Aggregation == At("aggregation")
Cleanup == At("cleanup")

\* The passes form a chain; only the original executions share a parent.
STAGE_DEPENDENCIES ==
    [i \in Stage |->
        CASE i = 1           -> {}
          [] i \in {2, 3}    -> {1}
          [] i = Pass0       -> {2, 3}
          [] i = Aggregation -> 1 .. Pass1
          [] OTHER           -> {i - 1}]

Verdict == {"PASS", "REGRESSION", "INCONCLUSIVE", "UNSUPPORTED", "HARNESS_ERROR"}

ExitCode(verdict, require_supported) ==
    CASE verdict = "PASS"          -> 0
      [] verdict = "UNSUPPORTED"   -> IF require_supported THEN 6 ELSE 0
      [] verdict = "HARNESS_ERROR" -> 2
      [] verdict = "INCONCLUSIVE"  -> 3
      [] verdict = "REGRESSION"    -> 4

StageState == {"executed", "not_applicable", "blocked", "failed"}

(* The states a list of stage results gives to the stages it covers. *)
DependenciesExecuted(states) ==
    \A i \in DOMAIN states \ {Aggregation} :
        states[i] = "executed" =>
            \A d \in STAGE_DEPENDENCIES[i] : d \in DOMAIN states /\ states[d] = "executed"

(***************************************************************************)
(* Ledger lines.  A line cut short by a failing write is TornLine.         *)
(***************************************************************************)
AttemptStarted          == [event |-> "attempt_started"]
StageStarted(i)         == [event |-> "stage_started", stage |-> i]
StageFinished(i, state) == [event |-> "stage_finished", stage |-> i, state |-> state]
CleanupObserved(r)      == [event |-> "cleanup_observed", residue |-> r]
AttemptFinished(v)      == [event |-> "attempt_finished", verdict |-> v]
TornLine                == [event |-> "torn"]

Of(lines, event) == {k \in DOMAIN lines : lines[k].event = event}
Started(lines)  == {lines[k].stage : k \in Of(lines, "stage_started")}
Finished(lines) == {lines[k].stage : k \in Of(lines, "stage_finished")}

ValidLedger(lines) ==
    /\ Len(lines) >= 2
    /\ Of(lines, "torn") = {}
    /\ Of(lines, "attempt_started") = {1}
    /\ Of(lines, "attempt_finished") = {Len(lines)}
    /\ Cardinality(Of(lines, "cleanup_observed")) = 1
    /\ \A j, k \in Of(lines, "stage_started") : lines[j].stage = lines[k].stage => j = k
    /\ \A k \in Of(lines, "stage_finished") :
           /\ \E j \in Of(lines, "stage_started") : j < k /\ lines[j].stage = lines[k].stage
           /\ \A j \in Of(lines, "stage_finished") : lines[j].stage = lines[k].stage => j = k
    /\ Started(lines) = Finished(lines)

(***************************************************************************)
(* What validate_report asks of the parts of a report that differ between  *)
(* attempts.  first_mismatch holds two token ids, and the id of a side     *)
(* that stopped early is null.                                             *)
(***************************************************************************)
ValidTokenComparison(tokens) == tokens.status = "mismatch" => ~tokens.null_id

ValidReport(verdict, tokens, states) ==
    /\ ValidTokenComparison(tokens)
    /\ verdict = "PASS" => tokens.status = "equal"
    /\ verdict = "REGRESSION" => tokens.status = "mismatch"
    /\ DOMAIN states = Stage
    /\ DependenciesExecuted(states)
=============================================================================
