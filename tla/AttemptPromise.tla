--------------------------- MODULE AttemptPromise ---------------------------
(***************************************************************************)
(* What a directory attempt-<id> of lis-verify promises whoever reads it   *)
(* (workspace.detect_stale_attempts, the CI gate): the ledger names one    *)
(* verdict, once; a verification_report.json, the commit marker, is only   *)
(* ever seen with that verdict; and the attempt comes to an end.           *)
(***************************************************************************)
CONSTANT Verdict

VARIABLES recorded,  \* the verdict of the ledger's attempt_finished line
          shown,     \* the verdict of the visible report
          over       \* the process has gone

promise == <<recorded, shown, over>>

None == "none"

Init == recorded = None /\ shown = None /\ over = FALSE

Record(v) == recorded = None /\ recorded' = v /\ UNCHANGED <<shown, over>>

Show == recorded # None /\ shown' = recorded /\ UNCHANGED <<recorded, over>>

\* publish_report_bundle takes back a report whose temporary name it cannot
\* remove, as long as it runs.
Withdraw == shown' = None /\ UNCHANGED <<recorded, over>>

End == over' = TRUE /\ UNCHANGED <<recorded, shown>>

Next == ~over /\ ((\E v \in Verdict : Record(v)) \/ Show \/ Withdraw \/ End)

Spec == Init /\ [][Next]_promise /\ <>over
=============================================================================
