------------------------ MODULE VerifyAttemptProofs ------------------------
(***************************************************************************)
(* The invariants of VerifyAttempt for every number of failing calls.      *)
(*                                                                         *)
(* None is inductive as it stands: that a visible report is committed      *)
(* needs what the ledger held when it was finished, which needs that the   *)
(* ledger knew every result of the stage machine at each place of the run  *)
(* before, also after lines that were torn or written and not known.       *)
(* IInv says, place by place, where the stage machine is (MachineInv), how *)
(* the stages in front of the plan went (PlanInv), what Pass 1 decided     *)
(* (VerdictInv), how the ledger and its file compare with the machine      *)
(* (AgreeInv), what lines they hold (LedgerInv), that a finished ledger    *)
(* stays what the report says (CommitInv), and which files there are       *)
(* (BundleInv).  Each part is preserved with the parts before it.          *)
(*                                                                         *)
(* The first part of the module is about sequences of ledger lines: when a *)
(* ledger agrees with the results of the stage machine (Agrees) and is     *)
(* well formed (WellFormed), and what one more line does to either.        *)
(***************************************************************************)
EXTENDS VerifyAttempt, TLAPS, FiniteSetTheorems

(* The lines an attempt writes, and the results of its stages. *)
Line == {AttemptStarted, TornLine}
        \cup {StageStarted(i) : i \in Stage}
        \cup {StageFinished(i, s) : i \in Stage, s \in StageState}
        \cup {CleanupObserved(r) : r \in Residue}
        \cup {AttemptFinished(v) : v \in Verdict}

StageResults == [state : StageState, blocker : 0 .. 12]

\* A ledger agrees with stage results res and an active stage; when whole, it
\* knows every result.
Agrees(lines, res, act, whole) ==
    /\ Finished(lines) \subseteq DOMAIN res
    /\ Started(lines) \subseteq DOMAIN res \cup {act}
    /\ \A k \in Of(lines, "stage_finished") : lines[k].state = res[lines[k].stage].state
    /\ DOMAIN res \ Finished(lines) \subseteq {Len(res)}
    /\ whole => DOMAIN res \subseteq Finished(lines)

(* Every line but the last one of a ledger that loads: each stage starts at  *)
(* most once, and finishes at most once and after it started.                *)
WellFormed(lines) ==
    /\ Of(lines, "torn") = {}
    /\ Of(lines, "attempt_started") \subseteq {1}
    /\ \A j, k \in Of(lines, "stage_started") : lines[j].stage = lines[k].stage => j = k
    /\ \A k \in Of(lines, "stage_finished") :
           /\ \E j \in Of(lines, "stage_started") : j < k /\ lines[j].stage = lines[k].stage
           /\ \A j \in Of(lines, "stage_finished") : lines[j].stage = lines[k].stage => j = k

-------------------------------------------------------------------------------
(* The stages by number. *)
LEMMA StageNumbers ==
    /\ Stage = 1 .. 12
    /\ Pass0 = 4 /\ Pass1 = 5 /\ Aggregation = 11 /\ Cleanup = 12
<1>1. Stage = 1 .. 12
  BY DEF Stage, CANONICAL_STAGES
<1>2. CANONICAL_STAGES[4] = "pass0_calibration" /\ CANONICAL_STAGES[5] = "pass1_token_localization"
      /\ CANONICAL_STAGES[11] = "aggregation" /\ CANONICAL_STAGES[12] = "cleanup"
  BY DEF CANONICAL_STAGES
<1>3. \A i \in 1 .. 12 : /\ CANONICAL_STAGES[i] = "pass0_calibration" => i = 4
                         /\ CANONICAL_STAGES[i] = "pass1_token_localization" => i = 5
                         /\ CANONICAL_STAGES[i] = "aggregation" => i = 11
                         /\ CANONICAL_STAGES[i] = "cleanup" => i = 12
  BY DEF CANONICAL_STAGES
<1> QED
  BY <1>1, <1>2, <1>3 DEF Pass0, Pass1, Aggregation, Cleanup, At

(* Every stage but the aggregation depends on earlier stages, and the last  *)
(* on the aggregation.                                                      *)
LEMMA Dependencies ==
    /\ \A i \in Stage \ {11} : \A d \in STAGE_DEPENDENCIES[i] : d \in 1 .. i - 1
    /\ STAGE_DEPENDENCIES[12] = {11}
<1> USE StageNumbers
<1>1. \A i \in Stage : STAGE_DEPENDENCIES[i] =
        CASE i = 1        -> {}
          [] i \in {2, 3} -> {1}
          [] i = 4        -> {2, 3}
          [] i = 11       -> 1 .. 5
          [] OTHER        -> {i - 1}
  BY DEF STAGE_DEPENDENCIES
<1>2. STAGE_DEPENDENCIES[1] = {} /\ STAGE_DEPENDENCIES[2] = {1} /\ STAGE_DEPENDENCIES[3] = {1}
      /\ STAGE_DEPENDENCIES[4] = {2, 3}
  BY <1>1
<1>3. \A i \in 5 .. 12 : i # 11 => STAGE_DEPENDENCIES[i] = {i - 1}
  BY <1>1
<1>4. ASSUME NEW i \in Stage \ {11}, NEW d \in STAGE_DEPENDENCIES[i]
      PROVE  d \in 1 .. i - 1
  <2>1. CASE i \in 5 .. 12
    BY <1>3, <1>4, <2>1
  <2>2. CASE i \in 1 .. 4
    BY <1>2, <1>4, <2>2
  <2> QED
    BY <2>1, <2>2
<1> QED
  BY <1>3, <1>4

(* The fields of each kind of line. *)
LEMMA Constructors ==
    /\ AttemptStarted.event = "attempt_started" /\ TornLine.event = "torn"
    /\ \A i : StageStarted(i).event = "stage_started" /\ StageStarted(i).stage = i
    /\ \A i, s : /\ StageFinished(i, s).event = "stage_finished"
                 /\ StageFinished(i, s).stage = i /\ StageFinished(i, s).state = s
    /\ \A r : CleanupObserved(r).event = "cleanup_observed"
    /\ \A v : AttemptFinished(v).event = "attempt_finished" /\ AttemptFinished(v).verdict = v
BY DEF AttemptStarted, TornLine, StageStarted, StageFinished, CleanupObserved, AttemptFinished

(* The lines of stages 1 to 12, of the residues and of the verdicts are lines.*)
LEMMA LineTypes ==
    /\ AttemptStarted \in Line /\ TornLine \in Line
    /\ \A i \in 1 .. 12 : StageStarted(i) \in Line
    /\ \A i \in 1 .. 12, s \in StageState : StageFinished(i, s) \in Line
    /\ \A r \in Residue : CleanupObserved(r) \in Line
    /\ \A v \in Verdict : AttemptFinished(v) \in Line
BY StageNumbers DEF Line

(* A line that says a stage has finished is that line. *)
LEMMA FinishedLine ==
    ASSUME NEW l \in Line, l.event = "stage_finished"
    PROVE  l = StageFinished(l.stage, l.state)
BY Constructors DEF Line

(* A sequence with one more element. *)
LEMMA AppendIs ==
    ASSUME NEW S, NEW s \in Seq(S), NEW e \in S
    PROVE  /\ Append(s, e) \in Seq(S) /\ Len(s) \in Nat
           /\ Len(Append(s, e)) = Len(s) + 1
           /\ DOMAIN s = 1 .. Len(s)
           /\ DOMAIN Append(s, e) = 1 .. Len(s) + 1
           /\ \A k \in DOMAIN s : Append(s, e)[k] = s[k]
           /\ Append(s, e)[Len(s) + 1] = e
OBVIOUS

(* What a ledger with one more line has of each event. *)
LEMMA OfAppend ==
    ASSUME NEW lines \in Seq(Line), NEW line \in Line, NEW event
    PROVE  /\ line.event = event =>
                  Of(Append(lines, line), event) = Of(lines, event) \cup {Len(lines) + 1}
           /\ line.event # event => Of(Append(lines, line), event) = Of(lines, event)
<1> DEFINE more == Append(lines, line)
<1>1. /\ DOMAIN more = DOMAIN lines \cup {Len(lines) + 1} /\ Len(lines) + 1 \notin DOMAIN lines
      /\ \A k \in DOMAIN lines : more[k] = lines[k]
      /\ more[Len(lines) + 1] = line
  BY AppendIs
<1> HIDE DEF more
<1>2. CASE line.event = event
  BY <1>1, <1>2 DEF Of, more
<1>3. CASE line.event # event
  BY <1>1, <1>3 DEF Of, more
<1> QED
  BY <1>2, <1>3

(* The stages a ledger has started and finished after one more line.          *)
LEMMA StagesAppend ==
    ASSUME NEW lines \in Seq(Line), NEW line \in Line
    PROVE  /\ line.event \notin {"stage_started", "stage_finished"} =>
                  /\ Started(Append(lines, line)) = Started(lines)
                  /\ Finished(Append(lines, line)) = Finished(lines)
           /\ line.event = "stage_started" =>
                  /\ Started(Append(lines, line)) = Started(lines) \cup {line.stage}
                  /\ Finished(Append(lines, line)) = Finished(lines)
           /\ line.event = "stage_finished" =>
                  /\ Started(Append(lines, line)) = Started(lines)
                  /\ Finished(Append(lines, line)) = Finished(lines) \cup {line.stage}
<1> DEFINE more == Append(lines, line)
<1>1. \A event : Of(lines, event) \subseteq DOMAIN lines
  BY DEF Of
<1>2. \A k \in DOMAIN lines : more[k] = lines[k]
  BY AppendIs
<1>3. more[Len(lines) + 1] = line
  BY AppendIs
<1>4. \A event :
        /\ line.event = event => Of(more, event) = Of(lines, event) \cup {Len(lines) + 1}
        /\ line.event # event => Of(more, event) = Of(lines, event)
  BY OfAppend
<1> HIDE DEF more
<1>5. ASSUME NEW event
      PROVE  {more[k].stage : k \in Of(more, event)}
               = {lines[k].stage : k \in Of(lines, event)}
                 \cup (IF line.event = event THEN {line.stage} ELSE {})
  <2>1. \A k \in Of(lines, event) : more[k] = lines[k]
    BY <1>1, <1>2
  <2>2. CASE line.event = event
    BY <2>1, <2>2, <1>3, <1>4
  <2>3. CASE line.event # event
    BY <2>1, <2>3, <1>4
  <2> QED
    BY <2>2, <2>3
<1>6. Started(more) = Started(lines) \cup (IF line.event = "stage_started" THEN {line.stage} ELSE {})
  BY <1>5 DEF Started
<1>7. Finished(more) = Finished(lines) \cup (IF line.event = "stage_finished" THEN {line.stage} ELSE {})
  BY <1>5 DEF Finished
<1> QED
  BY <1>6, <1>7 DEF more

-------------------------------------------------------------------------------
(* A line about no stage leaves a ledger in agreement. *)
LEMMA AgreesOther ==
    ASSUME NEW lines \in Seq(Line), NEW line \in Line, NEW res, NEW act, NEW whole \in BOOLEAN,
           Agrees(lines, res, act, whole),
           line.event \notin {"stage_started", "stage_finished"}
    PROVE  Agrees(Append(lines, line), res, act, whole)
<1> DEFINE more == Append(lines, line)
<1>1. Started(more) = Started(lines) /\ Finished(more) = Finished(lines)
  BY StagesAppend
<1>2. Of(more, "stage_finished") = Of(lines, "stage_finished")
  BY OfAppend
<1>3. \A k \in Of(more, "stage_finished") : more[k] = lines[k]
  BY <1>2, AppendIs DEF Of
<1> QED
  BY <1>1, <1>2, <1>3 DEF Agrees

(* No line is about a stage 0. *)
LEMMA NoStageZero == ASSUME NEW lines \in Seq(Line) PROVE 0 \notin Started(lines)
<1>1. \A k \in Of(lines, "stage_started") : lines[k].stage # 0
  BY Constructors, StageNumbers DEF Of, Line
<1> QED
  BY <1>1 DEF Started

(* A stage is active before the ledger knows it. *)
LEMMA AgreesActive ==
    ASSUME NEW lines \in Seq(Line), NEW res, NEW act, NEW whole \in BOOLEAN,
           Agrees(lines, res, 0, whole)
    PROVE  Agrees(lines, res, act, whole)
<1>1. 0 \notin Started(lines)
  BY NoStageZero
<1> QED
  BY <1>1 DEF Agrees

(* The line that starts the stage that is active. *)
LEMMA AgreesStarted ==
    ASSUME NEW lines \in Seq(Line), NEW res, NEW act \in 1 .. 12, NEW whole \in BOOLEAN,
           Agrees(lines, res, act, whole)
    PROVE  Agrees(Append(lines, StageStarted(act)), res, act, whole)
<1> DEFINE line == StageStarted(act)
<1> DEFINE more == Append(lines, line)
<1>1. line \in Line /\ line.event = "stage_started" /\ line.stage = act
  BY LineTypes, Constructors
<1> HIDE DEF line
<1>2. Started(more) = Started(lines) \cup {act} /\ Finished(more) = Finished(lines)
  BY <1>1, StagesAppend
<1>3. Of(more, "stage_finished") = Of(lines, "stage_finished")
  BY <1>1, OfAppend
<1>4. \A k \in Of(more, "stage_finished") : more[k] = lines[k]
  BY <1>1, <1>3, AppendIs DEF Of
<1>5. Agrees(more, res, act, whole)
  BY <1>2, <1>3, <1>4 DEF Agrees
<1> QED
  BY <1>5 DEF line

(* A result that the ledger is not told of. *)
LEMMA AgreesResult ==
    ASSUME NEW lines \in Seq(Line), NEW res \in Seq(StageResults), NEW r \in StageResults,
           Agrees(lines, res, Len(res) + 1, TRUE)
    PROVE  /\ Agrees(lines, Append(res, r), 0, FALSE)
           /\ Len(res) + 1 \notin Finished(lines)
<1>1. /\ DOMAIN res = 1 .. Len(res) /\ DOMAIN Append(res, r) = 1 .. Len(res) + 1
      /\ Len(Append(res, r)) = Len(res) + 1 /\ Len(res) \in Nat
      /\ \A k \in DOMAIN res : Append(res, r)[k] = res[k]
  BY AppendIs
<1>2. \A k \in Of(lines, "stage_finished") : lines[k].stage \in DOMAIN res
  BY DEF Agrees, Finished
<1>3. \A k \in Of(lines, "stage_finished") : lines[k].state = Append(res, r)[lines[k].stage].state
  BY <1>1, <1>2 DEF Agrees
<1>4. /\ Finished(lines) \subseteq DOMAIN res /\ Started(lines) \subseteq DOMAIN res \cup {Len(res) + 1}
      /\ DOMAIN res \subseteq Finished(lines)
  BY DEF Agrees
<1>5. /\ Finished(lines) \subseteq DOMAIN Append(res, r)
      /\ Started(lines) \subseteq DOMAIN Append(res, r)
      /\ DOMAIN Append(res, r) \ Finished(lines) \subseteq {Len(Append(res, r))}
      /\ Len(res) + 1 \notin Finished(lines)
  BY <1>1, <1>4
<1> QED
  BY <1>3, <1>5 DEF Agrees

(* A result and the line that tells the ledger of it. *)
LEMMA AgreesFinished ==
    ASSUME NEW lines \in Seq(Line), NEW res \in Seq(StageResults), NEW r \in StageResults,
           Len(res) < 12, Agrees(lines, res, Len(res) + 1, TRUE)
    PROVE  Agrees(Append(lines, StageFinished(Len(res) + 1, r.state)), Append(res, r), 0, TRUE)
<1> DEFINE line == StageFinished(Len(res) + 1, r.state)
<1> DEFINE more == Append(lines, line)
<1>0. Len(res) \in Nat /\ r.state \in StageState
  BY DEF StageResults
<1>1. line \in Line /\ line.event = "stage_finished" /\ line.stage = Len(res) + 1
      /\ line.state = r.state
  BY <1>0, LineTypes, Constructors
<1> HIDE DEF line
<1>2. /\ DOMAIN res = 1 .. Len(res) /\ DOMAIN Append(res, r) = 1 .. Len(res) + 1
      /\ Len(Append(res, r)) = Len(res) + 1
      /\ Append(res, r)[Len(res) + 1] = r
  BY AppendIs
<1>3. Started(more) = Started(lines) /\ Finished(more) = Finished(lines) \cup {Len(res) + 1}
  BY <1>1, StagesAppend
<1>4. Of(more, "stage_finished") = Of(lines, "stage_finished") \cup {Len(lines) + 1}
  BY <1>1, OfAppend
<1>5. Agrees(lines, Append(res, r), 0, FALSE)
  BY AgreesResult
<1>6. \A k \in Of(lines, "stage_finished") : more[k] = lines[k]
  BY <1>1, AppendIs DEF Of
<1>7. more[Len(lines) + 1] = line
  BY <1>1, AppendIs
<1>8. \A k \in Of(more, "stage_finished") : more[k].state = Append(res, r)[more[k].stage].state
  BY <1>1, <1>2, <1>4, <1>5, <1>6, <1>7 DEF Agrees
<1>9. DOMAIN Append(res, r) \subseteq Finished(more)
  BY <1>0, <1>2, <1>3 DEF Agrees
<1>10. /\ Finished(more) \subseteq DOMAIN Append(res, r)
       /\ Started(more) \subseteq DOMAIN Append(res, r) \cup {0}
  BY <1>0, <1>2, <1>3, <1>5 DEF Agrees
<1>11. Agrees(more, Append(res, r), 0, TRUE)
  BY <1>8, <1>9, <1>10 DEF Agrees
<1> QED
  BY <1>11 DEF line

(* A ledger that agrees with more still agrees when less is asked. *)
LEMMA AgreesLess ==
    ASSUME NEW lines, NEW res, NEW act, Agrees(lines, res, act, TRUE)
    PROVE  \A whole \in BOOLEAN : Agrees(lines, res, act, whole)
BY DEF Agrees

(* WellFormed over one more line. *)
LEMMA WellFormedOther ==
    ASSUME NEW lines \in Seq(Line), NEW line \in Line, WellFormed(lines),
           line.event \notin {"torn", "stage_started", "stage_finished"},
           line.event = "attempt_started" => lines = <<>>
    PROVE  WellFormed(Append(lines, line))
<1> DEFINE more == Append(lines, line)
<1>1. \A e : /\ line.event = e => Of(more, e) = Of(lines, e) \cup {Len(lines) + 1}
             /\ line.event # e => Of(more, e) = Of(lines, e)
  BY OfAppend
<1>2. \A e : \A k \in Of(lines, e) : more[k] = lines[k]
  BY AppendIs DEF Of
<1>3. lines = <<>> => Len(lines) = 0
  OBVIOUS
<1> HIDE DEF more
<1>4. Of(more, "attempt_started") \subseteq {1}
  BY <1>1, <1>3 DEF WellFormed
<1>5. Of(more, "torn") = {} /\ Of(more, "stage_started") = Of(lines, "stage_started")
      /\ Of(more, "stage_finished") = Of(lines, "stage_finished")
  BY <1>1 DEF WellFormed
<1>6. WellFormed(more)
  BY <1>2, <1>4, <1>5 DEF WellFormed
<1> QED
  BY <1>6 DEF more

(* A stage that was not started may be. *)
LEMMA WellFormedStarted ==
    ASSUME NEW lines \in Seq(Line), NEW i \in 1 .. 12, WellFormed(lines),
           i \notin Started(lines)
    PROVE  WellFormed(Append(lines, StageStarted(i)))
<1> DEFINE line == StageStarted(i)
<1> DEFINE more == Append(lines, line)
<1>0. line \in Line /\ line.event = "stage_started" /\ line.stage = i
  BY LineTypes, Constructors
<1> HIDE DEF line
<1>1. \A e : /\ line.event = e => Of(more, e) = Of(lines, e) \cup {Len(lines) + 1}
             /\ line.event # e => Of(more, e) = Of(lines, e)
  BY <1>0, OfAppend
<1>2. \A e : \A k \in Of(lines, e) : more[k] = lines[k]
  BY <1>0, AppendIs DEF Of
<1>3. more[Len(lines) + 1].stage = i
  BY <1>0, AppendIs
<1>4. \A k \in Of(lines, "stage_started") : lines[k].stage # i
  BY DEF Started
<1> HIDE DEF more
<1>5. Of(more, "torn") = {} /\ Of(more, "attempt_started") \subseteq {1}
      /\ Of(more, "stage_started") = Of(lines, "stage_started") \cup {Len(lines) + 1}
      /\ Of(more, "stage_finished") = Of(lines, "stage_finished")
  BY <1>0, <1>1 DEF WellFormed
<1>6. \A j, k \in Of(more, "stage_started") : more[j].stage = more[k].stage => j = k
  BY <1>2, <1>3, <1>4, <1>5 DEF WellFormed
<1>7. \A k \in Of(more, "stage_finished") :
           /\ \E j \in Of(more, "stage_started") : j < k /\ more[j].stage = more[k].stage
           /\ \A j \in Of(more, "stage_finished") : more[j].stage = more[k].stage => j = k
  BY <1>2, <1>5 DEF WellFormed
<1>8. WellFormed(more)
  BY <1>5, <1>6, <1>7 DEF WellFormed
<1> QED
  BY <1>8 DEF more, line

(* A stage that was started and not finished may finish. *)
LEMMA WellFormedFinished ==
    ASSUME NEW lines \in Seq(Line), NEW i \in 1 .. 12, NEW s \in StageState, WellFormed(lines),
           i \in Started(lines) \ Finished(lines)
    PROVE  WellFormed(Append(lines, StageFinished(i, s)))
<1> DEFINE line == StageFinished(i, s)
<1> DEFINE more == Append(lines, line)
<1>0. line \in Line /\ line.event = "stage_finished" /\ line.stage = i
  BY LineTypes, Constructors
<1> HIDE DEF line
<1>1. \A e : /\ line.event = e => Of(more, e) = Of(lines, e) \cup {Len(lines) + 1}
             /\ line.event # e => Of(more, e) = Of(lines, e)
  BY <1>0, OfAppend
<1>2. \A e : \A k \in Of(lines, e) : k \in 1 .. Len(lines) /\ more[k] = lines[k]
  BY <1>0, AppendIs DEF Of
<1>3. more[Len(lines) + 1].stage = i /\ Len(lines) \in Nat
  BY <1>0, AppendIs
<1>4. \A k \in Of(lines, "stage_finished") : lines[k].stage # i
  BY DEF Finished
<1>5. PICK first \in Of(lines, "stage_started") : lines[first].stage = i
  BY DEF Started
<1> HIDE DEF more
<1>6. Of(more, "torn") = {} /\ Of(more, "attempt_started") \subseteq {1}
      /\ Of(more, "stage_started") = Of(lines, "stage_started")
      /\ Of(more, "stage_finished") = Of(lines, "stage_finished") \cup {Len(lines) + 1}
  BY <1>0, <1>1 DEF WellFormed
<1>7. \A j, k \in Of(more, "stage_started") : more[j].stage = more[k].stage => j = k
  BY <1>2, <1>6 DEF WellFormed
<1>8. ASSUME NEW k \in Of(more, "stage_finished")
      PROVE  /\ \E j \in Of(more, "stage_started") : j < k /\ more[j].stage = more[k].stage
             /\ \A j \in Of(more, "stage_finished") : more[j].stage = more[k].stage => j = k
  <2>1. CASE k = Len(lines) + 1
    <3>1. first \in 1 .. Len(lines) /\ more[first] = lines[first]
      BY <1>2, <1>5
    <3>2. first < k /\ more[first].stage = more[k].stage
      BY <1>3, <1>5, <2>1, <3>1
    <3> QED
      BY <1>2, <1>3, <1>4, <1>5, <1>6, <2>1, <3>2
  <2>2. CASE k \in Of(lines, "stage_finished")
    BY <1>2, <1>3, <1>4, <1>6, <2>2 DEF WellFormed
  <2> QED
    BY <1>6, <2>1, <2>2
<1>9. WellFormed(more)
  BY <1>6, <1>7, <1>8 DEF WellFormed
<1> QED
  BY <1>9 DEF more, line

-------------------------------------------------------------------------------
(* Where control is: in the pipeline and the orchestrator, in the            *)
(* publication, in the except clause, or gone.                               *)
Live == {"start", "work", "finish", "return", "finalize", "prepare_summary",
         "prepare_report", "observe_cleanup", "finish_attempt"}
Publishing == {"link_summary", "drop_summary_tmp", "unlink_summary", "link_report",
               "drop_report_tmp", "unlink_report", "sync", "rollback"}
Failing == {"handle", "fail_stage", "late_cleanup", "late_finish", "raise"}
Over == {"done", "crashed"}
Places == {"start_attempt"} \cup Live \cup Publishing \cup Failing \cup Over
Reported == {"finalize", "prepare_summary", "prepare_report", "observe_cleanup",
             "finish_attempt"}

\* Every variable has its type.
TypeInv ==
    /\ request \in [require_supported : BOOLEAN, debug_retain : BOOLEAN]
    /\ pc \in Places
    /\ results \in Seq([state : StageState, blocker : 0 .. 12]) /\ Len(results) <= 12
    /\ active \in {0, Len(results) + 1} /\ active <= 12
    /\ ledger \in [disk : Seq(Line), mem : Seq(Line), finished : BOOLEAN]
    /\ pass1 \in {"none", "equal"} \cup Pass1Mismatch \cup Pass1Stop
    /\ plan \in [at : Stage, fill : {"none", "blocked", "not_applicable"},
                 verdict : Verdict \cup {"none"}]
    /\ guarded \in BOOLEAN /\ signalled \in BOOLEAN
    /\ cleanup \in Residue \cup {"none"}
    /\ files \in SUBSET {"summary_tmp", "report_tmp", "summary", "report", "stray"}
    /\ published \in SUBSET {"summary", "report"}
    /\ ledger_finished \in BOOLEAN /\ exit \in Int /\ faults \in Nat

\* How far the stage machine is at each place of the run.
MachineInv ==
    /\ pc = "start_attempt" => results = <<>> /\ active = 0 /\ plan = Open /\ pass1 = "none"
    /\ pc = "start" => /\ active = 0 /\ Len(results) <= 11
                       /\ Len(results) = 11 => cleanup # "none"
    /\ pc = "work" => active # 0 /\ active < 11 /\ plan = Open
    /\ pc = "finish" => /\ active # 0 /\ (active < 10 \/ plan # Open)
                        /\ active = 12 => cleanup # "none"
    /\ pc = "return" => active = 0 /\ Len(results) = 11
    /\ pc \in Reported => active = 0 /\ Len(results) = 12 /\ cleanup # "none"
    /\ pc \in {"late_cleanup", "late_finish"} => active = 0
    /\ pc \in {"fail_stage", "late_cleanup", "late_finish"} => cleanup # "none"
    /\ pc \in Publishing => active = 0 /\ plan.verdict \in Verdict

\* While the attempt is alive, the stages in front of the place where the plan
\* stops are executed, and a plan that was made is behind the pipeline.
PlanInv ==
    /\ plan.verdict = "none" => plan = Open
    /\ plan # Open => plan.fill # "none"
    /\ plan.at <= 11
    /\ pc \in Live =>
        /\ \A i \in DOMAIN results : i < plan.at /\ i < 11 => results[i].state = "executed"
        /\ 11 \in DOMAIN results => results[11].state = "executed"
        /\ pc = "start" /\ plan # Open => plan.at <= Len(results)
        /\ pc = "finish" /\ plan # Open => plan.at <= active
        /\ plan = Open => Len(results) < 10

\* Pass 1 is behind the pipeline.
Compared == Len(results) >= 5 \/ (active = 5 /\ pc = "finish")

\* The verdict of the plan and the Pass 1 status, before and after Pass 1.
VerdictInv ==
    /\ plan.verdict = "PASS" <=> pass1 = "equal"
    /\ plan.verdict = "REGRESSION" => pass1 \in Pass1Mismatch
    /\ pc \in Live =>
        /\ plan = Open => (pass1 \in Pass1Mismatch /\ Compared) \/ (pass1 = "none" /\ ~Compared)
        /\ plan # Open /\ pass1 \in Pass1Mismatch => plan.verdict = "REGRESSION"
        /\ plan.verdict = "REGRESSION" => plan.at >= 6
        /\ plan.verdict = "PASS" =>
              plan.at = 5 /\ (5 \in DOMAIN results => results[5].state = "executed")

\* Where the ledger knows every result, also just after a failing call.
Whole == pc \in Live \cup {"start_attempt"} \/ (active # 0 /\ pc \in {"handle", "fail_stage"})

AgreeInv ==
    /\ \A lines \in {ledger.mem, ledger.disk} : Agrees(lines, results, active, FALSE)
    /\ Whole => \A lines \in {ledger.mem, ledger.disk} : Agrees(lines, results, active, TRUE)

\* What the object and the file hold, wherever control is.
LedgerCore ==
    /\ WellFormed(ledger.mem)
    /\ ~ledger.finished => Of(ledger.mem, "attempt_finished") = {}
    /\ Of(ledger.disk, "attempt_finished") # {} => ValidLedger(ledger.disk)

\* What they hold at each place: until the first failure the file is what the
\* object knows.
LedgerPlace ==
    /\ pc \in Live \cup {"start_attempt"} => ~ledger.finished /\ ledger.disk = ledger.mem
    /\ pc = "start_attempt" => ledger.mem = <<>>
    /\ pc \in Live => Of(ledger.mem, "attempt_started") = {1}
    /\ pc \in Live \ {"finish_attempt"} => Of(ledger.mem, "cleanup_observed") = {}
    /\ pc = "finish_attempt" =>
          /\ Of(ledger.mem, "cleanup_observed") = {Len(ledger.mem)}
          /\ ledger.mem[Len(ledger.mem)] = CleanupObserved(cleanup)
    /\ pc \in {"work", "finish"} => active \in Started(ledger.mem)
    /\ pc \in {"fail_stage", "late_cleanup", "late_finish"} => ~ledger.finished

LedgerInv == LedgerCore /\ LedgerPlace

\* The ledger is finished with what the report says.
Committed ==
    /\ ValidLedger(ledger.disk) /\ DiskVerdict = plan.verdict
    /\ DOMAIN results = Stage /\ ledger.finished
    /\ \A i \in Stage : StageFinished(i, results[i].state) \in Lines(ledger.disk)
    /\ cleanup # "none" /\ CleanupObserved(cleanup) \in Lines(ledger.disk)
    /\ plan.verdict = "PASS" <=> pass1 = "equal"
    /\ plan.verdict = "REGRESSION" <=> pass1 \in Pass1Mismatch
    /\ plan.verdict \in Verdict
    /\ plan.verdict \in {"PASS", "REGRESSION"} =>
           \A i \in 1 .. 5 : results[i].state = "executed"

\* A finished ledger is committed, and no report is seen without one.
CommitInv ==
    /\ ledger_finished => Committed /\ pc \in Publishing \cup Failing \cup Over
    /\ pc \in {"fail_stage", "late_cleanup", "late_finish"} => ~ledger_finished
    /\ pc \in Publishing => ledger_finished
    /\ pc = "handle" /\ ledger.finished => ledger_finished
    /\ "report" \in files => ledger_finished

\* The files of a bundle, before and after they are published.
Temporaries == {"summary_tmp", "report_tmp"}
Bundle == {"summary", "report"}

Before == {"start_attempt", "start", "work", "finish", "return", "finalize",
           "prepare_summary"}

\* The bundle at each place of a run without a failure.
FilesAt ==
    /\ pc \in Before => files = {} /\ published = {}
    /\ pc = "prepare_report" => files = {"summary_tmp"} /\ published = {}
    /\ pc \in {"observe_cleanup", "finish_attempt", "link_summary"} =>
           files = Temporaries /\ published = {}
    /\ pc = "drop_summary_tmp" => files = Temporaries \cup {"summary"} /\ published = {}
    /\ pc = "unlink_summary" => files = Temporaries \cup {"summary"} /\ published = {} /\ faults > 0
    /\ pc = "link_report" => files = {"report_tmp", "summary"} /\ published = {"summary"}
    /\ pc = "drop_report_tmp" => files = {"report_tmp", "summary", "report"} /\ published = {"summary"}
    /\ pc = "unlink_report" => files = {"report_tmp", "summary", "report"} /\ published = {"summary"} /\ faults > 0
    /\ pc = "sync" => files = Bundle /\ published = Bundle

\* After at most one failure.
FilesAfter ==
    /\ pc = "rollback" => faults > 0
    /\ pc = "rollback" /\ faults <= 1 =>
           <<files, published>> \in {<<Temporaries, {}>>, <<{"report_tmp", "summary"}, {"summary"}>>,
                                     <<Bundle, Bundle>>}
    /\ pc = "handle" /\ faults <= 1 =>
           \/ files = {}
           \/ files = Bundle /\ published = Bundle
           \/ files = Temporaries /\ published = {} /\ faults = 1
           \/ files = {"summary_tmp"} /\ published = {} /\ faults = 1
    /\ pc \in {"fail_stage", "late_cleanup", "late_finish", "raise", "done"} /\ faults <= 1 =>
           files \in {{}, Bundle}
    /\ pc = "crashed" /\ faults <= 1 /\ "report" \in files => "summary" \in files

\* Nothing is written or given up before the runtime directory was cleaned.
Cleaned ==
    files # {} \/ pc \in {"fail_stage", "late_cleanup", "late_finish", "raise", "done"}
        => cleanup # "none"

\* Where an exit status other than 2 comes from.
Earned ==
    /\ exit # -1 => pc = "done"
    /\ exit \notin {-1, 2} =>
           /\ ledger_finished /\ files = Bundle
           /\ exit = IF signalled THEN 130
                     ELSE ExitCode(plan.verdict, request.require_supported)

BundleInv == FilesAt /\ FilesAfter /\ Cleaned /\ Earned

IInv == /\ TypeInv /\ MachineInv /\ PlanInv /\ VerdictInv /\ AgreeInv /\ LedgerInv
        /\ CommitInv /\ BundleInv
-------------------------------------------------------------------------------
(* An append that succeeds, and one that fails. *)
LEMMA AppendedIs ==
    ASSUME TypeInv, NEW line \in Line, Appended(line)
    PROVE  /\ ledger.mem \in Seq(Line) /\ ledger.disk \in Seq(Line)
           /\ ~ledger.finished /\ ledger.disk = ledger.mem
           /\ ledger'.mem = Append(ledger.mem, line) /\ ledger'.disk = Append(ledger.disk, line)
           /\ ledger'.finished = FALSE
           /\ ledger' \in [disk : Seq(Line), mem : Seq(Line), finished : BOOLEAN]
           /\ faults' = faults
<1>1. /\ ledger = [disk |-> ledger.disk, mem |-> ledger.mem, finished |-> ledger.finished]
      /\ ledger.mem \in Seq(Line) /\ ledger.disk \in Seq(Line)
  BY DEF TypeInv
<1>2. ledger.finished = FALSE /\ ledger.disk = ledger.mem /\ faults' = faults
  BY DEF Appended, HasAuthority, TypeInv
<1>3. ledger' = [disk |-> Append(ledger.disk, line), mem |-> Append(ledger.mem, line),
                 finished |-> FALSE]
  BY <1>1, <1>2 DEF Appended
<1>4. Append(ledger.disk, line) \in Seq(Line) /\ Append(ledger.mem, line) \in Seq(Line)
  BY <1>1, AppendIs
<1> QED
  BY <1>1, <1>2, <1>3, <1>4

(* What is left by an append that fails. *)
LEMMA AppendFailsIs ==
    ASSUME TypeInv, NEW line \in Line, AppendFails(line)
    PROVE  /\ ledger.mem \in Seq(Line) /\ ledger.disk \in Seq(Line)
           /\ ledger'.mem = ledger.mem /\ ledger'.finished = ledger.finished
           /\ \/ ledger'.disk = ledger.disk
              \/ /\ ~ledger.finished /\ ledger.disk = ledger.mem
                 /\ ledger'.disk \in {Append(ledger.mem, line), Append(ledger.mem, TornLine)}
           /\ ledger' \in [disk : Seq(Line), mem : Seq(Line), finished : BOOLEAN]
           /\ faults' \in {faults, faults + 1}
           /\ ~ledger.finished /\ ledger.disk = ledger.mem => faults' = faults + 1
<1>1. /\ ledger = [disk |-> ledger.disk, mem |-> ledger.mem, finished |-> ledger.finished]
      /\ ledger.mem \in Seq(Line) /\ ledger.disk \in Seq(Line) /\ ledger.finished \in BOOLEAN
  BY DEF TypeInv
<1>2. CASE UNCHANGED ledger /\ ~HasAuthority /\ UNCHANGED faults
  BY <1>1, <1>2 DEF HasAuthority
<1>3. CASE UNCHANGED ledger /\ HasAuthority /\ Fault
  BY <1>1, <1>3 DEF HasAuthority, Fault, Faults
<1>4. CASE /\ HasAuthority /\ Fault
           /\ \E l \in {line, TornLine} : ledger' = [ledger EXCEPT !.disk = Append(@, l)]
  <2>1. PICK l \in {line, TornLine} : ledger' = [ledger EXCEPT !.disk = Append(@, l)]
    BY <1>4
  <2>2. ledger' = [disk |-> Append(ledger.disk, l), mem |-> ledger.mem,
                   finished |-> ledger.finished]
    BY <1>1, <2>1
  <2>3. Append(ledger.disk, l) \in Seq(Line)
    BY <1>1, AppendIs, LineTypes
  <2> QED
    BY <1>1, <1>4, <2>2, <2>3 DEF HasAuthority, Fault, Faults
<1> QED
  BY <1>2, <1>3, <1>4 DEF AppendFails

(* The ledger object is told that the stage has finished, or refuses. *)
LEMMA LedgerFinishFailsIs ==
    ASSUME TypeInv, NEW s \in StageState, active \in 1 .. 12, LedgerFinishFails(s)
    PROVE  /\ ledger.mem \in Seq(Line) /\ ledger.disk \in Seq(Line)
           /\ ledger'.mem = ledger.mem /\ ledger'.finished = ledger.finished
           /\ \/ ledger'.disk = ledger.disk
              \/ /\ ~ledger.finished /\ ledger.disk = ledger.mem
                 /\ ledger'.disk \in {Append(ledger.mem, StageFinished(active, s)),
                                      Append(ledger.mem, TornLine)}
           /\ ledger' \in [disk : Seq(Line), mem : Seq(Line), finished : BOOLEAN]
           /\ faults' \in {faults, faults + 1}
<1>1. StageFinished(active, s) \in Line
  BY LineTypes
<1>2. CASE AppendFails(StageFinished(active, s))
  BY <1>1, <1>2, AppendFailsIs
<1>3. CASE UNCHANGED <<ledger, faults>>
  BY <1>3 DEF TypeInv
<1> QED
  BY <1>2, <1>3 DEF LedgerFinishFails

(* One more stage result. *)
LEMMA MachineFinishesIs ==
    ASSUME TypeInv, active # 0, NEW r \in StageResults, MachineFinishes(r)
    PROVE  /\ results \in Seq(StageResults) /\ active = Len(results) + 1 /\ active \in 1 .. 12
           /\ results' = Append(results, r) /\ active' = 0
           /\ results' \in Seq(StageResults) /\ Len(results') = active
           /\ DOMAIN results = 1 .. Len(results) /\ DOMAIN results' = 1 .. active
           /\ \A k \in DOMAIN results : results'[k] = results[k]
           /\ results'[active] = r
BY AppendIs DEF TypeInv, MachineFinishes, StageResults

(* The result of a failed stage. *)
LEMMA FailedResult == Result("failed", 0) \in StageResults
BY DEF Result, StageResults, StageState

(* The result that the active stage finishes with. *)
LEMMA StageResultType ==
    ASSUME TypeInv, MachineInv, PlanInv, pc = "finish"
    PROVE  /\ StageResult(active) \in StageResults
           /\ active \in 1 .. 12 /\ active = Len(results) + 1
<1>1. plan.at \in 1 .. 12 /\ plan.fill \in {"none", "blocked", "not_applicable"}
  BY StageNumbers DEF TypeInv
<1>2. plan.fill = "none" => plan.at = 11
  BY StageNumbers DEF PlanInv, Open
<1>3. active \in 1 .. 12 /\ active = Len(results) + 1
  BY DEF TypeInv, MachineInv
<1>4. StageResult(active).state \in StageState /\ StageResult(active).blocker \in 0 .. 12
      /\ StageResult(active) = [state |-> StageResult(active).state, blocker |-> StageResult(active).blocker]
  BY <1>1, <1>2, <1>3, StageNumbers DEF StageResult, Result, StageState
<1> QED
  BY <1>3, <1>4 DEF StageResults

(* What the work of a stage does, whichever stage it is. *)
Progress ==
    /\ pc' = "finish" /\ UNCHANGED <<machine, ledger, faults, guarded, signalled>>
    /\ \/ plan' = plan
       \/ \E fill \in {"blocked", "not_applicable"},
             v \in {"PASS", "REGRESSION", "INCONCLUSIVE", "UNSUPPORTED"} :
             plan' = [at |-> active, fill |-> fill, verdict |-> v]

Stumbles == \E class \in Classification, signal \in BOOLEAN : Fails(class, signal)

WorkFrame == UNCHANGED <<request, cleanup, bundle, ledger_finished, exit>>

(* The work of a stage goes on, stops the pipeline or fails. *)
LEMMA WorkIs ==
    ASSUME Work
    PROVE  /\ pc = "work" /\ active # 0 /\ WorkFrame
           /\ Progress \/ Stumbles
           /\ pass1' \in {pass1, "equal"} \cup Pass1Mismatch \cup Pass1Stop
<1>1. \A class \in {"unsupported", "inconclusive", "harness_error"}, signal \in {TRUE, FALSE} :
        Fails(class, signal) => Stumbles /\ pass1' = pass1
  <2>1. \A class, signal : Fails(class, signal) => pass1' = pass1
    BY DEF Fails
  <2> QED
    BY <2>1 DEF Stumbles, Classification
<1>2. ExecutionFails => Stumbles /\ pass1' = pass1
  BY <1>1 DEF ExecutionFails
<1>3. \A class \in Classification : Fails(class, FALSE) => Stumbles /\ pass1' = pass1
  BY <1>1 DEF Classification
<1>4. Continue => Progress
  BY DEF Continue, Progress, Worked, Goto
<1>5. \A fill \in {"blocked", "not_applicable"},
         v \in {"PASS", "REGRESSION", "INCONCLUSIVE", "UNSUPPORTED"} : Stop(fill, v) => Progress
  BY DEF Stop, Progress, Worked, Goto
<1>6. \A i \in 1 .. 12 : Working(i) => pc = "work" /\ active # 0 /\ WorkFrame
  BY DEF Working, WorkFrame
<1> DEFINE Goal == /\ pc = "work" /\ active # 0 /\ WorkFrame
                   /\ Progress \/ Stumbles
                   /\ pass1' \in {pass1, "equal"} \cup Pass1Mismatch \cup Pass1Stop
<1>7. /\ Fails("harness_error", FALSE) => Stumbles /\ pass1' = pass1
      /\ Fails("unsupported", FALSE) => Stumbles /\ pass1' = pass1
  BY <1>3 DEF Classification
<1>8. Preflight => Goal
  <2>1. Preflight => Working(1)
    BY DEF Preflight
  <2>2. Preflight => (Progress \/ Stumbles) /\ pass1' = pass1
    BY <1>3, <1>4 DEF Preflight
  <2> QED
    BY <2>1, <2>2, <1>6
<1>9. OriginalExecution => Goal
  <2>1. OriginalExecution => Working(2) \/ Working(3)
    BY DEF OriginalExecution
  <2>2. OriginalExecution => (Progress \/ Stumbles) /\ pass1' = pass1
    BY <1>2, <1>4, <1>7 DEF OriginalExecution
  <2> QED
    BY <2>1, <2>2, <1>6
<1>10. Calibrate => Goal
  <2>1. Calibrate => Working(Pass0)
    BY DEF Calibrate
  <2>2. Calibrate => (Progress \/ Stumbles) /\ pass1' = pass1
    BY <1>4, <1>5, <1>7 DEF Calibrate
  <2> QED
    BY <2>1, <2>2, <1>6, StageNumbers
<1>11. LocalizeToken => Goal
  <2>1. LocalizeToken => Working(Pass1)
    BY DEF LocalizeToken
  <2>2. LocalizeToken => (Progress \/ Stumbles) /\ pass1' \in {pass1, "equal"} \cup Pass1Mismatch \cup Pass1Stop
    BY <1>4, <1>5, <1>7 DEF LocalizeToken
  <2> QED
    BY <2>1, <2>2, <1>6, StageNumbers
<1>12. ASSUME NEW i \in 6 .. 9 PROVE Localization(i) => Goal
  <2>1. Localization(i) => Working(i)
    BY DEF Localization
  <2>2. Localization(i) => (Progress \/ Stumbles) /\ pass1' = pass1
    BY <1>4, <1>5, <1>7 DEF Localization
  <2> QED
    BY <2>1, <2>2, <1>6
<1>13. ReproducePrefix \/ DiscoverLayer \/ LocalizeLayer => Goal
  <2>1. Localization(6) => Goal
    BY <1>12
  <2>2. Localization(7) => Goal
    BY <1>12
  <2>3. Localization(9) => Goal
    BY <1>12
  <2>4. Working(6) /\ ExecutionFails => Goal
    BY <1>2, <1>6
  <2> QED
    BY <2>1, <2>2, <2>3, <2>4 DEF ReproducePrefix, DiscoverLayer, LocalizeLayer
<1>14. Recapture => Goal
  <2>1. Recapture => Working(8)
    BY DEF Recapture
  <2>2. Recapture => (Progress \/ Stumbles) /\ pass1' = pass1
    BY <1>2, <1>4, <1>7 DEF Recapture
  <2> QED
    BY <2>1, <2>2, <1>6
<1>15. LocalizeIntraLayer => Goal
  <2>1. LocalizeIntraLayer => Working(10)
    BY DEF LocalizeIntraLayer
  <2>2. LocalizeIntraLayer => (Progress \/ Stumbles) /\ pass1' = pass1
    BY <1>5, <1>7 DEF LocalizeIntraLayer
  <2> QED
    BY <2>1, <2>2, <1>6
<1> HIDE DEF Goal
<1>16. Goal
  BY <1>8, <1>9, <1>10, <1>11, <1>13, <1>14, <1>15 DEF Work
<1> QED
  BY <1>16 DEF Goal

(* A failing stage. *)
LEMMA FailsIs ==
    ASSUME TypeInv, active # 0, NEW class \in Classification, NEW signal \in BOOLEAN,
           Fails(class, signal)
    PROVE  /\ plan' = [at |-> active, fill |-> "blocked", verdict |-> FailureVerdict(class)]
           /\ MachineFinishes(Result("failed", 0))
           /\ guarded' = FALSE /\ signalled' \in BOOLEAN /\ pass1' = pass1
           /\ \/ pc' = "start" /\ LedgerFinishes("failed")
              \/ pc' = "handle" /\ LedgerFinishFails("failed")
           /\ FailureVerdict(class) \in Verdict \ {"PASS"}
           /\ pass1 \in Pass1Mismatch <=> FailureVerdict(class) = "REGRESSION"
BY DEF Fails, FailureVerdict, Classification, Verdict, Goto, TypeInv

(* The ledger takes the line of a stage that it knows as started.             *)
LEMMA LedgerFinishesIs ==
    ASSUME TypeInv, active \in 1 .. 12, NEW s \in StageState, LedgerFinishes(s)
    PROVE  /\ active \in Started(ledger.mem) \ Finished(ledger.mem)
           /\ StageFinished(active, s) \in Line
           /\ Appended(StageFinished(active, s))
BY LineTypes DEF LedgerFinishes

-------------------------------------------------------------------------------
(* Every action keeps the types. *)
Ledgers == [disk : Seq(Line), mem : Seq(Line), finished : BOOLEAN]
FileSets == SUBSET {"summary_tmp", "report_tmp", "summary", "report", "stray"}
Residues == Residue \cup {"none"}

(* Types after a step that leaves the machine and the evidence alone.         *)
LEMMA TypeFrame ==
    ASSUME TypeInv, UNCHANGED <<request, machine, evidence>>, guarded' \in BOOLEAN,
           pc' \in Places, ledger' \in Ledgers, faults' \in Nat, cleanup' \in Residues,
           files' \in FileSets, published' \in SUBSET {"summary", "report"},
           ledger_finished' \in BOOLEAN, exit' \in Int
    PROVE  TypeInv'
BY DEF TypeInv, machine, evidence, Ledgers, FileSets, Residues

(* Types after a step of the stage machine. *)
LEMMA TypeResults ==
    ASSUME TypeInv, UNCHANGED <<request, cleanup, bundle, ledger_finished, exit>>,
           pc' \in Places, guarded' \in BOOLEAN, signalled' \in BOOLEAN,
           ledger' \in Ledgers, faults' \in Nat,
           results' \in Seq(StageResults), Len(results') <= 12,
           active' \in {0, Len(results') + 1}, active' <= 12,
           pass1' \in {"none", "equal"} \cup Pass1Mismatch \cup Pass1Stop,
           plan' \in [at : Stage, fill : {"none", "blocked", "not_applicable"},
                      verdict : Verdict \cup {"none"}]
    PROVE  TypeInv'
BY DEF TypeInv, bundle, Ledgers, StageResults

(* The types of the plan and of the Pass 1 status. *)
LEMMA TypePlan ==
    ASSUME TypeInv
    PROVE  /\ pass1 \in {"none", "equal"} \cup Pass1Mismatch \cup Pass1Stop
           /\ plan \in [at : Stage, fill : {"none", "blocked", "not_applicable"},
                        verdict : Verdict \cup {"none"}]
           /\ guarded \in BOOLEAN /\ signalled \in BOOLEAN
BY DEF TypeInv

(* The types of the other variables, and what appends and faults keep.        *)
LEMMA TypeParts ==
    ASSUME TypeInv
    PROVE  /\ ledger \in Ledgers /\ faults \in Nat /\ cleanup \in Residues
           /\ files \in FileSets /\ published \in SUBSET {"summary", "report"}
           /\ ledger_finished \in BOOLEAN /\ exit \in Int /\ guarded \in BOOLEAN
           /\ results \in Seq(StageResults) /\ Len(results) \in Nat /\ active \in 0 .. 12
           /\ \A n \in {1, 2} : Faults(n) => faults' \in Nat
           /\ Fault => faults' \in Nat
           /\ \A line \in Line : Appended(line) \/ AppendFails(line) =>
                                     ledger' \in Ledgers /\ faults' \in Nat
<1>1. \A line \in Line : Appended(line) \/ AppendFails(line) => ledger' \in Ledgers /\ faults' \in Nat
  <2>1. faults \in Nat
    BY DEF TypeInv
  <2>2. ASSUME NEW line \in Line, Appended(line) PROVE ledger' \in Ledgers /\ faults' \in Nat
    BY <2>1, <2>2, AppendedIs DEF Ledgers
  <2>3. ASSUME NEW line \in Line, AppendFails(line) PROVE ledger' \in Ledgers /\ faults' \in Nat
    <3>1. ledger' \in Ledgers /\ faults' \in {faults, faults + 1}
      BY <2>3, AppendFailsIs DEF Ledgers
    <3> QED
      BY <2>1, <3>1
  <2> QED
    BY <2>2, <2>3
<1> QED
  BY <1>1 DEF TypeInv, Ledgers, FileSets, Residues, StageResults, Faults, Fault

(* The runtime directory is cleaned once. *)
LEMMA CleansType ==
    ASSUME TypeInv, CleansRuntime
    PROVE  /\ cleanup' \in Residue /\ faults' \in {faults, faults + 1}
           /\ cleanup # "none" => cleanup' = cleanup /\ faults' = faults
BY DEF CleansRuntime, Residue, Fault, Faults, TypeInv

(* Types after the line of a stage that finishes. *)
LEMMA StageTells ==
    ASSUME TypeInv, active \in 1 .. 12, NEW s \in StageState,
           LedgerFinishes(s) \/ LedgerFinishFails(s)
    PROVE  ledger' \in Ledgers /\ faults' \in Nat
<1>1. CASE LedgerFinishes(s)
  BY <1>1, LedgerFinishesIs, TypeParts
<1>2. CASE LedgerFinishFails(s)
  BY <1>2, LedgerFinishFailsIs DEF TypeInv, Ledgers
<1> QED
  BY <1>1, <1>2

(* finish_attempt of the ledger. *)
LEMMA AttemptFinishesIs ==
    ASSUME TypeInv, NEW v \in Verdict, AttemptFinishes(v)
    PROVE  LET line == AttemptFinished(v) IN
           /\ ledger.mem \in Seq(Line) /\ line \in Line
           /\ ~ledger.finished /\ ledger.disk = ledger.mem
           /\ ledger'.mem = Append(ledger.mem, line) /\ ledger'.disk = Append(ledger.mem, line)
           /\ ledger'.finished = TRUE
           /\ ledger' \in Ledgers /\ faults' = faults
           /\ CanFinishAttempt(v)
<1> DEFINE line == AttemptFinished(v)
<1>1. line \in Line /\ ledger.mem \in Seq(Line) /\ ledger.disk \in Seq(Line)
  BY LineTypes DEF TypeInv
<1>2. ~ledger.finished /\ ledger.disk = ledger.mem /\ faults' = faults /\ CanFinishAttempt(v)
  BY DEF AttemptFinishes, HasAuthority
<1>3. ledger' = [mem |-> Append(ledger.mem, line), disk |-> Append(ledger.disk, line),
                 finished |-> TRUE]
  BY DEF AttemptFinishes
<1> HIDE DEF line
<1>4. Append(ledger.mem, line) \in Seq(Line)
  BY <1>1, AppendIs
<1>5. /\ ledger'.mem = Append(ledger.mem, line) /\ ledger'.disk = Append(ledger.mem, line)
      /\ ledger'.finished = TRUE /\ ledger' \in Ledgers
  BY <1>2, <1>3, <1>4 DEF Ledgers
<1> QED
  BY <1>1, <1>2, <1>5 DEF line

(* A pipeline that has returned has a verdict. *)
LEMMA VerdictIs ==
    ASSUME TypeInv, MachineInv, PlanInv, pc \in Reported
    PROVE  plan.verdict \in Verdict /\ plan # Open
<1>1. Len(results) = 12 /\ pc \in Live
  BY DEF MachineInv, Reported, Live
<1>2. plan # Open
  BY <1>1 DEF PlanInv
<1> QED
  BY <1>2 DEF PlanInv, TypeInv

(* Every action keeps the types. *)
LEMMA TypeStep == TypeInv /\ MachineInv /\ PlanInv /\ [Next]_vars => TypeInv'
<1> SUFFICES ASSUME TypeInv, MachineInv, PlanInv, [Next]_vars PROVE TypeInv'
  OBVIOUS
<1>0. UNCHANGED bundle => files' = files /\ published' = published
  BY DEF bundle
<1>00. UNCHANGED ledger => ledger' = ledger
  OBVIOUS
<1>1. CASE StartAttempt
  <2>1. UNCHANGED <<request, machine, evidence>> /\ guarded' = guarded /\ cleanup' = cleanup
        /\ files' = files /\ published' = published /\ ledger_finished' = ledger_finished /\ exit' = exit
    BY <1>1, <1>0 DEF StartAttempt
  <2>2. pc' \in Places /\ (Appended(AttemptStarted) \/ AppendFails(AttemptStarted))
    BY <1>1 DEF StartAttempt, Goto, Places, Live, Failing
  <2> QED
    BY <2>1, <2>2, TypeParts, TypeFrame, LineTypes
<1>2. CASE StartStage
  <2>1. /\ active = 0 /\ next_stage \in 1 .. 12 /\ next_stage = Len(results) + 1
    BY <1>2, TypeParts DEF StartStage, MachineInv, next_stage
  <2>2. Appended(StageStarted(next_stage)) \/ AppendFails(StageStarted(next_stage))
    BY <1>2 DEF StartStage
  <2>3. ledger' \in Ledgers /\ faults' \in Nat
    BY <2>1, <2>2, LineTypes, TypeParts
  <2>4. \/ results' = results /\ active' \in {0, next_stage}
        \/ results' = Append(results, Result("failed", 0)) /\ active' = 0
    BY <1>2, <2>1 DEF StartStage
  <2>5. /\ results' \in Seq(StageResults) /\ Len(results') <= 12
        /\ active' \in {0, Len(results') + 1} /\ active' <= 12
    <3>1. CASE results' = results /\ active' \in {0, next_stage}
      BY <2>1, <3>1, TypeParts
    <3>2. CASE results' = Append(results, Result("failed", 0)) /\ active' = 0
      BY <2>1, <3>2, FailedResult, AppendIs, TypeParts
    <3> QED
      BY <2>4, <3>1, <3>2
  <2>6. guarded' = (guarded \/ next_stage = 1) \/ guarded' = FALSE
    BY <1>2 DEF StartStage
  <2>7. guarded' \in BOOLEAN
    BY <2>6
  <2>8. pc' \in Places
    BY <1>2 DEF StartStage, Goto, Places, Live, Failing
  <2>9. UNCHANGED <<request, evidence, cleanup, bundle, ledger_finished, exit>>
    BY <1>2 DEF StartStage
  <2> QED
    BY <2>3, <2>5, <2>7, <2>8, <2>9, TypePlan, TypeResults DEF evidence
<1>3. CASE Work
  <2>1. /\ pc = "work" /\ active # 0 /\ WorkFrame /\ (Progress \/ Stumbles)
        /\ pass1' \in {"none", "equal"} \cup Pass1Mismatch \cup Pass1Stop
    BY <1>3, WorkIs DEF TypeInv
  <2>2. active \in 1 .. 12
    BY <2>1, TypeParts
  <2>3. CASE Progress
    <3>1. plan' \in [at : Stage, fill : {"none", "blocked", "not_applicable"},
                     verdict : Verdict \cup {"none"}]
      BY <2>2, <2>3, StageNumbers DEF Progress, TypeInv, Verdict
    <3> QED
      BY <1>0, <2>1, <2>3, <3>1 DEF Progress, WorkFrame, TypeInv, machine, Places, Live
  <2>4. CASE Stumbles
    <3>1. PICK class \in Classification, signal \in BOOLEAN : Fails(class, signal)
      BY <2>4 DEF Stumbles
    <3>2. /\ plan' = [at |-> active, fill |-> "blocked", verdict |-> FailureVerdict(class)]
          /\ FailureVerdict(class) \in Verdict
          /\ MachineFinishes(Result("failed", 0)) /\ guarded' = FALSE /\ signalled' \in BOOLEAN
          /\ pc' \in Places
          /\ LedgerFinishes("failed") \/ LedgerFinishFails("failed")
      BY <2>1, <3>1, FailsIs DEF Places, Live, Failing
    <3>3. plan' \in [at : Stage, fill : {"none", "blocked", "not_applicable"},
                     verdict : Verdict \cup {"none"}]
      BY <2>2, <3>2, StageNumbers
    <3>4. ledger' \in Ledgers /\ faults' \in Nat
      BY <2>2, <3>2, StageTells DEF StageState
    <3>5. results' \in Seq(StageResults) /\ Len(results') <= 12 /\ active' = 0
      BY <2>1, <2>2, <3>2, FailedResult, MachineFinishesIs
    <3> QED
      <4>1. UNCHANGED <<request, cleanup, bundle, ledger_finished, exit>>
        BY <2>1 DEF WorkFrame
      <4>2. guarded' \in BOOLEAN
        BY <3>2
      <4>3. active' \in {0, Len(results') + 1} /\ active' <= 12
        BY <3>5
      <4> QED
        BY <2>1, <3>2, <3>3, <3>4, <3>5, <4>1, <4>2, <4>3, TypeResults
  <2> QED
    BY <2>1, <2>3, <2>4
<1>4. CASE FinishStage
  <2>1. /\ StageResult(active) \in StageResults /\ active \in 1 .. 12 /\ active = Len(results) + 1
        /\ MachineFinishes(StageResult(active))
        /\ LedgerFinishes(StageResult(active).state) \/ LedgerFinishFails(StageResult(active).state)
        /\ pc' \in Places
    BY <1>4, StageResultType DEF FinishStage, Goto, Places, Live, Failing
  <2>2. ledger' \in Ledgers /\ faults' \in Nat
    BY <2>1, StageTells DEF StageResults
  <2>3. results' \in Seq(StageResults) /\ Len(results') <= 12 /\ active' = 0
    BY <2>1, MachineFinishesIs
  <2>4. UNCHANGED <<request, evidence, guarded, cleanup, bundle, ledger_finished, exit>>
    BY <1>4 DEF FinishStage
  <2> QED
    BY <2>1, <2>2, <2>3, <2>4, TypePlan, TypeResults DEF evidence
<1>6. CASE CleanupRuntime
  <2>1. UNCHANGED <<request, machine, ledger, evidence, bundle, ledger_finished, exit>>
        /\ guarded' = FALSE /\ pc' \in Places /\ CleansRuntime
    BY <1>6 DEF CleanupRuntime, Goto, Places, Live
  <2>2. cleanup' \in Residues /\ faults' \in Nat
    BY <2>1, CleansType, TypeParts DEF Residues
  <2> QED
    BY <2>1, <2>2, <1>0, TypeParts, TypeFrame
<1>7. CASE FinalizeReport
  <2>1. pc' \in Places /\ UNCHANGED <<request, machine, ledger, evidence, guarded, cleanup, bundle,
                                      ledger_finished, exit, faults>>
    BY <1>7 DEF FinalizeReport, Goto, Places, Live, Failing
  <2> QED
    BY <2>1, <1>0, TypeParts, TypeFrame
<1>8. CASE PrepareSummary \/ PrepareReport
  <2>1. UNCHANGED <<request, machine, ledger, evidence, guarded, cleanup, published,
                    ledger_finished, exit>>
    BY <1>8 DEF PrepareSummary, PrepareReport
  <2>2. pc' \in Places /\ (UNCHANGED faults \/ Fault \/ Faults(2))
    BY <1>8 DEF PrepareSummary, PrepareReport, Goto, Places, Live, Failing
  <2>3. files' \in {{"summary_tmp"}, {"stray"}, {}, files, files \cup {"report_tmp"}}
    BY <1>8 DEF PrepareSummary, PrepareReport
  <2>4. files' \in FileSets
    BY <2>3, TypeParts DEF FileSets
  <2> QED
    BY <2>1, <2>2, <2>4, TypeParts, TypeFrame
<1>9. CASE ObserveCleanup
  <2>1. cleanup \in Residue
    BY <1>9 DEF ObserveCleanup, MachineInv, Reported, TypeInv
  <2>2. /\ pc' \in Places
        /\ Appended(CleanupObserved(cleanup)) \/ AppendFails(CleanupObserved(cleanup))
        /\ UNCHANGED <<request, machine, evidence, guarded, cleanup, bundle,
                       ledger_finished, exit>>
    BY <1>9 DEF ObserveCleanup, Goto, Places, Live, Failing
  <2> QED
    BY <2>1, <2>2, <1>0, TypeParts, TypeFrame, LineTypes
<1>10. ASSUME NEW v \in Verdict, AttemptFinishes(v) \/ AttemptFinishFails(v)
       PROVE  ledger' \in Ledgers /\ faults' \in Nat
  <2>1. CASE AttemptFinishes(v)
    BY <2>1, AttemptFinishesIs, TypeParts
  <2>2. CASE AttemptFinishFails(v)
    BY <2>2, LineTypes, TypeParts DEF AttemptFinishFails
  <2> QED
    BY <1>10, <2>1, <2>2
<1>11. CASE FinishAttempt
  <2>1. plan.verdict \in Verdict
    BY <1>11, VerdictIs DEF FinishAttempt, Reported
  <2>2. /\ pc' \in Places /\ ledger_finished' \in BOOLEAN
        /\ AttemptFinishes(plan.verdict) \/ AttemptFinishFails(plan.verdict)
        /\ UNCHANGED <<request, machine, evidence, guarded, cleanup, bundle, exit>>
    BY <1>11, TypeParts DEF FinishAttempt, Goto, Places, Publishing, Failing
  <2> QED
    BY <1>10, <2>1, <2>2, <1>0, TypeParts, TypeFrame
<1>12. CASE Publish
  <2>1. CASE LinkSummary \/ LinkReport
    <3>1. UNCHANGED <<request, machine, ledger, evidence, guarded, cleanup, published,
                      ledger_finished, exit>>
      BY <2>1 DEF LinkSummary, LinkReport, Link
    <3>2. pc' \in Places /\ (UNCHANGED faults \/ Fault)
      BY <2>1 DEF LinkSummary, LinkReport, Link, Goto, Places, Publishing
    <3>3. files' \in {files, files \cup {"summary"}, files \cup {"report"}}
      BY <2>1 DEF LinkSummary, LinkReport, Link
    <3>4. files' \in FileSets
      BY <3>3, TypeParts DEF FileSets
    <3> QED
      BY <3>1, <3>2, <3>4, TypeParts, TypeFrame
  <2>2. CASE DropSummaryTemporary \/ DropReportTemporary
    <3>1. UNCHANGED <<request, machine, ledger, evidence, guarded, cleanup, ledger_finished, exit>>
      BY <2>2 DEF DropSummaryTemporary, DropReportTemporary, Unlink
    <3>2. pc' \in Places /\ (UNCHANGED faults \/ Fault)
      BY <2>2 DEF DropSummaryTemporary, DropReportTemporary, Unlink, Goto, Places, Publishing
    <3>3. /\ files' \in {files, files \ {Temporary("summary")}, files \ {Temporary("report")}}
          /\ published' \in {published, published \cup {"summary"}, published \cup {"report"}}
      BY <2>2 DEF DropSummaryTemporary, DropReportTemporary, Unlink
    <3>4. files' \in FileSets /\ published' \in SUBSET {"summary", "report"}
      BY <3>3, TypeParts DEF FileSets
    <3> QED
      BY <3>1, <3>2, <3>4, TypeParts, TypeFrame
  <2>3. CASE UnpublishSummary \/ UnpublishReport
    <3>1. UNCHANGED <<request, machine, ledger, evidence, guarded, cleanup, published,
                      ledger_finished, exit>>
      BY <2>3 DEF UnpublishSummary, UnpublishReport, Unpublish
    <3>2. pc' \in Places /\ (UNCHANGED faults \/ Fault)
      BY <2>3 DEF UnpublishSummary, UnpublishReport, Unpublish, Goto, Places, Publishing
    <3>3. files' \in {files, files \ {"summary"}, files \ {"report"}}
      BY <2>3 DEF UnpublishSummary, UnpublishReport, Unpublish
    <3>4. files' \in FileSets
      BY <3>3, TypeParts DEF FileSets
    <3> QED
      BY <3>1, <3>2, <3>4, TypeParts, TypeFrame
  <2>4. CASE SyncDirectory
    <3>1. plan.verdict \in Verdict => ExitCode(plan.verdict, request.require_supported) \in Int
      BY DEF ExitCode, Verdict
    <3>2. plan.verdict \in Verdict
      BY <2>4 DEF SyncDirectory, MachineInv, Publishing
    <3>3. exit' \in Int /\ pc' \in Places /\ (UNCHANGED faults \/ Fault)
      BY <2>4, <3>1, <3>2, TypeParts DEF SyncDirectory, Leave, Goto, Places, Publishing, Over
    <3>4. UNCHANGED <<request, machine, ledger, evidence, guarded, cleanup, bundle, ledger_finished>>
      BY <2>4 DEF SyncDirectory
    <3> QED
      BY <3>3, <3>4, <1>0, TypeParts, TypeFrame
  <2>5. CASE Rollback
    <3>1. UNCHANGED <<request, machine, ledger, evidence, guarded, cleanup, published,
                      ledger_finished, exit>>
      BY <2>5 DEF Rollback, RollsBack
    <3>2. pc' \in Places /\ (UNCHANGED faults \/ Fault)
      BY <2>5 DEF Rollback, RollsBack, Goto, Places, Failing
    <3>3. files' \in SUBSET files
      BY <2>5 DEF Rollback, RollsBack
    <3>4. files' \in FileSets
      BY <3>3, TypeParts DEF FileSets
    <3> QED
      BY <3>1, <3>2, <3>4, TypeParts, TypeFrame
  <2> QED
    BY <1>12, <2>1, <2>2, <2>3, <2>4, <2>5 DEF Publish
<1>13. CASE Handle
  <2>1. UNCHANGED <<request, machine, ledger, evidence, published, ledger_finished, exit>>
        /\ guarded' = FALSE
    BY <1>13 DEF Handle
  <2>2. pc' \in Places /\ files' \in SUBSET files
    BY <1>13 DEF Handle, Goto, Places, Failing
  <2>3. CleansRuntime \/ (Fault /\ cleanup' = cleanup)
    BY <1>13 DEF Handle
  <2>4. cleanup' \in Residues /\ faults' \in Nat
    BY <2>3, CleansType, TypeParts DEF Residues
  <2>5. files' \in FileSets
    BY <2>2, TypeParts DEF FileSets
  <2> QED
    BY <2>1, <2>2, <2>4, <2>5, TypeParts, TypeFrame
<1>14. CASE FailActiveStage
  <2>1. /\ pc' \in Places
        /\ UNCHANGED <<request, evidence, guarded, cleanup, bundle, ledger_finished, exit>>
    BY <1>14 DEF FailActiveStage, Abort, Goto, Places, Failing
  <2>2. CASE active = 0
    <3>1. UNCHANGED <<machine, ledger, faults>>
      BY <1>14, <2>2 DEF FailActiveStage
    <3> QED
      BY <2>1, <3>1, <1>0, TypeParts, TypeFrame
  <2>3. CASE active # 0
    <3>1. /\ MachineFinishes(Result("failed", 0)) /\ active \in 1 .. 12
          /\ LedgerFinishes("failed") \/ LedgerFinishFails("failed")
      BY <1>14, <2>3, TypeParts DEF FailActiveStage
    <3>2. ledger' \in Ledgers /\ faults' \in Nat
      BY <3>1, StageTells DEF StageState
    <3>3. results' \in Seq(StageResults) /\ Len(results') <= 12 /\ active' = 0
      BY <2>3, <3>1, FailedResult, MachineFinishesIs
    <3> QED
      BY <2>1, <3>2, <3>3, TypePlan, TypeResults DEF evidence
  <2> QED
    BY <2>2, <2>3
<1>15. CASE ObserveLateCleanup
  <2>1. /\ pc' \in Places
        /\ UNCHANGED <<request, machine, evidence, guarded, cleanup, bundle, ledger_finished, exit>>
    BY <1>15 DEF ObserveLateCleanup, Abort, Goto, Places, Failing
  <2>2. \/ UNCHANGED <<ledger, faults>>
        \/ Appended(CleanupObserved(cleanup)) \/ AppendFails(CleanupObserved(cleanup))
    BY <1>15 DEF ObserveLateCleanup
  <2>3. cleanup \in Residue
    BY <1>15 DEF ObserveLateCleanup, TypeInv, MachineInv
  <2> QED
    BY <2>1, <2>2, <2>3, <1>0, TypeParts, TypeFrame, LineTypes
<1>16. CASE FinishFailedAttempt
  <2>1. /\ pc' \in Places
        /\ UNCHANGED <<request, machine, evidence, guarded, cleanup, bundle, ledger_finished, exit>>
        /\ AttemptFinishes("HARNESS_ERROR") \/ AttemptFinishFails("HARNESS_ERROR")
    BY <1>16 DEF FinishFailedAttempt, Goto, Places, Failing
  <2>2. ledger' \in Ledgers /\ faults' \in Nat
    BY <1>10, <2>1 DEF Verdict
  <2> QED
    BY <2>1, <2>2, <1>0, TypeParts, TypeFrame
<1>17. CASE Raise \/ Crash
  <2>1. /\ pc' \in Places /\ exit' \in {exit, 2}
        /\ UNCHANGED <<request, machine, ledger, evidence, guarded, cleanup, bundle,
                       ledger_finished, faults>>
    BY <1>17 DEF Raise, Crash, Leave, Goto, Places, Over
  <2> QED
    BY <2>1, <1>0, TypeParts, TypeFrame
<1>18. CASE UNCHANGED vars
  BY <1>18 DEF vars, TypeInv, machine, evidence, bundle
<1> QED
  BY <1>1, <1>2, <1>3, <1>4, <1>6, <1>7, <1>8, <1>9, <1>11, <1>12, <1>13, <1>14, <1>15, <1>16, <1>17, <1>18
  DEF Next, Run, Orchestrate, Recover

-------------------------------------------------------------------------------
(* The stage machine, the plan and the Pass 1 status, which most steps leave. *)
Settled == UNCHANGED <<results, active, plan, pass1>>

(* The steps outside the stages. *)
LEMMA SettledSteps ==
    ASSUME \/ StartAttempt \/ Orchestrate \/ Publish \/ Handle \/ ObserveLateCleanup
           \/ FinishFailedAttempt \/ Raise \/ Crash \/ UNCHANGED vars
    PROVE  Settled
<1> USE DEF Settled, machine, evidence
<1>1. StartAttempt \/ Handle \/ ObserveLateCleanup \/ FinishFailedAttempt \/ Raise \/ Crash => Settled
  BY DEF StartAttempt, Handle, ObserveLateCleanup, FinishFailedAttempt, Raise, Crash
<1>2. Orchestrate => Settled
  BY DEF Orchestrate, CleanupRuntime, FinalizeReport, PrepareSummary, PrepareReport,
         ObserveCleanup, FinishAttempt
<1>3. Publish => Settled
  BY DEF Publish, LinkSummary, LinkReport, Link, DropSummaryTemporary, DropReportTemporary,
         Unlink, UnpublishSummary, UnpublishReport, Unpublish, SyncDirectory, Rollback, RollsBack
<1>4. UNCHANGED vars => Settled
  BY DEF vars
<1> QED
  BY <1>1, <1>2, <1>3, <1>4

(* Where a step that settles nothing goes, and what it does to the residue. *)
LEMMA Routes ==
    ASSUME TypeInv
    PROVE  /\ StartAttempt => pc = "start_attempt" /\ pc' \in {"start", "handle"} /\ cleanup' = cleanup
           /\ CleanupRuntime => pc = "return" /\ Len(results) = 11 /\ pc' = "start" /\ cleanup' # "none"
           /\ FinalizeReport => pc = "finalize" /\ pc' \in {"prepare_summary", "handle"} /\ cleanup' = cleanup
           /\ PrepareSummary => pc = "prepare_summary" /\ pc' \in {"prepare_report", "handle"} /\ cleanup' = cleanup
           /\ PrepareReport => pc = "prepare_report" /\ pc' \in {"observe_cleanup", "handle"} /\ cleanup' = cleanup
           /\ ObserveCleanup => pc = "observe_cleanup" /\ pc' \in {"finish_attempt", "handle"} /\ cleanup' = cleanup
           /\ FinishAttempt => pc = "finish_attempt" /\ pc' \in {"link_summary", "handle"} /\ cleanup' = cleanup
           /\ Publish => pc \in Publishing /\ pc' \in Publishing \cup {"handle", "done"} /\ cleanup' = cleanup
           /\ Handle => /\ pc = "handle"
                        /\ \/ pc' = "raise" \/ (pc' = "fail_stage" /\ cleanup' # "none" /\ ~ledger_finished)
           /\ ObserveLateCleanup => pc = "late_cleanup" /\ pc' \in {"late_finish", "raise"} /\ cleanup' = cleanup
           /\ FinishFailedAttempt => pc = "late_finish" /\ pc' = "raise" /\ cleanup' = cleanup
           /\ Raise => pc = "raise" /\ pc' = "done" /\ cleanup' = cleanup
           /\ Crash => pc' = "crashed" /\ cleanup' = cleanup
<1>1. CleansRuntime => cleanup' # "none"
  BY CleansType DEF Residue
<1>2. next_stage = Cleanup => Len(results) = 11
  <2>1. Len(results) \in Nat
    BY TypeParts
  <2>2. Cleanup = 12
    BY StageNumbers
  <2>3. \A n \in Nat : n + 1 = 12 => n = 11
    OBVIOUS
  <2> QED
    BY <2>1, <2>2, <2>3 DEF next_stage
<1>3. CleanupRuntime => pc = "return" /\ Len(results) = 11 /\ pc' = "start" /\ cleanup' # "none"
  BY <1>1, <1>2 DEF CleanupRuntime, Goto
<1>4. Handle => /\ pc = "handle"
                /\ \/ pc' = "raise" \/ (pc' = "fail_stage" /\ cleanup' # "none" /\ ~ledger_finished)
  BY <1>1 DEF Handle, Goto
<1>5. Publish => pc \in Publishing /\ pc' \in Publishing \cup {"handle", "done"} /\ cleanup' = cleanup
  BY DEF Publish, LinkSummary, LinkReport, Link, DropSummaryTemporary, DropReportTemporary,
         Unlink, UnpublishSummary, UnpublishReport, Unpublish, SyncDirectory, Rollback, RollsBack,
         Goto, Leave, Publishing
<1>6. /\ StartAttempt => pc = "start_attempt" /\ pc' \in {"start", "handle"} /\ cleanup' = cleanup
      /\ FinalizeReport => pc = "finalize" /\ pc' \in {"prepare_summary", "handle"} /\ cleanup' = cleanup
      /\ PrepareSummary => pc = "prepare_summary" /\ pc' \in {"prepare_report", "handle"} /\ cleanup' = cleanup
      /\ PrepareReport => pc = "prepare_report" /\ pc' \in {"observe_cleanup", "handle"} /\ cleanup' = cleanup
  BY DEF StartAttempt, FinalizeReport, PrepareSummary, PrepareReport, Goto
<1>7. /\ ObserveCleanup => pc = "observe_cleanup" /\ pc' \in {"finish_attempt", "handle"} /\ cleanup' = cleanup
      /\ FinishAttempt => pc = "finish_attempt" /\ pc' \in {"link_summary", "handle"} /\ cleanup' = cleanup
  BY DEF ObserveCleanup, FinishAttempt, Goto
<1>8. /\ ObserveLateCleanup => pc = "late_cleanup" /\ pc' \in {"late_finish", "raise"} /\ cleanup' = cleanup
      /\ FinishFailedAttempt => pc = "late_finish" /\ pc' = "raise" /\ cleanup' = cleanup
      /\ Raise => pc = "raise" /\ pc' = "done" /\ cleanup' = cleanup
      /\ Crash => pc' = "crashed" /\ cleanup' = cleanup
  BY DEF ObserveLateCleanup, FinishFailedAttempt, Abort, Raise, Crash, Leave, Goto
<1> QED
  BY <1>3, <1>4, <1>5, <1>6, <1>7, <1>8

(* The steps of the stage machine. *)
LEMMA StartStageIs ==
    ASSUME TypeInv, MachineInv, StartStage
    PROVE  /\ pc = "start" /\ active = 0 /\ next_stage = Len(results) + 1 /\ next_stage \in 1 .. 12
           /\ plan' = plan /\ pass1' = pass1 /\ cleanup' = cleanup
           /\ UNCHANGED <<bundle, ledger_finished, exit>>
           /\ \/ /\ Appended(StageStarted(next_stage)) /\ active' = next_stage /\ results' = results
                 /\ pc' = IF next_stage < 11 /\ next_stage <= plan.at THEN "work" ELSE "finish"
              \/ /\ AppendFails(StageStarted(next_stage)) /\ pc' = "handle"
                 /\ \/ results' = Append(results, Result("failed", 0)) /\ active' = 0
                    \/ results' = results /\ active' = next_stage
BY TypeParts, StageNumbers DEF StartStage, MachineInv, next_stage, Goto, HasWork, evidence

(* A stage finishes in the machine, and in the ledger or not. *)
LEMMA FinishStageIs ==
    ASSUME TypeInv, MachineInv, PlanInv, FinishStage
    PROVE  LET r == StageResult(active) IN
           /\ pc = "finish" /\ active \in 1 .. 12 /\ active = Len(results) + 1
           /\ r \in StageResults /\ MachineFinishes(r)
           /\ plan' = plan /\ pass1' = pass1 /\ cleanup' = cleanup
           /\ UNCHANGED <<bundle, ledger_finished, exit>>
           /\ \/ /\ LedgerFinishes(r.state)
                 /\ pc' = CASE active = 11 -> "return" [] active = 12 -> "finalize" [] OTHER -> "start"
              \/ LedgerFinishFails(r.state) /\ pc' = "handle"
<1>1. /\ pc = "finish" /\ MachineFinishes(StageResult(active))
      /\ plan' = plan /\ pass1' = pass1 /\ cleanup' = cleanup
      /\ UNCHANGED <<bundle, ledger_finished, exit>>
  BY DEF FinishStage, evidence
<1>2. \/ LedgerFinishes(StageResult(active).state)
         /\ pc' = CASE active = Aggregation -> "return" [] active = Cleanup -> "finalize" [] OTHER -> "start"
      \/ LedgerFinishFails(StageResult(active).state) /\ pc' = "handle"
  BY DEF FinishStage, Goto
<1>3. \/ LedgerFinishes(StageResult(active).state)
         /\ pc' = CASE active = 11 -> "return" [] active = 12 -> "finalize" [] OTHER -> "start"
      \/ LedgerFinishFails(StageResult(active).state) /\ pc' = "handle"
  BY <1>2, StageNumbers
<1> QED
  BY <1>1, <1>3, StageResultType

(* The except clause of the orchestrator fails the stage that is active.      *)
LEMMA FailActiveStageIs ==
    ASSUME TypeInv, FailActiveStage
    PROVE  /\ pc = "fail_stage" /\ plan' = plan /\ pass1' = pass1 /\ cleanup' = cleanup
           /\ UNCHANGED <<bundle, ledger_finished, exit>>
           /\ \/ /\ active = 0 /\ pc' = "late_cleanup"
                 /\ UNCHANGED <<results, active, ledger, faults>>
              \/ /\ active \in 1 .. 12 /\ MachineFinishes(Result("failed", 0))
                 /\ \/ LedgerFinishes("failed") /\ pc' = "late_cleanup"
                    \/ LedgerFinishFails("failed") /\ pc' = "raise"
BY TypeParts DEF FailActiveStage, Abort, Goto, machine, evidence

(* The work of a stage leaves the machine ready to finish it, or fails it. *)
LEMMA WorkEffect ==
    ASSUME TypeInv, Work
    PROVE  /\ pc = "work" /\ active \in 1 .. 12 /\ active = Len(results) + 1 /\ cleanup' = cleanup
           /\ \/ /\ pc' = "finish" /\ UNCHANGED <<results, active, ledger, faults>>
                 /\ \/ plan' = plan
                    \/ plan'.at = active /\ plan' # Open /\ plan'.fill # "none" /\ plan'.verdict # "none"
              \/ /\ MachineFinishes(Result("failed", 0)) /\ pass1' = pass1
                 /\ plan'.at = active /\ plan'.fill # "none"
                 /\ plan'.verdict \in Verdict \ {"PASS"}
                 /\ plan'.verdict = "REGRESSION" <=> pass1 \in Pass1Mismatch
                 /\ \/ LedgerFinishes("failed") /\ pc' = "start"
                    \/ LedgerFinishFails("failed") /\ pc' = "handle"
<1>1. pc = "work" /\ active # 0 /\ WorkFrame /\ (Progress \/ Stumbles)
  BY WorkIs
<1>2. active \in 1 .. 12 /\ active = Len(results) + 1
  BY <1>1, TypeParts DEF TypeInv
<1>3. CASE Progress
  <2>1. pc' = "finish" /\ UNCHANGED <<results, active, ledger, faults>>
    BY <1>3 DEF Progress, machine
  <2>2. \/ plan' = plan
        \/ plan'.at = active /\ plan'.fill # "none" /\ plan'.verdict # "none"
    BY <1>3 DEF Progress
  <2>3. plan'.verdict # "none" => plan' # Open
    BY DEF Open
  <2> QED
    BY <1>1, <1>2, <2>1, <2>2, <2>3 DEF WorkFrame
<1>4. CASE Stumbles
  <2>1. PICK class \in Classification, signal \in BOOLEAN : Fails(class, signal)
    BY <1>4 DEF Stumbles
  <2>2. /\ plan' = [at |-> active, fill |-> "blocked", verdict |-> FailureVerdict(class)]
        /\ MachineFinishes(Result("failed", 0)) /\ pass1' = pass1
        /\ \/ pc' = "start" /\ LedgerFinishes("failed")
           \/ pc' = "handle" /\ LedgerFinishFails("failed")
        /\ FailureVerdict(class) \in Verdict \ {"PASS"}
        /\ pass1 \in Pass1Mismatch <=> FailureVerdict(class) = "REGRESSION"
    BY <1>1, <2>1, FailsIs
  <2> QED
    BY <1>1, <1>2, <2>2 DEF WorkFrame
<1> QED
  BY <1>1, <1>3, <1>4

-------------------------------------------------------------------------------
(* Every action keeps the stage machine where control is. *)
LEMMA MachineStep == TypeInv /\ MachineInv /\ PlanInv /\ [Next]_vars => MachineInv'
<1> SUFFICES ASSUME TypeInv, MachineInv, PlanInv, [Next]_vars PROVE MachineInv'
  OBVIOUS
<1> USE DEF MachineInv
<1>0. Len(results) \in Nat /\ Len(results) <= 12 /\ active \in {0, Len(results) + 1}
  BY DEF TypeInv
<1>1. CASE StartStage
  <2>1. /\ pc = "start" /\ next_stage = Len(results) + 1 /\ next_stage \in 1 .. 12
        /\ plan' = plan /\ pass1' = pass1 /\ cleanup' = cleanup
    BY <1>1, StartStageIs
  <2>2. CASE /\ active' = next_stage /\ results' = results
             /\ pc' = IF next_stage < 11 /\ next_stage <= plan.at THEN "work" ELSE "finish"
    <3>1. next_stage = 12 => cleanup # "none"
      <4>1. Len(results) = 11 => cleanup # "none"
        BY <2>1
      <4>2. \A n \in Nat : n + 1 = 12 => n = 11
        OBVIOUS
      <4> QED
        BY <1>0, <2>1, <4>1, <4>2
    <3>2. CASE pc' = "work"
      <4>1. next_stage < 11 /\ next_stage <= plan.at
        BY <2>2, <3>2
      <4>2. plan = Open
        <5>1. plan # Open => plan.at <= Len(results)
          BY <2>1 DEF PlanInv, Live
        <5>2. plan.at \in 1 .. 12
          BY TypePlan, StageNumbers
        <5> QED
          BY <1>0, <2>1, <4>1, <5>1, <5>2
      <4> QED
        BY <2>1, <2>2, <3>2, <4>1, <4>2 DEF Reported, Publishing
    <3>3. CASE pc' = "finish"
      <4>1. next_stage >= 11 \/ next_stage > plan.at
        BY <2>1, <2>2, <3>3, StageNumbers DEF TypeInv
      <4>2. next_stage < 10 \/ plan # Open
        BY <1>0, <2>1, <4>1, StageNumbers DEF PlanInv, Live, Open
      <4> QED
        BY <2>1, <2>2, <3>1, <3>3, <4>2 DEF Reported, Publishing
    <3> QED
      BY <2>2, <3>2, <3>3
  <2>3. CASE pc' = "handle"
    BY <2>3 DEF Reported, Publishing
  <2> QED
    BY <1>1, <2>2, <2>3, StartStageIs
<1>2. CASE Work
  <2>1. /\ pc = "work" /\ active \in 1 .. 10 /\ active = Len(results) + 1 /\ cleanup' = cleanup
        /\ plan = Open
    BY <1>2, WorkEffect
  <2>2. CASE /\ pc' = "finish" /\ UNCHANGED <<results, active>>
    <3>1. active < 10 \/ plan' # Open
      <4>1. CASE active = 10
        <5>1. ~Preflight /\ ~OriginalExecution /\ ~Calibrate /\ ~LocalizeToken /\ ~ReproducePrefix
              /\ ~DiscoverLayer /\ ~Recapture /\ ~LocalizeLayer
          BY <4>1, StageNumbers DEF Preflight, OriginalExecution, Calibrate, LocalizeToken, ReproducePrefix,
             DiscoverLayer, Recapture, LocalizeLayer, Localization, Working
        <5>2. LocalizeIntraLayer
          BY <1>2, <5>1 DEF Work
        <5>3. \A class, signal : Fails(class, signal) => pc' # "finish"
          BY DEF Fails, Goto
        <5>4. Stop("blocked", "REGRESSION")
          BY <2>2, <5>2, <5>3 DEF LocalizeIntraLayer
        <5>5. plan'.verdict = "REGRESSION"
          BY <5>4 DEF Stop
        <5> QED
          BY <5>5 DEF Open
      <4> QED
        BY <2>1, <4>1
    <3> QED
      BY <2>1, <2>2, <3>1 DEF Reported, Publishing
  <2>3. CASE MachineFinishes(Result("failed", 0)) /\ pc' = "start"
    <3>1. Len(results') = active /\ active' = 0
      BY <2>1, <2>3, MachineFinishesIs, FailedResult
    <3> QED
      BY <2>1, <2>3, <3>1 DEF Reported, Publishing
  <2>4. CASE pc' = "handle"
    BY <2>4 DEF Reported, Publishing
  <2> QED
    BY <1>2, <2>2, <2>3, <2>4, WorkEffect
<1>3. CASE FinishStage
  <2>1. /\ pc = "finish" /\ active \in 1 .. 12 /\ active = Len(results) + 1
        /\ MachineFinishes(StageResult(active)) /\ StageResult(active) \in StageResults
        /\ plan' = plan /\ cleanup' = cleanup
        /\ \/ pc' = CASE active = 11 -> "return" [] active = 12 -> "finalize" [] OTHER -> "start"
           \/ pc' = "handle"
    BY <1>3, FinishStageIs
  <2>2. Len(results') = active /\ active' = 0
    BY <2>1, MachineFinishesIs
  <2>3. active = 12 => cleanup # "none"
    BY <2>1
  <2>4. \/ pc' = "return" /\ active = 11
        \/ pc' = "finalize" /\ active = 12
        \/ pc' = "start" /\ active <= 10
        \/ pc' = "handle"
    BY <2>1
  <2> QED
    BY <2>1, <2>2, <2>3, <2>4 DEF Reported, Publishing
<1>4. CASE FailActiveStage
  <2>1. /\ pc = "fail_stage" /\ cleanup' = cleanup /\ pc' \in {"late_cleanup", "raise"}
        /\ active' = 0
    BY <1>4, FailActiveStageIs DEF MachineFinishes
  <2> QED
    BY <2>1 DEF Reported, Publishing
<1>5. CASE Settled /\ StartAttempt
  <2>1. pc' \in {"start", "handle"} /\ results' = <<>> /\ active' = 0
    BY <1>5, Routes DEF Settled
  <2> QED
    BY <2>1, <1>5 DEF Reported, Publishing
<1>6. CASE Settled /\ CleanupRuntime
  <2>1. pc' = "start" /\ cleanup' # "none" /\ Len(results') = 11 /\ active' = 0
    BY <1>6, Routes DEF Settled
  <2> QED
    BY <2>1 DEF Reported, Publishing
<1>7. CASE /\ Settled /\ cleanup' = cleanup /\ pc \in Reported
           /\ pc' \in Reported \cup {"link_summary", "handle"}
  <2>1. /\ active' = 0 /\ Len(results') = 12 /\ cleanup' # "none"
    BY <1>7 DEF Settled
  <2>2. plan'.verdict \in Verdict
    BY <1>7, VerdictIs DEF Settled
  <2> QED
    BY <1>7, <2>1, <2>2 DEF Reported, Publishing
<1>8. CASE Settled /\ Publish
  <2>1. pc \in Publishing /\ pc' \in Publishing \cup {"handle", "done"}
        /\ plan' = plan /\ active' = active
    BY <1>8, Routes DEF Settled
  <2> QED
    BY <2>1 DEF Reported, Publishing
<1>9. CASE Settled /\ Handle
  <2>1. pc' = "raise" \/ (pc' = "fail_stage" /\ cleanup' # "none")
    BY <1>9, Routes
  <2> QED
    BY <2>1 DEF Reported, Publishing
<1>10. CASE Settled /\ (ObserveLateCleanup \/ FinishFailedAttempt \/ Raise \/ Crash)
  <2>1. /\ cleanup' = cleanup /\ active' = active
        /\ \/ pc = "late_cleanup" /\ pc' \in {"late_finish", "raise"}
           \/ pc' \in {"raise", "done", "crashed"}
    BY <1>10, Routes DEF Settled
  <2> QED
    BY <2>1 DEF Reported, Publishing
<1>11. CASE UNCHANGED vars
  BY <1>11 DEF vars, machine, evidence
<1>12. CASE Orchestrate
  <2>1. FinalizeReport \/ PrepareSummary \/ PrepareReport \/ ObserveCleanup \/ FinishAttempt
          => /\ cleanup' = cleanup /\ pc \in Reported
             /\ pc' \in Reported \cup {"link_summary", "handle"}
    BY Routes DEF Reported
  <2> QED
    BY <1>6, <1>7, <1>12, <2>1, SettledSteps DEF Orchestrate
<1> QED
  BY <1>1, <1>2, <1>3, <1>4, <1>5, <1>8, <1>9, <1>10, <1>11, <1>12, SettledSteps DEF Next, Run, Recover

-------------------------------------------------------------------------------
(* The stages in front of the place where the plan stops are executed. *)
LEMMA PlanStep == TypeInv /\ MachineInv /\ PlanInv /\ [Next]_vars => PlanInv'
<1> SUFFICES ASSUME TypeInv, MachineInv, PlanInv, [Next]_vars PROVE PlanInv'
  OBVIOUS
<1>0. /\ Len(results) \in Nat /\ results \in Seq(StageResults) /\ DOMAIN results = 1 .. Len(results)
      /\ plan.at \in 1 .. 11
  BY TypeParts, TypePlan, StageNumbers, AppendIs DEF PlanInv
<1>1. CASE StartStage
  <2>1. /\ pc = "start" /\ next_stage = Len(results) + 1 /\ plan' = plan
    BY <1>1, StartStageIs
  <2>2. plan # Open => plan.at <= Len(results)
    BY <2>1 DEF PlanInv, Live
  <2>3. CASE active' = next_stage /\ results' = results /\ pc' \in {"work", "finish"}
    BY <1>0, <2>1, <2>2, <2>3 DEF PlanInv, Live
  <2>4. CASE pc' = "handle"
    BY <2>1, <2>4 DEF PlanInv, Live
  <2> QED
    BY <1>1, <2>3, <2>4, StartStageIs
<1>2. CASE Work
  <2>1. /\ pc = "work" /\ active \in 1 .. 10 /\ active = Len(results) + 1 /\ plan = Open
    BY <1>2, WorkEffect DEF MachineInv
  <2>2. plan.at = 11 /\ \A i \in DOMAIN results : results[i].state = "executed"
    BY <1>0, <2>1, StageNumbers DEF PlanInv, Live, Open
  <2>3. CASE /\ pc' = "finish" /\ UNCHANGED <<results, active>>
             /\ \/ plan' = plan
                \/ plan'.at = active /\ plan' # Open /\ plan'.fill # "none" /\ plan'.verdict # "none"
    BY <1>0, <2>1, <2>2, <2>3 DEF PlanInv, Live
  <2>4. CASE /\ MachineFinishes(Result("failed", 0))
             /\ plan'.at = active /\ plan'.fill # "none" /\ plan'.verdict \in Verdict \ {"PASS"}
             /\ pc' \in {"start", "handle"}
    <3>1. /\ DOMAIN results' = 1 .. active /\ Len(results') = active
          /\ \A k \in DOMAIN results : results'[k] = results[k]
      BY <2>1, <2>4, MachineFinishesIs, FailedResult
    <3>2. plan'.verdict # "none" /\ plan' # Open
      BY <2>4 DEF Verdict, Open
    <3>3. \A i \in DOMAIN results' : i < plan'.at => results'[i].state = "executed"
      BY <1>0, <2>1, <2>2, <2>4, <3>1
    <3> QED
      BY <2>1, <2>4, <3>1, <3>2, <3>3 DEF PlanInv, Live
  <2> QED
    BY <1>2, <2>3, <2>4, WorkEffect
<1>3. CASE FinishStage
  <2>1. /\ pc = "finish" /\ active \in 1 .. 12 /\ active = Len(results) + 1
        /\ MachineFinishes(StageResult(active)) /\ StageResult(active) \in StageResults
        /\ plan' = plan
        /\ \/ pc' = CASE active = 11 -> "return" [] active = 12 -> "finalize" [] OTHER -> "start"
           \/ pc' = "handle"
    BY <1>3, FinishStageIs
  <2>2. /\ DOMAIN results' = 1 .. active /\ Len(results') = active
        /\ \A k \in DOMAIN results : results'[k] = results[k]
        /\ results'[active] = StageResult(active)
    BY <2>1, MachineFinishesIs
  <2>3. /\ plan # Open => plan.at <= active
        /\ active < 10 \/ plan # Open
        /\ \A i \in DOMAIN results : i < plan.at /\ i < 11 => results[i].state = "executed"
        /\ 11 \in DOMAIN results => results[11].state = "executed"
    BY <2>1 DEF PlanInv, MachineInv, Live
  <2>4. active <= plan.at \/ active >= 11 => StageResult(active).state = "executed"
    BY <2>1, StageNumbers DEF StageResult, Result
  <2>5. \A i \in DOMAIN results' : i < plan.at /\ i < 11 => results'[i].state = "executed"
    BY <1>0, <2>1, <2>2, <2>3, <2>4
  <2>6. 11 \in DOMAIN results' => results'[11].state = "executed"
    BY <1>0, <2>1, <2>2, <2>3, <2>4
  <2>7. plan = Open => Len(results') < 10
    BY <2>1, <2>2, <2>3
  <2>8. pc' # "finish"
    BY <2>1
  <2> QED
    BY <2>1, <2>2, <2>3, <2>5, <2>6, <2>7, <2>8 DEF PlanInv
<1>4. CASE FailActiveStage
  BY <1>4, FailActiveStageIs DEF PlanInv, Live
<1>5. CASE Settled /\ StartAttempt
  <2>1. pc' \in {"start", "handle"} /\ results' = <<>> /\ plan' = Open
    BY <1>5, Routes DEF MachineInv, Settled
  <2> QED
    BY <2>1, StageNumbers DEF PlanInv, Open
<1>6. CASE Settled /\ CleanupRuntime
  <2>1. pc = "return" /\ pc' = "start" /\ Len(results) = 11
    BY <1>6, Routes
  <2> QED
    BY <1>0, <1>6, <2>1 DEF PlanInv, Settled, Live
<1>7. CASE /\ Settled /\ pc' \notin {"start", "finish"}
           /\ pc' \in Live => pc \in Live
  BY <1>7 DEF PlanInv, Settled
<1>8. CASE Settled /\ UNCHANGED vars
  BY <1>8 DEF PlanInv, Settled, vars
<1>9. Orchestrate => CleanupRuntime \/ (pc' \notin {"start", "finish"} /\ pc \in Live)
  BY Routes DEF Orchestrate, Live
<1>10. Publish \/ Handle \/ ObserveLateCleanup \/ FinishFailedAttempt \/ Raise \/ Crash
          => pc' \notin {"start", "finish"} /\ pc' \notin Live
  BY Routes DEF Publishing, Live
<1> QED
  BY <1>1, <1>2, <1>3, <1>4, <1>5, <1>6, <1>7, <1>8, <1>9, <1>10, SettledSteps DEF Next, Run, Recover

-------------------------------------------------------------------------------
(* What the work of a stage makes of the plan and of the Pass 1 status. *)
LEMMA WorkVerdict ==
    ASSUME TypeInv, Work, pc' = "finish"
    PROVE  \/ active # 5 /\ pass1' = pass1 /\ plan' = plan
           \/ active = 4 /\ pass1' = pass1 /\ plan'.verdict = "UNSUPPORTED"
           \/ active >= 6 /\ pass1' = pass1 /\ plan'.verdict = "REGRESSION" /\ plan'.at = active
           \/ active = 5 /\ plan' = plan /\ pass1' \in Pass1Mismatch
           \/ active = 5 /\ plan'.verdict = "PASS" /\ plan'.at = 5 /\ pass1' = "equal"
           \/ active = 5 /\ plan'.verdict = "INCONCLUSIVE" /\ pass1' \in Pass1Stop
<1>1. \A class, signal : ~Fails(class, signal)
  BY DEF Fails, Goto
<1>2. ~ExecutionFails
  BY <1>1 DEF ExecutionFails
<1>3. Continue => plan' = plan
  BY DEF Continue
<1>4. \A fill, v : Stop(fill, v) => plan'.verdict = v /\ plan'.at = active
  BY DEF Stop
<1>5. Preflight \/ OriginalExecution \/ Recapture
        => (Working(1) \/ Working(2) \/ Working(3) \/ Working(8)) /\ Continue /\ pass1' = pass1
  BY <1>1, <1>2 DEF Preflight, OriginalExecution, Recapture
<1>6. Calibrate => /\ Working(Pass0) /\ pass1' = pass1
                   /\ Continue \/ Stop("blocked", "UNSUPPORTED")
  BY <1>1 DEF Calibrate
<1>7. LocalizeToken => /\ Working(Pass1)
                       /\ \/ Continue /\ pass1' \in Pass1Mismatch
                          \/ Stop("not_applicable", "PASS") /\ pass1' = "equal"
                          \/ Stop("blocked", "INCONCLUSIVE") /\ pass1' \in Pass1Stop
  BY <1>1 DEF LocalizeToken
<1>9. LocalizeIntraLayer => /\ Working(10) /\ pass1' = pass1 /\ Stop("blocked", "REGRESSION")
  BY <1>1 DEF LocalizeIntraLayer
<1>10. ReproducePrefix \/ DiscoverLayer \/ LocalizeLayer
         => /\ Working(6) \/ Working(7) \/ Working(9)
            /\ pass1' = pass1 /\ (Continue \/ Stop("blocked", "REGRESSION"))
  BY <1>1, <1>2 DEF ReproducePrefix, DiscoverLayer, LocalizeLayer, Localization
<1>11. \A i : Working(i) => active = i
  BY DEF Working
<1>12. CASE Preflight \/ OriginalExecution \/ Recapture
  <2>1. active \in {1, 2, 3, 8} /\ plan' = plan /\ pass1' = pass1
    BY <1>3, <1>5, <1>11, <1>12
  <2> QED
    BY <2>1
<1>13. CASE Calibrate
  <2>1. active = Pass0 /\ pass1' = pass1 /\ (plan' = plan \/ plan'.verdict = "UNSUPPORTED")
    BY <1>3, <1>4, <1>6, <1>11, <1>13
  <2> QED
    BY <2>1, StageNumbers
<1>14. CASE LocalizeToken
  <2>1. /\ active = Pass1
        /\ \/ plan' = plan /\ pass1' \in Pass1Mismatch
           \/ plan'.verdict = "PASS" /\ plan'.at = active /\ pass1' = "equal"
           \/ plan'.verdict = "INCONCLUSIVE" /\ pass1' \in Pass1Stop
    BY <1>3, <1>4, <1>7, <1>11, <1>14
  <2> QED
    BY <2>1, StageNumbers
<1>15. CASE ReproducePrefix \/ DiscoverLayer \/ LocalizeLayer \/ LocalizeIntraLayer
  <2>1. /\ active \in {6, 7, 9, 10} /\ pass1' = pass1
        /\ plan' = plan \/ (plan'.verdict = "REGRESSION" /\ plan'.at = active)
    BY <1>3, <1>4, <1>9, <1>10, <1>11, <1>15
  <2> QED
    BY <2>1
<1> QED
  BY <1>12, <1>13, <1>14, <1>15 DEF Work

(* PASS and REGRESSION follow the Pass 1 status. *)
LEMMA VerdictStep ==
    TypeInv /\ MachineInv /\ PlanInv /\ VerdictInv /\ [Next]_vars => VerdictInv'
<1> SUFFICES ASSUME TypeInv, MachineInv, PlanInv, VerdictInv, [Next]_vars PROVE VerdictInv'
  OBVIOUS
<1>0. /\ Len(results) \in Nat /\ results \in Seq(StageResults) /\ DOMAIN results = 1 .. Len(results)
      /\ plan.at \in 1 .. 11 /\ active \in 0 .. 12
      /\ \A s \in Pass1Mismatch : s \notin {"none", "equal"} \cup Pass1Stop
      /\ \A s \in Pass1Stop : s \notin {"none", "equal"} \cup Pass1Mismatch
  BY TypeParts, TypePlan, StageNumbers, AppendIs DEF PlanInv, Pass1Mismatch, Pass1Stop
<1>1. CASE StartStage
  <2>1. /\ pc = "start" /\ active = 0 /\ next_stage = Len(results) + 1 /\ plan' = plan /\ pass1' = pass1
    BY <1>1, StartStageIs
  <2>2. CASE active' = next_stage /\ results' = results /\ pc' = "work"
    BY <1>0, <2>1, <2>2 DEF VerdictInv, Live, Compared
  <2>3. CASE active' = next_stage /\ results' = results /\ pc' = "finish"
                /\ ~(next_stage < 11 /\ next_stage <= plan.at)
    <3>1. plan = Open => plan.at = 11 /\ Len(results) < 10
      BY <2>1, StageNumbers DEF PlanInv, Live, Open
    <3>2. plan # Open
      BY <1>0, <2>1, <2>3, <3>1
    <3> QED
      BY <2>1, <2>3, <3>2 DEF VerdictInv, Live
  <2>4. CASE pc' = "handle"
    BY <2>1, <2>4 DEF VerdictInv, Live
  <2> QED
    BY <1>1, <2>2, <2>3, <2>4, StartStageIs
<1>2. CASE Work
  <2>1. /\ pc = "work" /\ active \in 1 .. 10 /\ active = Len(results) + 1 /\ plan = Open
    BY <1>2, WorkEffect DEF MachineInv
  <2>2. /\ (pass1 \in Pass1Mismatch /\ active >= 6) \/ (pass1 = "none" /\ active <= 5)
        /\ plan.verdict = "none"
    BY <1>0, <2>1 DEF VerdictInv, Live, Compared, Open
  <2>3. CASE pc' = "finish" /\ UNCHANGED <<results, active>>
    <3>1. Compared' <=> active >= 5
      BY <1>0, <2>1, <2>3 DEF Compared
    <3>2. 5 \in DOMAIN results => active >= 6
      BY <1>0, <2>1
    <3> QED
      BY <1>0, <1>2, <2>1, <2>2, <2>3, <3>1, <3>2, WorkVerdict DEF VerdictInv, Open
  <2>4. CASE /\ MachineFinishes(Result("failed", 0)) /\ pass1' = pass1
             /\ plan'.at = active
             /\ plan'.verdict \in Verdict \ {"PASS"}
             /\ plan'.verdict = "REGRESSION" <=> pass1 \in Pass1Mismatch
    <3>1. plan'.verdict # "none" /\ plan' # Open
      BY <2>4 DEF Verdict, Open
    <3> QED
      BY <1>0, <2>1, <2>2, <2>4, <3>1 DEF VerdictInv
  <2> QED
    BY <1>2, <2>3, <2>4, WorkEffect
<1>3. CASE FinishStage
  <2>1. /\ pc = "finish" /\ active \in 1 .. 12 /\ active = Len(results) + 1
        /\ MachineFinishes(StageResult(active)) /\ StageResult(active) \in StageResults
        /\ plan' = plan /\ pass1' = pass1 /\ pc' # "finish"
    <3>1. pc' \in {"return", "finalize", "start", "handle"}
      BY <1>3, FinishStageIs
    <3> QED
      BY <1>3, <3>1, FinishStageIs
  <2>2. /\ DOMAIN results' = 1 .. active /\ Len(results') = active
        /\ \A k \in DOMAIN results : results'[k] = results[k]
        /\ results'[active] = StageResult(active)
    BY <2>1, MachineFinishesIs
  <2>3. Compared' <=> Compared
    BY <1>0, <2>1, <2>2 DEF Compared
  <2>4. active <= plan.at => StageResult(active).state = "executed"
    BY <2>1, StageNumbers DEF StageResult, Result
  <2>5. plan.verdict = "PASS" => plan.at = 5 /\ (5 \in DOMAIN results => results[5].state = "executed")
    BY <2>1 DEF VerdictInv, Live
  <2>6. plan.verdict = "PASS" => (5 \in DOMAIN results' => results'[5].state = "executed")
    BY <1>0, <2>1, <2>2, <2>4, <2>5
  <2> QED
    BY <2>1, <2>3, <2>5, <2>6 DEF VerdictInv, Live
<1>4. CASE FailActiveStage
  BY <1>4, FailActiveStageIs DEF VerdictInv, Live
<1>5. CASE Settled /\ StartAttempt
  <2>1. pc' \in {"start", "handle"} /\ results' = <<>> /\ active' = 0 /\ plan' = Open /\ pass1' = "none"
    BY <1>5, Routes DEF MachineInv, Settled
  <2> QED
    BY <2>1 DEF VerdictInv, Open, Compared, Pass1Mismatch
<1>6. CASE Settled /\ pc \in Live /\ pc # "finish" /\ pc' # "finish"
  BY <1>6 DEF VerdictInv, Settled, Compared
<1>7. CASE Settled /\ pc' \notin Live
  BY <1>7 DEF VerdictInv, Settled
<1>8. CASE Settled /\ UNCHANGED vars
  BY <1>8 DEF VerdictInv, Settled, vars, Compared
<1>9. Orchestrate => pc' # "finish" /\ pc # "finish" /\ pc \in Live
  BY Routes DEF Orchestrate, Live
<1>10. Publish \/ Handle \/ ObserveLateCleanup \/ FinishFailedAttempt \/ Raise \/ Crash
          => pc' \notin Live
  BY Routes DEF Publishing, Live
<1> QED
  BY <1>1, <1>2, <1>3, <1>4, <1>5, <1>6, <1>7, <1>8, <1>9, <1>10, SettledSteps DEF Next, Run, Recover

-------------------------------------------------------------------------------
(* What a step writes to the ledger: the line, none of it, or in a failing  *)
(* call the line or a part of it, which the object does not know.           *)
Writes(line) ==
    \/ ledger' = ledger
    \/ /\ ledger.disk = ledger.mem /\ ~ledger.finished
       /\ ledger'.mem = Append(ledger.mem, line) /\ ledger'.disk = Append(ledger.mem, line)
       /\ ledger'.finished <=> line.event = "attempt_finished"
    \/ /\ ledger.disk = ledger.mem /\ ~ledger.finished
       /\ ledger'.mem = ledger.mem /\ ~ledger'.finished
       /\ ledger'.disk \in {Append(ledger.mem, line), Append(ledger.mem, TornLine)}

(* An append writes its line. *)
LEMMA AppendedWrites ==
    ASSUME TypeInv, NEW line \in Line, Appended(line), line.event # "attempt_finished"
    PROVE  Writes(line)
BY AppendedIs DEF Writes

(* So does an append that fails, in part or not at all. *)
LEMMA AppendFailsWrites ==
    ASSUME TypeInv, NEW line \in Line, AppendFails(line)
    PROVE  Writes(line)
<1>1. CASE UNCHANGED ledger
  BY <1>1 DEF Writes
<1>2. CASE HasAuthority /\ \E l \in {line, TornLine} : ledger' = [ledger EXCEPT !.disk = Append(@, l)]
  <2>1. PICK l \in {line, TornLine} : ledger' = [ledger EXCEPT !.disk = Append(@, l)]
    BY <1>2
  <2>2. /\ ledger'.disk = Append(ledger.disk, l) /\ ledger'.mem = ledger.mem
        /\ ledger'.finished = ledger.finished
    BY <2>1 DEF TypeInv
  <2> QED
    BY <1>2, <2>2 DEF Writes, HasAuthority
<1> QED
  BY <1>1, <1>2 DEF AppendFails

(* The last line is written only by a ledger that may be finished.            *)
LEMMA AttemptFinishesWrites ==
    ASSUME TypeInv, NEW v \in Verdict, AttemptFinishes(v) \/ AttemptFinishFails(v)
    PROVE  /\ Writes(AttemptFinished(v)) /\ AttemptFinished(v) \in Line
           /\ ledger' # ledger => CanFinishAttempt(v)
<1>1. AttemptFinished(v) \in Line
  BY LineTypes
<1>2. CASE AttemptFinishes(v)
  BY <1>1, <1>2, AttemptFinishesIs, Constructors DEF Writes
<1>3. CASE AttemptFinishFails(v)
  <2>1. CASE CanFinishAttempt(v)
    BY <1>1, <1>3, <2>1, AppendFailsWrites DEF AttemptFinishFails
  <2>2. CASE ~CanFinishAttempt(v)
    BY <1>1, <1>3, <2>2 DEF AttemptFinishFails, Writes
  <2> QED
    BY <2>1, <2>2
<1> QED
  BY <1>1, <1>2, <1>3

(* The line of a stage that finishes, written or refused. *)
LEMMA StageFinishesWrites ==
    ASSUME TypeInv, active \in 1 .. 12, NEW s \in StageState,
           LedgerFinishes(s) \/ LedgerFinishFails(s)
    PROVE  /\ Writes(StageFinished(active, s)) /\ StageFinished(active, s) \in Line
           /\ LedgerFinishes(s) => /\ active \in Started(ledger.mem) \ Finished(ledger.mem)
                                   /\ ledger.disk = ledger.mem
                                   /\ ledger'.mem = Append(ledger.mem, StageFinished(active, s))
                                   /\ ledger'.disk = ledger'.mem /\ ~ledger'.finished
           /\ LedgerFinishFails(s) => ledger'.mem = ledger.mem
<1> DEFINE line == StageFinished(active, s)
<1>1. line \in Line /\ line.event = "stage_finished"
  BY LineTypes, Constructors
<1>2. CASE LedgerFinishes(s)
  <2>1. Appended(line) /\ active \in Started(ledger.mem) \ Finished(ledger.mem)
    BY <1>2, LedgerFinishesIs
  <2>2. /\ ledger.disk = ledger.mem /\ ledger'.mem = Append(ledger.mem, line)
        /\ ledger'.disk = ledger'.mem /\ ~ledger'.finished
    BY <1>1, <2>1, AppendedIs
  <2>3. Writes(line)
    BY <1>1, <2>1, AppendedWrites
  <2>4. LedgerFinishFails(s) => ledger'.mem = ledger.mem
    BY LedgerFinishFailsIs
  <2> QED
    BY <1>1, <2>1, <2>2, <2>3, <2>4
<1>3. CASE LedgerFinishFails(s)
  <2>1. Writes(line)
    BY <1>1, <1>3, AppendFailsWrites DEF LedgerFinishFails, Writes
  <2>2. ledger'.mem = ledger.mem
    BY <1>3, LedgerFinishFailsIs
  <2>3. LedgerFinishes(s) => /\ active \in Started(ledger.mem) \ Finished(ledger.mem)
                             /\ ledger.disk = ledger.mem
                             /\ ledger'.mem = Append(ledger.mem, line)
                             /\ ledger'.disk = ledger'.mem /\ ~ledger'.finished
    BY <1>1, LedgerFinishesIs, AppendedIs
  <2> QED
    BY <1>1, <2>1, <2>2, <2>3
<1> QED
  BY <1>2, <1>3

(* What a step outside the stages writes. *)
LEMMA SettledWrites ==
    ASSUME TypeInv, MachineInv, PlanInv
    PROVE  /\ StartAttempt => Writes(AttemptStarted)
           /\ ObserveCleanup \/ ObserveLateCleanup =>
                  Writes(CleanupObserved(cleanup)) /\ cleanup \in Residue
           /\ FinishAttempt => /\ plan.verdict \in Verdict /\ Writes(AttemptFinished(plan.verdict))
                               /\ ledger' # ledger => CanFinishAttempt(plan.verdict)
           /\ FinishFailedAttempt => /\ Writes(AttemptFinished("HARNESS_ERROR"))
                                     /\ ledger' # ledger => CanFinishAttempt("HARNESS_ERROR")
           /\ (\/ CleanupRuntime \/ FinalizeReport \/ PrepareSummary \/ PrepareReport
               \/ Publish \/ Handle \/ Raise \/ Crash \/ UNCHANGED vars) => ledger' = ledger
<1>1. StartAttempt => Writes(AttemptStarted)
  BY LineTypes, Constructors, AppendedWrites, AppendFailsWrites DEF StartAttempt
<1>2. ASSUME ObserveCleanup \/ ObserveLateCleanup
      PROVE Writes(CleanupObserved(cleanup)) /\ cleanup \in Residue
  <2>1. cleanup \in Residue
    BY <1>2 DEF ObserveCleanup, ObserveLateCleanup, MachineInv, Reported, TypeInv
  <2>2. CleanupObserved(cleanup) \in Line /\ CleanupObserved(cleanup).event # "attempt_finished"
    BY <2>1, LineTypes, Constructors
  <2>3. UNCHANGED ledger \/ Appended(CleanupObserved(cleanup)) \/ AppendFails(CleanupObserved(cleanup))
    BY <1>2 DEF ObserveCleanup, ObserveLateCleanup
  <2>4. UNCHANGED ledger => Writes(CleanupObserved(cleanup))
    BY DEF Writes
  <2> QED
    BY <2>1, <2>2, <2>3, <2>4, AppendedWrites, AppendFailsWrites
<1>3. ASSUME FinishAttempt
      PROVE  /\ plan.verdict \in Verdict /\ Writes(AttemptFinished(plan.verdict))
             /\ ledger' # ledger => CanFinishAttempt(plan.verdict)
  <2>1. plan.verdict \in Verdict
    BY <1>3, VerdictIs DEF FinishAttempt, Reported
  <2>2. AttemptFinishes(plan.verdict) \/ AttemptFinishFails(plan.verdict)
    BY <1>3 DEF FinishAttempt
  <2> QED
    BY <2>1, <2>2, AttemptFinishesWrites
<1>4. FinishFailedAttempt => /\ Writes(AttemptFinished("HARNESS_ERROR"))
                             /\ ledger' # ledger => CanFinishAttempt("HARNESS_ERROR")
  <2>1. "HARNESS_ERROR" \in Verdict
    BY DEF Verdict
  <2> QED
    BY <2>1, AttemptFinishesWrites DEF FinishFailedAttempt
<1>5. CleanupRuntime \/ FinalizeReport \/ PrepareSummary \/ PrepareReport => ledger' = ledger
  BY DEF CleanupRuntime, FinalizeReport, PrepareSummary, PrepareReport
<1>6. Publish => ledger' = ledger
  BY DEF Publish, LinkSummary, LinkReport, Link, DropSummaryTemporary, DropReportTemporary,
         Unlink, UnpublishSummary, UnpublishReport, Unpublish, SyncDirectory, Rollback, RollsBack
<1>7. Handle \/ Raise \/ Crash \/ UNCHANGED vars => ledger' = ledger
  BY DEF Handle, Raise, Crash, vars
<1> QED
  BY <1>1, <1>2, <1>3, <1>4, <1>5, <1>6, <1>7

(* The ledger and its file agree with the results after what a step writes. *)
LEMMA WritesAgree ==
    ASSUME TypeInv, NEW line \in Line, Writes(line), NEW res, NEW act, NEW whole \in BOOLEAN,
           \A lines \in {ledger.mem, ledger.disk} : Agrees(lines, res, act, whole),
           Agrees(Append(ledger.mem, line), res, act, whole)
    PROVE  \A lines \in {ledger'.mem, ledger'.disk} : Agrees(lines, res, act, whole)
<1>1. ledger.mem \in Seq(Line) /\ Agrees(ledger.mem, res, act, whole)
  BY DEF TypeInv
<1>2. TornLine \in Line /\ TornLine.event \notin {"stage_started", "stage_finished"}
  BY LineTypes, Constructors
<1>3. Agrees(Append(ledger.mem, TornLine), res, act, whole)
  BY <1>1, <1>2, AgreesOther
<1> QED
  BY <1>1, <1>3 DEF Writes

(* The same for a line about no stage. *)
LEMMA WritesAgreeOther ==
    ASSUME TypeInv, NEW line \in Line, Writes(line), NEW res, NEW act, NEW whole \in BOOLEAN,
           line.event \notin {"stage_started", "stage_finished"},
           \A lines \in {ledger.mem, ledger.disk} : Agrees(lines, res, act, whole)
    PROVE  \A lines \in {ledger'.mem, ledger'.disk} : Agrees(lines, res, act, whole)
<1>1. ledger.mem \in Seq(Line) /\ Agrees(ledger.mem, res, act, whole)
  BY DEF TypeInv
<1>2. Agrees(Append(ledger.mem, line), res, act, whole)
  BY <1>1, AgreesOther
<1> QED
  BY <1>2, WritesAgree

(* A stage that finishes in the machine, and in the ledger or not. *)
LEMMA StageFinishesAgree ==
    ASSUME TypeInv, active \in 1 .. 12, NEW r \in StageResults, MachineFinishes(r),
           LedgerFinishes(r.state) \/ LedgerFinishFails(r.state),
           \A lines \in {ledger.mem, ledger.disk} : Agrees(lines, results, active, TRUE)
    PROVE  /\ \A lines \in {ledger'.mem, ledger'.disk} : Agrees(lines, results', 0, FALSE)
           /\ LedgerFinishes(r.state) =>
                  \A lines \in {ledger'.mem, ledger'.disk} : Agrees(lines, results', 0, TRUE)
<1> DEFINE line == StageFinished(active, r.state)
<1>1. /\ results \in Seq(StageResults) /\ active = Len(results) + 1 /\ Len(results) \in Nat
      /\ results' = Append(results, r) /\ r.state \in StageState
  BY MachineFinishesIs, TypeParts DEF StageResults
<1>2. ledger.mem \in Seq(Line) /\ ledger.disk \in Seq(Line)
  BY DEF TypeInv
<1>3. Len(results) < 12
  BY <1>1
<1>4. Agrees(Append(ledger.mem, line), results', 0, TRUE)
  BY <1>1, <1>2, <1>3, AgreesFinished
<1>5. \A lines \in {ledger.mem, ledger.disk} : Agrees(lines, results', 0, FALSE)
  BY <1>1, <1>2, AgreesResult
<1>6. Agrees(Append(ledger.mem, line), results', 0, FALSE)
  BY <1>4, AgreesLess
<1>7. Writes(line) /\ line \in Line
  BY <1>1, StageFinishesWrites
<1>8. \A lines \in {ledger'.mem, ledger'.disk} : Agrees(lines, results', 0, FALSE)
  BY <1>5, <1>6, <1>7, WritesAgree
<1>9. LedgerFinishes(r.state) => ledger'.mem = Append(ledger.mem, line) /\ ledger'.disk = ledger'.mem
  BY <1>1, StageFinishesWrites
<1> QED
  BY <1>4, <1>8, <1>9

(* The ledger and its file agree with the stage machine. *)
LEMMA AgreeStep ==
    TypeInv /\ MachineInv /\ PlanInv /\ AgreeInv /\ [Next]_vars => AgreeInv'
<1> SUFFICES ASSUME TypeInv, MachineInv, PlanInv, AgreeInv, [Next]_vars PROVE AgreeInv'
  OBVIOUS
<1>0. /\ results \in Seq(StageResults) /\ ledger.mem \in Seq(Line) /\ ledger.disk \in Seq(Line)
  BY TypeParts DEF TypeInv
<1>1. CASE StartStage
  <2>1. /\ pc = "start" /\ active = 0 /\ next_stage = Len(results) + 1 /\ next_stage \in 1 .. 12
    BY <1>1, StartStageIs
  <2>2. \A lines \in {ledger.mem, ledger.disk} : Agrees(lines, results, next_stage, TRUE)
    BY <2>1, AgreesActive, <1>0 DEF AgreeInv, Whole, Live
  <2>3. Agrees(Append(ledger.mem, StageStarted(next_stage)), results, next_stage, TRUE)
    BY <1>0, <2>1, <2>2, AgreesStarted
  <2>4. StageStarted(next_stage) \in Line /\ StageStarted(next_stage).event # "attempt_finished"
    BY <2>1, LineTypes, Constructors
  <2>5. Writes(StageStarted(next_stage))
    BY <1>1, <2>4, StartStageIs, AppendedWrites, AppendFailsWrites
  <2>6. \A lines \in {ledger'.mem, ledger'.disk} : Agrees(lines, results, next_stage, TRUE)
    BY <2>2, <2>3, <2>4, <2>5, WritesAgree
  <2>7. CASE active' = next_stage /\ results' = results
    BY <2>6, <2>7, AgreesLess DEF AgreeInv
  <2>8. CASE /\ results' = Append(results, Result("failed", 0)) /\ active' = 0 /\ pc' = "handle"
    <3>1. ledger'.mem \in Seq(Line) /\ ledger'.disk \in Seq(Line)
      BY TypeStep DEF TypeInv
    <3>2. \A lines \in {ledger'.mem, ledger'.disk} : Agrees(lines, results', 0, FALSE)
      BY <1>0, <2>1, <2>6, <2>8, <3>1, AgreesResult, FailedResult
    <3> QED
      BY <2>8, <3>2 DEF AgreeInv, Whole, Live
  <2> QED
    BY <1>1, <2>7, <2>8, StartStageIs
<1>2. CASE Work
  <2>1. /\ pc = "work" /\ active \in 1 .. 12
        /\ \/ pc' = "finish" /\ UNCHANGED <<results, active, ledger>>
           \/ /\ MachineFinishes(Result("failed", 0))
              /\ \/ LedgerFinishes("failed") /\ pc' = "start"
                 \/ LedgerFinishFails("failed") /\ pc' = "handle"
    BY <1>2, WorkEffect
  <2>2. \A lines \in {ledger.mem, ledger.disk} : Agrees(lines, results, active, TRUE)
    BY <2>1 DEF AgreeInv, Whole, Live
  <2>3. CASE pc' = "finish" /\ UNCHANGED <<results, active, ledger>>
    BY <2>2, <2>3, AgreesLess DEF AgreeInv
  <2>4. CASE /\ MachineFinishes(Result("failed", 0))
             /\ \/ LedgerFinishes("failed") /\ pc' = "start"
                \/ LedgerFinishFails("failed") /\ pc' = "handle"
    <3>1. Result("failed", 0).state = "failed" /\ active' = 0
      BY <2>4 DEF Result, MachineFinishes
    <3>2. /\ \A lines \in {ledger'.mem, ledger'.disk} : Agrees(lines, results', 0, FALSE)
          /\ LedgerFinishes("failed") =>
                \A lines \in {ledger'.mem, ledger'.disk} : Agrees(lines, results', 0, TRUE)
      BY <2>1, <2>2, <2>4, <3>1, FailedResult, StageFinishesAgree
    <3> QED
      BY <2>4, <3>1, <3>2 DEF AgreeInv, Whole, Live
  <2> QED
    BY <2>1, <2>3, <2>4
<1>3. CASE FinishStage
  <2>1. /\ pc = "finish" /\ active \in 1 .. 12
        /\ StageResult(active) \in StageResults /\ MachineFinishes(StageResult(active))
        /\ \/ LedgerFinishes(StageResult(active).state)
           \/ LedgerFinishFails(StageResult(active).state) /\ pc' = "handle"
    BY <1>3, FinishStageIs
  <2>2. \A lines \in {ledger.mem, ledger.disk} : Agrees(lines, results, active, TRUE)
    BY <2>1 DEF AgreeInv, Whole, Live
  <2>3. /\ \A lines \in {ledger'.mem, ledger'.disk} : Agrees(lines, results', 0, FALSE)
        /\ LedgerFinishes(StageResult(active).state) =>
              \A lines \in {ledger'.mem, ledger'.disk} : Agrees(lines, results', 0, TRUE)
    BY <2>1, <2>2, StageFinishesAgree
  <2>4. active' = 0
    BY <2>1 DEF MachineFinishes
  <2> QED
    BY <2>1, <2>3, <2>4 DEF AgreeInv, Whole, Live
<1>4. CASE FailActiveStage
  <2>1. CASE active = 0 /\ pc' = "late_cleanup" /\ UNCHANGED <<results, active, ledger>>
    BY <2>1 DEF AgreeInv, Whole, Live
  <2>2. CASE /\ active \in 1 .. 12 /\ MachineFinishes(Result("failed", 0))
             /\ LedgerFinishes("failed") \/ LedgerFinishFails("failed")
    <3>1. Result("failed", 0).state = "failed" /\ active' = 0 /\ pc = "fail_stage" /\ pc' \in {"late_cleanup", "raise"}
      BY <1>4, <2>2, FailActiveStageIs DEF Result, MachineFinishes
    <3>2. Whole
      BY <2>2, <3>1 DEF Whole
    <3>4. \A lines \in {ledger.mem, ledger.disk} : Agrees(lines, results, active, TRUE)
      BY <3>2 DEF AgreeInv
    <3>3. \A lines \in {ledger'.mem, ledger'.disk} : Agrees(lines, results', 0, FALSE)
      BY <2>2, <3>1, <3>4, FailedResult, StageFinishesAgree
    <3> QED
      BY <3>1, <3>3 DEF AgreeInv, Whole, Live
  <2> QED
    BY <1>4, <2>1, <2>2, FailActiveStageIs
<1>5. ASSUME Settled, NEW line \in Line, Writes(line),
             line.event \notin {"stage_started", "stage_finished"}, Whole' => Whole
      PROVE  AgreeInv'
  <2>1. \A lines \in {ledger'.mem, ledger'.disk} : Agrees(lines, results, active, FALSE)
    BY <1>5, WritesAgreeOther DEF AgreeInv
  <2>2. Whole => \A lines \in {ledger'.mem, ledger'.disk} : Agrees(lines, results, active, TRUE)
    BY <1>5, WritesAgreeOther DEF AgreeInv
  <2> QED
    BY <1>5, <2>1, <2>2 DEF AgreeInv, Settled
<1>6. (\/ StartAttempt \/ Orchestrate \/ Publish \/ Handle \/ ObserveLateCleanup
       \/ FinishFailedAttempt \/ Raise \/ Crash \/ UNCHANGED vars)
        => \E line \in Line : Writes(line) /\ line.event \notin {"stage_started", "stage_finished"}
  <2>1. StartAttempt => Writes(AttemptStarted)
    BY SettledWrites
  <2>2. ObserveCleanup \/ ObserveLateCleanup =>
           Writes(CleanupObserved(cleanup)) /\ CleanupObserved(cleanup) \in Line
    BY SettledWrites, LineTypes
  <2>3. /\ FinishAttempt => Writes(AttemptFinished(plan.verdict)) /\ AttemptFinished(plan.verdict) \in Line
        /\ FinishFailedAttempt =>
              Writes(AttemptFinished("HARNESS_ERROR")) /\ AttemptFinished("HARNESS_ERROR") \in Line
    BY SettledWrites, LineTypes DEF Verdict
  <2>4. ledger' = ledger => Writes(TornLine)
    BY DEF Writes
  <2> QED
    BY <2>1, <2>2, <2>3, <2>4, SettledWrites, LineTypes, Constructors DEF Orchestrate
<1>7. (\/ StartAttempt \/ Orchestrate \/ Publish \/ Handle \/ ObserveLateCleanup
       \/ FinishFailedAttempt \/ Raise \/ Crash \/ UNCHANGED vars)
        => (Whole' => Whole)
  <2>1. StartAttempt \/ Orchestrate => pc \in Live \cup {"start_attempt"}
    BY Routes DEF Orchestrate, Live
  <2>2. Publish => active = 0 /\ pc' \in Publishing \cup {"handle", "done"} /\ active' = active
    BY Routes, SettledSteps DEF MachineInv, Settled
  <2>3. Handle => active' = active /\ pc = "handle" /\ pc' \in {"raise", "fail_stage"}
    BY Routes, SettledSteps DEF Settled
  <2>4. ObserveLateCleanup \/ FinishFailedAttempt \/ Raise \/ Crash
          => pc' \in {"late_finish", "raise", "done", "crashed"}
    BY Routes
  <2>5. UNCHANGED vars => (Whole' => Whole)
    BY DEF vars, machine, Whole
  <2> QED
    BY <2>1, <2>2, <2>3, <2>4, <2>5 DEF Whole, Live, Publishing
<1>8. CASE \/ StartAttempt \/ Orchestrate \/ Publish \/ Handle \/ ObserveLateCleanup
           \/ FinishFailedAttempt \/ Raise \/ Crash \/ UNCHANGED vars
  <2>1. PICK line \in Line : Writes(line) /\ line.event \notin {"stage_started", "stage_finished"}
    BY <1>6, <1>8
  <2>2. Settled /\ (Whole' => Whole)
    BY <1>7, <1>8, SettledSteps
  <2> QED
    BY <1>5, <2>1, <2>2
<1> QED
  BY <1>1, <1>2, <1>3, <1>4, <1>8 DEF Next, Run, Recover

-------------------------------------------------------------------------------
(* A step that writes a proper line keeps the lines in order. *)
LEMMA WritesKeep ==
    ASSUME TypeInv, LedgerCore, NEW line \in Line, Writes(line),
           ledger'.mem # ledger.mem => WellFormed(Append(ledger.mem, line)),
           line.event = "attempt_finished" /\ ledger' # ledger =>
               ValidLedger(Append(ledger.mem, line))
    PROVE  LedgerCore'
<1>1. ledger.mem \in Seq(Line) /\ TornLine \in Line /\ TornLine.event = "torn"
  BY LineTypes, Constructors DEF TypeInv
<1>2. ledger' = ledger => LedgerCore'
  BY DEF LedgerCore
<1>3. CASE ledger' # ledger
  <2>1. ledger.disk = ledger.mem /\ ~ledger.finished /\ Of(ledger.mem, "attempt_finished") = {}
    BY <1>3 DEF Writes, LedgerCore
  <2>2. WellFormed(ledger'.mem)
    BY <1>3 DEF Writes, LedgerCore
  <2>3. /\ line.event # "attempt_finished" => Of(Append(ledger.mem, line), "attempt_finished") = {}
        /\ Of(Append(ledger.mem, TornLine), "attempt_finished") = {}
    BY <1>1, <2>1, OfAppend
  <2>4. ~ledger'.finished => Of(ledger'.mem, "attempt_finished") = {}
    BY <1>3, <2>1, <2>3 DEF Writes
  <2>5. ledger'.disk \in {ledger.mem, Append(ledger.mem, line), Append(ledger.mem, TornLine)}
    BY <1>3, <2>1 DEF Writes
  <2>6. Of(ledger'.disk, "attempt_finished") # {} => ValidLedger(ledger'.disk)
    BY <1>3, <2>1, <2>3, <2>5
  <2> QED
    BY <2>2, <2>4, <2>6 DEF LedgerCore
<1> QED
  BY <1>2, <1>3

(* Every line is written in its place, and a finished ledger is valid. *)
LEMMA LedgerCoreStep ==
    TypeInv /\ MachineInv /\ PlanInv /\ AgreeInv /\ LedgerInv /\ [Next]_vars => LedgerCore'
<1> SUFFICES ASSUME TypeInv, MachineInv, PlanInv, AgreeInv, LedgerInv, [Next]_vars
             PROVE  LedgerCore'
  OBVIOUS
<1>0. /\ results \in Seq(StageResults) /\ DOMAIN results = 1 .. Len(results) /\ Len(results) \in Nat
      /\ ledger.mem \in Seq(Line) /\ LedgerCore /\ WellFormed(ledger.mem)
  BY TypeParts, AppendIs DEF TypeInv, LedgerInv, LedgerCore
<1>1. CASE StartStage
  <2>1. /\ pc = "start" /\ active = 0 /\ next_stage = Len(results) + 1 /\ next_stage \in 1 .. 12
        /\ Appended(StageStarted(next_stage)) \/ AppendFails(StageStarted(next_stage))
    BY <1>1, StartStageIs
  <2>2. StageStarted(next_stage) \in Line /\ StageStarted(next_stage).event = "stage_started"
    BY <2>1, LineTypes, Constructors
  <2>3. Agrees(ledger.mem, results, 0, FALSE)
    BY <2>1 DEF AgreeInv
  <2>4. next_stage \notin Started(ledger.mem)
    BY <1>0, <2>1, <2>3 DEF Agrees
  <2>5. WellFormed(Append(ledger.mem, StageStarted(next_stage)))
    BY <1>0, <2>1, <2>4, WellFormedStarted
  <2>6. Writes(StageStarted(next_stage))
    BY <2>1, <2>2, AppendedWrites, AppendFailsWrites
  <2> QED
    BY <1>0, <2>2, <2>5, <2>6, WritesKeep
<1>2. ASSUME active \in 1 .. 12, NEW s \in StageState, LedgerFinishes(s) \/ LedgerFinishFails(s)
      PROVE  LedgerCore'
  <2>1. /\ Writes(StageFinished(active, s)) /\ StageFinished(active, s) \in Line
        /\ StageFinished(active, s).event = "stage_finished"
        /\ ledger'.mem # ledger.mem => active \in Started(ledger.mem) \ Finished(ledger.mem)
    BY <1>2, StageFinishesWrites, Constructors
  <2>2. ledger'.mem # ledger.mem => WellFormed(Append(ledger.mem, StageFinished(active, s)))
    BY <1>0, <1>2, <2>1, WellFormedFinished
  <2> QED
    BY <1>0, <2>1, <2>2, WritesKeep
<1>3. ledger' = ledger => LedgerCore'
  BY <1>0 DEF LedgerCore
<1>4. CASE Work
  BY <1>2, <1>3, <1>4, WorkEffect DEF StageState
<1>5. CASE FinishStage
  <2>1. /\ active \in 1 .. 12 /\ StageResult(active).state \in StageState
        /\ LedgerFinishes(StageResult(active).state) \/ LedgerFinishFails(StageResult(active).state)
    BY <1>5, FinishStageIs DEF StageResults
  <2> QED
    BY <1>2, <2>1
<1>6. CASE FailActiveStage
  BY <1>2, <1>3, <1>6, FailActiveStageIs DEF StageState
<1>7. ASSUME NEW line \in Line, Writes(line),
             line.event \notin {"torn", "stage_started", "stage_finished"},
             line.event = "attempt_started" => ledger.mem = <<>>,
             line.event = "attempt_finished" /\ ledger' # ledger =>
                 ValidLedger(Append(ledger.mem, line))
      PROVE  LedgerCore'
  <2>1. WellFormed(Append(ledger.mem, line))
    BY <1>0, <1>7, WellFormedOther
  <2> QED
    BY <1>0, <1>7, <2>1, WritesKeep
<1>8. CASE StartAttempt
  <2>1. ledger.mem = <<>> /\ Writes(AttemptStarted)
    BY <1>8, SettledWrites, Routes DEF LedgerInv, LedgerPlace
  <2> QED
    BY <1>7, <2>1, LineTypes, Constructors
<1>9. CASE ObserveCleanup \/ ObserveLateCleanup
  BY <1>7, <1>9, SettledWrites, LineTypes, Constructors
<1>10. ASSUME NEW v \in Verdict, Writes(AttemptFinished(v)), ledger' # ledger => CanFinishAttempt(v)
       PROVE  LedgerCore'
  BY <1>7, <1>10, LineTypes, Constructors DEF CanFinishAttempt
<1>11. CASE FinishAttempt
  BY <1>10, <1>11, SettledWrites
<1>12. CASE FinishFailedAttempt
  BY <1>10, <1>12, SettledWrites DEF Verdict
<1>13. CASE \/ CleanupRuntime \/ FinalizeReport \/ PrepareSummary \/ PrepareReport
            \/ Publish \/ Handle \/ Raise \/ Crash \/ UNCHANGED vars
  BY <1>3, <1>13, SettledWrites
<1> QED
  BY <1>1, <1>4, <1>5, <1>6, <1>8, <1>9, <1>11, <1>12, <1>13 DEF Next, Run, Orchestrate, Recover

(* What the ledger holds where control is. *)
LEMMA LedgerPlaceStep ==
    TypeInv /\ MachineInv /\ PlanInv /\ AgreeInv /\ LedgerInv /\ CommitInv /\ [Next]_vars
        => LedgerPlace'
<1> SUFFICES ASSUME TypeInv, MachineInv, PlanInv, AgreeInv, LedgerInv, CommitInv, [Next]_vars
             PROVE  LedgerPlace'
  OBVIOUS
<1> DEFINE Elsewhere == Places \ (Live \cup {"start_attempt", "fail_stage", "late_cleanup", "late_finish"})
<1>0. ledger.mem \in Seq(Line) /\ Len(ledger.mem) \in Nat
  BY AppendIs DEF TypeInv
<1>1. pc' \in Elsewhere => LedgerPlace'
  BY DEF LedgerPlace, Live
<1>2. \A e : ledger.mem = <<>> => Of(ledger.mem, e) = {} /\ Len(ledger.mem) = 0
  BY DEF Of
<1>20. ASSUME NEW line \in Line, Appended(line)
       PROVE  \A e : /\ line.event = e => Of(ledger'.mem, e) = Of(ledger.mem, e) \cup {Len(ledger.mem) + 1}
                     /\ line.event # e => Of(ledger'.mem, e) = Of(ledger.mem, e)
  <2>1. ledger'.mem = Append(ledger.mem, line)
    BY <1>20, AppendedIs
  <2>2. \A e : /\ line.event = e => Of(Append(ledger.mem, line), e) = Of(ledger.mem, e) \cup {Len(ledger.mem) + 1}
               /\ line.event # e => Of(Append(ledger.mem, line), e) = Of(ledger.mem, e)
    BY <1>0, OfAppend
  <2> QED
    BY <2>1, <2>2
<1>3. CASE StartAttempt
  <2>1. pc = "start_attempt" /\ ledger.mem = <<>>
    BY <1>3, Routes DEF LedgerInv, LedgerPlace
  <2>2. CASE Appended(AttemptStarted) /\ pc' = "start"
    <3>1. /\ ~ledger'.finished /\ ledger'.disk = ledger'.mem
          /\ ledger'.mem = Append(ledger.mem, AttemptStarted)
      BY <2>2, AppendedIs, LineTypes
    <3>3. AttemptStarted \in Line /\ AttemptStarted.event = "attempt_started"
      BY LineTypes, Constructors
    <3>4. /\ Of(ledger'.mem, "attempt_started") = Of(ledger.mem, "attempt_started") \cup {Len(ledger.mem) + 1}
          /\ Of(ledger'.mem, "cleanup_observed") = Of(ledger.mem, "cleanup_observed")
      <4>1. \A e : /\ AttemptStarted.event = e => Of(ledger'.mem, e) = Of(ledger.mem, e) \cup {Len(ledger.mem) + 1}
                   /\ AttemptStarted.event # e => Of(ledger'.mem, e) = Of(ledger.mem, e)
        BY <1>20, <2>2, <3>3
      <4> QED
        BY <3>3, <4>1
    <3>2. Of(ledger'.mem, "attempt_started") = {1} /\ Of(ledger'.mem, "cleanup_observed") = {}
      BY <1>2, <2>1, <3>4
    <3> QED
      BY <2>2, <3>1, <3>2 DEF LedgerPlace
  <2> QED
    BY <1>1, <1>3, <2>2 DEF StartAttempt, Goto, Places, Live, Failing
<1>4. ASSUME pc \in Live \ {"finish_attempt"}, NEW line \in Line, Appended(line),
             line.event \in {"stage_started", "stage_finished"}
      PROVE  /\ ~ledger'.finished /\ ledger'.disk = ledger'.mem
             /\ Of(ledger'.mem, "attempt_started") = {1} /\ Of(ledger'.mem, "cleanup_observed") = {}
             /\ line.event = "stage_started" => line.stage \in Started(ledger'.mem)
  <2>1. /\ ~ledger'.finished /\ ledger'.disk = ledger'.mem
        /\ ledger'.mem = Append(ledger.mem, line)
    BY <1>4, AppendedIs
  <2>2. Of(ledger.mem, "attempt_started") = {1} /\ Of(ledger.mem, "cleanup_observed") = {}
    BY <1>4 DEF LedgerInv, LedgerPlace
  <2> QED
    BY <1>0, <1>4, <2>1, <2>2, OfAppend, StagesAppend
<1>5. CASE StartStage
  <2>1. /\ pc = "start" /\ next_stage \in 1 .. 12
        /\ \/ Appended(StageStarted(next_stage)) /\ active' = next_stage /\ pc' \in {"work", "finish"}
           \/ pc' = "handle"
    BY <1>5, StartStageIs
  <2>2. CASE Appended(StageStarted(next_stage)) /\ active' = next_stage /\ pc' \in {"work", "finish"}
    <3>1. StageStarted(next_stage) \in Line /\ StageStarted(next_stage).event = "stage_started"
          /\ StageStarted(next_stage).stage = next_stage
      BY <2>1, LineTypes, Constructors
    <3> QED
      BY <1>4, <2>1, <2>2, <3>1 DEF LedgerPlace, Live
  <2> QED
    BY <1>1, <2>1, <2>2 DEF Places, Live, Failing
<1>6. ASSUME pc \in {"work", "finish"}, active \in 1 .. 12, NEW s \in StageState,
             LedgerFinishes(s), pc' \in {"start", "return", "finalize"}
      PROVE  LedgerPlace'
  <2>1. /\ Appended(StageFinished(active, s)) /\ StageFinished(active, s) \in Line
        /\ StageFinished(active, s).event = "stage_finished"
    BY <1>6, LedgerFinishesIs, Constructors
  <2> QED
    BY <1>4, <1>6, <2>1 DEF LedgerPlace, Live
<1>7. CASE Work
  <2>1. /\ pc = "work" /\ active \in 1 .. 12
        /\ \/ pc' = "finish" /\ UNCHANGED <<active, ledger>>
           \/ LedgerFinishes("failed") /\ pc' = "start"
           \/ pc' = "handle"
    BY <1>7, WorkEffect
  <2>2. CASE pc' = "finish" /\ UNCHANGED <<active, ledger>>
    BY <2>1, <2>2 DEF LedgerInv, LedgerPlace, Live
  <2> QED
    BY <1>1, <1>6, <2>1, <2>2 DEF Places, Live, Failing, StageState
<1>8. CASE FinishStage
  <2>1. /\ pc = "finish" /\ active \in 1 .. 12 /\ StageResult(active).state \in StageState
        /\ \/ /\ LedgerFinishes(StageResult(active).state)
              /\ pc' \in {"start", "return", "finalize"}
           \/ pc' = "handle"
    BY <1>8, FinishStageIs DEF StageResults
  <2> QED
    BY <1>1, <1>6, <2>1 DEF Places, Live, Failing
<1>9. CASE CleanupRuntime \/ FinalizeReport \/ PrepareSummary \/ PrepareReport
  <2>1. /\ ledger' = ledger /\ pc \in Live \ {"finish_attempt"}
        /\ pc' \in (Live \ {"finish_attempt", "work", "finish"}) \cup {"handle"}
    BY <1>9, SettledWrites, Routes DEF Live
  <2> QED
    BY <1>1, <2>1 DEF LedgerInv, LedgerPlace, Live, Places, Failing
<1>10. CASE ObserveCleanup
  <2>1. pc = "observe_cleanup" /\ cleanup' = cleanup /\ CleanupObserved(cleanup) \in Line
    BY <1>10, Routes, SettledWrites, LineTypes
  <2>2. CASE Appended(CleanupObserved(cleanup)) /\ pc' = "finish_attempt"
    <3>1. /\ ~ledger'.finished /\ ledger'.disk = ledger'.mem
          /\ ledger'.mem = Append(ledger.mem, CleanupObserved(cleanup))
      BY <2>1, <2>2, AppendedIs
    <3>2. Of(ledger.mem, "attempt_started") = {1} /\ Of(ledger.mem, "cleanup_observed") = {}
      BY <2>1 DEF LedgerInv, LedgerPlace, Live
    <3>3. /\ Of(ledger'.mem, "attempt_started") = {1}
          /\ Of(ledger'.mem, "cleanup_observed") = {Len(ledger.mem) + 1}
      <4>1. CleanupObserved(cleanup).event = "cleanup_observed"
        BY Constructors
      <4>2. \A e : /\ CleanupObserved(cleanup).event = e =>
                         Of(ledger'.mem, e) = Of(ledger.mem, e) \cup {Len(ledger.mem) + 1}
                   /\ CleanupObserved(cleanup).event # e => Of(ledger'.mem, e) = Of(ledger.mem, e)
        BY <1>20, <2>1, <2>2
      <4> QED
        BY <3>2, <4>1, <4>2
    <3>4. /\ Len(ledger'.mem) = Len(ledger.mem) + 1
          /\ ledger'.mem[Len(ledger.mem) + 1] = CleanupObserved(cleanup)
      BY <1>0, <2>1, <3>1, AppendIs
    <3> QED
      BY <2>1, <2>2, <3>1, <3>3, <3>4 DEF LedgerPlace, Live
  <2> QED
    BY <1>1, <1>10, <2>2 DEF ObserveCleanup, Goto, Places, Live, Failing
<1>11. CASE FinishAttempt \/ Publish \/ FinishFailedAttempt \/ Raise \/ Crash
  <2>1. pc' \in Elsewhere
    BY <1>11, Routes DEF Places, Publishing, Live, Failing, Over
  <2> QED
    BY <1>1, <2>1
<1>12. CASE Handle
  <2>1. ledger' = ledger /\ pc = "handle"
        /\ (pc' = "raise" \/ (pc' = "fail_stage" /\ ~ledger_finished))
    BY <1>12, Routes, SettledWrites
  <2>2. ~ledger_finished => ~ledger.finished
    BY <2>1 DEF CommitInv
  <2> QED
    BY <2>1, <2>2 DEF LedgerPlace, Live
<1>13. CASE FailActiveStage
  <2>1. pc = "fail_stage" /\ ~ledger.finished /\ pc' \in {"late_cleanup", "raise"}
    BY <1>13, FailActiveStageIs DEF LedgerInv, LedgerPlace
  <2>2. \A s \in StageState : active \in 1 .. 12 /\ (LedgerFinishes(s) \/ LedgerFinishFails(s))
          => ~ledger'.finished
    BY <2>1, LedgerFinishFailsIs, StageFinishesWrites
  <2>3. ~ledger'.finished
    BY <1>13, <2>1, <2>2, FailActiveStageIs DEF StageState
  <2> QED
    BY <2>1, <2>3 DEF LedgerPlace, Live
<1>14. CASE ObserveLateCleanup
  <2>1. /\ pc = "late_cleanup" /\ pc' \in {"late_finish", "raise"} /\ ~ledger.finished
        /\ Writes(CleanupObserved(cleanup))
    BY <1>14, Routes, SettledWrites DEF LedgerInv, LedgerPlace
  <2>2. ~ledger'.finished
    BY <2>1, Constructors DEF Writes
  <2> QED
    BY <2>1, <2>2 DEF LedgerPlace, Live
<1>15. CASE UNCHANGED vars
  BY <1>15 DEF LedgerInv, LedgerPlace, vars, machine
<1> QED
  BY <1>3, <1>5, <1>7, <1>8, <1>9, <1>10, <1>11, <1>12, <1>13, <1>14, <1>15
  DEF Next, Run, Orchestrate, Recover

-------------------------------------------------------------------------------
(* The verdict of a pipeline that has returned, against Pass 1 and the stages. *)
LEMMA VerdictFacts ==
    ASSUME TypeInv, MachineInv, PlanInv, VerdictInv, pc \in Reported \cup {"return"}
    PROVE  /\ plan.verdict \in Verdict
           /\ plan.verdict = "PASS" <=> pass1 = "equal"
           /\ plan.verdict = "REGRESSION" <=> pass1 \in Pass1Mismatch
           /\ plan.verdict \in {"PASS", "REGRESSION"} =>
                  \A i \in 1 .. 5 : results[i].state = "executed"
<1>1. pc \in Live /\ Len(results) \in {11, 12} /\ DOMAIN results = 1 .. Len(results)
  BY TypeParts, AppendIs DEF MachineInv, Reported, Live
<1>2. plan # Open /\ plan.verdict \in Verdict
  BY <1>1 DEF PlanInv, TypeInv
<1>3. \A i \in 1 .. 5 : i \in DOMAIN results
  BY <1>1
<1>4. \A i \in DOMAIN results : i < plan.at /\ i < 11 => results[i].state = "executed"
  BY <1>1 DEF PlanInv
<1>5. plan.at \in 1 .. 12
  BY TypePlan, StageNumbers
<1>6. plan.verdict = "PASS" => \A i \in 1 .. 5 : results[i].state = "executed"
  <2>1. ASSUME plan.verdict = "PASS" PROVE plan.at = 5 /\ results[5].state = "executed"
    BY <1>1, <1>3, <2>1 DEF VerdictInv
  <2> QED
    BY <1>3, <1>4, <2>1
<1>7. plan.verdict = "REGRESSION" => \A i \in 1 .. 5 : results[i].state = "executed"
  <2>1. plan.verdict = "REGRESSION" => plan.at >= 6
    BY <1>1 DEF VerdictInv
  <2> QED
    BY <1>3, <1>4, <1>5, <2>1
<1> QED
  BY <1>1, <1>2, <1>6, <1>7 DEF VerdictInv

(* The ledger is finished with everything that the report names. *)
LEMMA FinishCommits ==
    ASSUME TypeInv, MachineInv, PlanInv, VerdictInv, AgreeInv, LedgerInv,
           FinishAttempt, AttemptFinishes(plan.verdict)
    PROVE  Committed'
<1>1. /\ pc = "finish_attempt" /\ UNCHANGED <<results, active, plan, pass1, cleanup>>
  BY SettledSteps, Routes DEF Settled, Orchestrate
<1>2. /\ plan.verdict \in Verdict
      /\ plan.verdict = "PASS" <=> pass1 = "equal"
      /\ plan.verdict = "REGRESSION" <=> pass1 \in Pass1Mismatch
      /\ plan.verdict \in {"PASS", "REGRESSION"} =>
             \A i \in 1 .. 5 : results[i].state = "executed"
  BY <1>1, VerdictFacts DEF Reported
<1> DEFINE line == AttemptFinished(plan.verdict)
<1>3. /\ ledger.mem \in Seq(Line) /\ line \in Line /\ line.verdict = plan.verdict
      /\ ledger'.disk = Append(ledger.mem, line) /\ ledger'.finished = TRUE
      /\ ValidLedger(Append(ledger.mem, line))
  BY <1>2, AttemptFinishesIs, Constructors DEF CanFinishAttempt
<1> HIDE DEF line
<1>4. /\ Len(ledger'.disk) = Len(ledger.mem) + 1 /\ ledger'.disk[Len(ledger.mem) + 1] = line
      /\ DOMAIN ledger.mem = 1 .. Len(ledger.mem) /\ Len(ledger.mem) \in Nat
      /\ DOMAIN ledger'.disk = 1 .. Len(ledger.mem) + 1
      /\ \A k \in DOMAIN ledger.mem : ledger'.disk[k] = ledger.mem[k]
  BY <1>3, AppendIs
<1>5. \A k \in DOMAIN ledger.mem : ledger.mem[k] \in Lines(ledger'.disk)
  BY <1>4 DEF Lines
<1>6. Of(ledger'.disk, "attempt_finished") = {Len(ledger'.disk)}
  BY <1>3 DEF ValidLedger
<1>7. DiskVerdict' = plan.verdict
  <2>1. Of(ledger'.disk, "attempt_finished") # {}
    BY <1>6
  <2>2. DiskVerdict' = ledger'.disk[Len(ledger'.disk)].verdict
    BY <2>1 DEF DiskVerdict, Last
  <2> QED
    BY <1>3, <1>4, <2>2
<1>8. DOMAIN results = Stage /\ cleanup # "none" /\ active = 0
  BY <1>1, TypeParts, AppendIs, StageNumbers DEF MachineInv, Reported
<1>9. Agrees(ledger.mem, results, active, TRUE)
  BY <1>1 DEF AgreeInv, Whole, Live
<1>10. ASSUME NEW i \in Stage
       PROVE  StageFinished(i, results[i].state) \in Lines(ledger'.disk)
  <2>1. i \in Finished(ledger.mem)
    BY <1>8, <1>9 DEF Agrees
  <2>2. PICK k \in Of(ledger.mem, "stage_finished") : ledger.mem[k].stage = i
    BY <2>1 DEF Finished
  <2>3. k \in DOMAIN ledger.mem /\ ledger.mem[k].event = "stage_finished"
    BY <2>2 DEF Of
  <2>4. ledger.mem[k].state = results[i].state
    BY <1>9, <2>2 DEF Agrees
  <2>5. ledger.mem[k] \in Line
    BY <1>3, <2>3
  <2>6. ledger.mem[k] = StageFinished(i, results[i].state)
    BY <2>2, <2>3, <2>4, <2>5, FinishedLine
  <2> QED
    BY <1>5, <2>3, <2>6
<1>11. CleanupObserved(cleanup) \in Lines(ledger'.disk)
  <2>1. /\ Of(ledger.mem, "cleanup_observed") = {Len(ledger.mem)}
        /\ ledger.mem[Len(ledger.mem)] = CleanupObserved(cleanup)
    BY <1>1 DEF LedgerInv, LedgerPlace
  <2>2. Len(ledger.mem) \in DOMAIN ledger.mem
    BY <2>1 DEF Of
  <2> QED
    BY <1>5, <2>1, <2>2
<1>12. ValidLedger(ledger'.disk) /\ ledger'.finished
  BY <1>3
<1> QED
  BY <1>1, <1>2, <1>7, <1>8, <1>10, <1>11, <1>12 DEF Committed

(* The steps that finish the ledger or show a report. *)
LEMMA Showing ==
    ASSUME [Next]_vars
    PROVE  /\ \/ ledger_finished' = ledger_finished
              \/ FinishAttempt /\ AttemptFinishes(plan.verdict) /\ pc' = "link_summary"
           /\ "report" \in files' => "report" \in files \/ LinkReport
<1> USE DEF bundle
<1>1. StartAttempt \/ StartStage \/ FinishStage =>
        ledger_finished' = ledger_finished /\ files' = files
  BY DEF StartAttempt, StartStage, FinishStage
<1>2. Work => ledger_finished' = ledger_finished /\ files' = files
  BY WorkIs DEF WorkFrame
<1>3. CleanupRuntime \/ FinalizeReport \/ PrepareSummary \/ PrepareReport \/ ObserveCleanup =>
        ledger_finished' = ledger_finished /\ ("report" \in files' => "report" \in files)
  BY DEF CleanupRuntime, FinalizeReport, PrepareSummary, PrepareReport, ObserveCleanup
<1>4. FinishAttempt =>
        /\ files' = files
        /\ \/ ledger_finished' = ledger_finished
           \/ AttemptFinishes(plan.verdict) /\ pc' = "link_summary"
  BY DEF FinishAttempt, Goto
<1>5. Publish =>
        ledger_finished' = ledger_finished /\ ("report" \in files' => "report" \in files \/ LinkReport)
  BY DEF Publish, LinkSummary, LinkReport, Link, DropSummaryTemporary, DropReportTemporary,
         Unlink, UnpublishSummary, UnpublishReport, Unpublish, SyncDirectory, Rollback, RollsBack
<1>6. Recover \/ Crash => ledger_finished' = ledger_finished /\ ("report" \in files' => "report" \in files)
  BY DEF Recover, Handle, FailActiveStage, ObserveLateCleanup, FinishFailedAttempt, Raise, Crash
<1>7. UNCHANGED vars => ledger_finished' = ledger_finished /\ files' = files
  BY DEF vars
<1> QED
  BY <1>1, <1>2, <1>3, <1>4, <1>5, <1>6, <1>7 DEF Next, Run, Orchestrate

(* A step that fails before the ledger is finished does not finish it. *)
LEMMA FailsUnfinished ==
    ASSUME TypeInv, MachineInv, PlanInv, LedgerInv, [Next]_vars, pc' = "handle",
           pc \in Live \cup {"start_attempt"}
    PROVE  ~ledger'.finished
<1>1. ~ledger.finished
  BY DEF LedgerInv, LedgerPlace
<1>2. \A line \in Line : AppendFails(line) => ~ledger'.finished
  BY <1>1, AppendFailsIs
<1>3. \A s \in StageState : active \in 1 .. 12 /\ (LedgerFinishes(s) \/ LedgerFinishFails(s))
          => ~ledger'.finished
  BY <1>1, LedgerFinishFailsIs, StageFinishesWrites
<1>4. CASE StartAttempt
  BY <1>2, <1>4, LineTypes DEF StartAttempt, Goto
<1>5. CASE StartStage
  BY <1>2, <1>5, StartStageIs, LineTypes
<1>6. CASE Work
  BY <1>1, <1>3, <1>6, WorkEffect DEF StageState
<1>7. CASE FinishStage
  BY <1>3, <1>7, FinishStageIs DEF StageResults
<1>8. CASE ledger' = ledger
  BY <1>1, <1>8
<1>9. CASE ObserveCleanup
  <2>1. AppendFails(CleanupObserved(cleanup))
    BY <1>9 DEF ObserveCleanup, Goto
  <2> QED
    BY <1>2, <1>9, <2>1, SettledWrites, LineTypes
<1>10. CASE FinishAttempt
  <2>1. AttemptFinishFails(plan.verdict) /\ AttemptFinished(plan.verdict) \in Line
    BY <1>10, SettledWrites, LineTypes DEF FinishAttempt, Goto
  <2> QED
    BY <1>1, <1>2, <2>1 DEF AttemptFinishFails
<1>11. ~FailActiveStage /\ ~ObserveLateCleanup /\ ~FinishFailedAttempt
  BY Routes, FailActiveStageIs
<1> QED
  BY <1>4, <1>5, <1>6, <1>7, <1>8, <1>9, <1>10, <1>11, SettledWrites DEF Next, Run, Orchestrate, Recover

(* A report that is visible is committed, and stays so. *)
LEMMA CommitStep ==
    /\ TypeInv /\ MachineInv /\ PlanInv /\ VerdictInv /\ AgreeInv /\ LedgerInv /\ CommitInv
    /\ [Next]_vars
    => CommitInv'
<1> SUFFICES ASSUME TypeInv, MachineInv, PlanInv, VerdictInv, AgreeInv, LedgerInv, CommitInv,
                    [Next]_vars
             PROVE  CommitInv'
  OBVIOUS
<1>1. pc' \in Places
  BY TypeStep DEF TypeInv
<1>2. pc \in Places
  BY DEF TypeInv
<1>3. CASE FinishAttempt /\ AttemptFinishes(plan.verdict) /\ pc' = "link_summary"
  <2>1. Committed' /\ ledger_finished' = TRUE
    <3>1. ledger_finished' = TRUE
      BY <1>3 DEF FinishAttempt, Goto
    <3> QED
      BY <1>3, <3>1, FinishCommits
  <2> QED
    BY <1>3, <2>1 DEF CommitInv, Publishing
<1>4. CASE ledger_finished' = ledger_finished /\ ledger_finished
  <2>1. Committed /\ pc \in Publishing \cup {"handle", "raise"} \cup Over
    BY <1>4 DEF CommitInv, Failing
  <2>2. Publish \/ Handle \/ Raise \/ Crash \/ UNCHANGED vars
    <3>1. ~StartAttempt /\ ~Orchestrate /\ ~ObserveLateCleanup /\ ~FinishFailedAttempt
      BY <2>1, Routes DEF Orchestrate, Publishing, Over
    <3>2. ~StartStage /\ ~Work /\ ~FinishStage /\ ~FailActiveStage
      BY <2>1, StartStageIs, WorkEffect, FinishStageIs, FailActiveStageIs DEF Publishing, Over
    <3> QED
      BY <3>1, <3>2 DEF Next, Run, Recover
  <2>3. /\ ledger' = ledger /\ UNCHANGED <<results, active, plan, pass1>>
    BY <2>2, SettledWrites, SettledSteps DEF Settled
  <2>4. cleanup' = cleanup
    <3>1. cleanup # "none"
      BY <2>1 DEF Committed
    <3>2. Handle => cleanup' = cleanup
      BY <3>1, CleansType DEF Handle
    <3>3. UNCHANGED vars => cleanup' = cleanup
      BY DEF vars
    <3> QED
      BY <2>2, <3>2, <3>3, Routes
  <2>5. Committed'
    BY <2>1, <2>3, <2>4 DEF Committed, DiskVerdict
  <2>6. pc' \in Publishing \cup {"handle", "raise"} \cup Over
    <3>1. UNCHANGED vars => pc' = pc
      BY DEF vars
    <3>2. Handle => pc' = "raise"
      BY <1>4 DEF Handle, Goto
    <3> QED
      BY <2>1, <2>2, <3>1, <3>2, Routes DEF Over
  <2> QED
    BY <1>4, <2>5, <2>6 DEF CommitInv, Publishing, Failing, Over
<1>5. CASE ledger_finished' = ledger_finished /\ ~ledger_finished /\ ~(FinishAttempt /\ pc' = "link_summary")
  <2>1. pc \notin Publishing /\ "report" \notin files
    BY <1>5 DEF CommitInv
  <2>2. ~Publish
    BY <2>1, Routes
  <2>3. "report" \notin files'
    <3>1. ~LinkReport
      BY <2>2 DEF Publish
    <3> QED
      BY <2>1, <3>1, Showing
  <2>4. pc' \notin Publishing
    <3>1. StartAttempt \/ Orchestrate \/ Handle \/ ObserveLateCleanup \/ FinishFailedAttempt \/ Raise \/ Crash
            => pc' \notin Publishing
      BY <1>5, Routes DEF Orchestrate, Publishing
    <3>2. StartStage \/ Work \/ FinishStage \/ FailActiveStage => pc' \notin Publishing
      <4>1. StartStage => pc' \in {"work", "finish", "handle"}
        BY StartStageIs
      <4>2. FinishStage => pc' \in {"return", "finalize", "start", "handle"}
        BY FinishStageIs
      <4> QED
        BY <4>1, <4>2, WorkEffect, FailActiveStageIs DEF Publishing
    <3>3. UNCHANGED vars => pc' \notin Publishing
      BY <2>1 DEF vars
    <3> QED
      BY <2>2, <3>1, <3>2, <3>3 DEF Next, Run, Recover
  <2>5. pc' = "handle" => ~ledger'.finished
    <3>1. CASE pc \in Live \cup {"start_attempt"}
      BY <3>1, FailsUnfinished
    <3>2. CASE pc \notin Live \cup {"start_attempt"} /\ ~UNCHANGED vars
      <4>1. ~StartAttempt /\ ~Orchestrate
        BY <3>2, Routes DEF Orchestrate, Live
      <4>2. ~StartStage /\ ~Work /\ ~FinishStage
        BY <3>2, StartStageIs, WorkEffect, FinishStageIs DEF Live
      <4>3. Recover \/ Crash => pc' # "handle"
        BY Routes, FailActiveStageIs DEF Recover
      <4> QED
        BY <2>2, <3>2, <4>1, <4>2, <4>3 DEF Next, Run
    <3>3. CASE UNCHANGED vars
      BY <1>5, <3>3 DEF CommitInv, vars
    <3> QED
      BY <3>1, <3>2, <3>3
  <2> QED
    BY <1>5, <2>3, <2>4, <2>5 DEF CommitInv
<1>6. FinishAttempt /\ pc' = "link_summary" => AttemptFinishes(plan.verdict)
  BY DEF FinishAttempt, Goto
<1> QED
  BY <1>3, <1>4, <1>5, <1>6, Showing DEF TypeInv

-------------------------------------------------------------------------------
(* A ledger that may be finished: when nothing failed before, it can be. *)
LEMMA CanFinish ==
    ASSUME TypeInv, MachineInv, PlanInv, AgreeInv, LedgerInv, pc = "finish_attempt"
    PROVE  CanFinishAttempt(plan.verdict)
<1> DEFINE line == AttemptFinished(plan.verdict)
<1>1. line \in Line /\ line.event = "attempt_finished"
  BY VerdictIs, LineTypes, Constructors DEF Reported
<1> DEFINE more == Append(ledger.mem, line)
<1> HIDE DEF line
<1>2. /\ ledger.mem \in Seq(Line) /\ Len(ledger.mem) \in Nat /\ Len(more) = Len(ledger.mem) + 1
      /\ DOMAIN ledger.mem = 1 .. Len(ledger.mem)
  BY <1>1, AppendIs DEF TypeInv
<1>3. /\ Of(ledger.mem, "attempt_started") = {1} /\ ~ledger.finished
      /\ Of(ledger.mem, "cleanup_observed") = {Len(ledger.mem)}
      /\ WellFormed(ledger.mem) /\ Of(ledger.mem, "attempt_finished") = {}
  BY DEF LedgerInv, LedgerPlace, LedgerCore, Live
<1>4. Len(ledger.mem) \in DOMAIN ledger.mem
  BY <1>3 DEF Of
<1>5. \A e : /\ line.event = e => Of(more, e) = Of(ledger.mem, e) \cup {Len(ledger.mem) + 1}
             /\ line.event # e => Of(more, e) = Of(ledger.mem, e)
  BY <1>1, <1>2, OfAppend
<1>6. Started(more) = Started(ledger.mem) /\ Finished(more) = Finished(ledger.mem)
  BY <1>1, <1>2, StagesAppend
<1>7. Started(ledger.mem) = Finished(ledger.mem)
  <2>1. Agrees(ledger.mem, results, 0, TRUE)
    BY DEF AgreeInv, Whole, Live, MachineInv, Reported
  <2>2. 0 \notin Started(ledger.mem)
    BY <1>2, NoStageZero
  <2>3. Finished(ledger.mem) \subseteq Started(ledger.mem)
    BY <1>3 DEF WellFormed, Started, Finished
  <2> QED
    BY <2>1, <2>2, <2>3 DEF Agrees
<1>8. WellFormed(more)
  BY <1>1, <1>2, <1>3, WellFormedOther
<1>9. Cardinality(Of(more, "cleanup_observed")) = 1
  BY <1>1, <1>3, <1>5, FS_Singleton
<1>10. /\ Of(more, "attempt_started") = {1} /\ Of(more, "attempt_finished") = {Len(more)}
       /\ Len(more) >= 2
  BY <1>1, <1>2, <1>3, <1>4, <1>5
<1>11. ValidLedger(more)
  BY <1>6, <1>7, <1>8, <1>9, <1>10 DEF ValidLedger, WellFormed
<1> QED
  BY <1>3, <1>7, <1>11 DEF CanFinishAttempt, line

(* An append that the ledger had the authority for fails at the cost of a fault. *)
LEMMA FailureCosts ==
    ASSUME TypeInv, MachineInv, PlanInv, AgreeInv, LedgerInv, pc' = "handle",
           ObserveCleanup \/ FinishAttempt
    PROVE  faults' = faults + 1
<1>1. pc \in {"observe_cleanup", "finish_attempt"}
  BY Routes
<1>2. ~ledger.finished /\ ledger.disk = ledger.mem
  BY <1>1 DEF LedgerInv, LedgerPlace, Live
<1>3. CASE ObserveCleanup
  <2>1. AppendFails(CleanupObserved(cleanup))
    BY <1>3 DEF ObserveCleanup, Goto
  <2> QED
    BY <1>2, <1>3, <2>1, SettledWrites, LineTypes, AppendFailsIs
<1>4. CASE FinishAttempt
  <2>1. AttemptFinishFails(plan.verdict) /\ AttemptFinished(plan.verdict) \in Line /\ pc = "finish_attempt"
    BY <1>4, SettledWrites, LineTypes DEF FinishAttempt, Goto
  <2>2. AppendFails(AttemptFinished(plan.verdict))
    BY <2>1, CanFinish DEF AttemptFinishFails
  <2> QED
    BY <1>2, <2>1, <2>2, AppendFailsIs
<1> QED
  BY <1>3, <1>4

(* The temporary files that are not published. *)
LEMMA UndiscardedIs ==
    /\ published = {} => Undiscarded = Temporaries \cap files
    /\ published = {"summary"} => Undiscarded = {"report_tmp"} \cap files
    /\ published = Bundle => Undiscarded = {}
    /\ Undiscarded \subseteq files
BY DEF Undiscarded, Temporary, Temporaries, Bundle

(* The published summary whose report is not there. *)
LEMMA OrphanIs ==
    /\ published = {} \/ published = Bundle => Orphan = {}
    /\ published = {"summary"} /\ "report" \notin files => Orphan = {"summary"}
BY DEF Orphan, Bundle

(* A report has its summary, unless two calls failed. *)
LEMMA Pairs ==
    ASSUME TypeInv, FilesAt, FilesAfter
    PROVE  faults <= 1 /\ "report" \in files => "summary" \in files
BY DEF TypeInv, FilesAt, FilesAfter, Before, Bundle, Temporaries, Places, Live, Publishing, Failing, Over

(* The files of the bundle where control is. *)
LEMMA FilesStep ==
    /\ TypeInv /\ MachineInv /\ PlanInv /\ AgreeInv /\ LedgerInv /\ FilesAt /\ FilesAfter
    /\ [Next]_vars
    => FilesAt' /\ FilesAfter'
<1> SUFFICES ASSUME TypeInv, MachineInv, PlanInv, AgreeInv, LedgerInv, FilesAt, FilesAfter, [Next]_vars
             PROVE  FilesAt' /\ FilesAfter'
  OBVIOUS
<1>0. faults \in Nat
  BY DEF TypeInv
<1>1. ASSUME pc \in Before, pc' \in (Before \ {"start_attempt"}) \cup {"handle"}, UNCHANGED bundle
      PROVE  FilesAt' /\ FilesAfter'
  BY <1>1 DEF FilesAt, FilesAfter, bundle, Before
<1>2. CASE StartAttempt \/ StartStage \/ Work \/ FinishStage \/ CleanupRuntime \/ FinalizeReport
  <2>1. pc \in Before /\ pc' \in (Before \ {"start_attempt"}) \cup {"handle"}
    <3>1. StartStage => pc = "start" /\ pc' \in {"work", "finish", "handle"}
      BY StartStageIs
    <3>2. FinishStage => pc = "finish" /\ pc' \in {"return", "finalize", "start", "handle"}
      BY FinishStageIs
    <3> QED
      BY <1>2, <3>1, <3>2, WorkEffect, Routes DEF Before
  <2>2. UNCHANGED bundle
    BY <1>2, WorkIs DEF StartAttempt, StartStage, FinishStage, CleanupRuntime, FinalizeReport, WorkFrame
  <2> QED
    BY <1>1, <2>1, <2>2
<1>3. CASE PrepareSummary
  <2>1. pc = "prepare_summary" /\ published' = {} /\ files = {}
    BY <1>3 DEF PrepareSummary, FilesAt, Before
  <2>2. \/ files' = {"summary_tmp"} /\ pc' = "prepare_report"
        \/ files' = {} /\ pc' = "handle"
        \/ pc' = "handle" /\ faults' = faults + 2
    BY <1>3, <2>1 DEF PrepareSummary, Goto, Faults
  <2> QED
    BY <1>0, <2>1, <2>2 DEF FilesAt, FilesAfter, Before
<1>4. CASE PrepareReport
  <2>1. pc = "prepare_report" /\ published' = {} /\ files = {"summary_tmp"}
    BY <1>4 DEF PrepareReport, FilesAt, Before
  <2>2. \/ files' = Temporaries /\ pc' = "observe_cleanup"
        \/ files' = {} /\ pc' = "handle"
        \/ pc' = "handle" /\ faults' = faults + 2
    BY <1>4, <2>1 DEF PrepareReport, Goto, Faults, Temporaries
  <2> QED
    BY <1>0, <2>1, <2>2 DEF FilesAt, FilesAfter, Before
<1>5. CASE ObserveCleanup \/ FinishAttempt
  <2>1. /\ pc \in {"observe_cleanup", "finish_attempt"}
        /\ pc' \in {"finish_attempt", "link_summary", "handle"}
    BY <1>5, Routes
  <2>2. files' = Temporaries /\ published' = {}
    BY <1>5, <2>1 DEF ObserveCleanup, FinishAttempt, bundle, FilesAt
  <2>3. pc' = "handle" => faults' = faults + 1
    BY <1>5, FailureCosts
  <2> QED
    BY <1>0, <2>1, <2>2, <2>3 DEF FilesAt, FilesAfter, Before
<1>6. CASE LinkSummary
  <2>1. pc = "link_summary" /\ files = Temporaries /\ published' = {}
    BY <1>6 DEF LinkSummary, Link, FilesAt
  <2>2. \/ files' = Temporaries \cup {"summary"} /\ pc' = "drop_summary_tmp"
        \/ files' = Temporaries /\ pc' = "rollback" /\ faults' = faults + 1
    BY <1>6, <2>1 DEF LinkSummary, Link, Goto, Fault, Faults
  <2> QED
    BY <1>0, <2>1, <2>2 DEF FilesAt, FilesAfter, Before
<1>7. CASE DropSummaryTemporary
  <2>1. pc = "drop_summary_tmp" /\ files = Temporaries \cup {"summary"} /\ published = {}
    BY <1>7 DEF DropSummaryTemporary, Unlink, FilesAt
  <2>2. \/ files' = {"report_tmp", "summary"} /\ published' = {"summary"} /\ pc' = "link_report"
        \/ /\ files' = Temporaries \cup {"summary"} /\ published' = {} /\ pc' = "unlink_summary"
           /\ faults' = faults + 1
    BY <1>7, <2>1 DEF DropSummaryTemporary, Unlink, Goto, Fault, Faults, Temporary, Temporaries
  <2> QED
    BY <1>0, <2>1, <2>2 DEF FilesAt, FilesAfter, Before
<1>8. CASE UnpublishSummary
  <2>1. /\ pc = "unlink_summary" /\ files = Temporaries \cup {"summary"} /\ published' = {} /\ faults > 0
        /\ pc' = "rollback"
    BY <1>8 DEF UnpublishSummary, Unpublish, FilesAt, Goto
  <2>2. \/ files' = Temporaries /\ faults' = faults
        \/ faults' = faults + 1
    BY <1>8, <2>1 DEF UnpublishSummary, Unpublish, Fault, Faults, Temporaries
  <2> QED
    BY <1>0, <2>1, <2>2 DEF FilesAt, FilesAfter, Before
<1>9. CASE LinkReport
  <2>1. pc = "link_report" /\ files = {"report_tmp", "summary"} /\ published' = {"summary"}
    BY <1>9 DEF LinkReport, Link, FilesAt
  <2>2. \/ files' = {"report_tmp", "summary", "report"} /\ pc' = "drop_report_tmp"
        \/ files' = {"report_tmp", "summary"} /\ pc' = "rollback" /\ faults' = faults + 1
    BY <1>9, <2>1 DEF LinkReport, Link, Goto, Fault, Faults
  <2> QED
    BY <1>0, <2>1, <2>2 DEF FilesAt, FilesAfter, Before
<1>10. CASE DropReportTemporary
  <2>1. pc = "drop_report_tmp" /\ files = {"report_tmp", "summary", "report"} /\ published = {"summary"}
    BY <1>10 DEF DropReportTemporary, Unlink, FilesAt
  <2>2. \/ files' = Bundle /\ published' = Bundle /\ pc' = "sync"
        \/ /\ files' = {"report_tmp", "summary", "report"} /\ published' = {"summary"}
           /\ pc' = "unlink_report" /\ faults' = faults + 1
    BY <1>10, <2>1 DEF DropReportTemporary, Unlink, Goto, Fault, Faults, Temporary, Bundle
  <2> QED
    BY <1>0, <2>1, <2>2 DEF FilesAt, FilesAfter, Before
<1>11. CASE UnpublishReport
  <2>1. /\ pc = "unlink_report" /\ files = {"report_tmp", "summary", "report"}
        /\ published' = {"summary"} /\ faults > 0 /\ pc' = "rollback"
    BY <1>11 DEF UnpublishReport, Unpublish, FilesAt, Goto
  <2>2. \/ files' = {"report_tmp", "summary"} /\ faults' = faults
        \/ faults' = faults + 1
    BY <1>11, <2>1 DEF UnpublishReport, Unpublish, Fault, Faults
  <2> QED
    BY <1>0, <2>1, <2>2 DEF FilesAt, FilesAfter, Before
<1>12. CASE SyncDirectory
  <2>1. /\ pc = "sync" /\ files' = Bundle /\ published' = Bundle
        /\ pc' = "done" \/ (pc' = "rollback" /\ faults' = faults + 1)
    BY <1>12 DEF SyncDirectory, Leave, Goto, Fault, Faults, bundle, FilesAt
  <2> QED
    BY <1>0, <2>1 DEF FilesAt, FilesAfter, Before
<1>13. CASE Rollback
  <2>1. pc = "rollback" /\ pc' = "handle" /\ published' = published /\ faults > 0
    BY <1>13 DEF Rollback, RollsBack, Goto, FilesAfter
  <2>2. \/ files' = (files \ Undiscarded) \ Orphan /\ faults' = faults
        \/ faults' = faults + 1
    BY <1>13 DEF Rollback, RollsBack, Fault, Faults
  <2>3. faults' <= 1 => faults <= 1 /\ files' = (files \ Undiscarded) \ Orphan
    BY <1>0, <2>1, <2>2
  <2>4. faults' <= 1 => files' = {} \/ (files' = Bundle /\ published' = Bundle)
    <3>1. ASSUME faults' <= 1
          PROVE  <<files, published>> \in {<<Temporaries, {}>>, <<{"report_tmp", "summary"}, {"summary"}>>,
                                           <<Bundle, Bundle>>}
      BY <2>1, <2>3, <3>1 DEF FilesAfter
    <3>2. CASE files = Temporaries /\ published = {}
      BY <2>1, <2>3, <3>2, UndiscardedIs, OrphanIs
    <3>3. CASE files = {"report_tmp", "summary"} /\ published = {"summary"}
      BY <2>1, <2>3, <3>3, UndiscardedIs, OrphanIs
    <3>4. CASE files = Bundle /\ published = Bundle
      BY <2>1, <2>3, <3>4, UndiscardedIs, OrphanIs
    <3> QED
      BY <3>1, <3>2, <3>3, <3>4
  <2> QED
    BY <2>1, <2>4 DEF FilesAt, FilesAfter, Before
<1>14. CASE Handle
  <2>1. pc = "handle" /\ pc' \in {"raise", "fail_stage"} /\ published' = published
    BY <1>14, Routes DEF Handle
  <2>2. \/ files' = files \ Undiscarded /\ faults' \in {faults, faults + 1}
        \/ Undiscarded # {} /\ faults' = faults + 1
    BY <1>14, CleansType DEF Handle, Fault, Faults
  <2>3. faults' <= 1 => files' \in {{}, Bundle}
    <3>1. ASSUME faults' <= 1
          PROVE  \/ files = {}
                 \/ files = Bundle /\ published = Bundle
                 \/ files = Temporaries /\ published = {} /\ faults = 1
                 \/ files = {"summary_tmp"} /\ published = {} /\ faults = 1
      BY <1>0, <2>1, <2>2, <3>1 DEF FilesAfter
    <3>2. CASE files = {}
      BY <2>2, <3>2, UndiscardedIs
    <3>3. CASE files = Bundle /\ published = Bundle
      BY <2>2, <3>3, UndiscardedIs
    <3>4. CASE files \in {Temporaries, {"summary_tmp"}} /\ published = {} /\ faults = 1 /\ faults' <= 1
      <4>1. files' = files \ Undiscarded
        BY <2>2, <3>4
      <4> QED
        BY <3>4, <4>1, UndiscardedIs DEF Temporaries
    <3> QED
      BY <3>1, <3>2, <3>3, <3>4
  <2> QED
    BY <2>1, <2>3 DEF FilesAt, FilesAfter, Before
<1>15. CASE FailActiveStage \/ ObserveLateCleanup \/ FinishFailedAttempt \/ Raise
  <2>1. /\ pc \in {"fail_stage", "late_cleanup", "late_finish", "raise"}
        /\ pc' \in {"late_cleanup", "late_finish", "raise", "done"}
        /\ files' = files
    BY <1>15, Routes, FailActiveStageIs DEF ObserveLateCleanup, FinishFailedAttempt, Raise, bundle
  <2>2. faults' >= faults /\ faults' \in Nat
    <3>1. \A line \in Line : Appended(line) \/ AppendFails(line) => faults' \in {faults, faults + 1}
      BY AppendedIs, AppendFailsIs
    <3>2. FailActiveStage => faults' \in {faults, faults + 1}
      <4>1. active \in 1 .. 12 /\ LedgerFinishes("failed") => faults' \in {faults, faults + 1}
        BY <3>1, LedgerFinishesIs DEF StageState
      <4> QED
        BY <4>1, FailActiveStageIs, LedgerFinishFailsIs DEF StageState
    <3>3. ObserveLateCleanup => faults' \in {faults, faults + 1}
      BY <3>1, SettledWrites, LineTypes DEF ObserveLateCleanup
    <3>4. FinishFailedAttempt => faults' \in {faults, faults + 1}
      <4>1. "HARNESS_ERROR" \in Verdict /\ AttemptFinished("HARNESS_ERROR") \in Line
        BY LineTypes DEF Verdict
      <4> QED
        BY <3>1, <4>1, AttemptFinishesIs DEF FinishFailedAttempt, AttemptFinishFails
    <3>5. Raise => faults' = faults
      BY DEF Raise
    <3> QED
      BY <1>0, <1>15, <3>2, <3>3, <3>4, <3>5
  <2>3. faults' <= 1 => faults <= 1
    BY <1>0, <2>2
  <2> QED
    BY <2>1, <2>3 DEF FilesAt, FilesAfter, Before
<1>16. CASE Crash
  <2>1. pc' = "crashed" /\ files' = files /\ faults' = faults
    BY <1>16 DEF Crash, Goto, bundle
  <2> QED
    BY <2>1, Pairs DEF FilesAt, FilesAfter, Before
<1>17. CASE UNCHANGED vars
  BY <1>17 DEF vars, bundle, FilesAt, FilesAfter
<1> QED
  BY <1>2, <1>3, <1>4, <1>5, <1>6, <1>7, <1>8, <1>9, <1>10, <1>11, <1>12, <1>13, <1>14, <1>15, <1>16, <1>17
  DEF Next, Run, Orchestrate, Publish, Recover

(* The runtime directory is cleaned before anything is shown or given up. *)
LEMMA CleanedStep ==
    /\ TypeInv /\ MachineInv /\ PlanInv /\ CommitInv /\ Cleaned /\ [Next]_vars
    => Cleaned'
<1> SUFFICES ASSUME TypeInv, MachineInv, PlanInv, CommitInv, Cleaned, [Next]_vars PROVE Cleaned'
  OBVIOUS
<1>1. CleansRuntime => cleanup' # "none"
  BY CleansType DEF Residue
<1>2. cleanup # "none" /\ cleanup' = cleanup => Cleaned'
  BY DEF Cleaned
<1>3. ASSUME UNCHANGED bundle, cleanup # "none" => cleanup' # "none",
             pc' \notin {"fail_stage", "late_cleanup", "late_finish", "raise", "done"}
      PROVE  Cleaned'
  BY <1>3 DEF Cleaned, bundle
<1>4. CASE StartAttempt \/ StartStage \/ Work \/ FinishStage \/ CleanupRuntime
  <2>1. pc' \in {"start", "work", "finish", "return", "finalize", "handle"}
    <3>1. StartStage => pc' \in {"work", "finish", "handle"}
      BY StartStageIs
    <3>2. FinishStage => pc' \in {"return", "finalize", "start", "handle"}
      BY FinishStageIs
    <3> QED
      BY <1>4, <3>1, <3>2, WorkEffect, Routes
  <2>2. UNCHANGED bundle
    BY <1>4, WorkIs DEF StartAttempt, StartStage, FinishStage, CleanupRuntime, WorkFrame
  <2>3. cleanup # "none" => cleanup' # "none"
    BY <1>4, Routes, WorkEffect, StartStageIs, FinishStageIs
  <2> QED
    BY <1>3, <2>1, <2>2, <2>3
<1>5. CASE FinalizeReport \/ PrepareSummary \/ PrepareReport \/ ObserveCleanup \/ FinishAttempt
  BY <1>2, <1>5, Routes DEF MachineInv, Reported
<1>6. CASE Publish
  <2>1. ledger_finished /\ cleanup' = cleanup
    BY <1>6, Routes DEF CommitInv
  <2> QED
    BY <1>2, <2>1 DEF CommitInv, Committed
<1>7. CASE Handle
  <2>1. CASE CleansRuntime
    BY <1>1, <2>1 DEF Cleaned
  <2>2. CASE Undiscarded # {} /\ cleanup' = cleanup
    <3>1. files # {}
      BY <2>2, UndiscardedIs
    <3> QED
      BY <1>2, <2>2, <3>1 DEF Cleaned
  <2> QED
    BY <1>7, <2>1, <2>2 DEF Handle
<1>8. CASE FailActiveStage \/ ObserveLateCleanup \/ FinishFailedAttempt \/ Raise
  <2>1. pc \in {"fail_stage", "late_cleanup", "late_finish", "raise"} /\ cleanup' = cleanup
    BY <1>8, Routes, FailActiveStageIs
  <2> QED
    BY <1>2, <2>1 DEF Cleaned
<1>9. CASE Crash
  BY <1>3, <1>9, Routes DEF Crash
<1>10. CASE UNCHANGED vars
  BY <1>10 DEF vars, bundle, Cleaned
<1> QED
  BY <1>4, <1>5, <1>6, <1>7, <1>8, <1>9, <1>10 DEF Next, Run, Orchestrate, Recover

(* Only a published bundle or a raised error gives an exit status. *)
LEMMA EarnedStep ==
    /\ TypeInv /\ MachineInv /\ PlanInv /\ CommitInv /\ FilesAt /\ Earned /\ [Next]_vars
    => Earned'
<1> SUFFICES ASSUME TypeInv, MachineInv, PlanInv, CommitInv, FilesAt, Earned, [Next]_vars
             PROVE  Earned'
  OBVIOUS
<1>1. CASE SyncDirectory
  <2>1. pc = "sync" /\ files = Bundle /\ ledger_finished /\ exit = -1
    BY <1>1 DEF SyncDirectory, FilesAt, CommitInv, Publishing, Earned
  <2>2. /\ UNCHANGED <<request, plan, signalled, files, ledger_finished>>
        /\ \/ /\ pc' = "done"
              /\ exit' = IF signalled THEN 130 ELSE ExitCode(plan.verdict, request.require_supported)
           \/ exit' = exit
    BY <1>1 DEF SyncDirectory, Leave, evidence, bundle
  <2>3. CASE exit' = -1
    BY <2>3 DEF Earned
  <2>4. CASE /\ pc' = "done"
             /\ exit' = IF signalled THEN 130 ELSE ExitCode(plan.verdict, request.require_supported)
    BY <2>1, <2>2, <2>4 DEF Earned
  <2> QED
    BY <2>1, <2>2, <2>3, <2>4
<1>2. CASE Raise
  BY <1>2 DEF Raise, Leave, Earned
<1>3. CASE UNCHANGED vars
  BY <1>3 DEF vars, evidence, bundle, Earned
<1>4. CASE ~SyncDirectory /\ ~Raise /\ Next
  <2>1. exit' = exit
    <3>1. StartAttempt \/ StartStage \/ FinishStage \/ Crash => exit' = exit
      BY DEF StartAttempt, StartStage, FinishStage, Crash
    <3>2. Work => exit' = exit
      BY WorkIs DEF WorkFrame
    <3>3. Orchestrate => exit' = exit
      BY DEF Orchestrate, CleanupRuntime, FinalizeReport, PrepareSummary, PrepareReport,
             ObserveCleanup, FinishAttempt
    <3>4. Publish => exit' = exit
      BY <1>4 DEF Publish, LinkSummary, LinkReport, Link, DropSummaryTemporary, DropReportTemporary,
         Unlink, UnpublishSummary, UnpublishReport, Unpublish, Rollback, RollsBack
    <3>5. Recover => exit' = exit
      BY <1>4 DEF Recover, Handle, FailActiveStage, ObserveLateCleanup, FinishFailedAttempt
    <3> QED
      BY <1>4, <3>1, <3>2, <3>3, <3>4, <3>5 DEF Next, Run
  <2>2. pc # "done"
    <3>1. StartAttempt \/ Orchestrate \/ Publish \/ Handle \/ ObserveLateCleanup
            \/ FinishFailedAttempt => pc # "done"
      BY Routes DEF Orchestrate, Publishing
    <3>2. StartStage \/ Work \/ FinishStage \/ FailActiveStage => pc # "done"
      BY StartStageIs, WorkEffect, FinishStageIs, FailActiveStageIs
    <3>3. Crash => pc # "done"
      BY DEF Crash
    <3> QED
      BY <1>4, <3>1, <3>2, <3>3 DEF Next, Run, Recover
  <2> QED
    BY <2>1, <2>2 DEF Earned
<1> QED
  BY <1>1, <1>2, <1>3, <1>4

-------------------------------------------------------------------------------
(* An attempt that has just been created satisfies the invariant.             *)
LEMMA InitIInv == Init => IInv
<1> SUFFICES ASSUME Init PROVE IInv
  OBVIOUS
<1> USE DEF Init
<1>1. /\ results = <<>> /\ Len(results) = 0 /\ DOMAIN results = {}
      /\ results \in Seq(StageResults) /\ <<>> \in Seq(Line)
      /\ ledger.disk = <<>> /\ ledger.mem = <<>> /\ ~ledger.finished
      /\ plan.verdict = "none" /\ plan = Open
  BY DEF Open
<1>2. Open \in [at : Stage, fill : {"none", "blocked", "not_applicable"}, verdict : Verdict \cup {"none"}]
  BY StageNumbers DEF Open
<1>3. \A e : Of(<<>>, e) = {}
  BY DEF Of
<1>4. Started(<<>>) = {} /\ Finished(<<>>) = {}
  BY <1>3 DEF Started, Finished
<1>5. TypeInv
  <2>1. /\ request \in [require_supported : BOOLEAN, debug_retain : BOOLEAN]
        /\ guarded \in BOOLEAN /\ signalled \in BOOLEAN /\ ledger_finished \in BOOLEAN
    OBVIOUS
  <2>2. ledger \in [disk : Seq(Line), mem : Seq(Line), finished : BOOLEAN]
    BY <1>1
  <2>3. /\ pc \in Places /\ active \in {0, Len(results) + 1} /\ active <= 12 /\ Len(results) <= 12
        /\ cleanup \in Residue \cup {"none"} /\ exit \in Int /\ faults \in Nat
        /\ files \in SUBSET {"summary_tmp", "report_tmp", "summary", "report", "stray"}
        /\ published \in SUBSET {"summary", "report"}
    BY <1>1 DEF Places
  <2> QED
    BY <1>1, <1>2, <2>1, <2>2, <2>3 DEF TypeInv, StageResults
<1>6. MachineInv
  BY <1>1 DEF MachineInv, Reported, Publishing
<1>7. PlanInv
  BY <1>1, StageNumbers DEF PlanInv, Open, Live
<1>8. VerdictInv
  BY <1>1 DEF VerdictInv, Live, Pass1Mismatch
<1>9. AgreeInv
  <2>1. \A whole \in BOOLEAN : Agrees(<<>>, results, active, whole)
    BY <1>1, <1>3, <1>4 DEF Agrees
  <2> QED
    BY <1>1, <2>1 DEF AgreeInv
<1>10. LedgerInv
  <2>1. WellFormed(<<>>)
    BY <1>3 DEF WellFormed
  <2> QED
    BY <1>1, <1>3, <2>1 DEF LedgerInv, LedgerCore, LedgerPlace, Live
<1>11. CommitInv
  BY <1>1 DEF CommitInv, Publishing
<1>12. FilesAt /\ FilesAfter
  BY DEF FilesAt, FilesAfter, Before
<1>13. Cleaned /\ Earned
  BY DEF Cleaned, Earned
<1> QED
  BY <1>5, <1>6, <1>7, <1>8, <1>9, <1>10, <1>11, <1>12, <1>13 DEF IInv, BundleInv

(* The inductive invariant: the seven theorems below are consequences of it.  *)
THEOREM Inductive == Spec => []IInv
<1>1. IInv /\ [Next]_vars => IInv'
  <2> SUFFICES ASSUME IInv, [Next]_vars PROVE IInv'
    OBVIOUS
  <2>1. TypeInv' /\ MachineInv' /\ PlanInv' /\ VerdictInv' /\ AgreeInv'
    BY TypeStep, MachineStep, PlanStep, VerdictStep, AgreeStep DEF IInv
  <2>2. LedgerInv' /\ CommitInv'
    BY LedgerCoreStep, LedgerPlaceStep, CommitStep DEF IInv, LedgerInv
  <2>3. BundleInv'
    BY FilesStep, CleanedStep, EarnedStep DEF IInv, BundleInv
  <2> QED
    BY <2>1, <2>2, <2>3 DEF IInv
<1> QED
  BY <1>1, InitIInv, PTL DEF Spec

(* Whoever sees a report sees it committed: the ledger beside it is valid and *)
(* names its verdict, its stages and its residue (publication.py, ledger.py). *)
THEOREM CommitAlwaysComplete == Spec => []CommitIsComplete
<1>1. IInv => CommitIsComplete
  BY DEF IInv, CommitInv, Committed, CommitIsComplete
<1> QED
  BY <1>1, Inductive, PTL

(* The ledger never runs ahead of the stage machine nor contradicts it, and a *)
(* ledger that names a verdict is valid (orchestrator.py RunContext, ledger.py).*)
THEOREM LedgerAlwaysFollows == Spec => []LedgerFollowsMachine
<1>1. IInv => LedgerFollowsMachine
  <2> SUFFICES ASSUME IInv PROVE LedgerFollowsMachine
    OBVIOUS
  <2>1. DiskVerdict # "none" => ValidLedger(ledger.disk)
    BY DEF IInv, LedgerInv, LedgerCore, DiskVerdict
  <2>2. Agrees(ledger.disk, results, active, FALSE)
    BY DEF IInv, AgreeInv
  <2>3. Cardinality(DOMAIN results \ Finished(ledger.disk)) <= 1
    <3>1. DOMAIN results \ Finished(ledger.disk) \in {{}, {Len(results)}}
      BY <2>2 DEF Agrees
    <3>2. Cardinality({}) <= 1 /\ Cardinality({Len(results)}) <= 1
      <4>1. Cardinality({}) = 0
        BY FS_EmptySet
      <4>2. Cardinality({Len(results)}) = 1
        BY FS_Singleton
      <4> QED
        BY <4>1, <4>2
    <3> DEFINE untold == DOMAIN results \ Finished(ledger.disk)
    <3> HIDE DEF untold
    <3>3. untold = {} \/ untold = {Len(results)}
      BY <3>1 DEF untold
    <3>4. Cardinality(untold) <= 1
      BY <3>2, <3>3
    <3> QED
      BY <3>4 DEF untold
  <2> QED
    BY <2>1, <2>2, <2>3 DEF LedgerFollowsMachine, Agrees
<1> QED
  BY <1>1, Inductive, PTL

(* StageMachine.finish never raises for a result of the pipeline: executed only*)
(* behind executed dependencies, blocked only behind its blocker (stages.py). *)
THEOREM FinishAlwaysAccepted == Spec => []FinishIsAccepted
<1>1. IInv => FinishIsAccepted
  <2> SUFFICES ASSUME TypeInv, MachineInv, PlanInv, pc = "finish"
               PROVE  MachineAccepts(StageResult(active))
    BY DEF IInv, FinishIsAccepted
  <2>1. /\ active \in 1 .. 12 /\ active = Len(results) + 1 /\ DOMAIN results = 1 .. Len(results)
        /\ Len(results) \in Nat /\ active # 0
    BY StageResultType, TypeParts, AppendIs
  <2>2. /\ plan.at \in 1 .. 11
        /\ plan # Open => plan.at <= active /\ plan.fill # "none"
        /\ plan = Open => plan.at = 11
        /\ \A i \in DOMAIN results : i < plan.at /\ i < 11 => results[i].state = "executed"
        /\ 11 \in DOMAIN results => results[11].state = "executed"
    BY TypePlan, StageNumbers DEF PlanInv, Live, Open
  <2>3. ASSUME StageResult(active).state = "executed", active # 11,
               NEW d \in STAGE_DEPENDENCIES[active]
        PROVE  results[d].state = "executed"
    <3>1. CASE active = 12
      <4>1. d = 11
        BY <2>3, <3>1, Dependencies
      <4> QED
        BY <2>1, <2>2, <3>1, <4>1
    <3>2. CASE active < 11
      <4>1. d \in 1 .. active - 1
        BY <2>1, <2>3, Dependencies, StageNumbers
      <4>2. active <= plan.at
        <5>1. active > plan.at => StageResult(active).state = plan.fill /\ plan # Open
          BY <2>1, <2>2, <3>2, StageNumbers DEF StageResult, Result
        <5>2. plan.fill # "executed"
          BY TypePlan
        <5> QED
          BY <2>1, <2>2, <2>3, <5>1, <5>2
      <4> QED
        BY <2>1, <2>2, <3>2, <4>1, <4>2
    <3> QED
      BY <2>1, <2>3, <3>1, <3>2
  <2>4. ASSUME StageResult(active).state = "blocked"
        PROVE  StageResult(active).blocker \in DOMAIN results
    <3>1. active < 11 /\ active > plan.at /\ StageResult(active).blocker = plan.at
      BY <2>1, <2>2, <2>4, StageNumbers DEF StageResult, Result
    <3> QED
      BY <2>1, <2>2, <3>1
  <2> QED
    BY <2>1, <2>3, <2>4, StageNumbers DEF MachineAccepts
<1> QED
  BY <1>1, Inductive, PTL

(* PASS and REGRESSION say what Pass 1 found, over stages that were executed  *)
(* (real_pipeline.py).                                                        *)
THEOREM VerdictAlwaysHasAuthority == Spec => []VerdictHasAuthority
<1>1. IInv => VerdictHasAuthority
  <2> SUFFICES ASSUME IInv, pc = "return" \/ "report" \in files
               PROVE  /\ plan.verdict = "PASS" <=> pass1 = "equal"
                      /\ plan.verdict = "REGRESSION" <=> pass1 \in Pass1Mismatch
                      /\ plan.verdict \in {"PASS", "REGRESSION"} =>
                             \A i \in 1 .. 5 : results[i].state = "executed"
    BY StageNumbers DEF VerdictHasAuthority
  <2>1. CASE pc = "return"
    BY <2>1, VerdictFacts DEF IInv
  <2>2. CASE "report" \in files
    BY <2>2 DEF IInv, CommitInv, Committed
  <2> QED
    BY <2>1, <2>2
<1> QED
  BY <1>1, Inductive, PTL

(* An exit status other than 2 stands for a published bundle (cli.py, real.py).*)
THEOREM ExitAlwaysEarned == Spec => []ExitIsEarned
<1>1. IInv => ExitIsEarned
  <2> SUFFICES ASSUME IInv, exit \notin {-1, 2}
               PROVE  /\ {"summary", "report"} \subseteq files /\ DiskVerdict = plan.verdict
                      /\ request.require_supported /\ exit = 0 => pass1 = "equal"
    BY DEF ExitIsEarned
  <2>1. ledger_finished /\ files = Bundle /\ Committed
        /\ exit = IF signalled THEN 130 ELSE ExitCode(plan.verdict, request.require_supported)
    BY DEF IInv, BundleInv, Earned, CommitInv
  <2>2. request.require_supported /\ exit = 0 => plan.verdict = "PASS"
    BY <2>1 DEF ExitCode, Committed, Verdict
  <2> QED
    BY <2>1, <2>2 DEF Bundle, Committed
<1> QED
  BY <1>1, Inductive, PTL

(* An attempt that ends has cleaned its runtime directory, and after at most one*)
(* failing call it leaves no half of a bundle (publication.py, workspace.py). *)
THEOREM NothingEverLeftBehind == Spec => []NothingLeftBehind
<1>1. IInv => NothingLeftBehind
  <2> SUFFICES ASSUME IInv PROVE NothingLeftBehind
    OBVIOUS
  <2>1. pc = "done" => cleanup # "none"
    BY DEF IInv, BundleInv, Cleaned
  <2>2. faults <= 1 /\ pc = "done" => files \in {{}, {"summary", "report"}}
    BY DEF IInv, BundleInv, FilesAfter, Bundle
  <2>3. faults <= 1 /\ "report" \in files => "summary" \in files
    BY Pairs DEF IInv, BundleInv
  <2> QED
    BY <2>1, <2>2, <2>3 DEF NothingLeftBehind
<1> QED
  BY <1>1, Inductive, PTL

-------------------------------------------------------------------------------
(* The verdict that the file names changes once, from none. *)
LEMMA DiskVerdictChanges ==
    ASSUME TypeInv, LedgerInv, NEW line \in Line, Writes(line)
    PROVE  \/ DiskVerdict' = DiskVerdict
           \/ /\ line.event = "attempt_finished"
              /\ DiskVerdict = "none" /\ DiskVerdict' = line.verdict
<1>1. ledger.mem \in Seq(Line) /\ TornLine \in Line /\ TornLine.event = "torn"
  BY LineTypes, Constructors DEF TypeInv
<1>2. CASE ledger' = ledger
  BY <1>2 DEF DiskVerdict
<1>3. CASE ledger' # ledger
  <2>1. ledger.disk = ledger.mem /\ Of(ledger.mem, "attempt_finished") = {}
    BY <1>3 DEF Writes, LedgerInv, LedgerCore
  <2>2. ledger'.disk \in {ledger.mem, Append(ledger.mem, line), Append(ledger.mem, TornLine)}
    BY <1>3, <2>1 DEF Writes
  <2>7. \A l \in Line : \A e :
           /\ l.event = e => Of(Append(ledger.mem, l), e) = Of(ledger.mem, e) \cup {Len(ledger.mem) + 1}
           /\ l.event # e => Of(Append(ledger.mem, l), e) = Of(ledger.mem, e)
    BY <1>1, OfAppend
  <2>3. /\ line.event # "attempt_finished" => Of(Append(ledger.mem, line), "attempt_finished") = {}
        /\ line.event = "attempt_finished" =>
               Of(Append(ledger.mem, line), "attempt_finished") # {}
        /\ Of(Append(ledger.mem, TornLine), "attempt_finished") = {}
    BY <1>1, <2>1, <2>7
  <2>4. DiskVerdict = "none"
    BY <2>1 DEF DiskVerdict
  <2>5. CASE ledger'.disk = Append(ledger.mem, line) /\ line.event = "attempt_finished"
    <3>1. Last(ledger'.disk) = line
      BY <1>1, <2>5, AppendIs DEF Last
    <3> QED
      BY <2>3, <2>4, <2>5, <3>1 DEF DiskVerdict
  <2>6. CASE Of(ledger'.disk, "attempt_finished") = {}
    BY <2>4, <2>6 DEF DiskVerdict
  <2> QED
    BY <2>1, <2>2, <2>3, <2>5, <2>6
<1> QED
  BY <1>2, <1>3

\* What a reader of the directory sees: the verdict of the visible report, and
\* whether the process has gone.
Shown == IF "report" \in files THEN plan.verdict ELSE "none"
Gone == pc \in {"done", "crashed"}

(* What a step shows to a reader of the directory. *)
LEMMA ReaderSees ==
    ASSUME IInv, [Next]_vars
    PROVE  \/ DiskVerdict' = DiskVerdict /\ Shown' = Shown /\ (Gone' <=> Gone)
           \/ /\ ~Gone /\ ~Gone'
              /\ \/ DiskVerdict = "none" /\ DiskVerdict' \in Verdict /\ Shown' = Shown
                 \/ DiskVerdict # "none" /\ DiskVerdict' = DiskVerdict /\ Shown' = DiskVerdict
                 \/ DiskVerdict' = DiskVerdict /\ Shown' = "none"
           \/ ~Gone /\ Gone' /\ DiskVerdict' = DiskVerdict /\ Shown' = Shown
<1> USE DEF IInv
<1>1. ASSUME pc \in Live \cup {"start_attempt", "fail_stage", "late_cleanup", "late_finish"},
             pc' \notin Over, ~LinkReport
      PROVE  Shown' = "none" /\ Shown = "none" /\ ~Gone /\ ~Gone'
  <2>1. ~ledger_finished
    BY <1>1 DEF CommitInv, Live, Publishing, Failing, Over
  <2>2. "report" \notin files /\ "report" \notin files'
    BY <1>1, <2>1, Showing DEF CommitInv
  <2> QED
    BY <1>1, <2>2 DEF Shown, Gone, Live, Over
<1>2. ASSUME NEW line \in Line, Writes(line), line.event # "attempt_finished"
      PROVE  DiskVerdict' = DiskVerdict
  BY <1>2, DiskVerdictChanges
<1>3. ledger' = ledger => DiskVerdict' = DiskVerdict
  BY DEF DiskVerdict
<1>4. CASE StartAttempt \/ StartStage \/ Work \/ FinishStage \/ FailActiveStage
             \/ ObserveCleanup \/ ObserveLateCleanup
  <2>1. /\ pc \in Live \cup {"start_attempt", "fail_stage", "late_cleanup", "late_finish"}
        /\ pc' \notin Over
    <3>1. StartStage => pc = "start" /\ pc' \in {"work", "finish", "handle"}
      BY StartStageIs
    <3>2. FinishStage => pc = "finish" /\ pc' \in {"return", "finalize", "start", "handle"}
      BY FinishStageIs
    <3> QED
      BY <1>4, <3>1, <3>2, WorkEffect, FailActiveStageIs, Routes DEF Live, Over
  <2>2. ~LinkReport
    BY <2>1, Routes DEF Publish, Publishing, Live
  <2>3. DiskVerdict' = DiskVerdict
    <3>1. StartAttempt => DiskVerdict' = DiskVerdict
      BY <1>2, SettledWrites, LineTypes, Constructors
    <3>2. ObserveCleanup \/ ObserveLateCleanup => DiskVerdict' = DiskVerdict
      BY <1>2, SettledWrites, LineTypes, Constructors
    <3>3. StartStage => DiskVerdict' = DiskVerdict
      <4>1. ASSUME StartStage
            PROVE  /\ StageStarted(next_stage) \in Line
                   /\ StageStarted(next_stage).event # "attempt_finished"
                   /\ Appended(StageStarted(next_stage)) \/ AppendFails(StageStarted(next_stage))
        BY <4>1, StartStageIs, LineTypes, Constructors
      <4> QED
        BY <1>2, <4>1, AppendedWrites, AppendFailsWrites
    <3>4. ASSUME active \in 1 .. 12, NEW s \in StageState, LedgerFinishes(s) \/ LedgerFinishFails(s)
          PROVE  DiskVerdict' = DiskVerdict
      BY <1>2, <3>4, StageFinishesWrites, Constructors
    <3>5. Work \/ FailActiveStage => DiskVerdict' = DiskVerdict
      BY <1>3, <3>4, WorkEffect, FailActiveStageIs DEF StageState
    <3>6. FinishStage => DiskVerdict' = DiskVerdict
      BY <3>4, FinishStageIs DEF StageResults
    <3> QED
      BY <1>4, <3>1, <3>2, <3>3, <3>5, <3>6
  <2> QED
    BY <1>1, <2>1, <2>2, <2>3
<1>5. CASE FinishAttempt \/ FinishFailedAttempt
  <2>1. pc \in {"finish_attempt", "late_finish"} /\ pc' \notin Over
    BY <1>5, Routes DEF Over
  <2>2. Shown' = "none" /\ Shown = "none" /\ ~Gone /\ ~Gone'
    <3>1. ~LinkReport
      BY <2>1, Routes DEF Publish, Publishing
    <3> QED
      BY <1>1, <2>1, <3>1 DEF Live
  <2>3. PICK v \in Verdict : Writes(AttemptFinished(v))
    BY <1>5, SettledWrites DEF Verdict
  <2>4. DiskVerdict' = DiskVerdict \/ (DiskVerdict = "none" /\ DiskVerdict' \in Verdict)
    BY <2>3, DiskVerdictChanges, LineTypes, Constructors
  <2> QED
    BY <2>2, <2>4
<1>6. CASE CleanupRuntime \/ FinalizeReport \/ PrepareSummary \/ PrepareReport
  <2>1. pc \in Live /\ pc' \notin Over /\ ledger' = ledger
    BY <1>6, Routes, SettledWrites DEF Live, Over
  <2>2. ~LinkReport
    BY <2>1, Routes DEF Publish, Publishing, Live
  <2> QED
    BY <1>1, <1>3, <2>1, <2>2
<1>7. CASE Publish \/ Handle \/ Raise \/ Crash
  <2>1. ledger' = ledger /\ plan' = plan
    BY <1>7, SettledWrites, SettledSteps DEF Settled
  <2>2. DiskVerdict' = DiskVerdict
    BY <1>3, <2>1
  <2>3. ~Gone
    BY <1>7, Routes DEF Gone, Publishing, Crash
  <2>4. CASE LinkReport
    <3>1. DiskVerdict = plan.verdict /\ DiskVerdict # "none"
      BY <2>4, Routes DEF Publish, CommitInv, Committed, Verdict
    <3>2. Shown' \in {plan.verdict, "none"}
      BY <2>1 DEF Shown
    <3>3. ~Gone'
      BY <2>4 DEF LinkReport, Link, Goto, Gone
    <3> QED
      BY <2>2, <2>3, <3>1, <3>2, <3>3
  <2>5. CASE ~LinkReport
    <3>1. Shown' = Shown \/ Shown' = "none"
      BY <2>1, <2>5, Showing DEF Shown
    <3>2. Gone' => files' = files
      <4>1. CASE SyncDirectory
        BY <4>1 DEF SyncDirectory, bundle
      <4>2. CASE Publish /\ ~SyncDirectory
        <5>1. pc' \notin {"done", "crashed"}
          BY <4>2 DEF Publish, LinkSummary, LinkReport, Link, DropSummaryTemporary, DropReportTemporary,
             Unlink, UnpublishSummary, UnpublishReport, Unpublish, Rollback, RollsBack, Goto
        <5> QED
          BY <5>1 DEF Gone
      <4>3. CASE Handle
        BY <4>3, Routes DEF Gone
      <4>4. CASE Raise \/ Crash
        BY <4>4 DEF Raise, Crash, bundle
      <4> QED
        BY <1>7, <4>1, <4>2, <4>3, <4>4
    <3>3. Gone' => Shown' = Shown
      BY <2>1, <3>2 DEF Shown
    <3> QED
      BY <2>2, <2>3, <3>1, <3>3
  <2> QED
    BY <2>4, <2>5
<1>8. CASE UNCHANGED vars
  BY <1>8 DEF vars, bundle, evidence, DiskVerdict, Shown, Gone
<1> QED
  BY <1>4, <1>5, <1>6, <1>7, <1>8 DEF Next, Run, Orchestrate, Recover

(* Every step of an attempt is, to a reader of its directory, a step of       *)
(* AttemptPromise or none; that the attempt ends is left to model checking.   *)
THEOREM KeepsPromise == Spec => Promise!Init /\ [][Promise!Next]_(Promise!promise)
<1>1. Init => Promise!Init
  <2>1. Init => DiskVerdict = "none"
    BY DEF Init, DiskVerdict, Of
  <2> QED
    BY <2>1 DEF Init, Promise!Init, Promise!None
<1>2. IInv /\ [Next]_vars => [Promise!Next]_(Promise!promise)
  BY ReaderSees DEF Shown, Gone, Promise!Next, Promise!promise, Promise!Record, Promise!Show,
     Promise!Withdraw, Promise!End, Promise!None
<1> QED
  BY <1>1, <1>2, Inductive, PTL DEF Spec
=============================================================================
