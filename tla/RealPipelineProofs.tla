-------------------------- MODULE RealPipelineProofs --------------------------
(***************************************************************************)
(* Proofs about RealPipeline for every set of token ids, length of output, *)
(* number of layers and stages, sampling, captures and number of drifts:   *)
(* what a verdict about the tokens rests on, that a proven mismatch is not *)
(* lost, what a reported layer has survived, and what lies between the     *)
(* ends of the reported intervals.                                         *)
(***************************************************************************)
EXTENDS RealPipeline, TLAPS, WellFoundedInduction

Locations == {"preflight", "originals", "calibrate", "locate", "reruns", "reproduce",
              "layers", "stages", "done"}

(* Pass 1 of the discovery has not been computed. *)
Early == generation = "discovery"
         /\ pc \in {"preflight", "originals", "calibrate", "locate"}

(* The evidence the pipeline carries from its originals. *)
EvidenceInv ==
    /\ pc \in Locations
    /\ turn \in Role
    /\ generation \in Generation
    /\ program \in [Role -> RunReport]
    /\ original \in [Generation -> [Role -> RunReport \cup {NoReport}]]
    /\ DOMAIN pass1 = Generation
    /\ DOMAIN pass3 = Generation

(* What is known of the first two runs at each place. *)
DiscoveryInv ==
    /\ Early => pass1["discovery"] = NoLocation("not_run")
    /\ Early /\ pc \in {"preflight", "originals"} =>
           original["discovery"]["candidate"] = NoReport
    /\ Early /\ pc = "locate" => Proceed(RunPass0(original["discovery"]))
    /\ ~Early /\ pc # "done" =>
           /\ pass1["discovery"] = RunPass1(original["discovery"])
           /\ Mismatch(pass1["discovery"])

(* What the recapture has confirmed at each place. *)
RecaptureInv ==
    /\ generation = "recapture" =>
           /\ pc \in {"reruns", "reproduce", "layers", "stages"} =>
                  /\ pass1["recapture"] = RunPass1(original["recapture"])
                  /\ Mismatch(pass1["recapture"])
           /\ pc \in {"layers", "stages"} =>
                  SameBoundary(pass1["recapture"], pass1["discovery"])
    /\ pc = "stages" =>
           /\ generation = "recapture"
           /\ pass3["recapture"].layer = pass3["discovery"].layer
           /\ pass3["recapture"].interval.upto = pass3["recapture"].layer

ReportInv ==
    /\ pc # "done" => report = NoReportYet
    /\ RegressionIsProven
    /\ MismatchIsNeverLost
    /\ LocalizationSurvivesRecapture

IInv == EvidenceInv /\ DiscoveryInv /\ RecaptureInv /\ ReportInv

-------------------------------------------------------------------------------
(* A nonempty set of natural numbers has a least element, and Min is it. *)
LEMMA MinExists ==
    ASSUME NEW S, S \subseteq Nat, S # {}
    PROVE  Min(S) \in S /\ \A n \in S : Min(S) <= n
<1> DEFINE R == OpToRel(<, Nat)
<1>1. \E n \in S : \A m \in S : ~(<<m, n>> \in R)
  <2> HIDE DEF R
  <2>1. IsWellFoundedOn(R, Nat)
    BY NatLessThanWellFounded DEF R
  <2> QED
    BY <2>1, WFMin
<1>2. \A n, m \in Nat : m < n => <<m, n>> \in R
  BY DEF OpToRel
<1>3. \E n \in S : \A m \in S : n <= m
  <2> HIDE DEF R
  <2>1. PICK n \in S : \A m \in S : ~(<<m, n>> \in R)
    BY <1>1
  <2>2. \A m \in S : ~(m < n)
    BY <2>1, <1>2
  <2> QED
    BY <2>2
<1> QED
  BY <1>3 DEF Min

(* locate_first_selected_token_mismatch returns the first place at which two *)
(* different outputs differ, the end of the shorter one counting as a place. *)
LEMMA FirstMismatch ==
    ASSUME NEW s \in TokenIds, NEW t \in TokenIds, s # t,
           NEW n, n = FirstMismatchStep(s, t)
    PROVE  /\ n \in Nat
           /\ n <= Shorter(s, t)
           /\ \A i \in 1 .. n : s[i] = t[i]
           /\ TokenAt(s, n) # TokenAt(t, n)
<1> DEFINE differing == {m \in 0 .. Shorter(s, t) - 1 : s[m + 1] # t[m + 1]}
<1>1. PICK k \in 1 .. MaxTokens : s \in [1 .. k -> Id]
  BY DEF TokenIds
<1>2. PICK l \in 1 .. MaxTokens : t \in [1 .. l -> Id]
  BY DEF TokenIds
<1>3. /\ k \in Nat /\ l \in Nat
      /\ Len(s) = k /\ Len(t) = l
      /\ Shorter(s, t) \in Nat /\ Shorter(s, t) <= k /\ Shorter(s, t) <= l
      /\ Shorter(s, t) = k \/ Shorter(s, t) = l
  BY <1>1, <1>2, RealPipelineAssumption DEF Shorter
<1>4. \A i \in 1 .. Shorter(s, t) : s[i] \in Id /\ t[i] \in Id
  BY <1>1, <1>2, <1>3
<1>5. CASE differing = {}
  <2>1. n = Shorter(s, t)
    BY <1>5 DEF FirstMismatchStep
  <2>2. \A i \in 1 .. n : s[i] = t[i]
    <3> SUFFICES ASSUME NEW i \in 1 .. n PROVE s[i] = t[i]
      OBVIOUS
    <3>1. i - 1 \in 0 .. Shorter(s, t) - 1 /\ (i - 1) + 1 = i
      BY <2>1, <1>3
    <3> QED
      BY <3>1, <1>5
  <2>3. k # l
    BY <1>1, <1>2, <1>3, <2>1, <2>2
  <2>4. TokenAt(s, n) # TokenAt(t, n)
    <3>1. CASE k < l
      <4>1. n = k /\ n + 1 \in 1 .. l
        BY <3>1, <2>1, <1>3
      <4> QED
        BY <4>1, <1>2, <1>3, <3>1, RealPipelineAssumption DEF TokenAt
    <3>2. CASE l < k
      <4>1. n = l /\ n + 1 \in 1 .. k
        BY <3>2, <2>1, <1>3
      <4> QED
        BY <4>1, <1>1, <1>3, <3>2, RealPipelineAssumption DEF TokenAt
    <3> QED
      BY <3>1, <3>2, <2>3, <1>3
  <2> QED
    BY <2>1, <2>2, <2>4, <1>3
<1>6. CASE differing # {}
  <2>1. n = Min(differing)
    BY <1>6 DEF FirstMismatchStep
  <2>2. differing \subseteq Nat
    BY <1>3
  <2>3. n \in differing /\ \A m \in differing : n <= m
    <3> HIDE DEF differing
    <3> QED
      BY <2>1, <2>2, <1>6, MinExists
  <2>4. n \in 0 .. Shorter(s, t) - 1 /\ s[n + 1] # t[n + 1]
    BY <2>3
  <2>5. \A i \in 1 .. n : s[i] = t[i]
    <3> SUFFICES ASSUME NEW i \in 1 .. n, s[i] # t[i] PROVE FALSE
      OBVIOUS
    <3>1. i - 1 \in 0 .. Shorter(s, t) - 1 /\ (i - 1) + 1 = i /\ ~(n <= i - 1)
      BY <2>4, <1>3
    <3>2. i - 1 \in differing
      BY <3>1
    <3> QED
      BY <3>1, <3>2, <2>3
  <2>6. TokenAt(s, n) # TokenAt(t, n)
    BY <2>4, <1>3 DEF TokenAt
  <2> QED
    BY <2>4, <2>5, <2>6, <1>3
<1> QED
  BY <1>5, <1>6

(* A Pass 1 mismatch comes from exact, different outputs that may be compared. *)
LEMMA MismatchEvidence ==
    ASSUME NEW pair \in [Role -> RunReport \cup {NoReport}], Mismatch(RunPass1(pair))
    PROVE  /\ Proceed(RunPass0(pair))
           /\ \A r \in Role : pair[r].level = "array_exact" /\ pair[r].ids \in TokenIds
           /\ pair["reference"].ids # pair["candidate"].ids
           /\ RunPass1(pair) = Located(pair["reference"].ids, pair["candidate"].ids)
<1> DEFINE ref == pair["reference"]
           cand == pair["candidate"]
           levels == {ref.level, cand.level}
<1>1. /\ Proceed(RunPass0(pair))
      /\ levels = {"array_exact"}
      /\ ref.ids # cand.ids
      /\ RunPass1(pair) = Located(ref.ids, cand.ids)
  BY DEF RunPass1, RunTokenLocalization, Mismatch, NoLocation
<1>2. ref.level = "array_exact" /\ cand.level = "array_exact"
  BY <1>1
<1>3. ref \in RunReport \cup {NoReport} /\ cand \in RunReport \cup {NoReport}
  BY DEF Role
<1>4. ref.ids \in TokenIds /\ cand.ids \in TokenIds
  BY <1>2, <1>3 DEF RunReport, NoReport
<1> QED
  BY <1>1, <1>2, <1>4 DEF Role

(* Different exact outputs that may be compared are a Pass 1 mismatch. *)
LEMMA MismatchFound ==
    ASSUME NEW pair, \A r \in Role : pair[r].level = "array_exact",
           Proceed(RunPass0(pair)), pair["reference"].ids # pair["candidate"].ids
    PROVE  Mismatch(RunPass1(pair))
<1>1. pair["reference"].level = "array_exact" /\ pair["candidate"].level = "array_exact"
  BY DEF Role
<1>2. {pair["reference"].level, pair["candidate"].level} = {"array_exact"}
  BY <1>1
<1>3. {"array_exact"} # {"digest_only"}
  OBVIOUS
<1> QED
  BY <1>2, <1>3 DEF RunPass1, RunTokenLocalization, Mismatch, Located

-------------------------------------------------------------------------------
LEMMA InitOK == Init => IInv
<1> SUFFICES ASSUME Init PROVE IInv
  OBVIOUS
<1>1. EvidenceInv
  BY DEF Init, EvidenceInv, Locations, Role, Generation
<1>2. DiscoveryInv
  BY DEF Init, DiscoveryInv, Early, Generation, Role
<1>3. RecaptureInv
  BY DEF Init, RecaptureInv
<1>4. ReportInv
  BY DEF Init, ReportInv, NoReportYet, RegressionIsProven, MismatchIsNeverLost,
         LocalizationSurvivesRecapture, LayerReported, LayerInterval
<1> QED
  BY <1>1, <1>2, <1>3, <1>4 DEF IInv

(* While there is no report, only the evidence is to be kept. *)
LEMMA GoesOn ==
    ASSUME IInv, pc' # "done", report' = report, pc # "done",
           EvidenceInv', DiscoveryInv', RecaptureInv'
    PROVE  IInv'
<1>1. report' = NoReportYet
  BY DEF IInv, ReportInv
<1>2. ReportInv'
  BY <1>1 DEF ReportInv, NoReportYet, RegressionIsProven, MismatchIsNeverLost,
              LocalizationSurvivesRecapture, LayerReported, LayerInterval
<1> QED
  BY <1>2 DEF IInv

(* When the attempt is over, only the report is to be looked at. *)
LEMMA Ends ==
    ASSUME IInv, pc' = "done", UNCHANGED <<turn, generation, builds, runs>>,
           DOMAIN pass1' = Generation, DOMAIN pass3' = Generation,
           RegressionIsProven', MismatchIsNeverLost', LocalizationSurvivesRecapture'
    PROVE  IInv'
<1>1. EvidenceInv'
  BY DEF IInv, EvidenceInv, Locations, builds, runs
<1>2. DiscoveryInv' /\ RecaptureInv'
  BY DEF DiscoveryInv, RecaptureInv, Early
<1>3. ReportInv'
  BY DEF ReportInv
<1> QED
  BY <1>1, <1>2, <1>3 DEF IInv

(* A report of the discovery's mismatch as a regression is right. *)
LEMMA RegressionReported ==
    ASSUME IInv, pc # "done", ~Early, original' = original,
           report'.verdict = "REGRESSION", report'.token = pass1["discovery"]
    PROVE  RegressionIsProven' /\ MismatchIsNeverLost' /\ FirstDifference(report.token.step)'
<1> DEFINE D == original["discovery"]
           ref == D["reference"].ids
           cand == D["candidate"].ids
<1>1. D \in [Role -> RunReport \cup {NoReport}]
  BY DEF IInv, EvidenceInv, Generation
<1>2. pass1["discovery"] = RunPass1(D) /\ Mismatch(RunPass1(D))
  BY DEF IInv, DiscoveryInv
<1>3. /\ Proceed(RunPass0(D))
      /\ \A r \in Role : D[r].level = "array_exact" /\ D[r].ids \in TokenIds
      /\ ref # cand
      /\ pass1["discovery"] = Located(ref, cand)
  BY <1>1, <1>2, MismatchEvidence
<1>4. report'.token = Located(ref, cand)
  BY <1>3
<1>5. PICK n : n = FirstMismatchStep(ref, cand)
  OBVIOUS
<1>6. ref \in TokenIds /\ cand \in TokenIds
  BY <1>3 DEF Role
<1>7. /\ n <= Shorter(ref, cand)
      /\ \A i \in 1 .. n : ref[i] = cand[i]
      /\ TokenAt(ref, n) # TokenAt(cand, n)
  BY <1>3, <1>5, <1>6, FirstMismatch
<1>8. /\ report'.token.step = n
      /\ report'.token.reference = TokenAt(ref, n)
      /\ report'.token.candidate = TokenAt(cand, n)
  BY <1>4, <1>5 DEF Located
<1>9. FirstDifference(report.token.step)'
  BY <1>7, <1>8 DEF FirstDifference, OfDiscovery
<1> QED
  BY <1>3, <1>9 DEF RegressionIsProven, MismatchIsNeverLost, BothExact, OfDiscovery

(* A report without localization that keeps what the discovery found. *)
LEMMA StopKeeps ==
    ASSUME IInv, pc # "done", NEW verdict, Stop(verdict, pass1["discovery"]),
           DOMAIN pass1' = Generation, DOMAIN pass3' = Generation,
           ~Early => verdict = "REGRESSION",
           Early => /\ verdict \notin {"PASS", "REGRESSION"}
                    /\ ~BothExact \/ ~Proceed(RunPass0(original["discovery"]))
    PROVE  IInv'
<1>1. /\ pc' = "done" /\ original' = original
      /\ report'.verdict = verdict /\ report'.token = pass1["discovery"]
      /\ report'.layer = LayerInterval(Entry, Entry)
      /\ UNCHANGED <<turn, generation, builds, runs>>
  BY DEF Stop, NoReportYet, runs
<1>2. RegressionIsProven' /\ MismatchIsNeverLost'
  <2>1. CASE Early
    BY <2>1, <1>1 DEF RegressionIsProven, MismatchIsNeverLost, BothExact, OfDiscovery
  <2>2. CASE ~Early
    BY <2>2, <1>1, RegressionReported
  <2> QED
    BY <2>1, <2>2
<1>3. LocalizationSurvivesRecapture'
  BY <1>1 DEF LocalizationSurvivesRecapture, LayerReported
<1> QED
  BY <1>1, <1>2, <1>3, Ends

(* A failure keeps a proven regression and proves none. *)
LEMMA FailKeeps ==
    ASSUME IInv, pc # "done", NEW class, Fail(class),
           Early => pc \in {"preflight", "originals"}
    PROVE  IInv'
<1>1. /\ Stop(FailureVerdict(class), pass1["discovery"])
      /\ pass1' = pass1 /\ pass3' = pass3
  BY DEF Fail, evidence
<1>2. DOMAIN pass1' = Generation /\ DOMAIN pass3' = Generation
  BY <1>1 DEF IInv, EvidenceInv
<1>3. ~Early => FailureVerdict(class) = "REGRESSION"
  BY DEF IInv, DiscoveryInv, FailureVerdict
<1>4. ASSUME Early
      PROVE  FailureVerdict(class) \notin {"PASS", "REGRESSION"} /\ ~BothExact
  <2>1. pass1["discovery"] = NoLocation("not_run")
        /\ original["discovery"]["candidate"] = NoReport
    BY <1>4 DEF IInv, DiscoveryInv
  <2> QED
    BY <2>1 DEF FailureVerdict, VerdictOfClass, Mismatch, NoLocation, BothExact,
                OfDiscovery, NoReport, Role
<1> QED
  BY <1>1, <1>2, <1>3, <1>4, StopKeeps

-------------------------------------------------------------------------------
LEMMA PreflightKeeps == ASSUME IInv, Preflight PROVE IInv'
<1>1. pc = "preflight" /\ pc' = "originals" /\ report' = report
      /\ UNCHANGED <<turn, generation, program, original, pass1, pass3>>
  BY DEF Preflight, Goto, builds, runs, evidence
<1>2. EvidenceInv'
  BY <1>1 DEF IInv, EvidenceInv, Locations
<1>3. DiscoveryInv'
  BY <1>1 DEF IInv, DiscoveryInv, Early
<1>4. RecaptureInv'
  BY <1>1 DEF RecaptureInv
<1> QED
  BY <1>1, <1>2, <1>3, <1>4, GoesOn

LEMMA RunFailsKeeps == ASSUME IInv, RunFails PROVE IInv'
<1>1. PICK class \in Classification : Fail(class)
  BY DEF RunFails
<1>2. pc \in {"preflight", "originals", "reruns"}
  BY DEF RunFails
<1> QED
  BY <1>1, <1>2, FailKeeps DEF Early

LEMMA RunOriginalKeeps == ASSUME IInv, RunOriginal PROVE IInv'
<1>1. /\ pc = "originals" /\ report' = report
      /\ UNCHANGED <<generation, program, pass1, pass3, rerun>>
      /\ turn' = IF turn = "reference" THEN "candidate" ELSE "reference"
      /\ pc' = IF turn = "reference" THEN pc ELSE "calibrate"
  BY DEF RunOriginal, NextRole, evidence
<1>2. PICK ids \in TokenIds \cup {<<>>} :
          /\ (ids = <<>>) = (program[turn].level # "array_exact")
          /\ original' = [original EXCEPT ![generation][turn] =
                              [program[turn] EXCEPT !.ids = ids]]
  BY DEF RunOriginal
<1>3. [program[turn] EXCEPT !.ids = ids] \in RunReport
  <2>1. program[turn] \in RunReport
    BY DEF IInv, EvidenceInv
  <2>2. CASE program[turn].level = "array_exact"
    <3>1. ids \in TokenIds
      BY <1>2, <2>2
    <3>2. program[turn] \in [level : {"array_exact"}, ids : TokenIds, config : Config]
      BY <2>1, <2>2 DEF RunReport
    <3> QED
      BY <3>1, <3>2 DEF RunReport
  <2>3. CASE program[turn].level # "array_exact"
    <3>1. ids = <<>>
      BY <1>2, <2>3
    <3>2. program[turn] \in
              [level : {"digest_only", "missing"}, ids : {<<>>}, config : Config]
      BY <2>1, <2>3 DEF RunReport
    <3> QED
      BY <3>1, <3>2 DEF RunReport
  <2> QED
    BY <2>2, <2>3
<1>4. EvidenceInv'
  BY <1>1, <1>2, <1>3 DEF IInv, EvidenceInv, Locations, Role
<1>5. DiscoveryInv'
  <2>1. CASE generation = "discovery"
    <3>1. Early
      BY <2>1, <1>1 DEF Early
    <3>2. pass1'["discovery"] = NoLocation("not_run")
      BY <3>1, <1>1 DEF IInv, DiscoveryInv
    <3>3. pc' = "originals" => original'["discovery"]["candidate"] = NoReport
      <4> SUFFICES ASSUME pc' = "originals"
                   PROVE  original'["discovery"]["candidate"] = NoReport
        OBVIOUS
      <4>1. turn = "reference"
        BY <1>1
      <4> QED
        BY <4>1, <3>1, <2>1, <1>1, <1>2 DEF IInv, EvidenceInv, DiscoveryInv, Role, Generation
    <3> QED
      BY <3>1, <3>2, <3>3, <1>1, <2>1 DEF DiscoveryInv, Early
  <2>2. CASE generation = "recapture"
    <3>1. original'["discovery"] = original["discovery"]
      BY <2>2, <1>2 DEF IInv, EvidenceInv, Generation
    <3> QED
      BY <3>1, <2>2, <1>1 DEF IInv, DiscoveryInv, Early
  <2> QED
    BY <2>1, <2>2 DEF IInv, EvidenceInv, Generation
<1>6. RecaptureInv'
  BY <1>1 DEF RecaptureInv
<1> QED
  BY <1>1, <1>4, <1>5, <1>6, GoesOn

LEMMA CalibrateKeeps == ASSUME IInv, Calibrate PROVE IInv'
<1>1. pc = "calibrate" /\ pass1' = pass1 /\ pass3' = pass3
  BY DEF Calibrate, evidence
<1>2. CASE generation = "discovery" /\ ~Proceed(RunPass0(original["discovery"]))
  <2>1. Stop("UNSUPPORTED", pass1["discovery"]) /\ Early
    BY <1>1, <1>2 DEF Calibrate, Early
  <2> QED
    BY <1>1, <1>2, <2>1, StopKeeps DEF IInv, EvidenceInv
<1>3. CASE ~(generation = "discovery" /\ ~Proceed(RunPass0(original["discovery"])))
  <2>1. /\ pc' = "locate" /\ report' = report
        /\ UNCHANGED <<turn, generation, program, original>>
    BY <1>3 DEF Calibrate, Goto, builds, runs
  <2>2. EvidenceInv'
    BY <1>1, <2>1 DEF IInv, EvidenceInv, Locations
  <2>3. DiscoveryInv'
    BY <1>1, <1>3, <2>1 DEF IInv, DiscoveryInv, Early
  <2>4. RecaptureInv'
    BY <2>1 DEF RecaptureInv
  <2> QED
    BY <1>1, <2>1, <2>2, <2>3, <2>4, GoesOn
<1> QED
  BY <1>2, <1>3

LEMMA LocateTokenKeeps == ASSUME IInv, LocateToken PROVE IInv'
<1> DEFINE found == RunPass1(original[generation])
<1>1. /\ pc = "locate"
      /\ pass1' = [pass1 EXCEPT ![generation] = found]
      /\ pass3' = pass3
      /\ DOMAIN pass1' = Generation /\ DOMAIN pass3' = Generation
      /\ generation \in Generation
  BY DEF LocateToken, IInv, EvidenceInv
<1>2. CASE Mismatch(found)
  <2>1. /\ pc' = "reruns" /\ report' = report
        /\ UNCHANGED <<turn, generation, program, original>>
    BY <1>2 DEF LocateToken, Goto, builds, runs
  <2>2. EvidenceInv'
    BY <1>1, <2>1 DEF IInv, EvidenceInv, Locations
  <2>3. pass1'[generation] = found
    BY <1>1 DEF IInv, EvidenceInv
  <2>4. DiscoveryInv'
    <3>1. CASE generation = "discovery"
      BY <3>1, <1>2, <2>1, <2>3 DEF DiscoveryInv, Early
    <3>2. CASE generation = "recapture"
      <4>1. pass1'["discovery"] = pass1["discovery"]
        BY <3>2, <1>1 DEF IInv, EvidenceInv, Generation
      <4> QED
        BY <4>1, <3>2, <1>1, <2>1 DEF IInv, DiscoveryInv, Early
    <3> QED
      BY <3>1, <3>2, <1>1 DEF Generation
  <2>5. RecaptureInv'
    BY <1>2, <2>1, <2>3 DEF RecaptureInv
  <2> QED
    BY <1>1, <2>1, <2>2, <2>4, <2>5, GoesOn
<1>3. CASE ~Mismatch(found) /\ generation = "recapture"
  <2>1. Stop(FailureVerdict("harness_error"), pass1["discovery"])
    BY <1>3 DEF LocateToken
  <2>2. ~Early
    BY <1>3 DEF Early
  <2>3. FailureVerdict("harness_error") = "REGRESSION"
    BY <2>2, <1>1 DEF IInv, DiscoveryInv, FailureVerdict
  <2> QED
    BY <1>1, <2>1, <2>2, <2>3, StopKeeps
<1>4. CASE ~Mismatch(found) /\ generation = "discovery"
  <2>1. PICK verdict \in {"PASS", "INCONCLUSIVE"} :
            /\ Stop(verdict, found)
            /\ (verdict = "PASS") =>
                    found.status = "token_equivalent_on_observed_range"
    BY <1>4 DEF LocateToken
  <2>2. /\ pc' = "done" /\ report'.verdict = verdict /\ original' = original
        /\ report'.layer = LayerInterval(Entry, Entry)
        /\ UNCHANGED <<turn, generation, builds, runs>>
    BY <2>1 DEF Stop, NoReportYet, runs
  <2>3. Proceed(RunPass0(original["discovery"]))
    BY <1>1, <1>4 DEF IInv, DiscoveryInv, Early
  <2>4. verdict = "PASS" =>
            BothExact /\ OfDiscovery("reference").ids = OfDiscovery("candidate").ids
    <3> SUFFICES ASSUME found.status = "token_equivalent_on_observed_range"
                 PROVE  BothExact
                        /\ OfDiscovery("reference").ids = OfDiscovery("candidate").ids
      BY <2>1
    <3>1. {OfDiscovery("reference").level, OfDiscovery("candidate").level}
              = {"array_exact"}
          /\ OfDiscovery("reference").ids = OfDiscovery("candidate").ids
      BY <1>4 DEF RunPass1, RunTokenLocalization, NoLocation, Located, OfDiscovery
    <3>2. OfDiscovery("reference").level = "array_exact"
          /\ OfDiscovery("candidate").level = "array_exact"
      BY <3>1
    <3> QED
      BY <3>1, <3>2 DEF BothExact, Role
  <2>5. RegressionIsProven'
    BY <2>2, <2>3, <2>4 DEF RegressionIsProven, BothExact, OfDiscovery
  <2>6. ~(BothExact /\ OfDiscovery("reference").ids # OfDiscovery("candidate").ids)
    BY <1>4, <2>3, MismatchFound DEF BothExact, OfDiscovery
  <2>7. MismatchIsNeverLost'
    BY <2>2, <2>6 DEF MismatchIsNeverLost, BothExact, OfDiscovery
  <2>8. LocalizationSurvivesRecapture'
    BY <2>2 DEF LocalizationSurvivesRecapture, LayerReported
  <2> QED
    BY <1>1, <2>2, <2>5, <2>7, <2>8, Ends
<1> QED
  BY <1>1, <1>2, <1>3, <1>4 DEF Generation

LEMMA BindingFailsKeeps == ASSUME IInv, BindingFails PROVE IInv'
<1>1. pc = "reruns" /\ Fail("harness_error")
  BY DEF BindingFails
<1> QED
  BY <1>1, FailKeeps DEF Early

LEMMA RunRerunKeeps == ASSUME IInv, RunRerun PROVE IInv'
<1>1. /\ pc = "reruns" /\ pc' \in {"reruns", "reproduce"} /\ report' = report
      /\ UNCHANGED <<generation, program, original, pass1, pass3>>
      /\ turn' \in Role
  BY DEF RunRerun, NextRole, evidence, Role
<1>2. EvidenceInv'
  BY <1>1 DEF IInv, EvidenceInv, Locations
<1>3. DiscoveryInv'
  BY <1>1 DEF IInv, DiscoveryInv, Early
<1>4. RecaptureInv'
  BY <1>1 DEF IInv, RecaptureInv
<1> QED
  BY <1>1, <1>2, <1>3, <1>4, GoesOn

LEMMA ReproduceKeeps == ASSUME IInv, Reproduce PROVE IInv'
<1>1. /\ pc = "reproduce" /\ ~Early /\ pass1' = pass1 /\ pass3' = pass3
      /\ DOMAIN pass1' = Generation /\ DOMAIN pass3' = Generation
  BY DEF Reproduce, Early, evidence, IInv, EvidenceInv
<1>2. CASE Fail("harness_error")
  BY <1>1, <1>2, FailKeeps
<1>3. CASE Stop("REGRESSION", pass1["discovery"])
  BY <1>1, <1>3, StopKeeps
<1>4. CASE Goto("layers") /\ UNCHANGED <<turn, generation, builds, runs>>
           /\ ~BoundaryDrifted
  <2>1. /\ pc' = "layers" /\ report' = report
        /\ UNCHANGED <<turn, generation, program, original>>
    BY <1>4 DEF Goto, builds, runs
  <2>2. EvidenceInv'
    BY <1>1, <2>1 DEF IInv, EvidenceInv, Locations
  <2>3. DiscoveryInv'
    BY <1>1, <2>1 DEF IInv, DiscoveryInv, Early
  <2>4. RecaptureInv'
    BY <1>1, <1>4, <2>1 DEF IInv, RecaptureInv, BoundaryDrifted
  <2> QED
    BY <1>1, <2>1, <2>2, <2>3, <2>4, GoesOn
<1> QED
  BY <1>2, <1>3, <1>4 DEF Reproduce

(* A layer localization ends its interval at the layer it names. *)
LEMMA IntervalEndsAtLayer ==
    ASSUME NEW p, NEW ref, NEW cand
    PROVE  LayerLocalization(p, ref, cand).interval.upto
               = LayerLocalization(p, ref, cand).layer
BY DEF LayerLocalization, LayerInterval

LEMMA LocateLayerKeeps == ASSUME IInv, LocateLayer PROVE IInv'
<1> DEFINE found == LayerLocalization(pass1[generation], rerun["reference"],
                                      rerun["candidate"])
<1>1. /\ pc = "layers" /\ ~Early
      /\ pass3' = [pass3 EXCEPT ![generation] = found]
      /\ pass1' = pass1
      /\ DOMAIN pass1' = Generation /\ DOMAIN pass3' = Generation
  BY DEF LocateLayer, Early, IInv, EvidenceInv
<1>2. CASE Stop("REGRESSION", pass1["discovery"])
  BY <1>1, <1>2, StopKeeps
<1>3. CASE /\ generation = "discovery" /\ generation' = "recapture"
           /\ Goto("originals") /\ UNCHANGED <<turn, builds, runs>>
  <2>1. /\ pc' = "originals" /\ report' = report
        /\ UNCHANGED <<turn, program, original>>
    BY <1>3 DEF Goto, builds, runs
  <2>2. EvidenceInv'
    BY <1>1, <1>3, <2>1 DEF IInv, EvidenceInv, Locations, Generation
  <2>3. DiscoveryInv'
    BY <1>1, <1>3, <2>1 DEF IInv, DiscoveryInv, Early
  <2>4. RecaptureInv'
    BY <2>1 DEF RecaptureInv
  <2> QED
    BY <1>1, <2>1, <2>2, <2>3, <2>4, GoesOn
<1>4. CASE /\ generation = "recapture" => found.layer = pass3["discovery"].layer
           /\ generation = "recapture"
           /\ Goto("stages") /\ UNCHANGED <<turn, generation, builds, runs>>
  <2>1. /\ pc' = "stages" /\ report' = report
        /\ UNCHANGED <<turn, generation, program, original>>
    BY <1>4 DEF Goto, builds, runs
  <2>2. EvidenceInv'
    BY <1>1, <2>1 DEF IInv, EvidenceInv, Locations
  <2>3. DiscoveryInv'
    BY <1>1, <2>1 DEF IInv, DiscoveryInv, Early
  <2>4. /\ pass3'["recapture"] = found
        /\ pass3'["discovery"] = pass3["discovery"]
    BY <1>1, <1>4 DEF IInv, EvidenceInv, Generation
  <2>5. RecaptureInv'
    BY <1>1, <1>4, <2>1, <2>4, IntervalEndsAtLayer DEF IInv, RecaptureInv
  <2> QED
    BY <1>1, <2>1, <2>2, <2>3, <2>5, GoesOn
<1>5. generation \in {"discovery", "recapture"}
  BY DEF IInv, EvidenceInv, Generation
<1> QED
  BY <1>2, <1>3, <1>4, <1>5 DEF LocateLayer

LEMMA LocateStageKeeps == ASSUME IInv, LocateStage PROVE IInv'
<1>1. /\ pc = "stages" /\ ~Early /\ pass1' = pass1 /\ pass3' = pass3
      /\ DOMAIN pass1' = Generation /\ DOMAIN pass3' = Generation
      /\ pc' = "done" /\ UNCHANGED <<turn, generation, builds, runs>>
      /\ original' = original
  BY DEF LocateStage, Early, evidence, runs, IInv, EvidenceInv
<1>2. /\ report'.verdict = "REGRESSION" /\ report'.token = pass1["discovery"]
      /\ report'.layer = pass3["recapture"].interval
  BY DEF LocateStage
<1>3. RegressionIsProven' /\ MismatchIsNeverLost' /\ FirstDifference(report.token.step)'
  BY <1>1, <1>2, RegressionReported
<1>4. /\ pass1["recapture"] = RunPass1(original["recapture"])
      /\ Mismatch(RunPass1(original["recapture"]))
      /\ SameBoundary(pass1["recapture"], pass1["discovery"])
      /\ pass3["recapture"].layer = pass3["discovery"].layer
      /\ pass3["recapture"].interval.upto = pass3["recapture"].layer
  BY <1>1 DEF IInv, RecaptureInv
<1>5. original["recapture"] \in [Role -> RunReport \cup {NoReport}]
  BY DEF IInv, EvidenceInv, Generation
<1>6. pass1["recapture"] = Located(original["recapture"]["reference"].ids,
                                   original["recapture"]["candidate"].ids)
  BY <1>4, <1>5, MismatchEvidence
<1>7. LocalizationSurvivesRecapture'
  <2>1. SameBoundary(Located(original["recapture"]["reference"].ids,
                             original["recapture"]["candidate"].ids), report.token)'
    BY <1>1, <1>2, <1>4, <1>6 DEF SameBoundary
  <2>2. \A g \in Generation : pass3'[g].layer = report'.layer.upto
    BY <1>1, <1>2, <1>4 DEF Generation
  <2> QED
    BY <1>3, <2>1, <2>2 DEF LocalizationSurvivesRecapture
<1> QED
  BY <1>1, <1>3, <1>7, Ends

LEMMA StutterKeeps == ASSUME IInv, UNCHANGED vars PROVE IInv'
BY DEF IInv, EvidenceInv, DiscoveryInv, RecaptureInv, ReportInv, Early, vars, builds, runs,
       evidence, RegressionIsProven, MismatchIsNeverLost, LocalizationSurvivesRecapture,
       FirstDifference, BothExact, OfDiscovery, LayerReported

(* The strengthened invariant holds in every state of every behaviour. *)
THEOREM Invariance == Spec => []IInv
<1>1. Init => IInv
  BY InitOK
<1>2. IInv /\ [Next]_vars => IInv'
  BY PreflightKeeps, RunFailsKeeps, RunOriginalKeeps, CalibrateKeeps, LocateTokenKeeps,
     BindingFailsKeeps, RunRerunKeeps, ReproduceKeeps, LocateLayerKeeps,
     LocateStageKeeps, StutterKeeps DEF Next
<1> QED
  BY <1>1, <1>2, PTL DEF Spec

(* PASS and REGRESSION rest on the exact tokens of the first two runs. *)
THEOREM RegressionCorrect == Spec => []RegressionIsProven
<1>1. IInv => RegressionIsProven
  BY DEF IInv, ReportInv
<1> QED
  BY <1>1, Invariance, PTL

(* A mismatch that Pass 1 has found decides the verdict. *)
THEOREM MismatchCorrect == Spec => []MismatchIsNeverLost
<1>1. IInv => MismatchIsNeverLost
  BY DEF IInv, ReportInv
<1> QED
  BY <1>1, Invariance, PTL

(* A layer is reported only if the recapture confirmed tokens and layer. *)
THEOREM LocalizationCorrect == Spec => []LocalizationSurvivesRecapture
<1>1. IInv => LocalizationSurvivesRecapture
  BY DEF IInv, ReportInv
<1> QED
  BY <1>1, Invariance, PTL

-------------------------------------------------------------------------------
(***************************************************************************)
(* The intervals.  OnsetInv adds what the traces hold and, once both       *)
(* passes over layers are done, that the second one is about these traces: *)
(* they are the ones its stages are compared in.                           *)
(***************************************************************************)
TracesInv ==
    /\ DOMAIN rerun = Role
    /\ \A r \in Role : /\ rerun[r].captured \subseteq Layers
                       /\ rerun[r].stage_captured \subseteq Stages

OnsetInv ==
    /\ TracesInv
    /\ pc = "stages" =>
           /\ pass3["recapture"] = LayerLocalization(pass1["recapture"],
                                       rerun["reference"], rerun["candidate"])
           /\ LayerFound(pass3["recapture"])
    /\ IntervalsHoldOnset

(* A nonempty, bounded set of natural numbers has a greatest element: Max. *)
LEMMA MaxExists ==
    ASSUME NEW b \in Nat, NEW S, S \subseteq 0 .. b, S # {}
    PROVE  Max(S) \in S /\ \A n \in S : n <= Max(S)
<1> DEFINE R == {b - n : n \in S}
<1>1. R \subseteq Nat /\ R # {}
  <2>1. \A n \in S : b - n \in Nat
    OBVIOUS
  <2>2. PICK n \in S : TRUE
    OBVIOUS
  <2> QED
    BY <2>1, <2>2
<1>2. Min(R) \in R /\ \A n \in R : Min(R) <= n
  <2> HIDE DEF R
  <2> QED
    BY <1>1, MinExists
<1>3. PICK m \in S : Min(R) = b - m
  BY <1>2
<1>4. \A n \in S : b - m <= b - n
  BY <1>2, <1>3
<1>5. m \in S /\ \A n \in S : m >= n
  <2> SUFFICES ASSUME NEW n \in S PROVE m >= n
    OBVIOUS
  <2>1. m \in Int /\ n \in Int /\ b - m <= b - n
    BY <1>4
  <2> QED
    BY <2>1
<1>6. Max(S) \in S /\ \A n \in S : Max(S) >= n
  BY <1>5 DEF Max
<1>7. Max(S) \in Int /\ \A n \in S : n \in Int
  <2>1. Max(S) \in 0 .. b /\ \A n \in S : n \in 0 .. b
    BY <1>6
  <2> QED
    BY <2>1
<1> QED
  BY <1>6, <1>7

(* Between a place outside of a set and a later one in it, the set is entered. *)
LEMMA OnsetExists ==
    ASSUME NEW d, NEW after \in Int, NEW upto \in Int, after < upto,
           after \notin d, upto \in d
    PROVE  \E l \in after + 1 .. upto : l \in d /\ l - 1 \notin d
<1> DEFINE S == {k \in 1 .. upto - after : after + k \in d}
<1>1. S \subseteq Nat /\ S # {}
  <2>1. upto - after \in 1 .. upto - after /\ after + (upto - after) = upto
    OBVIOUS
  <2>2. upto - after \in S
    BY <2>1
  <2>3. S \subseteq Nat
    OBVIOUS
  <2> QED
    BY <2>2, <2>3
<1>2. PICK m : m \in S /\ \A k \in S : m <= k
  <2> HIDE DEF S
  <2> QED
    BY <1>1, MinExists
<1>3. m \in 1 .. upto - after /\ after + m \in d
  BY <1>2
<1>4. (after + m) - 1 \notin d
  <2>1. CASE m = 1
    BY <2>1
  <2>2. CASE m # 1
    <3>1. m - 1 \in 1 .. upto - after /\ (after + m) - 1 = after + (m - 1) /\ ~(m <= m - 1)
      BY <1>3, <2>2
    <3> QED
      BY <1>2, <3>1
  <2> QED
    BY <2>1, <2>2
<1>5. after + m \in after + 1 .. upto
  BY <1>3
<1> QED
  BY <1>3, <1>4, <1>5

(* Pass 3 names the first captured layer whose digests differ and the last  *)
(* captured one before it, whose digests are equal.                         *)
LEMMA LayerLocalizationIs ==
    ASSUME NEW p, NEW ref, NEW cand,
           ref.captured \subseteq Layers, cand.captured \subseteq Layers,
           LayerFound(LayerLocalization(p, ref, cand))
    PROVE  LET found == LayerLocalization(p, ref, cand) IN
           /\ found.interval = LayerInterval(found.interval.after, found.layer)
           /\ found.layer \in Layers /\ ref.layers[found.layer] # cand.layers[found.layer]
           /\ \/ found.interval.after = Entry
              \/ /\ found.interval.after \in Layers
                 /\ ref.layers[found.interval.after] = cand.layers[found.interval.after]
           /\ found.interval.after < found.layer
<1> DEFINE found == LayerLocalization(p, ref, cand)
           common == ref.captured \cap cand.captured
           differ == {l \in common : ref.layers[l] # cand.layers[l]}
           before == {l \in common : l < Min(differ)}
<1>1. common \subseteq 0 .. LayerCount - 1 /\ LayerCount \in Nat \ {0}
  BY RealPipelineAssumption DEF Layers
<1>2. /\ differ # {}
      /\ found.layer = Min(differ)
      /\ found.interval = LayerInterval(IF before = {} THEN Entry ELSE Max(before),
                                        Min(differ))
  BY DEF LayerLocalization, LayerFound
<1>3. /\ Min(differ) \in differ /\ \A l \in differ : Min(differ) <= l
  <2>1. differ \subseteq Nat
    BY <1>1
  <2> HIDE DEF differ
  <2> QED
    BY <1>2, <2>1, MinExists
<1>4. Min(differ) \in Layers /\ ref.layers[Min(differ)] # cand.layers[Min(differ)]
  BY <1>1, <1>3 DEF Layers
<1>5. CASE before = {}
  BY <1>1, <1>2, <1>4, <1>5 DEF Entry, LayerInterval, Layers
<1>6. CASE before # {}
  <2>1. before \subseteq 0 .. LayerCount - 1 /\ LayerCount - 1 \in Nat
    BY <1>1
  <2>2. Max(before) \in before
    <3> HIDE DEF before
    <3> QED
      BY <1>6, <2>1, MaxExists
  <2>3. Max(before) \in common /\ Max(before) < Min(differ)
    BY <2>2
  <2>4. Max(before) \notin differ
    <3> SUFFICES ASSUME Max(before) \in differ PROVE FALSE
      OBVIOUS
    <3>1. Min(differ) \in common /\ Max(before) \in common /\ Min(differ) <= Max(before)
      BY <1>3, <2>3
    <3>2. Min(differ) \in Int /\ Max(before) \in Int
      BY <1>1, <3>1
    <3> QED
      BY <2>3, <3>1, <3>2
  <2>5. Max(before) \in Layers /\ ref.layers[Max(before)] = cand.layers[Max(before)]
    BY <1>1, <2>3, <2>4 DEF Layers
  <2> QED
    BY <1>2, <1>4, <1>6, <2>3, <2>5 DEF LayerInterval
<1> QED
  BY <1>5, <1>6

(* Pass 4 does the same with stages; without a difference its interval ends *)
(* at the output of the layer.                                              *)
LEMMA StageLocalizationIs ==
    ASSUME NEW ref, NEW cand,
           ref.stage_captured \subseteq Stages, cand.stage_captured \subseteq Stages,
           NEW found, found = IntraLayerLocalization(ref, cand),
           found.interval # StageInterval(Entry, Entry)
    PROVE  /\ \/ found.interval.after = Entry
              \/ /\ found.interval.after \in Stages
                 /\ ref.stages[found.interval.after] = cand.stages[found.interval.after]
           /\ \/ found.interval.upto = Output /\ found.interval.after # Entry
              \/ /\ found.interval.upto \in Stages
                 /\ ref.stages[found.interval.upto] # cand.stages[found.interval.upto]
           /\ found.interval.after < found.interval.upto
<1> DEFINE common == ref.stage_captured \cap cand.stage_captured
           differ == {s \in common : ref.stages[s] # cand.stages[s]}
           before == {s \in common : s < Min(differ)}
<1>1. common \subseteq 0 .. StageCount - 1 /\ StageCount \in Nat \ {0}
  BY LocalizationAssumption DEF Stages
<1>2. common # {}
  BY DEF IntraLayerLocalization, StageInterval
<1>3. CASE differ = {}
  <2>1. found.interval = StageInterval(Max(common), Output)
    BY <1>2, <1>3 DEF IntraLayerLocalization
  <2>2. Max(common) \in common
    <3>1. StageCount - 1 \in Nat
      BY <1>1
    <3> HIDE DEF common
    <3> QED
      BY <1>1, <1>2, <3>1, MaxExists
  <2>3. Max(common) \in Stages /\ ref.stages[Max(common)] = cand.stages[Max(common)]
    BY <1>1, <1>3, <2>2 DEF Stages
  <2> QED
    BY <1>1, <2>1, <2>3 DEF Stages, StageInterval, Output, Entry
<1>4. CASE differ # {}
  <2>1. found.interval = StageInterval(IF before = {} THEN Entry ELSE Max(before),
                                       Min(differ))
    BY <1>2, <1>4 DEF IntraLayerLocalization
  <2>2. /\ Min(differ) \in differ /\ \A s \in differ : Min(differ) <= s
    <3>1. differ \subseteq Nat
      BY <1>1
    <3> HIDE DEF differ
    <3> QED
      BY <1>4, <3>1, MinExists
  <2>3. Min(differ) \in Stages /\ ref.stages[Min(differ)] # cand.stages[Min(differ)]
    BY <1>1, <2>2 DEF Stages
  <2>4. CASE before = {}
    BY <1>1, <2>1, <2>3, <2>4 DEF Entry, StageInterval, Stages
  <2>5. CASE before # {}
    <3>1. before \subseteq 0 .. StageCount - 1 /\ StageCount - 1 \in Nat
      BY <1>1
    <3>2. Max(before) \in before
      <4> HIDE DEF before
      <4> QED
        BY <2>5, <3>1, MaxExists
    <3>3. Max(before) \in common /\ Max(before) < Min(differ)
      BY <3>2
    <3>4. Max(before) \notin differ
      <4> SUFFICES ASSUME Max(before) \in differ PROVE FALSE
        OBVIOUS
      <4>1. Min(differ) \in common /\ Max(before) \in common /\ Min(differ) <= Max(before)
        BY <2>2, <3>3
      <4>2. Min(differ) \in Int /\ Max(before) \in Int
        BY <1>1, <4>1
      <4> QED
        BY <3>3, <4>1, <4>2
    <3>5. Max(before) \in Stages /\ ref.stages[Max(before)] = cand.stages[Max(before)]
      BY <1>1, <3>3, <3>4 DEF Stages
    <3> QED
      BY <2>1, <2>3, <2>5, <3>3, <3>5 DEF StageInterval
  <2> QED
    BY <2>4, <2>5
<1> QED
  BY <1>3, <1>4

(* A report without layers says nothing about an interval. *)
LEMMA NothingReported ==
    ASSUME report.layer = LayerInterval(Entry, Entry),
           report.stage = StageInterval(Entry, Entry)
    PROVE  IntervalsHoldOnset
BY DEF IntervalsHoldOnset, LayerReported, StageReported

LEMMA StoppedWithoutLayers ==
    ASSUME NEW verdict, NEW location, Stop(verdict, location)
    PROVE  IntervalsHoldOnset' /\ pc' = "done" /\ rerun' = rerun
<1>1. /\ report'.layer = LayerInterval(Entry, Entry)
      /\ report'.stage = StageInterval(Entry, Entry)
      /\ pc' = "done" /\ rerun' = rerun
  BY DEF Stop, NoReportYet, runs
<1> QED
  BY <1>1 DEF IntervalsHoldOnset, LayerReported, StageReported

LEMMA GoesOnWithoutLayers ==
    ASSUME IInv, pc # "done", report' = report
    PROVE  IntervalsHoldOnset'
<1>1. /\ report'.layer = LayerInterval(Entry, Entry)
      /\ report'.stage = StageInterval(Entry, Entry)
  BY DEF IInv, ReportInv, NoReportYet
<1> QED
  BY <1>1 DEF IntervalsHoldOnset, LayerReported, StageReported

LEMMA TracesKept == ASSUME TracesInv, rerun' = rerun PROVE TracesInv'
BY DEF TracesInv

LEMMA FailKeepsOnset ==
    ASSUME OnsetInv, NEW class, Fail(class) PROVE OnsetInv'
<1>1. Stop(FailureVerdict(class), pass1["discovery"])
  BY DEF Fail
<1>2. IntervalsHoldOnset' /\ pc' = "done" /\ rerun' = rerun
  BY <1>1, StoppedWithoutLayers
<1> QED
  BY <1>2, TracesKept DEF OnsetInv

(* A rerun holds sampled layers and stages of a layer, or nothing. *)
LEMMA RunRerunKeepsOnset ==
    ASSUME IInv, OnsetInv, RunRerun PROVE OnsetInv'
<1>1. /\ pc = "reruns" /\ pc' \in {"reruns", "reproduce"} /\ report' = report
  BY DEF RunRerun, NextRole
<1>2. PICK ids \in PossibleIds : \E run \in Reruns(turn, ids) :
          rerun' = [rerun EXCEPT ![turn] = run]
  BY DEF RunRerun
<1>3. PICK run \in Reruns(turn, ids) : rerun' = [rerun EXCEPT ![turn] = run]
  BY <1>2
<1>4. run.captured \subseteq Layers /\ run.stage_captured \subseteq Stages
  <2>1. CASE ~ReachesCheckpoint(ids)
    <3>1. run = [NoRerun EXCEPT !.forced = Prefix, !.ids = ids, !.target = Target]
      BY <1>3, <2>1 DEF Reruns
    <3>2. run.captured = {} /\ run.stage_captured = {}
      BY <3>1 DEF NoRerun
    <3> QED
      BY <3>2
  <2>2. CASE ReachesCheckpoint(ids)
    <3>1. run.captured = Selected /\ run.stage_captured \in Captures
      BY <1>3, <2>2 DEF Reruns
    <3>2. Captures \subseteq SUBSET Stages
      BY RealPipelineAssumption DEF Captures
    <3> QED
      BY <3>1, <3>2, RealPipelineAssumption DEF Layers
  <2> QED
    BY <2>1, <2>2
<1>5. TracesInv'
  BY <1>3, <1>4 DEF OnsetInv, TracesInv
<1>6. IntervalsHoldOnset'
  BY <1>1, GoesOnWithoutLayers
<1> QED
  BY <1>1, <1>5, <1>6 DEF OnsetInv

LEMMA LocateLayerKeepsOnset ==
    ASSUME IInv, OnsetInv, LocateLayer PROVE OnsetInv'
<1> DEFINE found == LayerLocalization(pass1[generation], rerun["reference"],
                                      rerun["candidate"])
<1>1. /\ pc = "layers"
      /\ pass3' = [pass3 EXCEPT ![generation] = found]
      /\ pass1' = pass1 /\ DOMAIN pass3 = Generation /\ generation \in Generation
  BY DEF LocateLayer, IInv, EvidenceInv
<1>2. CASE Stop("REGRESSION", pass1["discovery"])
  <2>1. IntervalsHoldOnset' /\ pc' = "done" /\ rerun' = rerun
    BY <1>2, StoppedWithoutLayers
  <2> QED
    BY <2>1, TracesKept DEF OnsetInv
<1>3. CASE Goto("originals") /\ UNCHANGED <<turn, builds, runs>>
  <2>1. pc' = "originals" /\ report' = report /\ rerun' = rerun
    BY <1>3 DEF Goto, runs
  <2>2. IntervalsHoldOnset'
    BY <1>1, <2>1, GoesOnWithoutLayers
  <2> QED
    BY <2>1, <2>2, TracesKept DEF OnsetInv
<1>4. CASE /\ LayerFound(found) /\ generation = "recapture"
           /\ Goto("stages") /\ UNCHANGED <<turn, generation, builds, runs>>
  <2>1. pc' = "stages" /\ report' = report /\ rerun' = rerun
    BY <1>4 DEF Goto, runs
  <2>2. pass3'["recapture"] = LayerLocalization(pass1'["recapture"],
                                  rerun'["reference"], rerun'["candidate"])
    BY <1>1, <1>4, <2>1
  <2>3. LayerFound(pass3["recapture"])'
    BY <1>1, <1>4 DEF LayerFound
  <2>4. IntervalsHoldOnset'
    BY <1>1, <2>1, GoesOnWithoutLayers
  <2> QED
    BY <2>1, <2>2, <2>3, <2>4, TracesKept DEF OnsetInv
<1> QED
  BY <1>1, <1>2, <1>3, <1>4 DEF LocateLayer, Generation

(* The report joins the intervals of both passes: a difference at the entry *)
(* of the layer is one at the output of the layer before it.                *)
LEMMA LocateStageKeepsOnset ==
    ASSUME IInv, OnsetInv, LocateStage PROVE OnsetInv'
<1> DEFINE ref == rerun["reference"]
           cand == rerun["candidate"]
           third == pass3["recapture"]
           fourth == IntraLayerLocalization(ref, cand)
           after == third.interval.after
           upto == third.interval.upto
           start == fourth.interval.after
           end == fourth.interval.upto
           layers == {l \in Layers : ref.layers[l] # cand.layers[l]}
           stages == {s \in Stages : ref.stages[s] # cand.stages[s]} \cup {Output}
                         \cup (IF upto - 1 \in layers THEN {Entry} ELSE {})
<1>1. /\ pc = "stages" /\ pc' = "done" /\ rerun' = rerun
      /\ report'.layer = third.interval
      /\ report'.stage \in {fourth.interval, StageInterval(Entry, Entry)}
  BY DEF LocateStage, runs
<1>2. /\ third = LayerLocalization(pass1["recapture"], ref, cand) /\ LayerFound(third)
      /\ ref.captured \subseteq Layers /\ cand.captured \subseteq Layers
      /\ ref.stage_captured \subseteq Stages /\ cand.stage_captured \subseteq Stages
  BY <1>1 DEF OnsetInv, TracesInv, Role
<1>3. /\ upto \in layers /\ after \notin layers /\ after < upto
      /\ after \in Int /\ upto \in Int /\ upto \in Layers
  <2>1. /\ third.interval = LayerInterval(after, third.layer)
        /\ third.layer \in Layers /\ ref.layers[third.layer] # cand.layers[third.layer]
        /\ \/ after = Entry
           \/ after \in Layers /\ ref.layers[after] = cand.layers[after]
        /\ after < third.layer
    BY <1>2, LayerLocalizationIs
  <2>2. upto = third.layer
    BY <2>1 DEF LayerInterval
  <2>3. Entry \notin Layers /\ Entry \in Int /\ Layers \subseteq Int
    BY RealPipelineAssumption DEF Entry, Layers
  <2>4. upto \in Layers /\ upto \in layers
    BY <2>1, <2>2
  <2>5. after \in Int /\ after \notin layers
    <3>1. CASE after = Entry
      <4> HIDE DEF after
      <4> QED
        BY <2>3, <3>1
    <3>2. CASE after \in Layers /\ ref.layers[after] = cand.layers[after]
      BY <2>3, <3>2
    <3> QED
      BY <2>1, <3>1, <3>2
  <2> HIDE DEF after, upto, layers
  <2> QED
    BY <2>1, <2>2, <2>3, <2>4, <2>5
<1>4. \A l : LayerDiffers(l)' <=> l \in layers
  BY <1>1 DEF LayerDiffers
<1>5. report'.layer.after = after /\ report'.layer.upto = upto
  BY <1>1
<1>6. OnsetInLayers(report.layer.after, report.layer.upto)'
  <2>1. \E l \in after + 1 .. upto : l \in layers /\ l - 1 \notin layers
    <3> HIDE DEF after, upto, layers
    <3> QED
      BY <1>3, OnsetExists
  <2> HIDE DEF layers, after, upto
  <2> QED
    BY <1>4, <1>5, <2>1 DEF OnsetInLayers
<1>7. ASSUME StageReported'
      PROVE  \/ OnsetInLayers(report.layer.after, report.layer.upto - 1)'
             \/ OnsetInStages(report.stage.after, report.stage.upto)'
  <2>1. report'.stage = fourth.interval /\ fourth.interval # StageInterval(Entry, Entry)
    BY <1>1, <1>7 DEF StageReported
  <2>2. CASE upto - 1 \in layers
    <3>1. after < upto - 1 /\ upto - 1 \in Int
      <4> HIDE DEF after, upto, layers
      <4>1. after # upto - 1
        BY <1>3, <2>2
      <4> QED
        BY <1>3, <4>1
    <3>2. \E l \in after + 1 .. upto - 1 : l \in layers /\ l - 1 \notin layers
      <4> HIDE DEF after, upto, layers
      <4> QED
        BY <1>3, <2>2, <3>1, OnsetExists
    <3> HIDE DEF layers, after, upto
    <3> QED
      BY <1>4, <1>5, <3>2 DEF OnsetInLayers
  <2>3. CASE upto - 1 \notin layers
    <3>1. /\ \/ start = Entry
             \/ start \in Stages /\ ref.stages[start] = cand.stages[start]
          /\ \/ end = Output
             \/ end \in Stages /\ ref.stages[end] # cand.stages[end]
          /\ start < end
      <4>1. PICK found : found = fourth
        OBVIOUS
      <4> HIDE DEF fourth
      <4>2. found = IntraLayerLocalization(ref, cand)
        BY <4>1 DEF fourth
      <4> QED
        BY <1>2, <2>1, <4>1, <4>2, StageLocalizationIs
    <3>2. /\ Entry = -1 /\ Output = StageCount /\ StageCount \in Nat \ {0}
          /\ Stages = 0 .. StageCount - 1
      BY LocalizationAssumption DEF Entry, Output, Stages
    <3>3. /\ start \in Int /\ end \in Int /\ start \notin stages /\ end \in stages
          /\ start >= Entry /\ end <= Output
      <4> HIDE DEF start, end
      <4> QED
        BY <2>3, <3>1, <3>2
    <3>4. \E s \in start + 1 .. end : s \in stages /\ s - 1 \notin stages
      <4> HIDE DEF start, end, stages
      <4> QED
        BY <3>1, <3>3, OnsetExists
    <3>5. \A s \in Entry .. Output : StageDiffers(s)' <=> s \in stages
      <4> SUFFICES ASSUME NEW s \in Entry .. Output
                   PROVE  StageDiffers(s)' <=> s \in stages
        OBVIOUS
      <4>1. CASE s = Entry
        <5>1. StageDiffers(s)' = LayerDiffers(report.layer.upto - 1)'
          BY <3>2, <4>1 DEF StageDiffers
        <5>2. s \notin stages
          BY <2>3, <3>2, <4>1
        <5>3. LayerDiffers(report.layer.upto - 1)' <=> upto - 1 \in layers
          <6> HIDE DEF layers, upto
          <6> QED
            BY <1>4, <1>5
        <5> HIDE DEF layers, stages, upto
        <5> QED
          BY <2>3, <5>1, <5>2, <5>3
      <4>2. CASE s = Output
        <5>1. StageDiffers(s)' = LayerDiffers(report.layer.upto)'
          BY <3>2, <4>2 DEF StageDiffers
        <5>2. s \in stages
          BY <4>2
        <5>3. LayerDiffers(report.layer.upto)' <=> upto \in layers
          <6> HIDE DEF layers, upto
          <6> QED
            BY <1>4, <1>5
        <5> HIDE DEF layers, stages, upto
        <5> QED
          BY <1>3, <5>1, <5>2, <5>3
      <4>3. CASE s # Entry /\ s # Output
        <5>1. StageDiffers(s)' <=> ref.stages[s] # cand.stages[s]
          BY <1>1, <4>3 DEF StageDiffers
        <5>2. s \in Stages
          BY <3>2, <4>3
        <5> QED
          BY <2>3, <4>3, <5>1, <5>2
      <4> QED
        BY <4>1, <4>2, <4>3
    <3>6. PICK s \in start + 1 .. end : s \in stages /\ s - 1 \notin stages
      BY <3>4
    <3>7. s \in Entry .. Output /\ s - 1 \in Entry .. Output
      <4> HIDE DEF start, end, stages
      <4> QED
        BY <3>2, <3>3, <3>6
    <3>8. StageDiffers(s)' /\ ~StageDiffers(s - 1)'
      <4> HIDE DEF stages
      <4> QED
        BY <3>5, <3>6, <3>7
    <3>9. report'.stage.after = start /\ report'.stage.upto = end
      BY <2>1
    <3> HIDE DEF start, end, stages
    <3> QED
      BY <3>6, <3>8, <3>9 DEF OnsetInStages
  <2> QED
    BY <2>2, <2>3
<1>8. IntervalsHoldOnset'
  BY <1>6, <1>7 DEF IntervalsHoldOnset
<1> QED
  BY <1>1, <1>8, TracesKept DEF OnsetInv

LEMMA OtherStepsKeepOnset ==
    ASSUME IInv, OnsetInv,
           Preflight \/ RunFails \/ RunOriginal \/ Calibrate \/ LocateToken
           \/ BindingFails \/ Reproduce
    PROVE  OnsetInv'
<1>1. CASE RunFails
  BY <1>1, FailKeepsOnset DEF RunFails
<1>2. CASE BindingFails
  BY <1>2, FailKeepsOnset DEF BindingFails
<1>3. ASSUME NEW verdict, NEW location, Stop(verdict, location) PROVE OnsetInv'
  <2>1. IntervalsHoldOnset' /\ pc' = "done" /\ rerun' = rerun
    BY <1>3, StoppedWithoutLayers
  <2> QED
    BY <2>1, TracesKept DEF OnsetInv
<1>4. ASSUME pc # "done", pc' \notin {"done", "stages"}, report' = report, rerun' = rerun
      PROVE  OnsetInv'
  <2>1. IntervalsHoldOnset'
    BY <1>4, GoesOnWithoutLayers
  <2> QED
    BY <1>4, <2>1, TracesKept DEF OnsetInv
<1>5. CASE Preflight
  BY <1>4, <1>5 DEF Preflight, Goto, runs
<1>6. CASE RunOriginal
  BY <1>4, <1>6 DEF RunOriginal, NextRole
<1>7. CASE Calibrate
  <2>1. CASE Stop("UNSUPPORTED", pass1["discovery"])
    BY <1>3, <2>1
  <2>2. CASE Goto("locate") /\ UNCHANGED <<turn, generation, builds, runs>>
    BY <1>4, <1>7, <2>2 DEF Calibrate, Goto, runs
  <2> QED
    BY <1>7, <2>1, <2>2 DEF Calibrate
<1>8. CASE LocateToken
  <2>1. ASSUME NEW verdict, NEW location, Stop(verdict, location) PROVE OnsetInv'
    BY <1>3, <2>1
  <2>2. CASE Goto("reruns") /\ UNCHANGED <<turn, generation, builds, runs>>
    BY <1>4, <1>8, <2>2 DEF LocateToken, Goto, runs
  <2> QED
    BY <1>8, <2>1, <2>2 DEF LocateToken
<1>9. CASE Reproduce
  <2>1. CASE Fail("harness_error")
    BY <2>1, FailKeepsOnset
  <2>2. CASE Stop("REGRESSION", pass1["discovery"])
    BY <1>3, <2>2
  <2>3. CASE Goto("layers") /\ UNCHANGED <<turn, generation, builds, runs>>
    BY <1>4, <1>9, <2>3 DEF Reproduce, Goto, runs
  <2> QED
    BY <1>9, <2>1, <2>2, <2>3 DEF Reproduce
<1> QED
  BY <1>1, <1>2, <1>5, <1>6, <1>7, <1>8, <1>9

LEMMA OnsetInvariance == Spec => []OnsetInv
<1>1. Init => OnsetInv
  <2> SUFFICES ASSUME Init PROVE OnsetInv
    OBVIOUS
  <2>1. TracesInv
    BY DEF Init, TracesInv, NoRerun
  <2>2. IntervalsHoldOnset
    BY NothingReported DEF Init, NoReportYet
  <2> QED
    BY <2>1, <2>2 DEF Init, OnsetInv
<1>2. IInv /\ OnsetInv /\ [Next]_vars => OnsetInv'
  <2>1. ASSUME OnsetInv, UNCHANGED vars PROVE OnsetInv'
    <3>1. UNCHANGED <<pc, rerun, pass1, pass3, report>>
      BY <2>1 DEF vars, runs, evidence
    <3>2. IntervalsHoldOnset'
      BY <2>1, <3>1 DEF OnsetInv, IntervalsHoldOnset, LayerReported, StageReported,
                        OnsetInLayers, OnsetInStages, LayerDiffers, StageDiffers
    <3> QED
      BY <2>1, <3>1, <3>2, TracesKept DEF OnsetInv
  <2> QED
    BY <2>1, OtherStepsKeepOnset, RunRerunKeepsOnset, LocateLayerKeepsOnset,
       LocateStageKeepsOnset DEF Next
<1> QED
  BY <1>1, <1>2, Invariance, PTL DEF Spec

(* The intervals of a report hold a place where the computation goes from    *)
(* equal to different, however sparsely the layers and stages were sampled.  *)
THEOREM OnsetCorrect == Spec => []IntervalsHoldOnset
<1>1. OnsetInv => IntervalsHoldOnset
  BY DEF OnsetInv
<1> QED
  BY <1>1, OnsetInvariance, PTL
===============================================================================
