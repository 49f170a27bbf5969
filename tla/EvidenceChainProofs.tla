-------------------------- MODULE EvidenceChainProofs --------------------------
(***************************************************************************)
(* Proofs about EvidenceChain for every model, capture, fault in a file    *)
(* and number of wrong slots: Pass 4 goes on only with one chain of        *)
(* evidence, the target is the first layer that differs, whatever is       *)
(* handed over ends in a classified outcome unless the lists inherited     *)
(* with it are unfit, the interval of stages holds the onset, and every    *)
(* artifact of Pass 3 can be read.                                         *)
(***************************************************************************)
EXTENDS EvidenceProofs

-------------------------------------------------------------------------------
(* Gates 1 to 5 together: no refusal lets a parent proceed.                 *)
Reads(answer) == answer.status # "proceed"

LEMMA ClassifiedReads ==
    ASSUME NEW answer,
           \/ ClassifiedAs(answer, LineageStatuses) \/ ClassifiedAs(answer, KindStatuses)
           \/ ClassifiedAs(answer, DriftStatuses) \/ ClassifiedAs(answer, SourceStatuses)
    PROVE  Reads(answer)
BY DEF ClassifiedAs, LineageStatuses, KindStatuses, DriftStatuses, SourceStatuses, Reads, Passed

LEMMA TerminalReads ==
    ASSUME NEW refusal, NEW parent, NEW warnings, Reads(refusal)
    PROVE  Reads(Outcome(Terminal(refusal, parent, warnings)))
BY DEF Outcome, Terminal, Raised, Reads

LEMMA ParentTerminalReads ==
    ASSUME NEW refusal, NEW given, Reads(refusal)
    PROVE  /\ Reads(ParentTerminal(refusal, given))
           /\ Reads(BlockedTerminal(refusal, given))
           /\ Reads(LineageTerminal(refusal, given))
<1>1. Reads(Raised)
  BY DEF Reads, Raised
<1>2. Reads(ParentTerminal(refusal, given))
  BY <1>1, TerminalReads DEF ParentTerminal
<1>3. Reads(BlockedTerminal(refusal, given)) /\ Reads(LineageTerminal(refusal, given))
  BY TerminalReads DEF BlockedTerminal, LineageTerminal
<1> QED
  BY <1>2, <1>3

LEMMA BindIs ==
    ASSUME NEW given
    PROVE  LET lineage  == Lineage(given)
               kind     == Gate3(given.artifact["discovery"], given.artifact["authoritative"])
               drift    == Drift(given.artifact["discovery"], given.artifact["authoritative"])
               eligible == BuildParent("eligible", given, TRUE)
               sources  == Sources(given)
           IN  Bind(given) =
                 IF lineage # Passed THEN LineageTerminal(lineage, given)
                 ELSE IF kind.status = "comparison_blocked_by_pass3"
                      THEN BlockedTerminal(kind, given)
                 ELSE IF kind # Passed  THEN ParentTerminal(kind, given)
                 ELSE IF drift # Passed THEN ParentTerminal(drift, given)
                 ELSE IF ~ParentEvidenceIsValid(eligible) THEN Raised
                 ELSE IF sources = Passed THEN Outcome(Proceed(given, eligible))
                 ELSE IF sources.status = "source_binding_inconsistent"
                      THEN Outcome(Terminal(sources, eligible, Warnings(given)))
                 ELSE ParentTerminal(sources, given)
BY DEF Bind

\* What is handed on is what the authoritative result names, or nothing.
LEMMA WarningsAre ==
    ASSUME NEW given
    PROVE  LET inherited == given.result["authoritative"].warnings IN
           /\ NoWarnings.inherited = "few"
           /\ BlockedWarnings(given).inherited = inherited
           /\ Warnings(given).inherited = inherited
BY DEF NoWarnings, BlockedWarnings, Warnings

\* Few warnings stay few, whatever the outcome.
LEMMA BindInherits ==
    ASSUME NEW given, given.result["authoritative"].warnings = "few"
    PROVE  Bind(given).warnings.inherited = "few"
<1>1. Raised.warnings.inherited = "few"
  BY DEF Raised, NoWarnings
<1>2. ASSUME NEW o, o.warnings.inherited = "few" PROVE Outcome(o).warnings.inherited = "few"
  BY <1>1, <1>2 DEF Outcome
<1>3. ASSUME NEW refusal, NEW parent, NEW warnings, warnings.inherited = "few"
      PROVE  Outcome(Terminal(refusal, parent, warnings)).warnings.inherited = "few"
  <2> DEFINE o == Terminal(refusal, parent, warnings)
  <2>1. o.warnings.inherited = "few"
    BY <1>3 DEF Terminal
  <2> HIDE DEF o
  <2>2. Outcome(o).warnings.inherited = "few"
    BY <1>2, <2>1
  <2> QED
    BY <2>2 DEF o
<1>4. \A refusal : /\ LineageTerminal(refusal, given).warnings.inherited = "few"
                   /\ BlockedTerminal(refusal, given).warnings.inherited = "few"
                   /\ ParentTerminal(refusal, given).warnings.inherited = "few"
  BY <1>1, <1>3, WarningsAre DEF LineageTerminal, BlockedTerminal, ParentTerminal
<1>5. \A parent : Outcome(Proceed(given, parent)).warnings.inherited = "few"
  <2> TAKE parent
  <2> DEFINE o == Proceed(given, parent)
  <2>1. o.warnings.inherited = "few"
    BY WarningsAre DEF Proceed
  <2> HIDE DEF o
  <2>2. Outcome(o).warnings.inherited = "few"
    BY <1>2, <2>1
  <2> QED
    BY <2>2 DEF o
<1>6. \A refusal, parent :
        Outcome(Terminal(refusal, parent, Warnings(given))).warnings.inherited = "few"
  BY <1>3, WarningsAre
<1> QED
  BY ONLY <1>1, <1>4, <1>5, <1>6, BindIs

LEMMA BindProceeds ==
    ASSUME NEW given, Bind(given).status = "proceed"
    PROVE  /\ Lineage(given) = Passed
           /\ Gate3(given.artifact["discovery"], given.artifact["authoritative"]) = Passed
           /\ Drift(given.artifact["discovery"], given.artifact["authoritative"]) = Passed
           /\ ParentEvidenceIsValid(BuildParent("eligible", given, TRUE))
           /\ Sources(given) = Passed
           /\ Bind(given) = Proceed(given, BuildParent("eligible", given, TRUE))
           /\ OutcomeIsValid(Bind(given))
<1> DEFINE lineage  == Lineage(given)
           kind     == Gate3(given.artifact["discovery"], given.artifact["authoritative"])
           drift    == Drift(given.artifact["discovery"], given.artifact["authoritative"])
           eligible == BuildParent("eligible", given, TRUE)
           sources  == Sources(given)
<1>1. Bind(given) =
        IF lineage # Passed THEN LineageTerminal(lineage, given)
        ELSE IF kind.status = "comparison_blocked_by_pass3" THEN BlockedTerminal(kind, given)
        ELSE IF kind # Passed  THEN ParentTerminal(kind, given)
        ELSE IF drift # Passed THEN ParentTerminal(drift, given)
        ELSE IF ~ParentEvidenceIsValid(eligible) THEN Raised
        ELSE IF sources = Passed THEN Outcome(Proceed(given, eligible))
        ELSE IF sources.status = "source_binding_inconsistent"
             THEN Outcome(Terminal(sources, eligible, Warnings(given)))
        ELSE ParentTerminal(sources, given)
  BY BindIs
<1>2. Reads(lineage) /\ Reads(kind) /\ Reads(drift) /\ Reads(sources)
  BY LineageReads, Gate3Reads, DriftReads, SourcesReads, ClassifiedReads
<1>3. ~Reads(Bind(given)) /\ Reads(Raised)
  BY DEF Reads, Raised
<1> HIDE DEF lineage, kind, drift, sources, eligible
<1>4. /\ lineage = Passed /\ kind = Passed /\ drift = Passed /\ sources = Passed
      /\ ParentEvidenceIsValid(eligible) /\ Bind(given) = Outcome(Proceed(given, eligible))
  BY <1>1, <1>2, <1>3, TerminalReads, ParentTerminalReads
<1>5. Bind(given) = Proceed(given, eligible) /\ OutcomeIsValid(Bind(given))
  BY <1>3, <1>4 DEF Outcome
<1> QED
  BY <1>4, <1>5 DEF lineage, kind, drift, sources, eligible
-------------------------------------------------------------------------------
(* The artifact of a result says what the result says, of its comparisons    *)
(* the first.                                                               *)
ItemsOf(found) ==
    LET total == Len(found.comparisons)
        kept  == IF total <= MaxComparisons THEN total ELSE MaxComparisons
    IN  [items |-> SubSeq(found.comparisons, 1, kept), total |-> total,
         serialized |-> kept, truncated |-> kept # total]

LEMMA SerializationIs ==
    ASSUME NEW found, DOMAIN found = Fields3
    PROVE  LET artifact == SerializePass3(found) IN
           /\ DOMAIN artifact = Fields3 /\ artifact.comparisons = ItemsOf(found)
           /\ artifact.status = found.status /\ artifact.disposition = found.disposition
           /\ artifact.reasons = found.reasons /\ artifact.pass2 = found.pass2
           /\ artifact.coherent = found.coherent /\ artifact.evidence = found.evidence
           /\ artifact.sources = found.sources /\ artifact.bound = found.bound
           /\ artifact.step = found.step /\ artifact.coverage = found.coverage
           /\ artifact.last = found.last /\ artifact.mismatch = found.mismatch
           /\ artifact.layer = found.layer /\ artifact.interval = found.interval
           /\ artifact.decision = found.decision /\ artifact.warnings = found.warnings
<1> DEFINE artifact == SerializePass3(found)
           items == ItemsOf(found)
<1>1. artifact = [found EXCEPT !.comparisons = items]
  BY DEF SerializePass3, ItemsOf
<1> HIDE DEF items
<1> QED
  BY <1>1 DEF Fields3, items

LEMMA ResultFields == ASSUME NEW r, NEW x, ResultSays(r, x) PROVE DOMAIN x = Fields3
BY DEF ResultSays, IsRefused3, IsCompared, SaysNothing

\* The side that is not the odd one tells what the run captured inside a layer.
LEMMA OneSideShowsTheTarget ==
    ASSUME NEW r
    PROVE  \E s \in Sides : ReportOf(r, s).manifest.intra = r.target
<1>1. PICK s \in Sides : r.fault.side # s
  BY DEF Sides
<1>2. KindAt(r, s) = "none"
  BY <1>1 DEF KindAt
<1>3. ReportOf(r, s).manifest = OddManifest(Manifest(r), "none")
  BY <1>2 DEF ReportOf, WrittenReport
<1>4. OddManifest(Manifest(r), "none") = Manifest(r)
  BY DEF OddManifest
<1> QED
  BY <1>3, <1>4 DEF Manifest
-------------------------------------------------------------------------------
(* The invariant: what was handed over is an object of its kind, a run is a *)
(* pair of runs of a model, and every other object is what its call makes   *)
(* of the objects before it.                                                *)
HandedInv ==
    DOMAIN handed = Slot /\ \A x \in Slot : handed[x] \in MayHold(x)

AfterPass3 == {"hand_over", "bind", "raised", "parse", "localize", "done"}

TargetOf(found) == IF found.layer = Absent THEN 0 ELSE found.layer

\* The second generation differs from the first in its onset only by a fault.
RunsInv ==
    /\ DOMAIN run = Generations
    /\ pc # "discover" =>
          IsRun(run["discovery"]) /\ run["discovery"].target = Absent
    /\ pc \in {"pass3b"} \cup AfterPass3 =>
          /\ IsRun(run["authoritative"])
          /\ run["authoritative"].target = TargetOf(result["discovery"])
          /\ \/ run["authoritative"].onset = run["discovery"].onset
             \/ run["authoritative"].fault # NoFault

ResultsInv ==
    /\ pc \in {"discover", "pass3a", "recapture", "pass3b"} \cup AfterPass3
    /\ DOMAIN result = Generations
    /\ result["discovery"] = IF pc \in {"discover", "pass3a"} THEN None
                             ELSE LocalizationOf("discovery")
    /\ result["authoritative"] = IF pc \in AfterPass3 THEN LocalizationOf("authoritative")
                                 ELSE None

Parsing ==
    IF outcome.status # "proceed" THEN [status |-> outcome.status, reason |-> outcome.reason]
    ELSE ParseStages(outcome, Given.trace["authoritative"])

Localizing ==
    IF WarningsOverflow(outcome) THEN OverflowResult
    ELSE IF parsed # Passed THEN Pass4Result(outcome, parsed, NoStages)
    ELSE LocalizeStages(outcome, Given.trace["authoritative"])

OutcomeInv ==
    /\ outcome = IF pc \in {"raised", "parse", "localize", "done"} THEN Bind(Given) ELSE None
    /\ pc = "raised" <=> outcome = Raised
    /\ pc \in {"localize", "done"} => parsed = Parsing
    /\ final = IF pc = "done" THEN Localizing ELSE None

ChainInv == HandedInv /\ RunsInv /\ ResultsInv /\ OutcomeInv

LEMMA InitEstablishes == Init => ChainInv
<1> SUFFICES ASSUME Init PROVE ChainInv
  OBVIOUS
<1>1. HandedInv
  BY DEF Init, Rightly, Own, HandedInv, MayHold, Slot, Files
<1>2. RunsInv /\ ResultsInv
  BY DEF Init, RunsInv, ResultsInv, AfterPass3, Generations
<1>3. None # Raised
  BY DEF None, Raised
<1> QED
  BY <1>1, <1>2, <1>3 DEF Init, OutcomeInv, ChainInv

\* The layer a recapture goes into is a layer of the model.
LEMMA TargetIsALayer ==
    ASSUME NEW r, IsRun(r), NEW x, ResultSays(r, x)
    PROVE  TargetOf(x) \in Layers /\ x.layer \in Layers \cup {Absent}
<1>1. 0 \in Layers
  BY EvidenceChainAssumption DEF Layers
<1>2. x.layer \in Layers \cup {Absent}
  <2>1. CASE IsRefused3(r, x)
    BY <2>1 DEF IsRefused3, SaysNothing
  <2>2. CASE IsCompared(r, x)
    <3>1. CASE FoundIn(r) = Absent
      BY <2>2, <3>1 DEF IsCompared
    <3>2. CASE FoundIn(r) # Absent
      <4> DEFINE items == Compares(r)
                 n == Len(items)
                 at == LayersAt(CommonLayers(r))
      <4>1. x.layer = items[n].coordinate.layer
        BY <2>2, <3>2 DEF IsCompared
      <4>2. n \in 0 .. Cardinality(CommonLayers(r)) /\ n >= 1 /\ items[n].coordinate = at[n]
        BY <2>2, <3>2, ComparisonsAre DEF IsCompared, Bothsay, Compares
      <4>3. at[n].layer \in Layers
        <5>1. CommonLayers(r) \in SUBSET Layers
          BY FoundInIs
        <5> HIDE DEF n, items
        <5> QED
          BY <4>2, <5>1, LayersAtIs
      <4> QED
        BY <4>1, <4>2, <4>3
    <3> QED
      BY <3>1, <3>2
  <2> QED
    BY <2>1, <2>2 DEF ResultSays
<1> QED
  BY <1>1, <1>2 DEF TargetOf

LEMMA LocalizationOfSays ==
    ASSUME NEW g, IsRun(run[g])
    PROVE  ResultSays(run[g], LocalizationOf(g))
BY LocalizationSays DEF LocalizationOf, Reports, Traces

\* What an action that leaves alone what was handed over, or what was run and
\* found, keeps of the invariant.
LEMMA UnchangedKeeps ==
    /\ HandedInv /\ handed' = handed => HandedInv'
    /\ \A g : run' = run => LocalizationOf(g)' = LocalizationOf(g)
    /\ run' = run /\ result' = result /\ handed' = handed => Given' = Given
<1>1. HandedInv /\ handed' = handed => HandedInv'
  BY DEF HandedInv, MayHold
<1>2. \A g : run' = run => LocalizationOf(g)' = LocalizationOf(g)
  BY DEF LocalizationOf
<1>3. run' = run /\ result' = result /\ handed' = handed => Given' = Given
  BY DEF Given
<1> QED
  BY <1>1, <1>2, <1>3

\* What a step that captures a generation does.
LEMMA CaptureIsRun ==
    ASSUME NEW g, NEW target \in Layers \cup {Absent}, NEW onset \in Onsets,
           NEW stages \in [Sides -> SUBSET StageIds], NEW captured \in Captures,
           NEW fault
    PROVE  LET r == [generation |-> g, target |-> target, onset |-> onset,
                     captured |-> captured, stages |-> stages, fault |-> fault]
           IN  IsRun(r) /\ r.target = target /\ r.onset = onset /\ r.fault = fault
BY EvidenceChainAssumption DEF IsRun

LEMMA DiscoverKeeps ==
    ASSUME ChainInv, Discover PROVE ChainInv'
<1> USE DEF ChainInv
<1>1. HandedInv'
  BY UnchangedKeeps DEF Discover
<1>2. PICK onset \in Onsets, captured \in Captures, fault \in Fault :
         run' = [run EXCEPT !["discovery"] =
                   [generation |-> "discovery", target |-> Absent, onset |-> onset,
                    captured |-> captured, stages |-> [s \in Sides |-> {}], fault |-> fault]]
  BY DEF Discover, Captured
<1>3. /\ pc = "discover" /\ pc' = "pass3a"
      /\ result' = result /\ outcome' = outcome /\ final' = final
  BY DEF Discover
<1>4. run'["discovery"] = [generation |-> "discovery", target |-> Absent, onset |-> onset,
                           captured |-> captured, stages |-> [s \in Sides |-> {}],
                           fault |-> fault]
      /\ DOMAIN run' = Generations
  BY <1>2 DEF RunsInv, Generations
<1>5. IsRun(run'["discovery"]) /\ run'["discovery"].target = Absent
  <2>1. [s \in Sides |-> {}] \in [Sides -> SUBSET StageIds]
    OBVIOUS
  <2> QED
    BY <1>4, <2>1, CaptureIsRun
<1>6. RunsInv'
  BY <1>3, <1>4, <1>5 DEF RunsInv, IsRun, AfterPass3
<1>7. ResultsInv'
  BY <1>3 DEF ResultsInv, AfterPass3
<1>8. OutcomeInv'
  BY <1>3 DEF OutcomeInv
<1> QED
  BY <1>1, <1>6, <1>7, <1>8

LEMMA RecaptureKeeps ==
    ASSUME ChainInv, Recapture \/ RecaptureDrifts PROVE ChainInv'
<1> USE DEF ChainInv
<1>1. /\ pc = "recapture" /\ pc' = "pass3b"
      /\ result' = result /\ outcome' = outcome /\ final' = final /\ handed' = handed
  BY DEF Recapture, RecaptureDrifts
<1>2. HandedInv'
  BY <1>1, UnchangedKeeps
<1> DEFINE target == TargetOf(result["discovery"])
           new(onset, captured, stages, fault) ==
              [generation |-> "authoritative", target |-> target, onset |-> onset,
               captured |-> captured, stages |-> stages, fault |-> fault]
<1>3. \E onset \in Onsets, captured \in Captures, stages \in StageCaptures :
        \E fault :
         /\ onset = run["discovery"].onset \/ fault # NoFault
         /\ run' = [run EXCEPT !["authoritative"] = new(onset, captured, stages, fault)]
  <2>1. CASE Recapture
    BY <2>1 DEF Recapture, Captured, TargetOf
  <2>2. CASE RecaptureDrifts
    <3>1. [kind |-> "drift", side |-> "candidate"] # NoFault
      BY DEF NoFault
    <3> QED
      BY <2>2, <3>1 DEF RecaptureDrifts, TargetOf
  <2> QED
    BY <2>1, <2>2
<1>4. PICK onset \in Onsets, captured \in Captures, stages \in StageCaptures :
        \E fault :
         /\ onset = run["discovery"].onset \/ fault # NoFault
         /\ run' = [run EXCEPT !["authoritative"] = new(onset, captured, stages, fault)]
  BY <1>3
<1>5. PICK fault :
         /\ onset = run["discovery"].onset \/ fault # NoFault
         /\ run' = [run EXCEPT !["authoritative"] = new(onset, captured, stages, fault)]
  BY <1>4
<1>6. /\ run'["authoritative"] = new(onset, captured, stages, fault)
      /\ run'["discovery"] = run["discovery"] /\ DOMAIN run' = Generations
  BY <1>5 DEF RunsInv, Generations
<1>7. target \in Layers
  <2>1. IsRun(run["discovery"]) /\ result["discovery"] = LocalizationOf("discovery")
    BY <1>1 DEF RunsInv, ResultsInv
  <2> QED
    BY <2>1, LocalizationOfSays, TargetIsALayer
<1>8. stages \in [Sides -> SUBSET StageIds]
  BY EvidenceChainAssumption
<1> HIDE DEF target
<1>9. /\ IsRun(run'["authoritative"]) /\ run'["authoritative"].target = target
      /\ run'["authoritative"].onset = onset /\ run'["authoritative"].fault = fault
  <2>1. LET r == new(onset, captured, stages, fault)
        IN  IsRun(r) /\ r.target = target /\ r.onset = onset /\ r.fault = fault
    BY <1>7, <1>8, CaptureIsRun
  <2> QED
    BY <1>6, <2>1
<1>10. RunsInv'
  <2>1. IsRun(run["discovery"]) /\ run["discovery"].target = Absent
    BY <1>1 DEF RunsInv
  <2>2. IsRun(run["discovery"])' /\ IsRun(run["authoritative"])'
    BY <1>6, <1>9, <2>1 DEF IsRun
  <2> QED
    BY <1>1, <1>5, <1>6, <1>9, <2>1, <2>2 DEF RunsInv, AfterPass3, target, TargetOf
<1>11. ResultsInv'
  <2>1. LocalizationOf("discovery")' = LocalizationOf("discovery")
    BY <1>6 DEF LocalizationOf
  <2> QED
    BY <1>1, <2>1 DEF ResultsInv, AfterPass3
<1>12. OutcomeInv'
  BY <1>1 DEF OutcomeInv
<1> QED
  BY <1>2, <1>10, <1>11, <1>12

LEMMA RunsKeep ==
    ASSUME RunsInv, run' = run, result'["discovery"] = result["discovery"],
           pc \in {"pass3b"} \cup AfterPass3
    PROVE  RunsInv'
<1>1. \A g : IsRun(run[g])' <=> IsRun(run[g])
  BY DEF IsRun
<1> QED
  BY <1>1 DEF RunsInv, AfterPass3, TargetOf

LEMMA Pass3Keeps ==
    ASSUME ChainInv, Pass3A \/ Pass3B PROVE ChainInv'
<1> USE DEF ChainInv
<1>1. /\ UNCHANGED <<run, handed, outcome, parsed, final>>
  BY DEF Pass3A, Pass3B, Pass3
<1>2. HandedInv' /\ \A g : LocalizationOf(g)' = LocalizationOf(g)
  BY <1>1, UnchangedKeeps
<1>3. CASE Pass3A
  <2>1. /\ pc = "pass3a" /\ pc' = "recapture" /\ DOMAIN result' = Generations
        /\ result'["discovery"] = LocalizationOf("discovery")
        /\ result'["authoritative"] = result["authoritative"]
    BY <1>3 DEF Pass3A, Pass3, ResultsInv, Generations
  <2>2. RunsInv'
    <3>1. \A g : IsRun(run[g])' <=> IsRun(run[g])
      BY <1>1 DEF IsRun
    <3> QED
      BY <1>1, <2>1, <3>1 DEF RunsInv, AfterPass3
  <2>3. ResultsInv'
    BY <1>2, <2>1 DEF ResultsInv, AfterPass3
  <2>4. OutcomeInv'
    BY <1>1, <2>1 DEF OutcomeInv
  <2> QED
    BY <1>2, <2>2, <2>3, <2>4
<1>4. CASE Pass3B
  <2>1. /\ pc = "pass3b" /\ pc' = "hand_over" /\ DOMAIN result' = Generations
        /\ result'["authoritative"] = LocalizationOf("authoritative")
        /\ result'["discovery"] = result["discovery"]
    BY <1>4 DEF Pass3B, Pass3, ResultsInv, Generations
  <2>2. RunsInv'
    BY <1>1, <2>1, RunsKeep
  <2>3. ResultsInv'
    BY <1>2, <2>1 DEF ResultsInv, AfterPass3
  <2>4. OutcomeInv'
    BY <1>1, <2>1 DEF OutcomeInv
  <2> QED
    BY <1>2, <2>2, <2>3, <2>4
<1> QED
  BY <1>3, <1>4

LEMMA RestKeeps ==
    ASSUME RunsInv, ResultsInv, UNCHANGED <<run, result>>,
           pc' = pc \/ (pc \in AfterPass3 /\ pc' \in AfterPass3)
    PROVE  RunsInv' /\ ResultsInv'
<1>1. \A g : /\ IsRun(run[g])' <=> IsRun(run[g])
             /\ LocalizationOf(g)' = LocalizationOf(g)
  BY UnchangedKeeps DEF IsRun
<1>2. RunsInv'
  BY <1>1 DEF RunsInv, AfterPass3, TargetOf
<1>3. ResultsInv'
  BY <1>1 DEF ResultsInv, AfterPass3
<1> QED
  BY <1>2, <1>3

LEMMA HandingKeeps ==
    ASSUME ChainInv, HandWrong \/ HandOver PROVE ChainInv'
<1> USE DEF ChainInv
<1>1. /\ pc = "hand_over" /\ pc' \in {"hand_over", "bind"}
      /\ UNCHANGED <<run, result, outcome, parsed, final>>
  BY DEF HandWrong, HandOver
<1>2. RunsInv' /\ ResultsInv'
  BY <1>1, RestKeeps DEF AfterPass3
<1>3. OutcomeInv'
  BY <1>1 DEF OutcomeInv
<1>4. HandedInv'
  <2>1. CASE HandWrong
    <3>1. PICK x \in Slot : \E from \in MayHold(x) : handed' = [handed EXCEPT ![x] = from]
      BY <2>1 DEF HandWrong
    <3> QED
      BY <3>1 DEF HandedInv, MayHold
  <2>2. CASE handed' = handed
    BY <2>2, UnchangedKeeps
  <2>3. CASE \E roles \in [Generations -> Generations] :
                handed' = [x \in Slot |-> [g |-> roles[x.g], s |-> x.s]]
    <3>1. PICK roles \in [Generations -> Generations] :
             handed' = [x \in Slot |-> [g |-> roles[x.g], s |-> x.s]]
      BY <2>3
    <3>2. \A x \in Slot : x.g \in Generations /\ (x.of \in Files => x.s \in Sides)
      BY DEF Slot, Files
    <3> QED
      BY <3>1, <3>2 DEF HandedInv, MayHold
  <2> QED
    BY <2>1, <2>2, <2>3 DEF HandOver
<1> QED
  BY <1>2, <1>3, <1>4

LEMMA Pass4Keeps ==
    ASSUME ChainInv, BindParents \/ Parse \/ Localize PROVE ChainInv'
<1> USE DEF ChainInv
<1>1. /\ UNCHANGED <<run, result, handed>>
      /\ pc \in {"bind", "parse", "localize"}
      /\ pc' \in {"raised", "parse", "localize", "done"}
  BY DEF BindParents, Parse, Localize
<1>2. RunsInv' /\ ResultsInv'
  BY <1>1, RestKeeps DEF AfterPass3
<1>3. HandedInv' /\ Given' = Given
  BY <1>1, UnchangedKeeps
<1>4. OutcomeInv'
  <2>1. CASE BindParents
    BY <1>3, <2>1 DEF BindParents, OutcomeInv
  <2>2. CASE Parse
    <3>1. /\ pc = "parse" /\ pc' = "localize" /\ parsed' = Parsing
          /\ outcome' = outcome /\ final' = final
      BY <2>2 DEF Parse, Parsing
    <3>2. Parsing' = Parsing
      BY <1>3, <3>1 DEF Parsing
    <3> QED
      BY <1>3, <3>1, <3>2 DEF OutcomeInv
  <2>3. CASE Localize
    <3>1. /\ pc = "localize" /\ pc' = "done" /\ final' = Localizing
          /\ outcome' = outcome /\ parsed' = parsed
      BY <2>3 DEF Localize, Localizing
    <3>2. Parsing' = Parsing /\ Localizing' = Localizing
      BY <1>3, <3>1 DEF Parsing, Localizing
    <3> QED
      BY <1>3, <3>1, <3>2 DEF OutcomeInv
  <2> QED
    BY <2>1, <2>2, <2>3
<1> QED
  BY <1>2, <1>3, <1>4

LEMMA NextKeeps ==
    ChainInv /\ [Next]_vars => ChainInv'
<1> SUFFICES ASSUME ChainInv, [Next]_vars PROVE ChainInv'
  OBVIOUS
<1>1. CASE UNCHANGED vars
  <2>1. UNCHANGED <<pc, run, result, handed, outcome, parsed, final>>
    BY <1>1 DEF vars
  <2>2. HandedInv' /\ Given' = Given /\ RunsInv' /\ ResultsInv'
    <3>1. HandedInv' /\ Given' = Given
      BY <2>1, UnchangedKeeps DEF ChainInv
    <3>2. UNCHANGED <<run, result>> /\ pc' = pc /\ RunsInv /\ ResultsInv
      BY <2>1 DEF ChainInv
    <3>3. RunsInv' /\ ResultsInv'
      BY ONLY <3>2, RestKeeps
    <3> QED
      BY <3>1, <3>3
  <2>3. OutcomeInv'
    BY <2>1, <2>2 DEF ChainInv, OutcomeInv, Parsing, Localizing
  <2> QED
    BY <2>2, <2>3 DEF ChainInv
<1> QED
  BY <1>1, DiscoverKeeps, RecaptureKeeps, Pass3Keeps, HandingKeeps, Pass4Keeps DEF Next

\* The chain holds in every reachable state.
THEOREM ChainInvariance == Spec => []ChainInv
BY InitEstablishes, NextKeeps, PTL DEF Spec
-------------------------------------------------------------------------------
(* Pass 4 goes on only with one chain of evidence. *)
LEMMA GivenIs ==
    ASSUME HandedInv
    PROVE  LET given == Given IN
           \A g \in Generations :
             /\ HandedGeneration(g) \in Generations
             /\ given.result[g] = result[HandedGeneration(g)]
<1> SUFFICES ASSUME NEW g \in Generations
             PROVE  /\ HandedGeneration(g) \in Generations
                    /\ Given.result[g] = result[HandedGeneration(g)]
  OBVIOUS
<1> DEFINE x == [of |-> "result", g |-> g, s |-> "reference"]
<1>1. x \in Slot /\ x.of = "result" /\ x.s = "reference"
  BY DEF Slot
<1>2. MayHold(x) = [g : Generations, s : {"reference"}]
  BY <1>1 DEF MayHold, Files
<1>3. handed[x].g \in Generations
  <2>1. handed[x] \in MayHold(x)
    BY <1>1 DEF HandedInv
  <2> QED
    BY <1>2, <2>1
<1>4. HandedGeneration(g) = handed[x].g
  BY DEF HandedGeneration
<1>5. Given.result[g] = result[handed[x].g]
  BY DEF Given
<1> QED
  BY <1>3, <1>4, <1>5

\* What is handed over as the result of a generation is what Pass 3 made of a run.
LEMMA HandedSays ==
    ASSUME ChainInv, pc \in AfterPass3, NEW g \in Generations
    PROVE  /\ HandedGeneration(g) \in Generations
           /\ IsRun(HandedRun(g)) /\ ResultSays(HandedRun(g), Given.result[g])
           /\ Given.result[g] = result[HandedGeneration(g)]
<1> DEFINE h == HandedGeneration(g)
<1>1. h \in Generations /\ Given.result[g] = result[h]
  BY GivenIs DEF ChainInv
<1>2. result[h] = LocalizationOf(h)
  BY <1>1 DEF ChainInv, ResultsInv, Generations, AfterPass3
<1>3. IsRun(run[h])
  BY <1>1 DEF ChainInv, RunsInv, Generations, AfterPass3
<1>4. ResultSays(run[h], result[h])
  BY <1>2, <1>3, LocalizationOfSays
<1> QED
  BY <1>1, <1>3, <1>4 DEF HandedRun

\* The artifact of a generation repeats the result, which is bound to the files
\* of the run it was handed over as.
LEMMA ArtifactIs ==
    ASSUME ChainInv, pc \in AfterPass3, NEW g \in Generations, Lineage(Given) = Passed
    PROVE  LET r   == HandedRun(g)
               raw == Given.artifact[g]
               x   == Given.result[g]
           IN  /\ raw = SerializePass3(x) /\ Representation(raw) = Passed
               /\ x = result[HandedGeneration(g)]
               /\ IsBound(x, Pass2Of(r), Reports(r), Traces(r))
               /\ raw.layer = x.layer /\ raw.pass2 = Pass2Of(r)
               /\ raw.sources = x.sources
               /\ \A s \in Sides : raw.sources[s] =
                    SourceBinding(SourceRoles(Pass2Of(r))[s], ReportOf(r, s), TraceOf(r, s))
<1> DEFINE r == HandedRun(g)
           raw == Given.artifact[g]
           x == Given.result[g]
<1>1. x = result[HandedGeneration(g)] /\ ResultSays(r, x)
  BY HandedSays
<1>2. /\ raw = SerializePass3(x) /\ Representation(raw) = Passed
      /\ \A s \in Sides : raw.sources[s] # None
  BY LineageReads, ArtifactCoherenceReads, ParentBindingReads
<1>3. raw.sources = x.sources /\ raw.layer = x.layer /\ raw.pass2 = x.pass2
  BY <1>1, <1>2, ResultFields, SerializationIs
<1> HIDE DEF x, raw, r
<1>4. ~IsUnbound(x, Pass2Of(r))
  BY <1>2, <1>3 DEF IsUnbound, Sides
<1>5. IsBound(x, Pass2Of(r), Reports(r), Traces(r))
  BY <1>1, <1>4 DEF ResultSays
<1>6. \A s \in Sides : x.sources[s] =
         SourceBinding(SourceRoles(Pass2Of(r))[s], ReportOf(r, s), TraceOf(r, s))
  BY <1>5 DEF IsBound, Reports, Traces
<1>7. x.pass2 = Pass2Of(r)
  BY <1>5 DEF IsBound
<1> QED
  BY <1>1, <1>2, <1>3, <1>5, <1>6, <1>7 DEF x, raw, r

LEMMA SourceBindingIs ==
    ASSUME NEW role, NEW report, NEW trace
    PROVE  LET source == SourceBinding(role, report, trace) IN
           /\ source.report = report /\ source.trace = trace /\ source.role = role
           /\ source.manifest = report.manifest /\ source.set = trace.set
BY DEF SourceBinding

LEMMA ChainImpliesLineage == ChainInv => ProceedIsOneLineage
<1> SUFFICES ASSUME ChainInv, Proceeds
             PROVE  /\ HandedGeneration("discovery") # HandedGeneration("authoritative")
                    /\ Given.artifact = Lineages.artifact
                    /\ Given.report = Lineages.report /\ Given.trace = Lineages.trace
                    /\ Given.pass2["authoritative"] = Lineages.pass2["authoritative"]
                    /\ Given.pass2["discovery"] \in {None, Lineages.pass2["discovery"]}
                    /\ HandedRun("discovery").target = Absent
                    /\ HandedRun("authoritative").target = Given.result["discovery"].layer
  BY DEF ProceedIsOneLineage
<1> DEFINE given == Given
<1>1. pc \in AfterPass3 /\ Bind(given).status = "proceed"
  BY DEF Proceeds, ChainInv, OutcomeInv, AfterPass3
<1>2. /\ Lineage(given) = Passed /\ Sources(given) = Passed
      /\ Drift(given.artifact["discovery"], given.artifact["authoritative"]) = Passed
  BY <1>1, BindProceeds
<1>3. \A g \in Generations :
         /\ given.artifact[g] = SerializePass3(result[HandedGeneration(g)])
         /\ given.artifact[g].layer = given.result[g].layer
         /\ given.artifact[g].pass2 = Pass2Of(HandedRun(g))
         /\ \A s \in Sides :
               /\ given.artifact[g].sources[s].report = ReportOf(HandedRun(g), s)
               /\ given.artifact[g].sources[s].trace = TraceOf(HandedRun(g), s)
  BY <1>1, <1>2, ArtifactIs, SourceBindingIs
<1>4. \A g \in Generations, s \in Sides :
         /\ given.report[g][s] = ReportOf(HandedRun(g), s)
         /\ given.trace[g][s] = TraceOf(HandedRun(g), s)
         /\ CaptureIsOf(g, ReportOf(HandedRun(g), s).manifest, given.artifact[g].layer)
  <2>1. \A g \in Generations, s \in Sides : BindSource(given, g, s) = Passed
    BY <1>2, SourcesReads, BindGenerationReads
  <2>2. \A g \in Generations, s \in Sides :
           /\ given.report[g][s] = given.artifact[g].sources[s].report
           /\ given.trace[g][s] = given.artifact[g].sources[s].trace
           /\ CaptureIsOf(g, given.report[g][s].manifest, given.artifact[g].layer)
    BY <2>1, BindSourceReads
  <2> QED
    BY <1>3, <2>2
<1>5. given.artifact = Lineages.artifact
  <2>1. given.artifact = [g \in Generations |-> given.artifact[g]]
    BY DEF Given
  <2>2. Lineages.artifact =
          [g \in Generations |-> SerializePass3(result[HandedGeneration(g)])]
    BY DEF Lineages
  <2> QED
    BY <1>3, <2>1, <2>2
<1>6. given.report = Lineages.report /\ given.trace = Lineages.trace
  <2>1. /\ given.report = [g \in Generations |-> [s \in Sides |-> given.report[g][s]]]
        /\ given.trace = [g \in Generations |-> [s \in Sides |-> given.trace[g][s]]]
    BY DEF Given
  <2>2. /\ Lineages.report =
             [g \in Generations |-> [s \in Sides |-> ReportOf(HandedRun(g), s)]]
        /\ Lineages.trace =
             [g \in Generations |-> [s \in Sides |-> TraceOf(HandedRun(g), s)]]
    BY DEF Lineages
  <2> QED
    BY <1>4, <2>1, <2>2
<1>7. /\ given.pass2["authoritative"] = Lineages.pass2["authoritative"]
      /\ given.pass2["discovery"] \in {None, Lineages.pass2["discovery"]}
  <2>1. \A g \in Generations : Lineages.pass2[g] = given.artifact[g].pass2
    BY <1>3 DEF Lineages
  <2>2. /\ given.pass2["authoritative"] = given.artifact["authoritative"].pass2
        /\ given.pass2["discovery"] \in {None, given.artifact["discovery"].pass2}
    BY <1>2, LineageReads, Pass2BindingReads DEF BindsPass2
  <2> QED
    BY <2>1, <2>2 DEF Generations
<1>8. HandedGeneration("discovery") # HandedGeneration("authoritative")
  <2>1. given.trace["discovery"]["reference"] # given.trace["authoritative"]["reference"]
    BY <1>2, SourcesReads, CrossGenerationReads DEF Sides
  <2> QED
    BY <1>4, <2>1 DEF HandedRun, Generations, Sides
<1>9. HandedRun("discovery").target = Absent
  <2>1. PICK s \in Sides :
           ReportOf(HandedRun("discovery"), s).manifest.intra = HandedRun("discovery").target
    BY OneSideShowsTheTarget
  <2> QED
    BY <1>4, <2>1 DEF CaptureIsOf, Generations
<1>10. HandedRun("authoritative").target = given.result["discovery"].layer
  <2>1. PICK s \in Sides : ReportOf(HandedRun("authoritative"), s).manifest.intra =
                             HandedRun("authoritative").target
    BY OneSideShowsTheTarget
  <2>2. HandedRun("authoritative").target = given.artifact["authoritative"].layer
    BY <1>4, <2>1 DEF CaptureIsOf, Generations
  <2>3. given.artifact["discovery"].layer = given.artifact["authoritative"].layer
    BY <1>2, DriftReads
  <2> QED
    BY <1>3, <2>2, <2>3 DEF Generations
<1> QED
  BY <1>5, <1>6, <1>7, <1>8, <1>9, <1>10

\* Pass 4 goes on only with one chain of evidence, whatever is odd in a file and
\* however many slots are handed a wrong object.
THEOREM LineageAlways == Spec => []ProceedIsOneLineage
<1>1. ChainInv => ProceedIsOneLineage
  BY ChainImpliesLineage
<1> QED
  BY <1>1, ChainInvariance, PTL
-------------------------------------------------------------------------------
(* The layer Pass 4 looks into. *)
\* A result that names a mismatch names the first layer that differs.
LEMMA MismatchIsFound ==
    ASSUME NEW r, IsRun(r), NEW x, ResultSays(r, x)
    PROVE  /\ x.status = "observable_mismatch_found" => IsCompared(r, x) /\ FoundIn(r) # Absent
           /\ IsCompared(r, x) => x.layer = FoundIn(r)
<1>1. IsRefused3(r, x) => x.status # "observable_mismatch_found"
  BY DEF IsRefused3, Refusals3
<1>2. ASSUME IsCompared(r, x) PROVE x.layer = FoundIn(r)
  <2>1. CASE FoundIn(r) = Absent
    BY <1>2, <2>1 DEF IsCompared
  <2>2. CASE FoundIn(r) # Absent
    <3> DEFINE items == Compares(r)
               n == Len(items)
               at == LayersAt(CommonLayers(r))
    <3>1. x.layer = items[n].coordinate.layer
      BY <1>2, <2>2 DEF IsCompared
    <3>2. /\ n \in 0 .. Cardinality(CommonLayers(r)) /\ n >= 1
          /\ \A i \in 1 .. n : items[i].coordinate = at[i]
          /\ FoundIn(r) = at[n].layer
      BY <1>2, <2>2, ComparisonsAre DEF IsCompared, Bothsay, Compares
    <3> HIDE DEF items, n, at
    <3>3. n \in 1 .. n
      BY <3>2
    <3> QED
      BY <3>1, <3>2, <3>3
  <2> QED
    BY <2>1, <2>2
<1>3. IsCompared(r, x) /\ x.status = "observable_mismatch_found" => FoundIn(r) # Absent
  BY DEF IsCompared
<1> QED
  BY <1>1, <1>2, <1>3 DEF ResultSays

\* What Pass 4 proceeds with: of each generation, a run in which the first layer
\* that differs is the target.
LEMMA ProceedingSays ==
    ASSUME ChainInv, Proceeds
    PROVE  /\ pc \in AfterPass3 /\ outcome = Bind(Given) /\ Bind(Given).status = "proceed"
           /\ \A g \in Generations :
                /\ IsRun(HandedRun(g)) /\ IsCompared(HandedRun(g), Given.result[g])
                /\ FoundIn(HandedRun(g)) # Absent
                /\ FoundIn(HandedRun(g)) = outcome.target.layer
<1>1. pc \in AfterPass3 /\ outcome = Bind(Given) /\ Bind(Given).status = "proceed"
  BY DEF Proceeds, ChainInv, OutcomeInv, AfterPass3
<1> DEFINE discovery     == Given.artifact["discovery"]
           authoritative == Given.artifact["authoritative"]
<1>2. /\ Lineage(Given) = Passed /\ Gate3(discovery, authoritative) = Passed
      /\ Drift(discovery, authoritative) = Passed
      /\ Bind(Given) = Proceed(Given, BuildParent("eligible", Given, TRUE))
  BY <1>1, BindProceeds
<1>3. \A g \in Generations :
         /\ IsRun(HandedRun(g)) /\ ResultSays(HandedRun(g), Given.result[g])
         /\ Given.artifact[g].status = Given.result[g].status
         /\ Given.artifact[g].layer = Given.result[g].layer
  BY <1>1, <1>2, HandedSays, ArtifactIs, ResultFields, SerializationIs
<1>4. /\ discovery.status = "observable_mismatch_found"
      /\ authoritative.status = "observable_mismatch_found"
      /\ discovery.layer = authoritative.layer
  <2> HIDE DEF discovery, authoritative
  <2>1. /\ discovery.status = "observable_mismatch_found"
        /\ authoritative.status = "observable_mismatch_found"
    BY ONLY <1>2, Gate3Reads
  <2>2. discovery.layer = authoritative.layer
    BY ONLY <1>2, DriftReads
  <2> QED
    BY <2>1, <2>2
<1>5. outcome.target.layer = authoritative.layer
  BY <1>1, <1>2 DEF Proceed
<1>6. \A g \in Generations : /\ Given.result[g].status = "observable_mismatch_found"
                             /\ Given.result[g].layer = outcome.target.layer
  BY <1>3, <1>4, <1>5 DEF Generations
<1> QED
  BY <1>1, <1>3, <1>6, MismatchIsFound

\* The layer Pass 4 looks into is, for every pair of runs, the first in which they
\* really differ among the layers both sides captured.
THEOREM TargetAlways == Spec => []TargetIsFirstMismatch
<1>1. ChainInv => TargetIsFirstMismatch
  BY ProceedingSays DEF TargetIsFirstMismatch
<1> QED
  BY <1>1, ChainInvariance, PTL
-------------------------------------------------------------------------------
(* What the fields of a comparison are. *)
LEMMA ComparedIs ==
    ASSUME NEW r, IsRun(r), NEW x, IsCompared(r, x)
    PROVE  LET at    == LayersAt(CommonLayers(r))
               items == x.comparisons
               n     == Len(items)
           IN  /\ n \in 1 .. Cardinality(CommonLayers(r)) /\ DOMAIN items = 1 .. n
               /\ \A i \in 1 .. n :
                     /\ items[i].coordinate = at[i] /\ at[i] = LayerAt(at[i].layer)
                     /\ at[i].layer \in CommonLayers(r)
                     /\ items[i].equivalent <=> ~LayerDiffers(r.onset, "candidate", at[i].layer)
               /\ \A i, j \in 1 .. n : i < j => at[i].layer < at[j].layer
               /\ \A i \in 1 .. n : i < n => items[i].equivalent
               /\ FoundIn(r) = Absent => n = Cardinality(CommonLayers(r)) /\ items[n].equivalent
               /\ FoundIn(r) # Absent => ~items[n].equivalent /\ FoundIn(r) = at[n].layer
<1> DEFINE at    == LayersAt(CommonLayers(r))
           items == Compares(r)
           n     == Len(items)
           N     == Cardinality(CommonLayers(r))
<1>1. x.comparisons = items /\ CommonLayers(r) # {}
  BY DEF IsCompared
<1>2. CommonLayers(r) \in SUBSET Layers
  BY FoundInIs
<1>3. /\ N \in Nat
      /\ \A i \in 1 .. N : at[i] = LayerAt(at[i].layer) /\ at[i].layer \in CommonLayers(r)
      /\ \A i, j \in 1 .. N : i < j => at[i].layer < at[j].layer
  BY <1>2, LayersAtIs
<1>4. /\ n \in 0 .. N /\ n >= 1 /\ DOMAIN items = 1 .. n
      /\ \A i \in 1 .. n :
            /\ items[i].coordinate = at[i]
            /\ items[i].equivalent <=> ~LayerDiffers(r.onset, "candidate", at[i].layer)
      /\ \A i \in 1 .. n : i < n => items[i].equivalent
      /\ FoundIn(r) = Absent => n = N /\ \A i \in 1 .. n : items[i].equivalent
      /\ FoundIn(r) # Absent => ~items[n].equivalent /\ FoundIn(r) = at[n].layer
  BY <1>1, ComparisonsAre DEF IsCompared, Bothsay, Compares
<1> HIDE DEF at, items, n, N
<1>5. n \in 1 .. N /\ n \in 1 .. n /\ \A i \in 1 .. n : i \in 1 .. N
  BY <1>3, <1>4
<1> QED
  BY <1>1, <1>3, <1>4, <1>5 DEF at, items, n, N

\* A mismatch: the layer found, the equal layer before it if there is one, and
\* the interval between the two.
LEMMA MismatchIs ==
    ASSUME NEW r, IsRun(r), NEW x, IsCompared(r, x), FoundIn(r) # Absent
    PROVE  /\ x.status = "observable_mismatch_found"
           /\ FoundIn(r) \in CommonLayers(r) /\ CommonLayers(r) \in SUBSET Layers
           /\ FoundIn(r) \in Layers /\ LayerDiffers(r.onset, "candidate", FoundIn(r))
           /\ x.layer = FoundIn(r) /\ x.mismatch = LayerAt(FoundIn(r))
           /\ x.interval = Interval(x.last, x.mismatch)
           /\ \/ x.last = None
              \/ \E l \in CommonLayers(r) : /\ x.last = LayerAt(l) /\ l < FoundIn(r)
                                            /\ ~LayerDiffers(r.onset, "candidate", l)
<1> DEFINE at    == LayersAt(CommonLayers(r))
           items == x.comparisons
           n     == Len(items)
           before == IF n = 1 THEN None ELSE items[n - 1].coordinate
<1>1. /\ n \in 1 .. Cardinality(CommonLayers(r))
      /\ \A i \in 1 .. n :
            /\ items[i].coordinate = at[i] /\ at[i] = LayerAt(at[i].layer)
            /\ at[i].layer \in CommonLayers(r)
            /\ items[i].equivalent <=> ~LayerDiffers(r.onset, "candidate", at[i].layer)
      /\ \A i, j \in 1 .. n : i < j => at[i].layer < at[j].layer
      /\ \A i \in 1 .. n : i < n => items[i].equivalent
      /\ ~items[n].equivalent /\ FoundIn(r) = at[n].layer
  BY ComparedIs
<1>2. CommonLayers(r) \in SUBSET Layers
  BY FoundInIs
<1>3. /\ x.status = "observable_mismatch_found" /\ x.last = before
      /\ x.mismatch = items[n].coordinate /\ x.layer = items[n].coordinate.layer
      /\ x.interval = Interval(before, items[n].coordinate)
  BY DEF IsCompared
<1> HIDE DEF at, items, n
<1>4. n \in Nat /\ n \in 1 .. n /\ (n # 1 => n - 1 \in 1 .. n /\ n - 1 < n)
  BY <1>1, LayersAreFinite, <1>2
<1>5. n # 1 => /\ items[n - 1].coordinate = LayerAt(at[n - 1].layer)
               /\ at[n - 1].layer \in CommonLayers(r) /\ at[n - 1].layer < FoundIn(r)
               /\ ~LayerDiffers(r.onset, "candidate", at[n - 1].layer)
  BY <1>1, <1>4
<1>6. /\ FoundIn(r) \in CommonLayers(r) /\ LayerDiffers(r.onset, "candidate", FoundIn(r))
      /\ items[n].coordinate = LayerAt(FoundIn(r))
  BY <1>1, <1>4
<1>7. items[n].coordinate.layer = FoundIn(r)
  BY <1>6, KeyOfLayer
<1> QED
  BY <1>2, <1>3, <1>5, <1>6, <1>7

LEMMA ObjectsAreSomething ==
    /\ \A l : LayerAt(l) # None
    /\ \A last, mismatch : Interval(last, mismatch) # None
    /\ \A role, report, trace : SourceBinding(role, report, trace) # None
    /\ \A pass2 : Pass2Evidence(pass2) # None
<1>1. \A l : LayerAt(l) # None
  BY DEF LayerAt, None
<1>2. \A last, mismatch : Interval(last, mismatch) # None
  BY DEF Interval, None
<1>3. \A role, report, trace : SourceBinding(role, report, trace) # None
  BY DEF SourceBinding, None
<1>4. \A pass2 : Pass2Evidence(pass2) # None
  BY DEF Pass2Evidence, None
<1> QED
  BY <1>1, <1>2, <1>3, <1>4

\* The constructor of Pass3Result accepts what Pass 3 builds.
LEMMA ResultIsValid ==
    ASSUME NEW r, IsRun(r), NEW x, ResultSays(r, x)
    PROVE  Pass3ResultIsValid(x)
<1>1. /\ x.bound => x.coherent /\ \A s \in Sides : x.sources[s] # None
      /\ x.evidence \in {None, Pass2Evidence(Pass2Of(r))}
  BY ObjectsAreSomething DEF ResultSays, IsUnbound, IsBound
<1>2. CASE IsRefused3(r, x)
  <2>1. /\ x.status \notin Complete /\ x.mismatch = None /\ x.interval = None
        /\ x.layer = Absent /\ x.disposition = "blocked"
    BY <1>2 DEF IsRefused3, SaysNothing, Refusals3, Complete
  <2> QED
    BY <1>1, <2>1 DEF Pass3ResultIsValid, Complete
<1>3. CASE IsCompared(r, x)
  <2>1. x.evidence # None => x.evidence.tier # RequestOnly
    <3>1. Pass2Evidence(Pass2Of(r)).tier = Pass2Of(r).tier
      BY DEF Pass2Evidence
    <3> QED
      BY <1>1, <1>3, <3>1 DEF IsCompared
  <2>2. CASE FoundIn(r) = Absent
    <3>1. /\ x.status = "no_mismatch_in_captured_coverage" /\ x.mismatch = None
          /\ x.interval = None /\ x.layer = Absent
          /\ x.disposition = "exploratory_localization_only"
      BY <1>3, <2>2 DEF IsCompared
    <3> QED
      BY <1>1, <2>1, <3>1 DEF Pass3ResultIsValid, Complete
  <2>3. CASE FoundIn(r) # Absent
    <3>1. /\ x.status = "observable_mismatch_found" /\ x.mismatch # None
          /\ x.interval # None /\ x.layer = x.mismatch.layer
      BY <1>3, <2>3, MismatchIs, ObjectsAreSomething, KeyOfLayer
    <3>2. x.disposition = "suspect_interval_available"
      BY <1>3, <2>3 DEF IsCompared
    <3> QED
      BY <1>1, <2>1, <3>1, <3>2 DEF Pass3ResultIsValid, Complete
  <2> QED
    BY <2>2, <2>3
<1> QED
  BY <1>2, <1>3 DEF ResultSays

-------------------------------------------------------------------------------
(* Gates 1 to 5 end in a classified outcome. *)
\* Which kind of parent gate 3 says this is.
LEMMA Gate3Status ==
    ASSUME NEW discovery, NEW authoritative
    PROVE  Gate3(discovery, authoritative).status =
             IF authoritative.status \in
                  {"unsupported_checkpoint_layout", "comparison_policy_unavailable"}
             THEN "unsupported_parent"
             ELSE IF authoritative.status = "no_mismatch_in_captured_coverage"
             THEN "not_applicable"
             ELSE IF authoritative.status # "observable_mismatch_found"
             THEN "comparison_blocked_by_pass3"
             ELSE IF ~PolicyIsKnown(authoritative) \/ authoritative.step = 0
             THEN "unsupported_parent"
             ELSE IF discovery.status = "observable_mismatch_found" /\ PolicyIsKnown(discovery)
             THEN "passed" ELSE "comparison_blocked_by_pass3"
<1> DEFINE known == PolicyIsKnown(authoritative)
           found == discovery.status = "observable_mismatch_found" /\ PolicyIsKnown(discovery)
           a == Gate(authoritative.status # "unsupported_checkpoint_layout",
                     "unsupported_parent", "parent_contract_or_family_unsupported")
           b == Gate(authoritative.status # "comparison_policy_unavailable",
                     "unsupported_parent", "parent_digest_policy_unsupported")
           c == Gate(authoritative.status # "no_mismatch_in_captured_coverage",
                     "not_applicable", "parent_has_no_observed_mismatch")
           d == Demand(authoritative.status = "observable_mismatch_found",
                       "parent_status_blocked")
           e == Gate(known, "unsupported_parent", "parent_digest_policy_unsupported")
           f == Gate(authoritative.step # 0, "unsupported_parent", "parent_phase_unsupported")
           g == Demand(found, "parent_upstream_evidence_incoherent")
<1>1. Gate3(discovery, authoritative) = FirstRefusal(<<a, b, c, d, e, f, g>>)
  BY DEF Gate3
<1> HIDE DEF known, found
<1>2. /\ a.passes <=> authoritative.status # "unsupported_checkpoint_layout"
      /\ b.passes <=> authoritative.status # "comparison_policy_unavailable"
      /\ c.passes <=> authoritative.status # "no_mismatch_in_captured_coverage"
      /\ d.passes <=> authoritative.status = "observable_mismatch_found"
      /\ e.passes <=> known
      /\ f.passes <=> authoritative.step # 0
      /\ g.passes <=> found
  BY DEF Gate, Demand
<1>3. /\ a.refusal.status = "unsupported_parent" /\ b.refusal.status = "unsupported_parent"
      /\ c.refusal.status = "not_applicable"
      /\ d.refusal.status = "comparison_blocked_by_pass3"
      /\ e.refusal.status = "unsupported_parent" /\ f.refusal.status = "unsupported_parent"
      /\ g.refusal.status = "comparison_blocked_by_pass3" /\ Passed.status = "passed"
  BY DEF Gate, Demand, Passed
<1> HIDE DEF a, b, c, d, e, f, g
<1>4. Gate3(discovery, authoritative).status =
        IF authoritative.status \in
             {"unsupported_checkpoint_layout", "comparison_policy_unavailable"}
        THEN "unsupported_parent"
        ELSE IF authoritative.status = "no_mismatch_in_captured_coverage"
        THEN "not_applicable"
        ELSE IF authoritative.status # "observable_mismatch_found"
        THEN "comparison_blocked_by_pass3"
        ELSE IF ~known \/ authoritative.step = 0 THEN "unsupported_parent"
        ELSE IF found THEN "passed" ELSE "comparison_blocked_by_pass3"
  BY ONLY <1>1, <1>2, <1>3, FirstRefusal7
<1> QED
  BY <1>4 DEF known, found

\* What the two artifacts say once gates 1 and 2 have passed.
LEMMA ParentsAre ==
    ASSUME ChainInv, pc \in AfterPass3, Lineage(Given) = Passed
    PROVE  /\ \A g \in Generations :
                LET r == HandedRun(g)
                    x == Given.result[g]
                    raw == Given.artifact[g]
                IN  /\ IsRun(r) /\ ResultSays(r, x) /\ raw = SerializePass3(x)
                    /\ IsBound(x, Pass2Of(r), Reports(r), Traces(r))
                    /\ raw.status = x.status /\ raw.layer = x.layer /\ raw.step = Step
                    /\ raw.decision = x.decision /\ raw.evidence = Pass2Evidence(Pass2Of(r))
                    /\ \A s \in Sides : raw.sources[s] # None
           /\ Given.artifact["authoritative"].evidence.tier \notin {RequestOnly, Malformed}
<1>1. ASSUME NEW g \in Generations
      PROVE  LET r == HandedRun(g)
                 x == Given.result[g]
                 raw == Given.artifact[g]
             IN  /\ IsRun(r) /\ ResultSays(r, x) /\ raw = SerializePass3(x)
                 /\ IsBound(x, Pass2Of(r), Reports(r), Traces(r))
                 /\ raw.status = x.status /\ raw.layer = x.layer /\ raw.step = Step
                 /\ raw.decision = x.decision /\ raw.evidence = Pass2Evidence(Pass2Of(r))
                 /\ \A s \in Sides : raw.sources[s] # None
  <2> DEFINE r == HandedRun(g)
             x == Given.result[g]
             raw == Given.artifact[g]
  <2>1. /\ IsRun(r) /\ ResultSays(r, x)
    BY <1>1, HandedSays
  <2>2. /\ raw = SerializePass3(x) /\ IsBound(x, Pass2Of(r), Reports(r), Traces(r))
        /\ raw.sources = x.sources
    BY <1>1, ArtifactIs
  <2>3. /\ raw.status = x.status /\ raw.layer = x.layer /\ raw.step = x.step
        /\ raw.decision = x.decision /\ raw.evidence = x.evidence
    BY <2>1, <2>2, ResultFields, SerializationIs
  <2>4. x.step = Step
    BY <2>1 DEF ResultSays, Pass2Of
  <2>5. x.evidence = Pass2Evidence(Pass2Of(r)) /\ \A s \in Sides : x.sources[s] # None
    BY <2>2, ObjectsAreSomething DEF IsBound
  <2> QED
    BY <2>1, <2>2, <2>3, <2>4, <2>5
<1>2. Given.artifact["authoritative"].evidence.tier \notin {RequestOnly, Malformed}
  <2> DEFINE r == HandedRun("authoritative")
             raw == Given.artifact["authoritative"]
             pass2 == Given.pass2["authoritative"]
  <2>1. BindsPass2(raw, pass2)
    BY LineageReads, Pass2BindingReads
  <2>2. raw.evidence.tier = pass2.tier /\ pass2.tier # RequestOnly
    BY <2>1 DEF BindsPass2
  <2>3. raw.evidence = Pass2Evidence(Pass2Of(r))
    BY <1>1 DEF Generations
  <2>4. Pass2Evidence(Pass2Of(r)).tier = Pass2Of(r).tier /\ Pass2Of(r).tier # Malformed
    BY DEF Pass2Evidence, Pass2Of, RequestOnly, Independent, Malformed
  <2> QED
    BY <2>2, <2>3, <2>4
<1> QED
  BY <1>1, <1>2

\* A refusal of gates 1 to 5: no sources, no target, a reason of the status, and of
\* the parents what the status lets it keep.
TerminalSays(o) ==
    /\ o.bindings = NoBindings /\ o.target = NoTarget /\ o.reason \in ReasonsOf(o.status)
    /\ \/ /\ o.status \in ParentFailures
          /\ o.parent # None => o.parent.classification = o.status
          /\ o.status # "comparison_blocked_by_pass3" => o.parent # None
       \/ /\ o.status = "source_binding_inconsistent"
          /\ o.parent # None /\ o.parent.classification = "eligible"

LEMMA TerminalIs ==
    ASSUME NEW refusal, NEW p, NEW warnings,
           refusal.status \in ParentFailures \cup {"source_binding_inconsistent"},
           refusal.reason \in ReasonsOf(refusal.status),
           p # None => p.classification = Classification(refusal.status),
           refusal.status # "comparison_blocked_by_pass3" => p # None
    PROVE  LET o == Outcome(Terminal(refusal, p, warnings)) IN
           IF warnings.inherited = "unfit" THEN o = Raised
           ELSE TerminalSays(o) /\ o.status = refusal.status
<1> DEFINE o == Terminal(refusal, p, warnings)
<1>1. /\ o.status = refusal.status /\ o.reason = refusal.reason /\ o.parent = p
      /\ o.bindings = NoBindings /\ o.target = NoTarget /\ o.warnings = warnings
  BY DEF Terminal
<1> HIDE DEF o
<1>2. o.status # "proceed"
  BY <1>1 DEF ParentFailures
<1>3. ParentPolicy(o.status) = "required" => p # None
  BY <1>1 DEF ParentPolicy
<1>4. OutcomeIsValid(o) <=> warnings.inherited # "unfit"
  BY <1>1, <1>2, <1>3 DEF OutcomeIsValid, ListsAreBounded
<1>5. Outcome(o) = IF warnings.inherited = "unfit" THEN Raised ELSE o
  BY <1>4 DEF Outcome
<1>6. CASE refusal.status \in ParentFailures
  <2>1. Classification(refusal.status) = refusal.status
    BY <1>6 DEF Classification, ParentFailures
  <2> QED
    BY <1>1, <1>5, <1>6, <2>1 DEF TerminalSays, o
<1>7. CASE refusal.status = "source_binding_inconsistent"
  <2>1. Classification(refusal.status) = "eligible"
    BY <1>7 DEF Classification
  <2> QED
    BY <1>1, <1>5, <1>7, <2>1 DEF TerminalSays, o
<1> QED
  BY <1>6, <1>7

\* An outcome that was raised is no refusal, and goes on with nothing.
LEMMA RaisedSays == ~TerminalSays(Raised) /\ Raised.status # "proceed"
BY DEF TerminalSays, Raised, ParentFailures

LEMMA ParentTerminalIs ==
    ASSUME NEW given, NEW refusal, given.artifact["authoritative"].step = Step,
           refusal.status \in ParentFailures, refusal.reason \in ReasonsOf(refusal.status),
           refusal.status = "not_applicable" => given.artifact["authoritative"].layer = Absent
    PROVE  /\ LET o == ParentTerminal(refusal, given) IN
              IF given.result["authoritative"].warnings = "unfit" THEN o = Raised
              ELSE TerminalSays(o) /\ o.status = refusal.status
           /\ BlockedTerminal(refusal, given) = ParentTerminal(refusal, given)
<1> DEFINE p == BuildParent(Classification(refusal.status), given, FALSE)
           discovery     == given.artifact["discovery"]
           authoritative == given.artifact["authoritative"]
           terminal      == Outcome(Terminal(refusal, p, Warnings(given)))
<1>1. Classification(refusal.status) = refusal.status
  BY DEF Classification, ParentFailures
<1>2. /\ p.classification = refusal.status /\ p.found = discovery.layer
      /\ p.layer = IF /\ discovery.layer # authoritative.layer
                      /\ refusal.status \notin {"eligible", "parent_revalidation_inconsistent"}
                   THEN Absent ELSE authoritative.layer
      /\ p.step = Step /\ p.crossVerified = FALSE /\ p # None
      /\ refusal.status # "eligible" => p.localization = NoLocalization
  BY <1>1 DEF BuildParent, None
<1>3. refusal.status # "eligible"
  BY DEF ParentFailures
<1> HIDE DEF p
<1>4. ParentEvidenceIsValid(p)
  <2>1. p.step >= 1
    BY <1>2 DEF Step
  <2>2. p.classification = "parent_revalidation_inconsistent"
          \/ Absent \in {p.found, p.layer} \/ p.found = p.layer
    BY <1>2, <1>3
  <2> QED
    BY <1>2, <1>3, <2>1, <2>2 DEF ParentEvidenceIsValid
<1>5. ParentTerminal(refusal, given) = terminal /\ BlockedTerminal(refusal, given) = terminal
  BY <1>4 DEF ParentTerminal, BlockedTerminal, p
<1>6. IF Warnings(given).inherited = "unfit" THEN terminal = Raised
      ELSE TerminalSays(terminal) /\ terminal.status = refusal.status
  BY <1>1, <1>2, TerminalIs
<1> HIDE DEF terminal
<1> QED
  BY <1>5, <1>6, WarningsAre

\* An eligible parent can always be built.
LEMMA EligibleIs ==
    ASSUME ChainInv, pc \in AfterPass3, Lineage(Given) = Passed,
           Gate3(Given.artifact["discovery"], Given.artifact["authoritative"]) = Passed,
           Drift(Given.artifact["discovery"], Given.artifact["authoritative"]) = Passed
    PROVE  LET p == BuildParent("eligible", Given, TRUE)
               x == Given.result["authoritative"]
               r == HandedRun("authoritative")
           IN  /\ ParentEvidenceIsValid(p) /\ p # None /\ p.classification = "eligible"
               /\ IsCompared(r, x) /\ FoundIn(r) # Absent
               /\ p.step = Step /\ p.layer = FoundIn(r)
               /\ p.localization.mismatch = x.mismatch /\ p.localization.last = x.last
<1> DEFINE given         == Given
           discovery     == given.artifact["discovery"]
           authoritative == given.artifact["authoritative"]
           p == BuildParent("eligible", given, TRUE)
           x == given.result["authoritative"]
           r == HandedRun("authoritative")
           l == FoundIn(r)
<1>1. /\ IsRun(r) /\ ResultSays(r, x)
      /\ authoritative.status = x.status /\ authoritative.layer = x.layer
      /\ authoritative.step = Step /\ authoritative.decision = x.decision
      /\ authoritative.evidence.tier \notin {RequestOnly, Malformed}
  BY ParentsAre DEF Generations
<1>2. /\ authoritative.status = "observable_mismatch_found" /\ PolicyIsKnown(authoritative)
      /\ discovery.layer = authoritative.layer
  <2> HIDE DEF discovery, authoritative, given
  <2>1. Gate3(discovery, authoritative) = Passed /\ Drift(discovery, authoritative) = Passed
    BY DEF discovery, authoritative, given
  <2>2. authoritative.status = "observable_mismatch_found" /\ PolicyIsKnown(authoritative)
    BY ONLY <2>1, Gate3Reads
  <2>3. discovery.layer = authoritative.layer
    BY ONLY <2>1, DriftReads
  <2> QED
    BY <2>2, <2>3
<1>3. /\ p.classification = "eligible" /\ p.found = discovery.layer
      /\ p.layer = authoritative.layer /\ p.step = authoritative.step
      /\ p.crossVerified = TRUE /\ p # None
      /\ p.localization.mismatch = x.mismatch /\ p.localization.last = x.last
      /\ p.localization.interval = x.interval
      /\ p.localization.decision = authoritative.decision
      /\ p.localization.tier = authoritative.evidence.tier
  BY DEF BuildParent, None
<1> HIDE DEF p, x, r, discovery, authoritative, given
<1>4. IsCompared(r, x) /\ l # Absent
  BY <1>1, <1>2, MismatchIsFound
<1> HIDE DEF l
<1>5. /\ l \in Layers /\ x.layer = l /\ x.mismatch = LayerAt(l)
      /\ x.interval = Interval(x.last, x.mismatch)
      /\ \/ x.last = None
         \/ \E k : x.last = LayerAt(k) /\ k < l
  BY <1>1, <1>4, MismatchIs DEF l
<1>6. /\ x.mismatch # None /\ x.interval # None
      /\ x.mismatch.layer = l /\ x.mismatch.step = Step
  BY <1>5, ObjectsAreSomething DEF LayerAt
<1>7. x.last # None => Precedes(x.last, x.mismatch)
  <2> SUFFICES ASSUME x.last # None PROVE Precedes(x.last, x.mismatch)
    OBVIOUS
  <2>1. PICK k : x.last = LayerAt(k) /\ k < l
    BY <1>5
  <2>2. x.last.step = Step /\ x.last.layer = k
    BY <2>1 DEF LayerAt
  <2>3. x.last.step = x.mismatch.step /\ x.last.layer < x.mismatch.layer
    BY <1>6, <2>1, <2>2
  <2> QED
    BY <2>3 DEF Precedes
<1>8. x.interval.mismatch = x.mismatch /\ x.interval.last = x.last
  BY <1>5 DEF Interval
<1>9. EligibleIsComplete(p)
  BY <1>1, <1>2, <1>3, <1>4, <1>5, <1>6, <1>7, <1>8 DEF EligibleIsComplete, PolicyIsKnown
<1>10. ParentEvidenceIsValid(p)
  <2>1. p.step >= 1
    BY <1>1, <1>3 DEF Step
  <2> QED
    BY <1>2, <1>3, <1>9, <2>1 DEF ParentEvidenceIsValid
<1> QED
  BY <1>1, <1>3, <1>4, <1>5, <1>10 DEF p, x, r, l, given

\* A refusal of gates 1 and 2 inherits the lists of the parent when it is the
\* parent's status that is refused.
Inherits(lineage) == lineage.reason \in {"none", "parent_status_blocked"}

\* Gates 1 to 5 refuse with a classified outcome or proceed, as the first of them
\* that does not pass says, unless they inherit a list that is unfit.
LEMMA BindSays ==
    ASSUME ChainInv, pc \in AfterPass3
    PROVE  LET given    == Given
               lineage  == Lineage(given)
               kind     == Gate3(given.artifact["discovery"], given.artifact["authoritative"])
               drift    == Drift(given.artifact["discovery"], given.artifact["authoritative"])
               sources  == Sources(given)
               o        == Bind(given)
           IN  IF given.result["authoritative"].warnings = "unfit" /\ Inherits(lineage)
               THEN o = Raised
               ELSE /\ o # Raised
                    /\ o.status = IF lineage # Passed THEN lineage.status
                                  ELSE IF kind # Passed THEN kind.status
                                  ELSE IF drift # Passed THEN drift.status
                                  ELSE IF sources # Passed THEN sources.status
                                  ELSE "proceed"
                    /\ TerminalSays(o) \/ o.status = "proceed"
<1> DEFINE given    == Given
           lineage  == Lineage(given)
           kind     == Gate3(given.artifact["discovery"], given.artifact["authoritative"])
           drift    == Drift(given.artifact["discovery"], given.artifact["authoritative"])
           sources  == Sources(given)
           eligible == BuildParent("eligible", given, TRUE)
           o        == Bind(given)
           unfit    == given.result["authoritative"].warnings = "unfit"
<1>1. o = IF lineage # Passed THEN LineageTerminal(lineage, given)
          ELSE IF kind.status = "comparison_blocked_by_pass3" THEN BlockedTerminal(kind, given)
          ELSE IF kind # Passed  THEN ParentTerminal(kind, given)
          ELSE IF drift # Passed THEN ParentTerminal(drift, given)
          ELSE IF ~ParentEvidenceIsValid(eligible) THEN Raised
          ELSE IF sources = Passed THEN Outcome(Proceed(given, eligible))
          ELSE IF sources.status = "source_binding_inconsistent"
               THEN Outcome(Terminal(sources, eligible, Warnings(given)))
          ELSE ParentTerminal(sources, given)
  BY BindIs
<1>2. /\ lineage # Passed => /\ lineage.status = "comparison_blocked_by_pass3"
                             /\ lineage.reason \in ReasonsOf(lineage.status)
      /\ kind # Passed => /\ kind.status \in {"unsupported_parent", "not_applicable",
                                              "comparison_blocked_by_pass3"}
                          /\ kind.reason \in ReasonsOf(kind.status)
      /\ drift # Passed => /\ drift.status = "parent_revalidation_inconsistent"
                           /\ drift.reason \in ReasonsOf(drift.status)
      /\ sources # Passed => /\ sources.status \in {"source_binding_inconsistent",
                                  "unsupported_parent", "parent_revalidation_inconsistent"}
                             /\ sources.reason \in ReasonsOf(sources.status)
  <2>1. /\ ClassifiedAs(lineage, LineageStatuses) /\ ClassifiedAs(kind, KindStatuses)
        /\ ClassifiedAs(drift, DriftStatuses) /\ ClassifiedAs(sources, SourceStatuses)
    BY LineageReads, Gate3Reads, DriftReads, SourcesReads
  <2> HIDE DEF lineage, kind, drift, sources
  <2> QED
    BY ONLY <2>1 DEF ClassifiedAs, LineageStatuses, KindStatuses, DriftStatuses, SourceStatuses
<1>3. Passed.status = "passed" /\ Passed.reason = "none"
  BY DEF Passed
<1>4. CASE lineage # Passed
  <2> DEFINE warnings == IF lineage.reason = "parent_status_blocked"
                         THEN BlockedWarnings(given) ELSE NoWarnings
  <2>1. o = Outcome(Terminal(lineage, None, warnings))
    BY <1>1, <1>4 DEF LineageTerminal
  <2>2. warnings.inherited = "unfit" <=> unfit /\ lineage.reason = "parent_status_blocked"
    BY WarningsAre
  <2> HIDE DEF lineage, kind, drift, sources, eligible, o, unfit, warnings
  <2>3. lineage.status \in ParentFailures /\ lineage.reason # "none"
    BY <1>2, <1>4 DEF ParentFailures, ReasonsOf
  <2>4. IF warnings.inherited = "unfit" THEN o = Raised
        ELSE TerminalSays(o) /\ o.status = lineage.status
    BY <1>2, <1>4, <2>1, <2>3, TerminalIs
  <2>5. IF unfit /\ Inherits(lineage) THEN o = Raised
        ELSE TerminalSays(o) /\ o.status = lineage.status /\ o # Raised
    BY <2>2, <2>3, <2>4, RaisedSays DEF Inherits
  <2> QED
    BY <1>4, <2>5 DEF lineage, kind, drift, sources, o, unfit
<1>5. CASE lineage = Passed
  <2>0. Inherits(lineage)
    BY <1>3, <1>5 DEF Inherits
  <2>1. /\ \A g \in Generations :
             /\ IsRun(HandedRun(g)) /\ ResultSays(HandedRun(g), given.result[g])
             /\ given.artifact[g].status = given.result[g].status
             /\ given.artifact[g].layer = given.result[g].layer
             /\ given.artifact[g].step = Step
             /\ \A s \in Sides : given.artifact[g].sources[s] # None
    BY <1>5, ParentsAre
  <2>2. /\ given.artifact["authoritative"].step = Step
        /\ \A s \in Sides : given.artifact["authoritative"].sources[s] # None
    BY <2>1 DEF Generations
  <2>3. kind.status = "not_applicable" => given.artifact["authoritative"].layer = Absent
    <3>1. kind.status = "not_applicable" =>
            given.artifact["authoritative"].status = "no_mismatch_in_captured_coverage"
      <4> DEFINE d == given.artifact["discovery"]
                 a == given.artifact["authoritative"]
      <4> HIDE DEF d, a
      <4>1. Gate3(d, a).status = "not_applicable" =>
              a.status = "no_mismatch_in_captured_coverage"
        BY Gate3Status
      <4> QED
        BY <4>1 DEF d, a
    <3>2. Pass3ResultIsValid(given.result["authoritative"])
      BY <2>1, ResultIsValid DEF Generations
    <3> QED
      BY <2>1, <3>1, <3>2 DEF Pass3ResultIsValid, Generations
  <2>4. kind = Passed /\ drift = Passed =>
          ParentEvidenceIsValid(eligible) /\ eligible # None
            /\ eligible.classification = "eligible" /\ eligible.step = Step
            /\ eligible.layer \in Layers
            /\ eligible.layer = given.artifact["authoritative"].layer
    <3> SUFFICES ASSUME kind = Passed, drift = Passed
                 PROVE  ParentEvidenceIsValid(eligible) /\ eligible # None
                          /\ eligible.classification = "eligible" /\ eligible.step = Step
                          /\ eligible.layer \in Layers
                          /\ eligible.layer = given.artifact["authoritative"].layer
      OBVIOUS
    <3> DEFINE r == HandedRun("authoritative")
               x == given.result["authoritative"]
    <3>1. /\ ParentEvidenceIsValid(eligible) /\ eligible # None
          /\ eligible.classification = "eligible" /\ eligible.step = Step
          /\ IsCompared(r, x) /\ FoundIn(r) # Absent /\ eligible.layer = FoundIn(r)
      BY <1>5, EligibleIs
    <3>2. /\ IsRun(r) /\ given.artifact["authoritative"].layer = x.layer
      BY <2>1 DEF Generations
    <3> HIDE DEF r, x
    <3>3. FoundIn(r) \in Layers /\ x.layer = FoundIn(r)
      BY <3>1, <3>2, MismatchIs
    <3> QED
      BY <3>1, <3>2, <3>3
  <2> HIDE DEF lineage, kind, drift, sources, o, unfit
  <2>5. CASE kind # Passed
    <3>1. o \in {ParentTerminal(kind, given), BlockedTerminal(kind, given)}
      BY <1>1, <1>5, <2>5
    <3>2. kind.status \in ParentFailures
      BY <1>2, <2>5 DEF ParentFailures
    <3> HIDE DEF given
    <3>3. IF unfit THEN o = Raised ELSE TerminalSays(o) /\ o.status = kind.status
      BY <1>2, <2>2, <2>3, <2>5, <3>1, <3>2, ParentTerminalIs DEF unfit
    <3> QED
      BY <1>5, <2>0, <2>5, <3>3, RaisedSays
         DEF lineage, kind, drift, sources, o, unfit, given
  <2>6. CASE kind = Passed /\ drift # Passed
    <3>1. o = ParentTerminal(drift, given)
      BY <1>1, <1>3, <1>5, <2>6
    <3>2. drift.status \in ParentFailures /\ drift.status # "not_applicable"
      BY <1>2, <2>6 DEF ParentFailures
    <3> HIDE DEF given
    <3>3. IF unfit THEN o = Raised ELSE TerminalSays(o) /\ o.status = drift.status
      BY <1>2, <2>2, <2>6, <3>1, <3>2, ParentTerminalIs DEF unfit
    <3> QED
      BY <1>5, <2>0, <2>6, <3>3, RaisedSays
         DEF lineage, kind, drift, sources, o, unfit, given
  <2>7. CASE kind = Passed /\ drift = Passed /\ sources # Passed
    <3> HIDE DEF eligible
    <3>1. CASE sources.status = "source_binding_inconsistent"
      <4>1. o = Outcome(Terminal(sources, eligible, Warnings(given)))
        BY <1>1, <1>3, <1>5, <2>4, <2>7, <3>1
      <4>2. Classification(sources.status) = "eligible"
        BY <3>1 DEF Classification
      <4> DEFINE warnings == Warnings(given)
      <4>3. warnings.inherited = "unfit" <=> unfit
        BY WarningsAre DEF unfit
      <4> HIDE DEF given, warnings
      <4>4. sources.status \in ParentFailures \cup {"source_binding_inconsistent"}
        BY <3>1
      <4>5. IF warnings.inherited = "unfit" THEN o = Raised
            ELSE TerminalSays(o) /\ o.status = sources.status
        BY <1>2, <2>4, <2>7, <3>1, <4>1, <4>2, <4>4, TerminalIs DEF warnings
      <4> QED
        BY <1>5, <2>0, <2>7, <4>3, <4>5, RaisedSays
           DEF lineage, kind, drift, sources, o, unfit, given
    <3>2. CASE sources.status # "source_binding_inconsistent"
      <4>1. o = ParentTerminal(sources, given)
        BY <1>1, <1>3, <1>5, <2>4, <2>7, <3>2
      <4>2. sources.status \in ParentFailures /\ sources.status # "not_applicable"
        BY <1>2, <2>7, <3>2 DEF ParentFailures
      <4> HIDE DEF given
      <4>3. IF unfit THEN o = Raised ELSE TerminalSays(o) /\ o.status = sources.status
        BY <1>2, <2>2, <2>7, <4>1, <4>2, ParentTerminalIs DEF unfit
      <4> QED
        BY <1>5, <2>0, <2>7, <4>3, RaisedSays
           DEF lineage, kind, drift, sources, o, unfit, given
    <3> QED
      BY <3>1, <3>2
  <2>8. CASE kind = Passed /\ drift = Passed /\ sources = Passed
    <3> DEFINE proceed == Proceed(given, eligible)
    <3>1. o = Outcome(proceed)
      BY <1>1, <1>3, <1>5, <2>4, <2>8
    <3>2. /\ proceed.status = "proceed" /\ proceed.parent = eligible
          /\ proceed.bindings = given.artifact["authoritative"].sources
          /\ proceed.target.step = given.artifact["authoritative"].step
          /\ proceed.target.layer = given.artifact["authoritative"].layer
          /\ proceed.warnings.inherited = "unfit" <=> unfit
      BY WarningsAre DEF Proceed, unfit
    <3> HIDE DEF proceed, eligible, given
    <3>3. proceed.target.step >= 1 /\ proceed.target.layer >= 0
      BY <2>2, <2>4, <2>8, <3>2 DEF Step, Layers
    <3>4. OutcomeIsValid(proceed) <=> ~unfit
      BY <2>2, <2>4, <2>8, <3>2, <3>3 DEF OutcomeIsValid, ListsAreBounded
    <3>5. IF unfit THEN o = Raised ELSE o.status = "proceed"
      BY <3>1, <3>2, <3>4 DEF Outcome
    <3> QED
      BY <1>5, <2>0, <2>8, <3>5, RaisedSays DEF lineage, kind, drift, sources, o, unfit, given
  <2> QED
    BY <2>5, <2>6, <2>7, <2>8
<1> QED
  BY <1>4, <1>5

-------------------------------------------------------------------------------
(* Every input is classified: the constructors accept what is built.         *)
LEMMA TerminalIsValid ==
    ASSUME NEW o, TerminalSays(o), NEW refusal, refusal.status = o.status,
           refusal.reason = o.reason
    PROVE  Pass4ResultIsValid(Pass4Result(o, refusal, NoStages))
<1> DEFINE x == Pass4Result(o, refusal, NoStages)
<1>1. /\ x.status = o.status /\ x.reasons = <<o.reason>>
      /\ x.disposition = DispositionOf(o.status)
      /\ x.parent = o.parent /\ x.bindings = o.bindings /\ x.stages = NoStages
  BY Pass4ResultIs
<1> HIDE DEF x
<1>2. /\ o.bindings = NoBindings /\ o.reason \in ReasonsOf(o.status)
      /\ \/ /\ o.status \in ParentFailures
            /\ o.parent # None => o.parent.classification = o.status
            /\ o.status # "comparison_blocked_by_pass3" => o.parent # None
         \/ /\ o.status = "source_binding_inconsistent"
            /\ o.parent # None /\ o.parent.classification = "eligible"
  BY DEF TerminalSays
<1>3. \A s \in Sides : NoBindings[s] = None
  BY DEF NoBindings, Sides
<1>4. /\ NoStages.target = NoTarget /\ NoStages.coverage = None /\ NoStages.comparisons = <<>>
      /\ NoStages.interval = None /\ NoStages.mismatch = None /\ NoStages.closing = None
      /\ NoStages.last = None
  BY DEF NoStages
<1>5. /\ o.status \notin Localizations /\ o.status \notin AfterCoverage
      /\ o.status \in BeforeCoverage
      /\ o.status \in ParentFailures \cup {"source_binding_inconsistent"}
      /\ o.reason # "asymmetric_coverage_retained"
      /\ o.status # "observable_intra_layer_mismatch_found"
      /\ o.status # "mismatch_bounded_to_inherited_closing_boundary"
      /\ o.status = "source_binding_inconsistent" => o.status \notin ParentFailures
  BY <1>2 DEF Localizations, AfterCoverage, BeforeCoverage, ParentFailures, ReasonsOf
<1>6. StatusIsCoherent(x)
  <2>1. /\ IsInjective(x.reasons) /\ x.reasons[1] = o.reason
        /\ "asymmetric_coverage_retained" \notin ToSet(x.reasons)
    BY <1>1, <1>5, OneReasonIs
  <2> QED
    BY <1>1, <1>2, <2>1 DEF StatusIsCoherent
<1>7. KeepsItsEvidence(x)
  <2>1. o.status # "comparison_blocked_by_pass3" => o.parent # None
    BY <1>2
  <2> QED
    BY <1>1, <1>2, <1>3, <1>4, <1>5, <2>1 DEF KeepsItsEvidence
<1>8. x.parent # None => x.parent.classification = Classification(x.status)
  BY <1>1, <1>2 DEF Classification, ParentFailures
<1>9. CoverageIsOfTarget(x)
  BY <1>1, <1>4 DEF CoverageIsOfTarget
<1> QED
  BY <1>1, <1>5, <1>6, <1>7, <1>8, <1>9 DEF Pass4ResultIsValid, x

\* An outcome that proceeds names the layer both generations found.
LEMMA ProceedingIs ==
    ASSUME ChainInv, pc \in AfterPass3, Bind(Given).status = "proceed"
    PROVE  LET o == Bind(Given)
               x == Given.result["authoritative"]
               r == HandedRun("authoritative")
           IN  /\ IsProceeding(o) /\ IsRun(r) /\ IsCompared(r, x) /\ FoundIn(r) # Absent
               /\ o.target.step = Step /\ o.target.layer = FoundIn(r)
               /\ o.parent.localization.last = x.last
               /\ o.bindings = Given.artifact["authoritative"].sources
<1> DEFINE given == Given
           o == Bind(given)
           p == BuildParent("eligible", given, TRUE)
           x == given.result["authoritative"]
           r == HandedRun("authoritative")
<1>1. /\ Lineage(given) = Passed
      /\ Gate3(given.artifact["discovery"], given.artifact["authoritative"]) = Passed
      /\ Drift(given.artifact["discovery"], given.artifact["authoritative"]) = Passed
      /\ o = Proceed(given, p) /\ OutcomeIsValid(o)
  BY BindProceeds
<1>2. /\ p # None /\ p.classification = "eligible" /\ IsCompared(r, x) /\ FoundIn(r) # Absent
      /\ p.step = Step /\ p.layer = FoundIn(r)
      /\ p.localization.mismatch = x.mismatch /\ p.localization.last = x.last
  BY <1>1, EligibleIs
<1>3. IsRun(r)
  BY HandedSays DEF Generations
<1>4. /\ o.parent = p /\ o.bindings = given.artifact["authoritative"].sources
      /\ o.status = "proceed"
  <2> HIDE DEF given, p
  <2> QED
    BY <1>1 DEF Proceed
<1> HIDE DEF p, x, r, given, o
<1>5. /\ \A s \in Sides : o.bindings[s] # None
      /\ o.target.step = p.step /\ o.target.layer = p.layer
  BY <1>1, <1>4 DEF OutcomeIsValid
<1>6. x.mismatch # None
  BY <1>2, <1>3, MismatchIs, ObjectsAreSomething
<1>7. FoundIn(r) \in Layers
  BY <1>2, <1>3, MismatchIs
<1>8. Step \in Nat \ {0} /\ FoundIn(r) \in Nat
  BY <1>7, EvidenceChainAssumption DEF Step, Layers
<1>9. IsProceeding(o)
  BY <1>2, <1>4, <1>5, <1>6, <1>8 DEF IsProceeding
<1> QED
  BY <1>2, <1>3, <1>4, <1>5, <1>9 DEF o, p, x, r, given

\* A trace that is handed over is one of a run.
LEMMA TraceGiven ==
    ASSUME ChainInv, pc \in AfterPass3, NEW g \in Generations, NEW s \in Sides
    PROVE  \E h \in Generations, t \in Sides :
              IsRun(run[h]) /\ Given.trace[g][s] = TraceOf(run[h], t)
<1> DEFINE slot == [of |-> "trace", g |-> g, s |-> s]
<1>1. slot \in Slot /\ slot.of = "trace" /\ slot.g = g /\ slot.s = s
  BY DEF Slot, Files
<1>2. MayHold(slot) = [g : Generations, s : Sides]
  BY <1>1 DEF MayHold, Files
<1>3. handed[slot].g \in Generations /\ handed[slot].s \in Sides
  BY <1>1, <1>2 DEF ChainInv, HandedInv
<1>4. IsRun(run[handed[slot].g])
  BY <1>3 DEF ChainInv, RunsInv, Generations, AfterPass3
<1>5. Given.trace[g][s] = TraceOf(run[handed[slot].g], handed[slot].s)
  BY DEF Given
<1> QED
  BY <1>3, <1>4, <1>5

LEMMA EntriesGiven ==
    ASSUME ChainInv, pc \in AfterPass3, NEW s \in Sides,
           Given.trace["authoritative"][s].intra # None
    PROVE  DOMAIN Given.trace["authoritative"][s].intra.entries \subseteq Nat
<1>1. PICK h \in Generations : \E t \in Sides :
         IsRun(run[h]) /\ Given.trace["authoritative"][s] = TraceOf(run[h], t)
  BY TraceGiven DEF Generations
<1>2. PICK t \in Sides :
         IsRun(run[h]) /\ Given.trace["authoritative"][s] = TraceOf(run[h], t)
  BY <1>1
<1> DEFINE N == Cardinality(run[h].stages[t])
<1>3. DOMAIN TraceOf(run[h], t).intra.entries = 1 .. N /\ N \in Nat
  BY <1>2, IntraIs
<1> HIDE DEF N
<1> QED
  BY <1>2, <1>3

\* The result of an overflow is that of a blocked parent without evidence.
LEMMA OverflowIsValid == Pass4ResultIsValid(OverflowResult)
<1> DEFINE refusal == [status |-> "comparison_blocked_by_pass3",
                       reason |-> "parent_typed_artifact_incoherent"]
           o == Terminal(refusal, None, NoWarnings)
<1>1. /\ o.status = refusal.status /\ o.reason = refusal.reason /\ o.parent = None
      /\ o.bindings = NoBindings /\ o.target = NoTarget
  BY DEF Terminal
<1>2. TerminalSays(o)
  BY <1>1 DEF TerminalSays, ParentFailures, ReasonsOf
<1>3. Pass4ResultIsValid(Pass4Result(o, refusal, NoStages))
  BY <1>1, <1>2, TerminalIsValid
<1>4. Pass4Result(o, refusal, NoStages) = OverflowResult
  BY <1>1 DEF Pass4Result, OverflowResult
<1> QED
  BY <1>3, <1>4

LEMMA FinalIsValid ==
    ASSUME ChainInv, pc = "done"
    PROVE  Pass4ResultIsValid(final)
<1> DEFINE o == outcome
           traces == Given.trace["authoritative"]
<1>1. /\ o = Bind(Given) /\ parsed = Parsing /\ final = Localizing /\ pc \in AfterPass3
      /\ o # Raised
  BY DEF ChainInv, OutcomeInv, AfterPass3
<1>0. CASE WarningsOverflow(o)
  BY <1>0, <1>1, OverflowIsValid DEF Localizing
<1>2. CASE ~WarningsOverflow(o) /\ o.status # "proceed"
  <2>1. TerminalSays(o)
    BY <1>1, <1>2, BindSays
  <2>2. parsed = [status |-> o.status, reason |-> o.reason]
    BY <1>1, <1>2 DEF Parsing
  <2>3. parsed.status = o.status /\ parsed.reason = o.reason
    BY <2>2
  <2>4. o.status # "passed"
    BY <2>1 DEF TerminalSays, ParentFailures
  <2>5. parsed # Passed
    BY <2>3, <2>4 DEF Passed
  <2>6. final = Pass4Result(o, parsed, NoStages)
    BY <1>1, <1>2, <2>5 DEF Localizing
  <2> QED
    BY <2>1, <2>3, <2>6, TerminalIsValid
<1>3. CASE ~WarningsOverflow(o) /\ o.status = "proceed"
  <2>1. IsProceeding(o)
    BY <1>1, <1>3, ProceedingIs
  <2>2. parsed = ParseStages(o, traces)
    BY <1>1, <1>3 DEF Parsing
  <2>3. \A s \in Sides : traces[s].intra # None => DOMAIN traces[s].intra.entries \subseteq Nat
    BY <1>1, EntriesGiven
  <2> HIDE DEF traces
  <2>4. /\ ClassifiedAs(parsed, StageStatuses)
        /\ parsed = Passed => StageLayouts(o, traces) = Passed
    BY <2>2, <2>3, ParseReads
  <2>5. CASE parsed = Passed
    <3>1. final = LocalizeStages(o, traces)
      BY <1>1, <1>3, <2>5 DEF Localizing, traces
    <3> QED
      BY <2>1, <2>4, <2>5, <3>1, LocalizeReads
  <2>6. CASE parsed # Passed
    <3>1. final = Pass4Result(o, parsed, NoStages)
      BY <1>1, <1>3, <2>6 DEF Localizing
    <3>2. /\ parsed.status \in StageStatuses /\ parsed.reason \in ReasonsOf(parsed.status)
      BY <2>4, <2>6 DEF ClassifiedAs
    <3>3. parsed.status \in RefusalsOfStages /\ parsed.status \notin AfterCoverage
      BY <3>2 DEF RefusalsOfStages, StageStatuses, AfterCoverage, Localizations
    <3>4. ComparesNothing(NoStages)
      BY DEF ComparesNothing, NoStages
    <3> QED
      BY <2>1, <3>1, <3>2, <3>3, <3>4, UnlocalizedIsValid
  <2> QED
    BY <2>5, <2>6
<1> QED
  BY <1>0, <1>2, <1>3

\* Whatever is handed over and whatever the files say, each pass ends in one of its
\* classified outcomes, and no constructor refuses what the code before it built:
\* gates 1 to 5 raise exactly when a list they inherit is unfit, which is when they
\* proceed, refuse after gate 2, or refuse the status of the parent.
THEOREM ClassifiedAlways == Spec => []FitInputIsClassified
<1>1. ChainInv => FitInputIsClassified
  <2> SUFFICES ASSUME ChainInv PROVE FitInputIsClassified
    OBVIOUS
  <2>1. ASSUME NEW g \in Generations, result[g] # None PROVE Pass3ResultIsValid(result[g])
    <3>1. result[g] = LocalizationOf(g)
      BY <2>1 DEF ChainInv, ResultsInv, Generations
    <3>2. IsRun(run[g])
      BY <2>1 DEF ChainInv, RunsInv, ResultsInv, Generations, AfterPass3
    <3> QED
      BY <3>1, <3>2, LocalizationOfSays, ResultIsValid
  <2>2. outcome # None =>
          (outcome = Raised <=> Given.result["authoritative"].warnings = "unfit"
                                  /\ Inherits(Lineage(Given)))
    <3> SUFFICES ASSUME outcome # None
                 PROVE  outcome = Raised <=>
                           Given.result["authoritative"].warnings = "unfit"
                             /\ Inherits(Lineage(Given))
      OBVIOUS
    <3>1. outcome = Bind(Given) /\ pc \in AfterPass3
      BY DEF ChainInv, OutcomeInv, AfterPass3
    <3> QED
      BY <3>1, BindSays
  <2>3. pc = "done" => Pass4ResultIsValid(final)
    BY FinalIsValid
  <2> QED
    BY <2>1, <2>2, <2>3 DEF FitInputIsClassified, Inherits
<1> QED
  BY <1>1, ChainInvariance, PTL
-------------------------------------------------------------------------------
(* Where the onset is. *)
\* A localization is made of the traces of the run whose result was handed over.
LEMMA LocalizingSays ==
    ASSUME ChainInv, Localizes
    PROVE  LET r    == HandedRun("authoritative")
               o    == Bind(Given)
               ref  == TraceOf(r, "reference").intra
               cand == TraceOf(r, "candidate").intra
               traces == [s \in Sides |-> TraceOf(r, s)]
               common == CommonStages(traces)
           IN  /\ pc \in AfterPass3 /\ o.status = "proceed" /\ IsRun(r)
               /\ r.target = o.target.layer
               /\ ref # None /\ cand # None
               /\ StageEntries(ref) = Passed /\ StageEntries(cand) = Passed
               /\ IsStages(common, ref) /\ common # <<>>
               /\ ref.step = o.target.step /\ ref.layer = o.target.layer
               /\ \E at : /\ LocalizedSays(o, at, final)
                          /\ at.coverage.comparable = common
                          /\ at.target.layer = o.target.layer
                          /\ final.stages.comparisons = StageComparisons(ref, cand, common)
<1> DEFINE r == HandedRun("authoritative")
           o == Bind(Given)
           given == Given.trace["authoritative"]
           traces == [s \in Sides |-> TraceOf(r, s)]
           common == CommonStages(traces)
<1>1. pc = "done" /\ final.status \in Localizations
  BY DEF Localizes, ChainInv, OutcomeInv
<1>2. /\ pc \in AfterPass3 /\ outcome = o /\ parsed = Parsing /\ final = Localizing
      /\ o # Raised
  BY <1>1 DEF ChainInv, OutcomeInv, AfterPass3
<1>0. ~WarningsOverflow(o)
  <2>1. OverflowResult.status = "comparison_blocked_by_pass3"
    BY DEF OverflowResult, Pass4Result
  <2>2. OverflowResult.status \notin Localizations
    BY <2>1 DEF Localizations
  <2> HIDE DEF o
  <2> QED
    BY <1>1, <1>2, <2>2 DEF Localizing
<1>3. o.status = "proceed"
  <2> SUFFICES ASSUME o.status # "proceed" PROVE FALSE
    OBVIOUS
  <2>1. TerminalSays(o)
    BY <1>2, BindSays
  <2>2. parsed.status = o.status
    BY <1>2 DEF Parsing
  <2>3. o.status # "passed" /\ o.status \notin Localizations
    BY <2>1 DEF TerminalSays, ParentFailures, Localizations
  <2>4. final = Pass4Result(o, parsed, NoStages)
    BY <1>0, <1>2, <2>2, <2>3 DEF Localizing, Passed
  <2> QED
    BY <1>1, <2>2, <2>3, <2>4, Pass4ResultIs
<1>4. Proceeds
  <2>1. outcome # None
    <3>1. o = Proceed(Given, BuildParent("eligible", Given, TRUE))
      BY <1>3, BindProceeds
    <3>2. \A g, parent : Proceed(g, parent) # None
      BY DEF Proceed, None
    <3> QED
      BY <1>2, <3>1, <3>2
  <2> QED
    BY <1>2, <1>3, <2>1 DEF Proceeds
<1>5. parsed = ParseStages(o, given)
  BY <1>2, <1>3 DEF Parsing
<1>6. \A s \in Sides : given[s].intra # None => DOMAIN given[s].intra.entries \subseteq Nat
  BY <1>2, EntriesGiven
<1>7. IsProceeding(o) /\ IsRun(r) /\ o.target.layer = FoundIn(r)
  BY <1>2, <1>3, ProceedingIs
<1>8. given = traces /\ r.target = Given.result["discovery"].layer
  <2>1. ProceedIsOneLineage
    BY ChainImpliesLineage
  <2>2. /\ Given.trace = Lineages.trace
        /\ r.target = Given.result["discovery"].layer
    BY <1>4, <2>1 DEF ProceedIsOneLineage
  <2> QED
    BY <2>2 DEF Lineages, Generations
<1>9. r.target = o.target.layer
  <2>1. \A g \in Generations :
           /\ IsRun(HandedRun(g)) /\ IsCompared(HandedRun(g), Given.result[g])
           /\ FoundIn(HandedRun(g)) = outcome.target.layer
    BY <1>4, ProceedingSays
  <2>2. ResultSays(HandedRun("discovery"), Given.result["discovery"])
    BY <1>2, HandedSays DEF Generations
  <2>3. Given.result["discovery"].layer = FoundIn(HandedRun("discovery"))
    BY <2>1, <2>2, MismatchIsFound DEF Generations
  <2> QED
    BY <1>2, <1>8, <2>1, <2>3 DEF Generations
<1>10. /\ traces["reference"].intra = TraceOf(r, "reference").intra
       /\ traces["candidate"].intra = TraceOf(r, "candidate").intra
  BY DEF Sides
<1> HIDE DEF traces, given, r, o
<1>11. parsed = Passed
  <2> SUFFICES ASSUME parsed # Passed PROVE FALSE
    OBVIOUS
  <2>1. final = Pass4Result(o, parsed, NoStages)
    BY <1>0, <1>2 DEF Localizing
  <2>2. ClassifiedAs(parsed, StageStatuses)
    BY <1>5, <1>6, ParseReads
  <2>3. parsed.status \notin Localizations
    BY <2>2 DEF ClassifiedAs, StageStatuses, Localizations
  <2> QED
    BY <1>1, <2>1, <2>3, Pass4ResultIs
<1>12. /\ StageLayouts(o, given) = Passed
       /\ \A s \in Sides : StageEntries(given[s].intra) = Passed
  BY <1>5, <1>6, <1>11, ParseReads
<1>13. final = LocalizeStages(o, given)
  BY <1>0, <1>2, <1>11 DEF Localizing, given, o
<1>14. /\ given["reference"].intra # None /\ given["candidate"].intra # None
       /\ IsStages(common, given["reference"].intra)
       /\ given["reference"].intra.step = o.target.step
       /\ given["reference"].intra.layer = o.target.layer
       /\ common # <<>>
       /\ \E at : /\ LocalizedSays(o, at, final)
                  /\ at.coverage.comparable = common
                  /\ at.target.layer = o.target.layer
                  /\ final.stages.comparisons =
                       StageComparisons(given["reference"].intra, given["candidate"].intra,
                                        common)
  <2>1. "insufficient_common_intra_layer_coverage" \notin Localizations
    BY DEF Localizations
  <2> QED
    BY <1>1, <1>7, <1>8, <1>12, <1>13, <2>1, LocalizeReads
<1> HIDE DEF common
<1> QED
  BY <1>2, <1>3, <1>7, <1>8, <1>9, <1>10, <1>12, <1>14 DEF r, o, traces, common, Sides

\* Which of the common stages are equal: those before the onset.
LEMMA StageIsEquivalent ==
    ASSUME NEW r, IsRun(r),
           \A s \in Sides : /\ TraceOf(r, s).intra # None
                            /\ StageEntries(TraceOf(r, s).intra) = Passed
    PROVE  LET ref    == TraceOf(r, "reference").intra
               cand   == TraceOf(r, "candidate").intra
               common == CommonStages([s \in Sides |-> TraceOf(r, s)])
           IN  \A i \in DOMAIN common :
                 (EntryAt(ref, common[i]).digest = EntryAt(cand, common[i]).digest)
                   <=> ~StageDiffers(r.onset, "candidate", r.target, common[i].stage)
<1> DEFINE ref    == TraceOf(r, "reference").intra
           cand   == TraceOf(r, "candidate").intra
           common == CommonStages([s \in Sides |-> TraceOf(r, s)])
           N      == Cardinality(r.stages["reference"])
<1> SUFFICES ASSUME NEW i \in DOMAIN common
             PROVE  (EntryAt(ref, common[i]).digest = EntryAt(cand, common[i]).digest)
                      <=> ~StageDiffers(r.onset, "candidate", r.target, common[i].stage)
  OBVIOUS
<1>1. common = OnlyThose(ref.captured, ToSet(cand.captured))
  BY DEF CommonStages, Sides
<1>2. DOMAIN ref.captured = 1 .. N /\ N \in Nat
  <2>1. r.stages["reference"] \in SUBSET StageIds
    BY DEF IsRun, Sides
  <2>2. ref.captured = StagesAt(r, r.stages["reference"])
    BY IntraIs DEF Sides
  <2> QED
    BY <2>1, <2>2, StagesAtIs
<1> DEFINE c == common[i]
<1>3. c \in ToSet(ref.captured) /\ c \in ToSet(cand.captured)
  <2> HIDE DEF N, ref, cand
  <2> QED
    BY <1>1, <1>2, CommonAre
<1>4. /\ EntryAt(ref, c).digest = DigestOf(StageDiffers(r.onset, "reference", r.target, c.stage))
      /\ EntryAt(cand, c).digest = DigestOf(StageDiffers(r.onset, "candidate", r.target, c.stage))
  BY <1>3, DigestAtIs DEF Sides
<1>5. ~StageDiffers(r.onset, "reference", r.target, c.stage)
  BY DEF StageDiffers
<1> HIDE DEF ref, cand, common, c
<1>6. (EntryAt(ref, c).digest = EntryAt(cand, c).digest)
        <=> ~StageDiffers(r.onset, "candidate", r.target, c.stage)
  BY <1>4, <1>5 DEF DigestOf
<1> QED
  BY <1>6 DEF ref, cand, common, c

LEMMA OnsetIsHeld ==
    ASSUME ChainInv, Localizes
    PROVE  LET onset == HandedRun("authoritative").onset
               at    == final.stages
               end   == IF at.mismatch = None THEN StageCount ELSE at.mismatch.stage
               last  == final.parent.localization.last
           IN  /\ onset.layer <= at.target.layer
               /\ last # None => last.layer < onset.layer
               /\ IF onset.layer = at.target.layer
                  THEN onset.stage \in at.interval.missing \cup {end}
                  ELSE at.interval.start = "selected_layer_entry" /\ at.mismatch # None
<1> DEFINE r == HandedRun("authoritative")
           x == Given.result["authoritative"]
           o == Bind(Given)
           ref  == TraceOf(r, "reference").intra
           cand == TraceOf(r, "candidate").intra
           common == CommonStages([s \in Sides |-> TraceOf(r, s)])
           n == Len(common)
           onset == r.onset
           target == r.target
<1>1. /\ pc \in AfterPass3 /\ o.status = "proceed" /\ IsRun(r) /\ target = o.target.layer
      /\ ref # None /\ cand # None
      /\ StageEntries(ref) = Passed /\ StageEntries(cand) = Passed
      /\ IsStages(common, ref) /\ common # <<>>
      /\ ref.step = o.target.step /\ ref.layer = o.target.layer
  BY LocalizingSays
<1>2. PICK at : /\ LocalizedSays(o, at, final)
                /\ at.coverage.comparable = common
                /\ at.target.layer = o.target.layer
                /\ final.stages.comparisons = StageComparisons(ref, cand, common)
  BY LocalizingSays
<1>3. /\ IsProceeding(o) /\ IsCompared(r, x) /\ FoundIn(r) # Absent
      /\ o.target.layer = FoundIn(r) /\ o.parent.localization.last = x.last
  BY <1>1, ProceedingIs
<1>4. /\ LayerDiffers(onset, "candidate", target) /\ target \in Layers
      /\ \/ x.last = None
         \/ \E l \in Layers : x.last = LayerAt(l) /\ ~LayerDiffers(onset, "candidate", l)
  BY <1>1, <1>3, MismatchIs
<1>5. \A i \in DOMAIN common :
        (EntryAt(ref, common[i]).digest = EntryAt(cand, common[i]).digest)
          <=> ~StageDiffers(onset, "candidate", target, common[i].stage)
  <2>1. \A s \in Sides : /\ TraceOf(r, s).intra # None
                         /\ StageEntries(TraceOf(r, s).intra) = Passed
    BY <1>1 DEF Sides
  <2> QED
    BY <1>1, <2>1, StageIsEquivalent
<1>6. /\ onset.layer \in Int /\ onset.stage \in 0 .. StageCount /\ target \in Int
      /\ Layers \subseteq Int /\ StageCount \in Nat
  BY <1>1, <1>4, EvidenceChainAssumption, StageCountAssumption DEF IsRun, Layers
<1> HIDE DEF r, x, o, ref, cand, common, onset, target
<1>7. /\ n \in Nat /\ n >= 1 /\ DOMAIN common = 1 .. n
      /\ \A i \in 1 .. n : /\ common[i] # None /\ common[i].stage \in StageIds
                           /\ common[i].stage \in Int
      /\ \A i, j \in 1 .. n : i < j => common[i].stage < common[j].stage
      /\ common = [i \in 1 .. n |-> common[i]]
  <2>1. ref.step \in Int /\ ref.layer \in Int
    BY <1>1, <1>3 DEF IsProceeding
  <2>2. PICK N \in Nat : common = [i \in 1 .. N |-> common[i]]
    BY <1>1 DEF IsStages
  <2>3. n = N
    BY <2>2
  <2> QED
    BY <1>1, <2>1, <2>2, <2>3, StagesSay
<1> HIDE DEF n
<1> DEFINE compared  == final.stages.comparisons
           differing == {i \in DOMAIN compared : ~compared[i].equivalent}
           first     == FirstIn(differing)
           mismatch  == final.stages.mismatch
           last      == final.stages.last
           interval  == final.stages.interval
<1>8. /\ DOMAIN compared = 1 .. n
      /\ \A i \in 1 .. n :
            compared[i].equivalent <=> ~StageDiffers(onset, "candidate", target, common[i].stage)
  <2>1. Len(common) = n
    BY DEF n
  <2> QED
    BY <1>2, <1>5, <1>7, <2>1, ComparedStages
<1>9. /\ interval = StageInterval(last, mismatch, common, o.parent.localization.mismatch)
      /\ final.stages.target = at.target /\ final.parent = o.parent
      /\ \/ /\ differing = {} /\ mismatch = None /\ last = common[n]
         \/ /\ differing # {} /\ first \in 1 .. n /\ first \in differing
            /\ \A i \in differing : first <= i
            /\ mismatch = common[first]
            /\ last = IF first = 1 THEN None ELSE common[first - 1]
  <2>1. differing # {} => first \in differing
    <3>1. differing \subseteq Nat
      BY <1>8, <1>7
    <3> HIDE DEF differing
    <3> QED
      BY <3>1, FirstInExists
  <2> QED
    BY <1>2, <2>1 DEF LocalizedSays, n
<1>10. \A i \in 1 .. n :
         i \in differing <=> StageDiffers(onset, "candidate", target, common[i].stage)
  BY <1>8
<1> HIDE DEF compared, differing, first, mismatch, last, interval
<1>11. onset.layer <= target
  BY <1>4 DEF LayerDiffers
<1>12. x.last # None => x.last.layer < onset.layer
  <2> SUFFICES ASSUME x.last # None PROVE x.last.layer < onset.layer
    OBVIOUS
  <2>1. PICK l \in Layers : x.last = LayerAt(l) /\ ~LayerDiffers(onset, "candidate", l)
    BY <1>4
  <2>2. x.last.layer = l /\ l \in Int
    BY <1>6, <2>1, KeyOfLayer
  <2> QED
    BY <1>6, <2>1, <2>2 DEF LayerDiffers
<1> DEFINE from == IF last = None THEN 0 ELSE last.stage + 1
           end  == IF mismatch = None THEN StageCount ELSE mismatch.stage
<1>13. /\ interval.start = IF last = None THEN "selected_layer_entry" ELSE "local_coordinate"
       /\ interval.missing = {c \in from .. end : \A i \in 1 .. n : common[i].stage # c}
                              \cap StageIds
  BY <1>7, <1>9 DEF StageInterval, StagesBetween
<1>14. ASSUME onset.layer = target PROVE onset.stage \in interval.missing \cup {end}
  <2>1. \A i \in 1 .. n : i \in differing <=> common[i].stage >= onset.stage
    BY <1>6, <1>7, <1>10, <1>14 DEF StageDiffers
  <2>2. onset.stage \in Int /\ onset.stage >= 0 /\ onset.stage <= StageCount
    BY <1>6
  <2>3. onset.stage < StageCount => onset.stage \in StageIds
    BY <1>6, <2>2 DEF StageIds
  <2>4. \A i \in 1 .. n : common[i].stage < StageCount
    BY <1>6, <1>7 DEF StageIds
  <2>5. n \in 1 .. n
    BY <1>7
  <2>6. CASE differing = {}
    <3>1. mismatch = None /\ last = common[n] /\ last # None
      BY <1>7, <1>9, <2>5, <2>6
    <3>2. \A i \in 1 .. n : common[i].stage < onset.stage
      BY <1>7, <2>1, <2>2, <2>6
    <3>3. from = common[n].stage + 1 /\ end = StageCount
      BY <3>1
    <3>4. onset.stage \in from .. end
      BY <1>6, <1>7, <2>2, <2>5, <3>2, <3>3
    <3>5. \A i \in 1 .. n : common[i].stage # onset.stage
      BY <1>7, <2>2, <3>2
    <3> QED
      BY <1>6, <1>13, <2>2, <2>3, <3>3, <3>4, <3>5
  <2>7. CASE differing # {}
    <3>1. /\ first \in 1 .. n /\ first \in differing /\ \A i \in differing : first <= i
          /\ mismatch = common[first] /\ mismatch # None
          /\ last = IF first = 1 THEN None ELSE common[first - 1]
      BY <1>7, <1>9, <2>7
    <3>2. first \in Int /\ common[first].stage \in Int /\ common[first].stage >= onset.stage
      BY <1>7, <2>1, <3>1
    <3>3. end = common[first].stage
      BY <3>1
    <3>4. first # 1 => /\ first - 1 \in 1 .. n /\ common[first - 1].stage < onset.stage
                       /\ last = common[first - 1] /\ last # None
      <4> SUFFICES ASSUME first # 1
                   PROVE  /\ first - 1 \in 1 .. n /\ common[first - 1].stage < onset.stage
                          /\ last = common[first - 1] /\ last # None
        OBVIOUS
      <4>1. first - 1 \in 1 .. n /\ first - 1 < first
        BY <1>7, <3>1
      <4>2. first - 1 \notin differing
        BY <3>1, <3>2, <4>1
      <4> QED
        BY <1>7, <2>1, <2>2, <3>1, <4>1, <4>2
    <3>5. from <= onset.stage /\ from \in Int
      BY <1>7, <2>2, <3>1, <3>4
    <3>6. onset.stage < end => \A i \in 1 .. n : common[i].stage # onset.stage
      <4> SUFFICES ASSUME onset.stage < end, NEW i \in 1 .. n, common[i].stage = onset.stage
                   PROVE  FALSE
        OBVIOUS
      <4>1. i \in differing /\ i \in Int
        BY <1>7, <2>1, <2>2
      <4>2. first <= i
        BY <3>1, <4>1
      <4>3. common[first].stage <= common[i].stage
        BY <1>7, <3>1, <3>2, <4>1, <4>2
      <4> QED
        BY <2>2, <3>2, <3>3, <4>3
    <3>7. onset.stage = end \/ onset.stage < end
      BY <2>2, <3>2, <3>3
    <3>8. onset.stage < end => onset.stage < StageCount /\ onset.stage \in from .. end
      BY <1>6, <2>2, <2>4, <3>1, <3>2, <3>3, <3>5
    <3> HIDE DEF from, end
    <3> QED
      BY <1>13, <2>3, <3>6, <3>7, <3>8
  <2> QED
    BY <2>6, <2>7
<1>15. ASSUME onset.layer # target
       PROVE  interval.start = "selected_layer_entry" /\ mismatch # None
  <2>1. onset.layer < target
    BY <1>6, <1>11, <1>15
  <2>2. \A i \in 1 .. n : i \in differing
    BY <1>10, <2>1 DEF StageDiffers
  <2>3. 1 \in 1 .. n
    BY <1>7
  <2>4. /\ first \in 1 .. n /\ first <= 1 /\ mismatch = common[first]
        /\ last = IF first = 1 THEN None ELSE common[first - 1]
    BY <1>9, <2>2, <2>3
  <2>5. first = 1
    BY <1>7, <2>4
  <2> QED
    BY <1>7, <1>13, <2>4, <2>5
<1>16. final.stages.target.layer = target
  BY <1>1, <1>2, <1>9
<1> QED
  BY <1>3, <1>9, <1>11, <1>12, <1>14, <1>15, <1>16 DEF r, onset, mismatch, last, interval

\* Where a localization ends, the onset is: the layers and the stages reported equal
\* are before it, the one reported different is not.
THEOREM OnsetAlways == Spec => []StageIntervalHoldsOnset
<1>1. ChainInv => StageIntervalHoldsOnset
  BY OnsetIsHeld DEF StageIntervalHoldsOnset
<1> QED
  BY <1>1, ChainInvariance, PTL
-------------------------------------------------------------------------------
(* What Pass 3 writes of a comparison can be read: the items are those of     *)
(* layers in ascending order, the mismatch is the first that differs.         *)
LEMMA ItemsAre ==
    ASSUME NEW r, IsRun(r), NEW x, IsCompared(r, x)
    PROVE  ItemsAreComparable(x.comparisons, LayersAt(CommonLayers(r)))
<1> DEFINE all   == LayersAt(CommonLayers(r))
           items == x.comparisons
           n     == Len(items)
           N     == Cardinality(CommonLayers(r))
           at    == CoordinatesOf(items)
           keys  == {LogicalKey(at[i]) : i \in 1 .. n}
           key   == [i \in 1 .. n |-> LogicalKey(at[i])]
<1>1. /\ n \in 1 .. N /\ DOMAIN items = 1 .. n
      /\ \A i \in 1 .. n : items[i].coordinate = all[i] /\ all[i] = LayerAt(all[i].layer)
      /\ \A i, j \in 1 .. n : i < j => all[i].layer < all[j].layer
      /\ \A i \in 1 .. n : all[i].layer \in CommonLayers(r)
  BY ComparedIs
<1>2. CommonLayers(r) \in SUBSET Layers /\ Layers \subseteq Int
  BY FoundInIs DEF Layers
<1>3. N \in Nat /\ DOMAIN all = 1 .. N
  BY <1>2, LayersAtIs
<1>4. at = [i \in 1 .. n |-> all[i]]
  BY <1>1 DEF CoordinatesOf
<1> HIDE DEF all, items, N
<1>5. n \in Nat /\ 1 .. n \subseteq 1 .. N
  BY <1>1, <1>3
<1> HIDE DEF n, at
<1>6. DOMAIN at = 1 .. n /\ Len(at) = n
  BY <1>4, <1>5
<1>7. Keys(at) = keys
  BY <1>6 DEF Keys
<1>8. Cardinality(keys) = n
  <2>1. \A i \in 1 .. n : key[i] = <<Step, all[i].layer>> /\ all[i].layer \in Int
    BY <1>1, <1>2, <1>4, KeyOfLayer
  <2>2. ASSUME NEW i \in 1 .. n, NEW j \in 1 .. n, key[i] = key[j]
        PROVE  i = j
    <3>1. all[i].layer = all[j].layer /\ all[i].layer \in Int
      BY <2>1, <2>2
    <3>2. ~(i < j) /\ ~(j < i)
      BY <1>1, <3>1
    <3> QED
      BY <1>5, <3>2
  <2>3. key \in Injection(1 .. n, keys) /\ key \in Surjection(1 .. n, keys)
    <3>1. key \in [1 .. n -> keys]
      OBVIOUS
    <3>2. \A k \in keys : \E i \in 1 .. n : key[i] = k
      OBVIOUS
    <3> HIDE DEF key, keys
    <3> QED
      BY <2>2, <3>1, <3>2 DEF Injection, Surjection, IsInjective
  <2>4. ExistsBijection(1 .. n, keys)
    BY <2>3 DEF ExistsBijection, Bijection
  <2>5. IsFiniteSet(1 .. n) /\ Cardinality(1 .. n) = n
    BY <1>5, FS_Interval
  <2> HIDE DEF key, keys
  <2> QED
    BY <2>4, <2>5, FS_Bijection
<1>9. ToSet(at) \subseteq ToSet(all)
  BY <1>3, <1>4, <1>5, <1>6 DEF ToSet
<1> QED
  BY <1>6, <1>7, <1>8, <1>9 DEF ItemsAreComparable, at, items, all

LEMMA IntervalIsWritten ==
    ASSUME NEW last, NEW mismatch
    PROVE  IntervalIsExact(Interval(last, mismatch), last, mismatch)
BY DEF Interval, IntervalIsExact

LEMMA FirstIsWritten ==
    ASSUME NEW r, IsRun(r), NEW x, IsCompared(r, x), FoundIn(r) # Absent,
           NEW raw, raw.comparisons.items = x.comparisons,
           raw.mismatch = x.mismatch, raw.interval = x.interval, raw.layer = x.layer,
           raw.last = x.last, raw.coverage.comparable = LayersAt(CommonLayers(r))
    PROVE  MismatchIsTheFirst(raw)
<1> DEFINE items == x.comparisons
           n     == Len(items)
           differing == {i \in DOMAIN items : ~items[i].equivalent}
           first     == FirstIn(differing)
<1>1. /\ n \in 1 .. Cardinality(CommonLayers(r)) /\ DOMAIN items = 1 .. n
      /\ \A i \in 1 .. n : i < n => items[i].equivalent
      /\ ~items[n].equivalent
  BY ComparedIs
<1>2. /\ x.mismatch = items[n].coordinate /\ x.layer = items[n].coordinate.layer
      /\ x.last = IF n = 1 THEN None ELSE items[n - 1].coordinate
  BY DEF IsCompared
<1>3. /\ FoundIn(r) \in CommonLayers(r) /\ CommonLayers(r) \in SUBSET Layers
      /\ x.mismatch = LayerAt(FoundIn(r)) /\ x.interval = Interval(x.last, x.mismatch)
  BY MismatchIs
<1>4. x.mismatch # None /\ x.interval # None
  BY <1>3, ObjectsAreSomething
<1>5. LogicalKey(x.mismatch) \in Keys(LayersAt(CommonLayers(r)))
  <2>1. LogicalKey(x.mismatch) = <<Step, FoundIn(r)>>
    BY <1>3, KeyOfLayer
  <2> QED
    BY <1>3, <2>1, KeysOfLayers
<1>6. n \in Nat /\ n \in 1 .. n
  BY <1>1, <1>3, LayersAreFinite
<1> HIDE DEF items, n
<1>7. differing = {n}
  BY <1>1, <1>6
<1>8. first = n
  <2>1. differing \subseteq Nat /\ differing # {}
    BY <1>6, <1>7
  <2> HIDE DEF differing
  <2> QED
    BY <1>7, <2>1, FirstInExists
<1>9. IntervalIsExact(x.interval, x.last, x.mismatch)
  BY <1>3, IntervalIsWritten
<1>10. differing # {}
  BY <1>7
<1> HIDE DEF first, differing
<1>11. /\ raw.mismatch # None /\ raw.interval # None /\ differing # {}
       /\ items[first].coordinate = raw.mismatch
       /\ LogicalKey(raw.mismatch) \in Keys(raw.coverage.comparable)
       /\ raw.layer = raw.mismatch.layer
       /\ raw.last = IF first = 1 THEN None ELSE items[first - 1].coordinate
       /\ IntervalIsExact(raw.interval, raw.last, raw.mismatch)
  BY <1>2, <1>4, <1>5, <1>8, <1>9, <1>10
<1> QED
  BY <1>11 DEF MismatchIsTheFirst, first, differing, items

LEMMA WholeItems ==
    ASSUME NEW found, NEW n \in Nat, Len(found.comparisons) = n, DOMAIN found.comparisons = 1 .. n,
           found.comparisons = [i \in 1 .. n |-> found.comparisons[i]], n <= MaxComparisons
    PROVE  LET written == ItemsOf(found) IN
           /\ written.items = found.comparisons
           /\ ~written.truncated /\ written.total = n /\ written.serialized = n
<1> DEFINE s == found.comparisons
<1>1. SubSeq(s, 1, n) = s
  <2>1. s \in [1 .. n -> {s[i] : i \in 1 .. n}] /\ n \in 0 .. n
    OBVIOUS
  <2> HIDE DEF s
  <2>2. SubSeq(s, 1, n) = [i \in 1 .. n |-> s[i]]
    BY <2>1, PrefixIs
  <2> QED
    BY <2>2 DEF s
<1>2. ItemsOf(found) = [items |-> SubSeq(s, 1, n), total |-> n, serialized |-> n,
                        truncated |-> FALSE]
  BY DEF ItemsOf
<1> QED
  BY <1>1, <1>2

LEMMA ComparisonsAreWritten ==
    ASSUME NEW reference, NEW candidate, NEW at, NEW N \in Nat, DOMAIN at = 1 .. N
    PROVE  LET items == Comparisons(reference, candidate, at) IN
           items = [i \in DOMAIN items |-> items[i]]
<1> DEFINE listed == [i \in DOMAIN at |->
                         [coordinate |-> at[i],
                          equivalent |-> Equivalent(reference, candidate, at[i])]]
           differing == {i \in DOMAIN listed : ~listed[i].equivalent}
           first     == FirstIn(differing)
           items     == Comparisons(reference, candidate, at)
<1>1. items = IF differing = {} THEN listed ELSE SubSeq(listed, 1, first)
  BY DEF Comparisons
<1>2. listed = [i \in 1 .. N |-> listed[i]] /\ listed \in [1 .. N -> {listed[i] : i \in 1 .. N}]
  OBVIOUS
<1>3. differing \subseteq 1 .. N
  OBVIOUS
<1> SUFFICES items = [i \in DOMAIN items |-> items[i]]
  OBVIOUS
<1> HIDE DEF listed, differing, items
<1>4. CASE differing = {}
  <2>1. DOMAIN items = 1 .. N
    BY <1>1, <1>2, <1>4
  <2> QED
    BY <1>1, <1>2, <1>4, <2>1
<1>5. CASE differing # {}
  <2>1. first \in 0 .. N
    <3>1. differing \subseteq Nat
      BY <1>3
    <3>2. first \in differing
      BY <1>5, <3>1, FirstInExists
    <3> HIDE DEF first
    <3>3. first \in 1 .. N
      BY <1>3, <3>2
    <3> QED
      BY <3>3
  <2> HIDE DEF first
  <2>2. SubSeq(listed, 1, first) = [i \in 1 .. first |-> listed[i]]
    BY <1>2, <2>1, PrefixIs
  <2>3. items = [i \in 1 .. first |-> listed[i]]
    BY <1>1, <1>5, <2>2
  <2> QED
    BY <2>3
<1> QED
  BY <1>4, <1>5

LEMMA ComparisonsAreASequence ==
    ASSUME NEW r, IsRun(r), NEW x, ResultSays(r, x)
    PROVE  LET n == Len(x.comparisons) IN
           /\ n \in Nat /\ DOMAIN x.comparisons = 1 .. n
           /\ x.comparisons = [i \in 1 .. n |-> x.comparisons[i]]
<1>1. CASE IsRefused3(r, x)
  <2>1. x.comparisons = <<>>
    BY <1>1 DEF IsRefused3, SaysNothing
  <2> QED
    BY <2>1
<1>2. CASE IsCompared(r, x)
  <2> DEFINE n == Len(x.comparisons)
  <2>1. n \in 1 .. Cardinality(CommonLayers(r)) /\ DOMAIN x.comparisons = 1 .. n
    BY <1>2, ComparedIs
  <2>2. n \in Nat
    BY <2>1, FoundInIs, LayersAreFinite
  <2>3. x.comparisons = Comparisons(TraceOf(r, "reference"), TraceOf(r, "candidate"),
                                    LayersAt(CommonLayers(r)))
    BY <1>2 DEF IsCompared, Compares
  <2>4. x.comparisons = [i \in DOMAIN x.comparisons |-> x.comparisons[i]]
    <3> DEFINE at == LayersAt(CommonLayers(r))
               N  == Cardinality(CommonLayers(r))
    <3>1. CommonLayers(r) \in SUBSET Layers
      BY FoundInIs
    <3>2. N \in Nat /\ DOMAIN at = 1 .. N
      BY <3>1, LayersAtIs
    <3> HIDE DEF at, N
    <3> QED
      BY <2>3, <3>2, ComparisonsAreWritten DEF at
  <2> QED
    BY <2>1, <2>2, <2>4
<1> QED
  BY <1>1, <1>2 DEF ResultSays

\* The evidence and the sources of a comparison are those of its Pass 2.
LEMMA EvidenceIsWritten ==
    ASSUME NEW r, NEW x, IsCompared(r, x), ResultSays(r, x), NEW raw,
           raw.coherent = x.coherent, raw.bound = x.bound, raw.evidence = x.evidence,
           raw.step = x.step
    PROVE  /\ EvidenceIsUsable(raw) /\ x.pass2 # None
           /\ \A s \in Sides : x.sources[s] # None
<1> DEFINE pass2 == Pass2Of(r)
           evidence == Pass2Evidence(pass2)
<1>1. /\ x.pass2 = pass2 /\ x.coherent = TRUE /\ x.bound = TRUE /\ x.evidence = evidence
      /\ \A s \in Sides : x.sources[s] # None
      /\ x.step = pass2.step /\ pass2.tier # RequestOnly
  BY ObjectsAreSomething DEF ResultSays, IsCompared, IsUnbound, IsBound
<1>2. pass2.generated = Step - 1 /\ pass2.step = Step /\ pass2 # None
  BY DEF Pass2Of, None
<1>3. /\ evidence.tier = pass2.tier /\ evidence.generated = pass2.generated
      /\ evidence.step = pass2.step /\ evidence # None
  BY DEF Pass2Evidence, None
<1> HIDE DEF pass2, evidence
<1> QED
  BY <1>1, <1>2, <1>3 DEF EvidenceIsUsable, Step

LEMMA IdentityIsWritten ==
    ASSUME NEW r, NEW x, ResultSays(r, x)
    PROVE  IdentityAndEvidence(SerializePass3(x)) = Passed
<1> DEFINE raw == SerializePass3(x)
<1>1. /\ raw.status = x.status /\ raw.disposition = x.disposition /\ raw.reasons = x.reasons
      /\ raw.pass2 = x.pass2 /\ raw.coherent = x.coherent /\ raw.evidence = x.evidence
      /\ raw.sources = x.sources /\ raw.bound = x.bound /\ raw.step = x.step
      /\ raw.decision = x.decision
  BY ResultFields, SerializationIs
<1> HIDE DEF raw
<1>2. raw.reasons # <<>> /\ IsInjective(raw.reasons)
  BY <1>1 DEF ResultSays
<1>3. raw.step >= 0
  <2>1. raw.step = Step
    BY <1>1 DEF ResultSays, Pass2Of
  <2> QED
    BY <2>1 DEF Step
<1>4. raw.disposition = DispositionOfPass3(raw.status)
  <2>1. CASE IsRefused3(r, x)
    <3>1. x.disposition = "blocked" /\ x.status \notin Complete
      BY <2>1 DEF IsRefused3, SaysNothing, Refusals3, Complete
    <3> QED
      BY <1>1, <3>1 DEF DispositionOfPass3, Complete
  <2>2. CASE IsCompared(r, x)
    BY <1>1, <2>2 DEF IsCompared, DispositionOfPass3
  <2> QED
    BY <2>1, <2>2 DEF ResultSays
<1>5. ASSUME raw.status \in Complete
      PROVE  /\ raw.pass2 # None /\ EvidenceIsUsable(raw)
             /\ \A s \in Sides : raw.sources[s] # None
             /\ raw.decision # NoDecision
  <2>1. IsCompared(r, x)
    <3>1. ~IsRefused3(r, x)
      BY <1>1, <1>5 DEF IsRefused3, Refusals3, Complete
    <3> QED
      BY <3>1 DEF ResultSays
  <2>2. x.decision = Tier1
    BY <2>1 DEF IsCompared
  <2>3. Tier1 # NoDecision
    BY DEF Tier1, NoDecision
  <2>4. /\ EvidenceIsUsable(raw) /\ x.pass2 # None
        /\ \A s \in Sides : x.sources[s] # None
    BY <1>1, <2>1, EvidenceIsWritten
  <2> QED
    BY <1>1, <2>2, <2>3, <2>4
<1> QED
  BY <1>2, <1>3, <1>4, <1>5, IdentityReads DEF raw

LEMMA CoverageIsWritten ==
    ASSUME NEW r, IsRun(r), r.fault.kind # "missing_captured", NEW x, ResultSays(r, x),
           Len(x.comparisons) <= MaxComparisons
    PROVE  CoverageAndLocalization(SerializePass3(x)) = Passed
<1> DEFINE raw == SerializePass3(x)
           n   == Len(x.comparisons)
<1>1. /\ raw.status = x.status /\ raw.coverage = x.coverage /\ raw.comparisons = ItemsOf(x)
      /\ raw.mismatch = x.mismatch /\ raw.interval = x.interval /\ raw.layer = x.layer
      /\ raw.last = x.last
  BY ResultFields, SerializationIs
<1> HIDE DEF raw
<1>2. /\ n \in Nat /\ DOMAIN x.comparisons = 1 .. n
      /\ x.comparisons = [i \in 1 .. n |-> x.comparisons[i]]
  BY ComparisonsAreASequence
<1>3. /\ raw.comparisons.items = x.comparisons /\ ~raw.comparisons.truncated
      /\ raw.comparisons.total = n /\ raw.comparisons.serialized = n
  BY <1>1, <1>2, WholeItems
<1>4. /\ ~raw.comparisons.truncated /\ raw.comparisons.total = raw.comparisons.serialized
      /\ raw.comparisons.serialized = Len(raw.comparisons.items)
  BY <1>3
<1> HIDE DEF n
<1>5. CASE IsRefused3(r, x)
  <2>1. /\ x.status \notin Complete /\ x.comparisons = <<>> /\ x.mismatch = None
        /\ x.interval = None
    BY <1>5 DEF IsRefused3, SaysNothing, Refusals3, Complete
  <2>2. CoverageIsCoherent(raw.coverage)
    BY <1>1, <1>5, NoCoverageCoheres, CoverageOfCoheres DEF IsRefused3
  <2>3. ItemsAreComparable(raw.comparisons.items, raw.coverage.comparable)
    <3>1. DOMAIN <<>> = {} /\ Len(<<>>) = 0
      OBVIOUS
    <3>2. Keys(<<>>) = {} /\ ToSet(<<>>) = {}
      BY <3>1 DEF Keys, ToSet
    <3>3. Cardinality({}) = 0
      BY FS_EmptySet
    <3> QED
      BY <1>3, <2>1, <3>1, <3>2, <3>3, EmptyLayers DEF ItemsAreComparable
  <2>4. LocalizationIsCoherent(raw)
    BY <1>1, <2>1 DEF LocalizationIsCoherent, Complete
  <2> QED
    BY <1>1, <1>4, <2>1, <2>2, <2>3, <2>4, CoverageReads DEF raw
<1>6. CASE IsCompared(r, x)
  <2>1. Bothsay(r) /\ CommonLayers(r) # {} /\ x.coverage = CoverageFrom(r)
    BY <1>6 DEF IsCompared
  <2>2. /\ CoverageIsCoherent(raw.coverage)
        /\ \A s \in Sides : raw.coverage.requested[s] # <<>>
    BY <1>1, <2>1, CoverageOfCoheres
  <2>3. raw.coverage.comparable = LayersAt(CommonLayers(r))
    BY <1>1, <2>1, CoverageIs DEF Bothsay, CoverageFrom
  <2>4. ItemsAreComparable(raw.comparisons.items, raw.coverage.comparable)
    BY <1>3, <1>6, <2>3, ItemsAre
  <2>5. LocalizationIsCoherent(raw)
    <3>1. CASE FoundIn(r) = Absent
      <4>1. x.status # "observable_mismatch_found" /\ x.mismatch = None /\ x.interval = None
        BY <1>6, <3>1 DEF IsCompared
      <4> QED
        BY <1>1, <4>1 DEF LocalizationIsCoherent
    <3>2. CASE FoundIn(r) # Absent
      <4>1. x.status = "observable_mismatch_found"
        BY <1>6, <3>2 DEF IsCompared
      <4>2. MismatchIsTheFirst(raw)
        BY <1>1, <1>3, <1>6, <2>3, <3>2, FirstIsWritten
      <4> QED
        BY <1>1, <4>1, <4>2 DEF LocalizationIsCoherent
    <3> QED
      BY <3>1, <3>2
  <2> QED
    BY <1>4, <2>2, <2>4, <2>5, CoverageReads DEF raw
<1> QED
  BY <1>5, <1>6 DEF ResultSays

\* A run Pass 3 was called with is a run, and what it left is its result.
LEMMA ResultsSay ==
    ASSUME ChainInv, NEW g \in Generations, result[g] # None
    PROVE  IsRun(run[g]) /\ ResultSays(run[g], result[g])
<1>1. result[g] = LocalizationOf(g) /\ IsRun(run[g])
  <2>1. CASE g = "discovery"
    <3>1. pc \notin {"discover", "pass3a"} /\ result[g] = LocalizationOf(g)
      BY <2>1 DEF ChainInv, ResultsInv
    <3> QED
      BY <2>1, <3>1 DEF ChainInv, RunsInv
  <2>2. CASE g = "authoritative"
    <3>1. pc \in AfterPass3 /\ result[g] = LocalizationOf(g)
      BY <2>2 DEF ChainInv, ResultsInv
    <3> QED
      BY <2>2, <3>1 DEF ChainInv, RunsInv
  <2> QED
    BY <2>1, <2>2 DEF Generations
<1> QED
  BY <1>1, LocalizationOfSays

LEMMA ArtifactIsRepresentable ==
    ASSUME ChainInv
    PROVE  EveryArtifactIsRepresentable
<1> SUFFICES ASSUME NEW g \in Generations, result[g] # None,
                    Len(result[g].comparisons) <= MaxComparisons,
                    run[g].fault.kind # "missing_captured"
             PROVE  Representation(SerializePass3(result[g])) = Passed
  BY DEF EveryArtifactIsRepresentable
<1>1. IsRun(run[g]) /\ ResultSays(run[g], result[g])
  BY ResultsSay
<1> QED
  BY <1>1, IdentityIsWritten, CoverageIsWritten, RepresentationReads

\* Pass 4 can read whatever Pass 3 writes (_validate_pass3_representation of
\* pass4_parent.py against serialize_pass3_result of pass3.py): of every model, every
\* capture and every fault in a file, only a truncated list of comparisons and a
\* coordinate a file called captured and missing at once are refused.
THEOREM RepresentableAlways == Spec => []EveryArtifactIsRepresentable
<1>1. ChainInv => EveryArtifactIsRepresentable
  BY ArtifactIsRepresentable
<1> QED
  BY <1>1, ChainInvariance, PTL

-------------------------------------------------------------------------------
(* GenuineEvidenceIsLocalized.  The files of a chain without a fault, each in *)
(* its place, are accepted by every gate; what Pass 4 says of them follows    *)
(* from what was captured and where the runs differ.                          *)

\* As many comparisons are made as there are layers to look at.
LEMMA LookedIs ==
    ASSUME NEW r, IsRun(r), NEW x, IsCompared(r, x)
    PROVE  Len(x.comparisons) = Cardinality(Looked(r)) /\ Len(x.comparisons) \in Nat
<1> DEFINE at == LayersAt(CommonLayers(r))
           n  == Len(x.comparisons)
           N  == Cardinality(CommonLayers(r))
           f  == [i \in 1 .. n |-> at[i].layer]
<1>1. /\ n \in 1 .. N
      /\ \A i \in 1 .. n : at[i].layer \in CommonLayers(r)
      /\ \A i, j \in 1 .. n : i < j => at[i].layer < at[j].layer
      /\ FoundIn(r) = Absent => n = N
      /\ FoundIn(r) # Absent => FoundIn(r) = at[n].layer
  BY ComparedIs
<1>2. /\ CommonLayers(r) \in SUBSET Layers /\ Layers \subseteq Int
      /\ N \in Nat /\ \A l \in CommonLayers(r) : \E i \in 1 .. N : at[i].layer = l
      /\ \A i, j \in 1 .. N : i < j => at[i].layer < at[j].layer
      /\ \A i \in 1 .. N : at[i].layer \in CommonLayers(r)
  <2>1. CommonLayers(r) \in SUBSET Layers /\ Layers \subseteq Int
    BY FoundInIs DEF Layers
  <2> QED
    BY <2>1, LayersAtIs
<1> HIDE DEF at, N, n
<1>3. n \in Nat /\ \A i \in 1 .. n : i \in 1 .. N /\ at[i].layer \in Int
  <2>1. N \in Nat /\ n \in 1 .. N
    BY <1>1, <1>2
  <2>2. n \in Nat /\ \A i \in 1 .. n : i \in 1 .. N
    BY <2>1
  <2>3. CommonLayers(r) \subseteq Int
    BY <1>2
  <2> QED
    BY <1>2, <2>2, <2>3
<1>4. \A i \in 1 .. n : f[i] \in Looked(r)
  <2> SUFFICES ASSUME NEW i \in 1 .. n PROVE at[i].layer \in Looked(r)
    OBVIOUS
  <2>1. n \in 1 .. n /\ (i < n \/ i = n)
    BY <1>3
  <2>2. FoundIn(r) # Absent => at[i].layer <= FoundIn(r)
    BY <1>1, <1>3, <2>1
  <2> QED
    BY <1>1, <2>2 DEF Looked
<1>5. \A i, j \in 1 .. n : f[i] = f[j] => i = j
  <2> SUFFICES ASSUME NEW i \in 1 .. n, NEW j \in 1 .. n, at[i].layer = at[j].layer PROVE i = j
    OBVIOUS
  <2>1. i \in Int /\ j \in Int /\ ~(at[i].layer < at[j].layer) /\ ~(at[j].layer < at[i].layer)
    BY <1>3
  <2> QED
    BY <1>1, <2>1
<1>6. \A l \in Looked(r) : \E i \in 1 .. n : f[i] = l
  <2> SUFFICES ASSUME NEW l \in Looked(r) PROVE \E i \in 1 .. n : at[i].layer = l
    OBVIOUS
  <2>1. l \in CommonLayers(r) /\ (FoundIn(r) = Absent \/ l <= FoundIn(r))
    BY DEF Looked
  <2>2. PICK i \in 1 .. N : at[i].layer = l
    BY <1>2, <2>1
  <2>3. CASE FoundIn(r) = Absent
    BY <1>1, <2>2, <2>3
  <2>4. CASE FoundIn(r) # Absent
    <3>1. at[i].layer <= at[n].layer /\ n \in 1 .. N /\ i \in Int /\ n \in Int
          /\ at[i].layer \in Int /\ at[n].layer \in Int
      <4>1. n \in 1 .. N /\ N \in Nat /\ CommonLayers(r) \subseteq Int
        BY <1>1, <1>2
      <4>2. at[n].layer = FoundIn(r) /\ at[i].layer = l /\ l <= FoundIn(r)
        BY <1>1, <2>1, <2>2, <2>4
      <4>3. at[i].layer \in Int /\ at[n].layer \in Int
        BY <1>2, <2>2, <4>1
      <4>4. at[i].layer <= at[n].layer
        BY <4>2
      <4> QED
        BY <2>2, <4>1, <4>3, <4>4
    <3>2. ~(n < i)
      BY <1>2, <3>1
    <3> QED
      BY <2>2, <3>1, <3>2
  <2> QED
    BY <2>3, <2>4
<1>7. f \in Bijection(1 .. n, Looked(r))
  BY <1>4, <1>5, <1>6 DEF Bijection, Injection, Surjection, IsInjective
<1>8. Cardinality(Looked(r)) = n
  <2>1. ExistsBijection(1 .. n, Looked(r))
    BY <1>7 DEF ExistsBijection
  <2> QED
    BY <1>3, <2>1, FS_NatBijection, FS_CountingElements
<1> QED
  BY <1>3, <1>8 DEF n

\* Each generation that was captured has its own name.
NamesInv ==
    /\ \A g \in Generations : run[g] # None => run[g].generation = g
    /\ pc # "discover" => run["discovery"] # None
    /\ pc \in {"pass3b"} \cup AfterPass3 => run["authoritative"] # None

LEMMA NamesAreGiven == Init => NamesInv
BY DEF Init, NamesInv, AfterPass3, Generations

LEMMA NamesKeep ==
    ChainInv /\ NamesInv /\ [Next]_vars => NamesInv'
<1> SUFFICES ASSUME ChainInv, NamesInv, [Next]_vars PROVE NamesInv'
  OBVIOUS
<1>1. /\ DOMAIN run = Generations
      /\ pc \in {"discover", "pass3a", "recapture", "pass3b"} \cup AfterPass3
  BY DEF ChainInv, RunsInv, ResultsInv
<1>2. \A a, b, c, d, e, f :
        LET r == [generation |-> a, target |-> b, onset |-> c, captured |-> d,
                  stages |-> e, fault |-> f]
        IN  r # None /\ r.generation = a
  BY DEF None
<1>3. CASE Discover
  <2>1. PICK onset, captured, fault :
          run' = [run EXCEPT !["discovery"] =
                    [generation |-> "discovery", target |-> Absent, onset |-> onset,
                     captured |-> captured, stages |-> [s \in Sides |-> {}], fault |-> fault]]
    BY <1>3 DEF Discover, Captured
  <2>2. /\ run'["discovery"] # None /\ run'["discovery"].generation = "discovery"
        /\ run'["authoritative"] = run["authoritative"] /\ pc' = "pass3a"
    BY <1>1, <1>2, <1>3, <2>1 DEF Discover, Generations
  <2> QED
    BY <2>2 DEF NamesInv, AfterPass3, Generations
<1>4. CASE Recapture \/ RecaptureDrifts
  <2>1. PICK target, onset, captured, stages, fault :
          run' = [run EXCEPT !["authoritative"] =
                    [generation |-> "authoritative", target |-> target, onset |-> onset,
                     captured |-> captured, stages |-> stages, fault |-> fault]]
    BY <1>4 DEF Recapture, RecaptureDrifts, Captured
  <2>2. /\ run'["authoritative"] # None
        /\ run'["authoritative"].generation = "authoritative"
        /\ run'["discovery"] = run["discovery"] /\ pc = "recapture" /\ pc' = "pass3b"
    BY <1>1, <1>2, <1>4, <2>1 DEF Recapture, RecaptureDrifts, Generations
  <2> QED
    BY <2>2 DEF NamesInv, AfterPass3, Generations
<1>5. CASE Pass3A \/ Pass3B
  BY <1>5 DEF Pass3A, Pass3B, Pass3, NamesInv, AfterPass3
<1>6. CASE HandWrong \/ HandOver \/ BindParents \/ Parse \/ Localize
  BY <1>6 DEF HandWrong, HandOver, BindParents, Parse, Localize, NamesInv, AfterPass3
<1>7. CASE UNCHANGED vars
  BY <1>7 DEF vars, NamesInv, AfterPass3
<1> QED
  BY <1>3, <1>4, <1>5, <1>6, <1>7 DEF Next

\* Each generation is handed over with its own objects, and they are genuine.
GivesOwn(given, runs) ==
    \A g \in Generations :
        LET r == runs[g] IN
        /\ IsGenuine(r) /\ r.generation = g
        /\ given.result[g] = LocalizeLayers(Pass2Of(r), Pass2Of(r), Reports(r), Traces(r))
        /\ given.artifact[g] = SerializePass3(given.result[g])
        /\ given.pass2[g] = Pass2Of(r)
        /\ \A s \in Sides : /\ given.report[g][s] = ReportOf(r, s)
                            /\ given.trace[g][s] = TraceOf(r, s)

StatusOf(r) ==
    IF CommonLayers(r) = {} THEN "insufficient_common_coverage"
    ELSE IF FoundIn(r) = Absent THEN "no_mismatch_in_captured_coverage"
    ELSE "observable_mismatch_found"

LEMMA GenuineResult ==
    ASSUME NEW r, IsGenuine(r)
    PROVE  LET x == LocalizeLayers(Pass2Of(r), Pass2Of(r), Reports(r), Traces(r)) IN
           /\ x.status = StatusOf(r) /\ DOMAIN x = Fields3
           /\ Len(x.comparisons) = Cardinality(Looked(r)) /\ Len(x.comparisons) \in Nat
           /\ CommonLayers(r) # {} =>
                /\ x.layer = FoundIn(r) /\ x.decision = Tier1
                /\ x.coverage.requested = [reference |-> LayersAt(Layers),
                                           candidate |-> LayersAt(Layers)]
<1> DEFINE x == LocalizeLayers(Pass2Of(r), Pass2Of(r), Reports(r), Traces(r))
<1>1. IsRun(r) /\ r.fault = NoFault
  BY DEF IsGenuine
<1>2. /\ ResultSays(r, x)
      /\ CommonLayers(r) = {} =>
            x.status = "insufficient_common_coverage" /\ x.comparisons = <<>>
      /\ CommonLayers(r) # {} => IsCompared(r, x)
  BY GenuineLocalization
<1> HIDE DEF x
<1>3. DOMAIN x = Fields3
  BY <1>2, ResultFields
<1>4. CASE CommonLayers(r) = {}
  <2>1. Looked(r) = {}
    BY <1>4 DEF Looked
  <2>2. Cardinality(Looked(r)) = 0 /\ Len(<<>>) = 0
    BY <2>1, FS_EmptySet
  <2> QED
    BY <1>2, <1>3, <1>4, <2>2 DEF StatusOf, x
<1>5. CASE CommonLayers(r) # {}
  <2>1. IsCompared(r, x)
    BY <1>2, <1>5
  <2>2. Len(x.comparisons) = Cardinality(Looked(r)) /\ Len(x.comparisons) \in Nat
    BY <1>1, <2>1, LookedIs
  <2>3. x.layer = FoundIn(r)
    BY <1>1, <1>2, <2>1, MismatchIsFound
  <2>4. /\ x.status = StatusOf(r) /\ x.decision = Tier1 /\ x.coverage = CoverageFrom(r)
        /\ Bothsay(r)
    BY <1>5, <2>1 DEF IsCompared, StatusOf
  <2>5. CoverageFrom(r).requested = [reference |-> LayersAt(Layers), candidate |-> LayersAt(Layers)]
    <3>1. CoverageFrom(r).requested =
            [reference |-> TraceOf(r, "reference").layout.requested,
             candidate |-> TraceOf(r, "candidate").layout.requested]
      BY <1>1, <2>4, CoverageIs DEF Bothsay, CoverageFrom
    <3>2. \A s \in Sides : TraceOf(r, s).layout.requested = LayersAt(Layers)
      <4>1. \A s \in Sides : TraceOf(r, s).layout = LayerLayout(r.captured[s])
        BY <1>1, GenuineFiles
      <4>2. \A c : LayerLayout(c).requested = LayersAt(Layers)
        BY DEF LayerLayout
      <4> QED
        BY <4>1, <4>2
    <3> QED
      BY <3>1, <3>2 DEF Sides
  <2> QED
    BY <1>3, <1>5, <2>2, <2>3, <2>4, <2>5 DEF x
<1> QED
  BY <1>4, <1>5

\* What a parent without a fault says.
IsSound(r, x, raw) ==
    /\ IsRun(r) /\ r.fault = NoFault /\ ResultSays(r, x)
    /\ raw = SerializePass3(x) /\ raw.comparisons = ItemsOf(x)
    /\ raw.status = StatusOf(r) /\ x.status = StatusOf(r)
    /\ raw.coherent = TRUE /\ raw.pass2 = Pass2Of(r)
    /\ raw.evidence = Pass2Evidence(Pass2Of(r)) /\ raw.step = Step
    /\ \A s \in Sides : raw.sources[s] =
         SourceBinding(SourceRoles(Pass2Of(r))[s], ReportOf(r, s), TraceOf(r, s))
    /\ Len(x.comparisons) = Cardinality(Looked(r)) /\ Len(x.comparisons) \in Nat
    /\ CommonLayers(r) # {} =>
         /\ raw.layer = FoundIn(r) /\ raw.decision = Tier1
         /\ raw.coverage.requested = [reference |-> LayersAt(Layers),
                                      candidate |-> LayersAt(Layers)]

LEMMA GenuineParent ==
    ASSUME NEW given, NEW runs, GivesOwn(given, runs), NEW g \in Generations
    PROVE  IsSound(runs[g], given.result[g], given.artifact[g]) /\ runs[g].generation = g
<1> DEFINE r   == runs[g]
           x   == given.result[g]
           raw == given.artifact[g]
<1>1. /\ IsGenuine(r) /\ r.generation = g
      /\ x = LocalizeLayers(Pass2Of(r), Pass2Of(r), Reports(r), Traces(r))
      /\ raw = SerializePass3(x)
  BY DEF GivesOwn
<1> HIDE DEF r, x, raw
<1>2. IsRun(r) /\ r.fault = NoFault
  BY <1>1 DEF IsGenuine
<1>3. ResultSays(r, x) /\ IsBound(x, Pass2Of(r), Reports(r), Traces(r))
  BY <1>1, GenuineLocalization
<1>4. /\ x.status = StatusOf(r) /\ DOMAIN x = Fields3
      /\ Len(x.comparisons) = Cardinality(Looked(r)) /\ Len(x.comparisons) \in Nat
      /\ CommonLayers(r) # {} =>
           /\ x.layer = FoundIn(r) /\ x.decision = Tier1
           /\ x.coverage.requested = [reference |-> LayersAt(Layers),
                                      candidate |-> LayersAt(Layers)]
  BY <1>1, GenuineResult
<1>5. /\ raw.comparisons = ItemsOf(x)
      /\ raw.status = x.status /\ raw.pass2 = x.pass2
      /\ raw.coherent = x.coherent /\ raw.evidence = x.evidence /\ raw.sources = x.sources
      /\ raw.step = x.step /\ raw.coverage = x.coverage /\ raw.layer = x.layer
      /\ raw.decision = x.decision
  BY <1>1, <1>4, SerializationIs
<1>6. x.step = Step
  BY <1>2, <1>3, GenuinePass2 DEF ResultSays
<1>7. /\ x.coherent = TRUE /\ x.pass2 = Pass2Of(r) /\ x.evidence = Pass2Evidence(Pass2Of(r))
      /\ \A s \in Sides : x.sources[s] =
           SourceBinding(SourceRoles(Pass2Of(r))[s], ReportOf(r, s), TraceOf(r, s))
  BY <1>3 DEF IsBound, Reports, Traces
<1> QED
  BY <1>1, <1>2, <1>3, <1>4, <1>5, <1>6, <1>7 DEF r, x, raw, IsSound

\* Each generation's artifact is coherent, unless its comparisons were cut off.
LEMMA GenuineCoherence ==
    ASSUME NEW given, NEW runs, GivesOwn(given, runs), NEW g \in Generations
    PROVE  ArtifactCoherence(given, g) = Passed
             <=> Cardinality(Looked(runs[g])) <= MaxComparisons
<1> DEFINE r   == runs[g]
           x   == given.result[g]
           raw == given.artifact[g]
<1>1. IsSound(r, x, raw)
  BY GenuineParent
<1>3. ArtifactCoherence(given, g) = Passed
        <=> raw = SerializePass3(x) /\ Representation(raw) = Passed
  BY ArtifactCoherenceReads
<1>4. Representation(raw) = Passed
        <=> IdentityAndEvidence(raw) = Passed /\ CoverageAndLocalization(raw) = Passed
  BY RepresentationReads
<1> HIDE DEF r, x, raw
<1>1a. /\ IsRun(r) /\ r.fault = NoFault /\ ResultSays(r, x)
       /\ raw = SerializePass3(x) /\ raw.comparisons = ItemsOf(x)
       /\ Len(x.comparisons) = Cardinality(Looked(r)) /\ Len(x.comparisons) \in Nat
  BY <1>1 DEF IsSound
<1>2. r.fault.kind # "missing_captured"
  BY <1>1a DEF NoFault
<1>5. IdentityAndEvidence(raw) = Passed
  BY <1>1a, IdentityIsWritten
<1>6. Len(x.comparisons) <= MaxComparisons => CoverageAndLocalization(raw) = Passed
  BY <1>1a, <1>2, CoverageIsWritten
<1>7. ~(Len(x.comparisons) <= MaxComparisons) => CoverageAndLocalization(raw) # Passed
  <2> DEFINE n == Len(x.comparisons)
  <2> SUFFICES ASSUME ~(n <= MaxComparisons), ~raw.comparisons.truncated PROVE FALSE
    BY CoverageReads
  <2>1. n \in Nat /\ MaxComparisons \in Nat
    BY <1>1a, MaxComparisonsAssumption
  <2>2. raw.comparisons = [items |-> SubSeq(x.comparisons, 1, MaxComparisons), total |-> n,
                           serialized |-> MaxComparisons, truncated |-> MaxComparisons # n]
    BY <1>1a DEF ItemsOf
  <2> HIDE DEF n
  <2>3. (MaxComparisons # n) = TRUE
    BY <2>1
  <2>4. raw.comparisons = [items |-> SubSeq(x.comparisons, 1, MaxComparisons), total |-> n,
                           serialized |-> MaxComparisons, truncated |-> TRUE]
    BY <2>2, <2>3
  <2> QED
    BY <2>4
<1>8. ArtifactCoherence(given, g) = Passed <=> Cardinality(Looked(r)) <= MaxComparisons
  BY <1>1a, <1>3, <1>4, <1>5, <1>6, <1>7
<1> QED
  BY <1>8 DEF r

\* Pass 2 stands behind each parent, and each parent names what it rests on.
LEMMA GenuineBinds ==
    ASSUME NEW r, NEW x, NEW raw, IsSound(r, x, raw)
    PROVE  Pass2Binding(raw, Pass2Of(r)) = Passed /\ ParentBinding(raw) = Passed
<1> DEFINE pass2 == Pass2Of(r)
           evidence == Pass2Evidence(pass2)
<1>1. /\ raw.coherent = TRUE /\ raw.pass2 = pass2 /\ raw.evidence = evidence /\ raw.step = Step
      /\ \A s \in Sides : raw.sources[s] =
           SourceBinding(SourceRoles(pass2)[s], ReportOf(r, s), TraceOf(r, s))
      /\ r.fault = NoFault
  BY DEF IsSound
<1>2. /\ pass2.status = "reproduction_verified" /\ pass2.tier = Independent
      /\ pass2.generated = Step - 1 /\ pass2.step = Step
      /\ SelectedSources(pass2) = Reports(r) /\ pass2 # None
  <2>1. Pass2Of(r) # None
    BY DEF Pass2Of, None
  <2> QED
    BY <1>1, <2>1, GenuinePass2
<1>3. /\ evidence.tier = pass2.tier /\ evidence.generated = pass2.generated
      /\ evidence.step = pass2.step /\ evidence.localization = pass2.localization
      /\ evidence.reproduction = pass2.reproduction /\ evidence.original = pass2.original
      /\ evidence # None
  BY ObjectsAreSomething DEF Pass2Evidence
<1>4. \A s \in Sides : /\ raw.sources[s] # None /\ raw.sources[s].report = ReportOf(r, s)
                       /\ Reports(r)[s] = ReportOf(r, s)
  BY <1>1, ObjectsAreSomething, SourceBindingIs DEF Reports
<1> HIDE DEF pass2, evidence
<1>5. SelectedSources(evidence) = SelectedSources(pass2)
  BY <1>3 DEF SelectedSources
<1>6. pass2.tier # RequestOnly /\ pass2.generated >= 0 /\ pass2.step = pass2.generated + 1
  BY <1>2 DEF Independent, RequestOnly, Step
<1>7. BindsPass2(raw, pass2)
  BY <1>1, <1>2, <1>3, <1>4, <1>5, <1>6 DEF BindsPass2
<1>8. raw.pass2 # None /\ \A s \in Sides : raw.sources[s] # None
  BY <1>1, <1>2, <1>4
<1>9. Pass2Binding(raw, pass2) = Passed
  BY <1>7, Pass2BindingReads
<1>10. ParentBinding(raw) = Passed
  BY <1>8, ParentBindingReads
<1> QED
  BY <1>9, <1>10 DEF pass2

LEMMA StatusIs ==
    ASSUME NEW r, IsRun(r)
    PROVE  /\ StatusOf(r) \notin BlockedByPass3 <=> CommonLayers(r) # {}
           /\ StatusOf(r) = "observable_mismatch_found" <=> FoundIn(r) # Absent
           /\ StatusOf(r) = "no_mismatch_in_captured_coverage"
                <=> CommonLayers(r) # {} /\ FoundIn(r) = Absent
           /\ FoundIn(r) # Absent => CommonLayers(r) # {}
           /\ StatusOf(r) \notin {"unsupported_checkpoint_layout", "comparison_policy_unavailable"}
<1>1. FoundIn(r) # Absent => CommonLayers(r) # {}
  BY FoundInIs DEF Differing
<1> QED
  BY <1>1 DEF StatusOf, BlockedByPass3

\* Gates 1 and 2 accept it, unless comparisons were cut off or nothing is common.
LEMMA GenuineLineage ==
    ASSUME NEW given, NEW runs, GivesOwn(given, runs)
    PROVE  /\ Lineage(given) = Passed <=>
                /\ \A g \in Generations : Cardinality(Looked(runs[g])) <= MaxComparisons
                /\ CommonLayers(runs["authoritative"]) # {}
           /\ Lineage(given) # Passed => Lineage(given).status = "comparison_blocked_by_pass3"
<1>1. \A g \in Generations :
        /\ IsSound(runs[g], given.result[g], given.artifact[g])
        /\ given.pass2[g] = Pass2Of(runs[g])
  BY GenuineParent DEF GivesOwn
<1>2. \A g \in Generations :
        /\ Pass2Binding(given.artifact[g], given.pass2[g]) = Passed
        /\ ParentBinding(given.artifact[g]) = Passed
  <2> SUFFICES ASSUME NEW g \in Generations
               PROVE  /\ Pass2Binding(given.artifact[g], given.pass2[g]) = Passed
                      /\ ParentBinding(given.artifact[g]) = Passed
    OBVIOUS
  <2>1. IsSound(runs[g], given.result[g], given.artifact[g])
        /\ given.pass2[g] = Pass2Of(runs[g])
    BY <1>1
  <2>2. Pass2Binding(given.artifact[g], Pass2Of(runs[g])) = Passed
        /\ ParentBinding(given.artifact[g]) = Passed
    BY <2>1, GenuineBinds
  <2> QED
    BY <2>1, <2>2
<1>3. \A g \in Generations :
        ArtifactCoherence(given, g) = Passed <=> Cardinality(Looked(runs[g])) <= MaxComparisons
  BY GenuineCoherence
<1>4. given.artifact["authoritative"].status \notin BlockedByPass3
        <=> CommonLayers(runs["authoritative"]) # {}
  <2>1. /\ given.artifact["authoritative"].status = StatusOf(runs["authoritative"])
        /\ IsRun(runs["authoritative"])
    BY <1>1 DEF IsSound, Generations
  <2> QED
    BY <2>1, StatusIs
<1>5. Lineage(given) = Passed <=>
        /\ \A g \in Generations : ArtifactCoherence(given, g) = Passed
        /\ given.artifact["authoritative"].status \notin BlockedByPass3
  <2>1. "discovery" \in Generations /\ "authoritative" \in Generations
    BY DEF Generations
  <2> QED
    BY <1>2, <2>1, LineageReads
<1>6. ClassifiedAs(Lineage(given), LineageStatuses)
  BY LineageReads
<1> QED
  BY <1>3, <1>4, <1>5, <1>6 DEF ClassifiedAs, LineageStatuses

\* Gates 3 and 4 see where each pair differs.
LEMMA GenuineKind ==
    ASSUME NEW given, NEW runs, GivesOwn(given, runs), CommonLayers(runs["authoritative"]) # {}
    PROVE  LET kind == Gate3(given.artifact["discovery"], given.artifact["authoritative"])
               d == runs["discovery"]
               a == runs["authoritative"]
           IN  /\ kind = Passed <=> FoundIn(a) # Absent /\ FoundIn(d) # Absent
               /\ kind.status = IF FoundIn(a) = Absent THEN "not_applicable"
                                ELSE IF FoundIn(d) # Absent THEN "passed"
                                ELSE "comparison_blocked_by_pass3"
<1> DEFINE discovery == given.artifact["discovery"]
           authoritative == given.artifact["authoritative"]
           kind == Gate3(discovery, authoritative)
           d == runs["discovery"]
           a == runs["authoritative"]
<1>1. IsSound(d, given.result["discovery"], discovery)
  BY GenuineParent DEF Generations
<1>2. IsSound(a, given.result["authoritative"], authoritative)
  BY GenuineParent DEF Generations
<1>3. /\ discovery.status = StatusOf(d) /\ IsRun(d)
      /\ CommonLayers(d) # {} => discovery.decision = Tier1
  BY <1>1 DEF IsSound
<1>4. /\ authoritative.status = StatusOf(a) /\ IsRun(a) /\ authoritative.step = Step
      /\ authoritative.decision = Tier1
  BY <1>2 DEF IsSound
<1>5. PolicyIsKnown(authoritative) /\ authoritative.step # 0
  BY <1>4 DEF PolicyIsKnown, Step
<1>6. CommonLayers(d) # {} => PolicyIsKnown(discovery)
  BY <1>3 DEF PolicyIsKnown
<1>7. CommonLayers(a) # {}
  OBVIOUS
<1> HIDE DEF discovery, authoritative, d, a
<1>8. /\ discovery.status = "observable_mismatch_found" <=> FoundIn(d) # Absent
      /\ FoundIn(d) # Absent => CommonLayers(d) # {}
  BY <1>3, StatusIs
<1>9. /\ authoritative.status = "observable_mismatch_found" <=> FoundIn(a) # Absent
      /\ authoritative.status = "no_mismatch_in_captured_coverage" <=> FoundIn(a) = Absent
      /\ authoritative.status # "unsupported_checkpoint_layout"
      /\ authoritative.status # "comparison_policy_unavailable"
  BY <1>4, <1>7, StatusIs
<1>10. kind = Passed <=> FoundIn(a) # Absent /\ FoundIn(d) # Absent
  BY <1>5, <1>6, <1>8, <1>9, Gate3Reads
<1>11. kind.status = IF FoundIn(a) = Absent THEN "not_applicable"
                     ELSE IF FoundIn(d) # Absent THEN "passed"
                     ELSE "comparison_blocked_by_pass3"
  BY <1>5, <1>6, <1>8, <1>9, Gate3Status
<1> QED
  BY <1>10, <1>11 DEF discovery, authoritative, d, a

LEMMA GenuineDrift ==
    ASSUME NEW given, NEW runs, GivesOwn(given, runs),
           FoundIn(runs["discovery"]) # Absent, FoundIn(runs["authoritative"]) # Absent
    PROVE  LET drift == Drift(given.artifact["discovery"], given.artifact["authoritative"]) IN
           /\ drift = Passed <=> FoundIn(runs["discovery"]) = FoundIn(runs["authoritative"])
           /\ drift # Passed => drift.status = "parent_revalidation_inconsistent"
<1> DEFINE discovery == given.artifact["discovery"]
           authoritative == given.artifact["authoritative"]
           drift == Drift(discovery, authoritative)
           d == runs["discovery"]
           a == runs["authoritative"]
           requested == [reference |-> LayersAt(Layers), candidate |-> LayersAt(Layers)]
           asked(raw) == [tier |-> raw.evidence.tier, step |-> raw.evidence.step,
                          generated |-> raw.evidence.generated]
<1>1. IsSound(d, given.result["discovery"], discovery)
  BY GenuineParent DEF Generations
<1>2. IsSound(a, given.result["authoritative"], authoritative)
  BY GenuineParent DEF Generations
<1>3. \A r, x, raw : IsSound(r, x, raw) /\ FoundIn(r) # Absent =>
        /\ raw.layer = FoundIn(r) /\ raw.step = Step /\ raw.coverage.requested = requested
        /\ raw.decision = Tier1
        /\ asked(raw) = [tier |-> Independent, step |-> Step, generated |-> Step - 1]
  <2> SUFFICES ASSUME NEW r, NEW x, NEW raw, IsSound(r, x, raw), FoundIn(r) # Absent
               PROVE  /\ raw.layer = FoundIn(r) /\ raw.step = Step
                      /\ raw.coverage.requested = requested /\ raw.decision = Tier1
                      /\ asked(raw) = [tier |-> Independent, step |-> Step,
                                       generated |-> Step - 1]
    OBVIOUS
  <2>1. /\ IsRun(r) /\ r.fault = NoFault /\ raw.step = Step
        /\ raw.evidence = Pass2Evidence(Pass2Of(r))
        /\ CommonLayers(r) # {} => /\ raw.layer = FoundIn(r) /\ raw.decision = Tier1
                                   /\ raw.coverage.requested = requested
    BY DEF IsSound
  <2>2. CommonLayers(r) # {}
    BY <2>1, StatusIs
  <2>3. Pass2Of(r).tier = Independent /\ Pass2Of(r).generated = Step - 1 /\ Pass2Of(r).step = Step
    BY <2>1, GenuinePass2
  <2>4. /\ raw.evidence.tier = Independent /\ raw.evidence.step = Step
        /\ raw.evidence.generated = Step - 1
    BY <2>1, <2>3 DEF Pass2Evidence
  <2> QED
    BY <2>1, <2>2, <2>4
<1>4. FoundIn(d) # Absent /\ FoundIn(a) # Absent
  OBVIOUS
<1> HIDE DEF discovery, authoritative, d, a, requested, asked
<1>5. /\ discovery.layer = FoundIn(d) /\ discovery.step = Step
      /\ discovery.coverage.requested = requested /\ discovery.decision = Tier1
      /\ asked(discovery) = [tier |-> Independent, step |-> Step, generated |-> Step - 1]
  BY <1>1, <1>3, <1>4
<1>6. /\ authoritative.layer = FoundIn(a) /\ authoritative.step = Step
      /\ authoritative.coverage.requested = requested /\ authoritative.decision = Tier1
      /\ asked(authoritative) = [tier |-> Independent, step |-> Step, generated |-> Step - 1]
  BY <1>2, <1>3, <1>4
<1>7. drift = Passed <=> /\ discovery.layer = authoritative.layer
                         /\ discovery.step = authoritative.step
                         /\ discovery.coverage.requested = authoritative.coverage.requested
                         /\ discovery.decision = authoritative.decision
                         /\ asked(discovery) = asked(authoritative)
  BY DriftReads DEF asked
<1>8. drift = Passed <=> FoundIn(d) = FoundIn(a)
  BY <1>5, <1>6, <1>7
<1>9. drift # Passed => drift.status = "parent_revalidation_inconsistent"
  <2>1. ClassifiedAs(drift, DriftStatuses)
    BY DriftReads
  <2> HIDE DEF drift
  <2> QED
    BY <2>1 DEF ClassifiedAs, DriftStatuses
<1> QED
  BY <1>8, <1>9 DEF discovery, authoritative, d, a

\* Gate 5 accepts a source of a generation that captured what it is for.
LEMMA GenuineSource ==
    ASSUME NEW given, NEW runs, GivesOwn(given, runs), NEW g \in Generations, NEW s \in Sides,
           CommonLayers(runs["authoritative"]) # {},
           runs[g].target = IF g = "authoritative" THEN FoundIn(runs[g]) ELSE Absent
    PROVE  /\ BindSource(given, g, s) = Passed
           /\ given.report[g][s].manifest = Manifest(runs[g])
           /\ given.report[g][s].set = <<g, s>> /\ given.trace[g][s].set = <<g, s>>
<1> DEFINE r        == runs[g]
           raw      == given.artifact[g]
           recorded == raw.sources[s]
           report   == given.report[g][s]
           trace    == given.trace[g][s]
<1>1. IsSound(r, given.result[g], raw) /\ r.generation = g
  BY GenuineParent
<1>2. report = ReportOf(r, s) /\ trace = TraceOf(r, s)
  BY DEF GivesOwn
<1>3. /\ r.fault = NoFault /\ raw.step = Step /\ IsRun(r)
      /\ recorded = SourceBinding(SourceRoles(Pass2Of(r))[s], ReportOf(r, s), TraceOf(r, s))
      /\ CommonLayers(r) # {} => raw.layer = FoundIn(r)
  BY <1>1 DEF IsSound
<1>4. BindSource(given, g, s) = Passed <=>
        /\ RoleIsOf(recorded.role, s)
        /\ trace.kind = "layer_trace"
        /\ report.kind = "run_report"
        /\ report = recorded.report
        /\ trace = recorded.trace
        /\ report.manifest = trace.manifest /\ report.manifest = recorded.manifest
        /\ /\ None \notin {report.set, trace.set}
           /\ report.set = trace.set /\ report.set = recorded.set
        /\ report.manifest.family = Family
        /\ report.manifest.precision # Malformed
        /\ report.manifest.step = raw.step /\ trace.layout.step = raw.step
        /\ CaptureIsOf(g, report.manifest, raw.layer)
  BY BindSourceReads
<1>5. /\ r.target = IF g = "authoritative" THEN FoundIn(r) ELSE Absent
      /\ g = "authoritative" => CommonLayers(r) # {}
  OBVIOUS
<1> HIDE DEF r, raw, recorded, report, trace
<1>6. /\ report.kind = "run_report" /\ report.set = <<r.generation, s>>
      /\ report.manifest = Manifest(r)
      /\ trace.kind = "layer_trace" /\ trace.set = <<r.generation, s>>
      /\ trace.manifest = Manifest(r) /\ trace.layout = LayerLayout(r.captured[s])
  BY <1>2, <1>3, GenuineFiles
<1>7. /\ recorded.report = report /\ recorded.trace = trace
      /\ recorded.manifest = report.manifest /\ recorded.set = trace.set
      /\ recorded.role = SourceRoles(Pass2Of(r))[s]
  BY <1>2, <1>3, SourceBindingIs
<1>8. RoleIsOf(recorded.role, s)
  <2>1. SourceRoles(Pass2Of(r)) = [reference |-> "reference_reproduction",
                                   candidate |-> "candidate_reproduction"]
    BY <1>3, GenuinePass2
  <2>2. recorded.role = IF s = "reference" THEN "reference_reproduction"
                        ELSE "candidate_reproduction"
    BY <1>7, <2>1 DEF Sides
  <2> QED
    BY <2>2 DEF RoleIsOf
<1>9. report.set # None /\ trace.set # None
  <2>1. <<r.generation, s>> # None
    BY DEF None
  <2> QED
    BY <1>6, <2>1
<1>10. /\ report.manifest.family = Family /\ report.manifest.precision = "fp32"
       /\ report.manifest.step = Step /\ report.manifest.intra = r.target
       /\ trace.layout.step = Step
  BY <1>6 DEF Manifest, LayerLayout
<1>11. CaptureIsOf(g, report.manifest, raw.layer)
  BY <1>3, <1>5, <1>10 DEF CaptureIsOf
<1>12. "fp32" # Malformed
  BY DEF Malformed
<1>13. BindSource(given, g, s) = Passed
  BY <1>3, <1>4, <1>6, <1>7, <1>8, <1>9, <1>10, <1>11, <1>12
<1> QED
  BY <1>1, <1>6, <1>13 DEF r, report, trace

LEMMA GenuineSources ==
    ASSUME NEW given, NEW runs, GivesOwn(given, runs), CommonLayers(runs["authoritative"]) # {},
           runs["discovery"].target = Absent,
           runs["authoritative"].target = FoundIn(runs["authoritative"])
    PROVE  Sources(given) = Passed
<1>1. \A g \in Generations :
        runs[g].target = IF g = "authoritative" THEN FoundIn(runs[g]) ELSE Absent
  BY DEF Generations
<1>2. \A g \in Generations, s \in Sides :
        /\ BindSource(given, g, s) = Passed
        /\ given.report[g][s].manifest = Manifest(runs[g])
        /\ given.report[g][s].set = <<g, s>> /\ given.trace[g][s].set = <<g, s>>
  BY <1>1, GenuineSource
<1>3. \A g \in Generations : BindGeneration(given, g) = Passed
  <2>1. "reference" \in Sides /\ "candidate" \in Sides
    BY DEF Sides
  <2> QED
    BY <1>2, <2>1, BindGenerationReads
<1>4. Shared(Manifest(runs["discovery"])) = Shared(Manifest(runs["authoritative"]))
  BY DEF Shared, Manifest
<1>5. ASSUME NEW s \in Sides PROVE CrossGeneration(given, s) = Passed
  <2>1. /\ given.report["discovery"][s].set = <<"discovery", s>>
        /\ given.trace["discovery"][s].set = <<"discovery", s>>
        /\ given.report["authoritative"][s].set = <<"authoritative", s>>
        /\ given.trace["authoritative"][s].set = <<"authoritative", s>>
        /\ given.report["discovery"][s].manifest = Manifest(runs["discovery"])
        /\ given.report["authoritative"][s].manifest = Manifest(runs["authoritative"])
    BY <1>2 DEF Generations
  <2>2. <<"discovery", s>> # <<"authoritative", s>>
    OBVIOUS
  <2>3. /\ given.trace["discovery"][s] # given.trace["authoritative"][s]
        /\ given.report["discovery"][s] # given.report["authoritative"][s]
    BY <2>1, <2>2
  <2> QED
    BY <1>4, <2>1, <2>3, CrossGenerationReads
<1> QED
  BY <1>3, <1>5, SourcesReads

\* Without an odd run and without a wrong slot each generation is handed over
\* with its own objects, captured where the first generation pointed.
LEMMA GenuineRuns ==
    ASSUME ChainInv, NamesInv, pc = "done", OddRuns = 0
    PROVE  /\ \A g \in Generations : IsGenuine(run[g]) /\ run[g].generation = g
           /\ run["discovery"].target = Absent
           /\ run["authoritative"].target = TargetOf(result["discovery"])
           /\ run["authoritative"].onset = run["discovery"].onset
<1> DEFINE odd == {g \in Generations : run[g] # None /\ run[g].fault # NoFault}
<1>1. odd = {}
  <2>1. IsFiniteSet({"discovery"} \cup {"authoritative"})
    BY FS_Singleton, FS_Union
  <2>2. IsFiniteSet(Generations)
    <3>1. Generations = {"discovery"} \cup {"authoritative"}
      BY DEF Generations
    <3> QED
      BY <2>1, <3>1
  <2>3. IsFiniteSet(odd)
    BY <2>2, FS_Subset
  <2>4. Cardinality(odd) = 0
    BY DEF OddRuns
  <2> HIDE DEF odd
  <2> QED
    BY <2>3, <2>4, FS_EmptySet
<1>2. run["discovery"] # None /\ run["authoritative"] # None
  BY DEF NamesInv, AfterPass3
<1>3. \A g \in Generations : run[g] # None /\ run[g].generation = g
  BY <1>2 DEF NamesInv, Generations
<1>4. \A g \in Generations : run[g].fault = NoFault
  BY <1>1, <1>3
<1>5. /\ IsRun(run["discovery"]) /\ run["discovery"].target = Absent
      /\ IsRun(run["authoritative"])
      /\ run["authoritative"].target = TargetOf(result["discovery"])
      /\ \/ run["authoritative"].onset = run["discovery"].onset
         \/ run["authoritative"].fault # NoFault
  BY DEF ChainInv, RunsInv, AfterPass3
<1> HIDE DEF odd
<1>6. run["authoritative"].fault = NoFault
  BY <1>4 DEF Generations
<1>7. \A g \in Generations : IsRun(run[g])
  BY <1>5 DEF Generations
<1> QED
  BY <1>3, <1>4, <1>5, <1>6, <1>7 DEF IsGenuine

LEMMA RightlyHanded ==
    ASSUME Wrong = {}, NEW g \in Generations
    PROVE  /\ HandedGeneration(g) = g
           /\ Given.result[g] = result[g] /\ Given.artifact[g] = SerializePass3(result[g])
           /\ Given.pass2[g] = Pass2Of(run[g])
           /\ Given.report[g] = Reports(run[g]) /\ Given.trace[g] = Traces(run[g])
<1> DEFINE slot(of, s) == [of |-> of, g |-> g, s |-> s]
<1>1. \A x \in Slot : handed[x].g = x.g /\ handed[x].s = x.s /\ handed[x] # None
  <2>1. \A x : Own(x).g = x.g /\ Own(x).s = x.s /\ Own(x) # None
    BY DEF Own, None
  <2>2. \A x \in Slot : handed[x] = Own(x)
    BY DEF Wrong
  <2> QED
    BY <2>1, <2>2
<1>2. \A of \in {"result", "artifact", "pass2"} : handed[slot(of, "reference")].g = g
  <2> SUFFICES ASSUME NEW of \in {"result", "artifact", "pass2"}
               PROVE  handed[slot(of, "reference")].g = g
    OBVIOUS
  <2> DEFINE x == slot(of, "reference")
  <2>1. x \in Slot /\ x.g = g
    BY DEF Slot
  <2> HIDE DEF x
  <2>2. handed[x].g = g
    BY <1>1, <2>1
  <2> QED
    BY <2>2 DEF x
<1>3. \A of \in Files, s \in Sides : handed[slot(of, s)].g = g /\ handed[slot(of, s)].s = s
  <2> SUFFICES ASSUME NEW of \in Files, NEW s \in Sides
               PROVE  handed[slot(of, s)].g = g /\ handed[slot(of, s)].s = s
    OBVIOUS
  <2> DEFINE x == slot(of, s)
  <2>1. x \in Slot /\ x.g = g /\ x.s = s
    BY DEF Slot
  <2> HIDE DEF x
  <2>2. handed[x].g = g /\ handed[x].s = s
    BY <1>1, <2>1
  <2> QED
    BY <2>2 DEF x
<1>4. handed[slot("pass2", "reference")] # None
  <2>1. slot("pass2", "reference") \in Slot
    BY DEF Slot
  <2> QED
    BY <1>1, <2>1
<1>5. HandedGeneration(g) = g
  BY <1>2 DEF HandedGeneration
<1>6. /\ Given.result[g] = result[handed[slot("result", "reference")].g]
      /\ Given.artifact[g] = SerializePass3(result[handed[slot("artifact", "reference")].g])
      /\ Given.pass2[g] = IF handed[slot("pass2", "reference")] = None THEN None
                          ELSE Pass2Of(run[handed[slot("pass2", "reference")].g])
  BY DEF Given
<1>7. /\ Given.report[g] = [s \in Sides |-> ReportOf(run[handed[slot("report", s)].g],
                                                     handed[slot("report", s)].s)]
      /\ Given.trace[g] = [s \in Sides |-> TraceOf(run[handed[slot("trace", s)].g],
                                                   handed[slot("trace", s)].s)]
  BY DEF Given
<1>8. "report" \in Files /\ "trace" \in Files
  BY DEF Files
<1> HIDE DEF slot
<1>9. Given.report[g] = Reports(run[g]) /\ Given.trace[g] = Traces(run[g])
  BY <1>3, <1>7, <1>8 DEF Reports, Traces
<1> QED
  BY <1>2, <1>4, <1>5, <1>6, <1>9

LEMMA GenuineGiven ==
    ASSUME ChainInv, NamesInv, pc = "done", Genuine
    PROVE  /\ GivesOwn(Given, run)
           /\ \A g \in Generations : /\ HandedRun(g) = run[g]
                                     /\ Given.trace[g] = Traces(run[g])
                                     /\ Given.result[g] = result[g]
           /\ run["discovery"].target = Absent
           /\ run["authoritative"].target = TargetOf(result["discovery"])
           /\ run["authoritative"].onset = run["discovery"].onset
<1>1. OddRuns = 0 /\ Wrong = {}
  BY DEF Genuine
<1>2. /\ \A g \in Generations : IsGenuine(run[g]) /\ run[g].generation = g
      /\ run["discovery"].target = Absent
      /\ run["authoritative"].target = TargetOf(result["discovery"])
      /\ run["authoritative"].onset = run["discovery"].onset
  BY <1>1, GenuineRuns
<1>3. \A g \in Generations :
        /\ HandedGeneration(g) = g
        /\ Given.result[g] = result[g] /\ Given.artifact[g] = SerializePass3(result[g])
        /\ Given.pass2[g] = Pass2Of(run[g])
        /\ Given.report[g] = Reports(run[g]) /\ Given.trace[g] = Traces(run[g])
  BY <1>1, RightlyHanded
<1>4. \A g \in Generations :
        result[g] = LocalizeLayers(Pass2Of(run[g]), Pass2Of(run[g]), Reports(run[g]), Traces(run[g]))
  <2>1. \A g \in Generations : result[g] = LocalizationOf(g)
    BY DEF ChainInv, ResultsInv, AfterPass3, Generations
  <2> QED
    BY <2>1 DEF LocalizationOf, Reports, Traces
<1>5. \A g \in Generations, s \in Sides : /\ Given.report[g][s] = ReportOf(run[g], s)
                                          /\ Given.trace[g][s] = TraceOf(run[g], s)
  <2>1. \A r : \A s \in Sides : Reports(r)[s] = ReportOf(r, s) /\ Traces(r)[s] = TraceOf(r, s)
    BY DEF Reports, Traces
  <2> QED
    BY <1>3, <2>1
<1>6. GivesOwn(Given, run)
  BY <1>2, <1>3, <1>4, <1>5 DEF GivesOwn
<1> QED
  BY <1>2, <1>3, <1>6 DEF HandedRun

\* Genuine results hand on few warnings.
LEMMA GenuineWarnings ==
    ASSUME ChainInv, NamesInv, pc = "done", Genuine
    PROVE  Given.result["authoritative"].warnings = "few"
<1> DEFINE a == run["authoritative"]
<1>1. GivesOwn(Given, run)
  BY GenuineGiven DEF Generations
<1>2. /\ IsGenuine(a)
      /\ Given.result["authoritative"] =
            LocalizeLayers(Pass2Of(a), Pass2Of(a), Reports(a), Traces(a))
  BY <1>1 DEF GivesOwn, Generations
<1> HIDE DEF a
<1> QED
  BY <1>2, GenuineLocalization

\* Gates 1 to 5 answer what the captures and the onset ask for.
LEMMA GenuineBind ==
    ASSUME ChainInv, NamesInv, pc = "done", Genuine
    PROVE  LET d == run["discovery"]
               a == run["authoritative"]
           IN  /\ Bind(Given).status =
                    IF \/ \E g \in Generations : Cardinality(Looked(run[g])) > MaxComparisons
                       \/ CommonLayers(a) = {}          THEN "comparison_blocked_by_pass3"
                    ELSE IF FoundIn(a) = Absent         THEN "not_applicable"
                    ELSE IF FoundIn(d) = Absent         THEN "comparison_blocked_by_pass3"
                    ELSE IF FoundIn(d) # FoundIn(a)     THEN "parent_revalidation_inconsistent"
                    ELSE "proceed"
               /\ Bind(Given).status = "proceed" => a.target = FoundIn(a)
<1> DEFINE given == Given
           d == run["discovery"]
           a == run["authoritative"]
           lineage == Lineage(given)
           kind == Gate3(given.artifact["discovery"], given.artifact["authoritative"])
           drift == Drift(given.artifact["discovery"], given.artifact["authoritative"])
           sources == Sources(given)
           many == \E g \in Generations : Cardinality(Looked(run[g])) > MaxComparisons
           o == Bind(given)
<1>1. /\ GivesOwn(given, run) /\ d.target = Absent
      /\ a.target = TargetOf(given.result["discovery"])
  BY GenuineGiven DEF Generations
<1>2. o.status = IF lineage # Passed THEN lineage.status
                 ELSE IF kind # Passed THEN kind.status
                 ELSE IF drift # Passed THEN drift.status
                 ELSE IF sources # Passed THEN sources.status
                 ELSE "proceed"
  BY BindSays, GenuineWarnings DEF AfterPass3
<1> HIDE DEF given
<1>3. lineage = Passed <=> ~many /\ CommonLayers(a) # {}
  <2>1. \A g \in Generations : Cardinality(Looked(run[g])) \in Nat
    <3>1. \A g \in Generations : IsSound(run[g], given.result[g], given.artifact[g])
      BY <1>1, GenuineParent
    <3> QED
      BY <3>1 DEF IsSound
  <2>2. MaxComparisons \in Nat
    BY MaxComparisonsAssumption
  <2>3. (\A g \in Generations : Cardinality(Looked(run[g])) <= MaxComparisons) <=> ~many
    BY <2>1, <2>2
  <2> HIDE DEF many
  <2> QED
    BY <1>1, <2>3, GenuineLineage
<1>4. lineage # Passed => lineage.status = "comparison_blocked_by_pass3"
  BY <1>1, GenuineLineage
<1>5. CommonLayers(a) # {} =>
        /\ kind = Passed <=> FoundIn(a) # Absent /\ FoundIn(d) # Absent
        /\ kind.status = IF FoundIn(a) = Absent THEN "not_applicable"
                         ELSE IF FoundIn(d) # Absent THEN "passed"
                         ELSE "comparison_blocked_by_pass3"
  BY <1>1, GenuineKind
<1>6. FoundIn(d) # Absent /\ FoundIn(a) # Absent =>
        /\ drift = Passed <=> FoundIn(d) = FoundIn(a)
        /\ drift # Passed => drift.status = "parent_revalidation_inconsistent"
  BY <1>1, GenuineDrift
<1>7. FoundIn(d) # Absent => a.target = FoundIn(d)
  <2> SUFFICES ASSUME FoundIn(d) # Absent PROVE a.target = FoundIn(d)
    OBVIOUS
  <2>1. /\ IsGenuine(d)
        /\ given.result["discovery"] = LocalizeLayers(Pass2Of(d), Pass2Of(d), Reports(d), Traces(d))
    BY <1>1 DEF GivesOwn, Generations
  <2>2. CommonLayers(d) # {}
    <3>1. IsRun(d)
      BY <2>1 DEF IsGenuine
    <3> QED
      BY <3>1, StatusIs
  <2>3. given.result["discovery"].layer = FoundIn(d)
    BY <2>1, <2>2, GenuineResult
  <2> QED
    BY <1>1, <2>3 DEF TargetOf
<1>8. CommonLayers(a) # {} /\ FoundIn(d) # Absent /\ FoundIn(d) = FoundIn(a) => sources = Passed
  <2> SUFFICES ASSUME CommonLayers(a) # {}, FoundIn(d) # Absent, FoundIn(d) = FoundIn(a)
               PROVE  sources = Passed
    OBVIOUS
  <2>1. a.target = FoundIn(a)
    BY <1>7
  <2> QED
    BY <1>1, <2>1, GenuineSources
<1> HIDE DEF d, a, lineage, kind, drift, sources, many, o
<1>9. o.status = IF many \/ CommonLayers(a) = {}     THEN "comparison_blocked_by_pass3"
                 ELSE IF FoundIn(a) = Absent         THEN "not_applicable"
                 ELSE IF FoundIn(d) = Absent         THEN "comparison_blocked_by_pass3"
                 ELSE IF FoundIn(d) # FoundIn(a)     THEN "parent_revalidation_inconsistent"
                 ELSE "proceed"
  <2>1. CASE many \/ CommonLayers(a) = {}
    BY <1>2, <1>3, <1>4, <2>1
  <2>2. CASE ~(many \/ CommonLayers(a) = {}) /\ (FoundIn(a) = Absent \/ FoundIn(d) = Absent)
    BY <1>2, <1>3, <1>5, <2>2
  <2>3. CASE ~(many \/ CommonLayers(a) = {}) /\ FoundIn(a) # Absent /\ FoundIn(d) # Absent
             /\ FoundIn(d) # FoundIn(a)
    BY <1>2, <1>3, <1>5, <1>6, <2>3
  <2>4. CASE ~(many \/ CommonLayers(a) = {}) /\ FoundIn(a) # Absent /\ FoundIn(d) # Absent
             /\ FoundIn(d) = FoundIn(a)
    BY <1>2, <1>3, <1>5, <1>6, <1>8, <2>4
  <2> QED
    BY <2>1, <2>2, <2>3, <2>4
<1>10. o.status = "proceed" => FoundIn(d) # Absent /\ FoundIn(d) = FoundIn(a)
  BY <1>9
<1>11. o.status = "proceed" => a.target = FoundIn(a)
  BY <1>7, <1>10
<1> QED
  BY <1>9, <1>11 DEF d, a, many, o, given

\* Gates 6 to 8 answer what the stages captured on both sides show.
LEMMA GenuineStages ==
    ASSUME NEW r, IsGenuine(r), r.target # Absent, NEW o, IsProceeding(o),
           o.target.step = Step, o.target.layer = r.target,
           \A s \in Sides : o.bindings[s].trace = TraceOf(r, s)
    PROVE  LET both  == r.stages["reference"] \cap r.stages["candidate"]
               shown == {s \in both : StageDiffers(r.onset, "candidate", r.target, s)}
           IN  LocalizeStages(o, Traces(r)).status =
                 IF both = {} THEN "insufficient_common_intra_layer_coverage"
                 ELSE IF shown = {} THEN "mismatch_bounded_to_inherited_closing_boundary"
                 ELSE "observable_intra_layer_mismatch_found"
<1> DEFINE both   == r.stages["reference"] \cap r.stages["candidate"]
           shown  == {s \in both : StageDiffers(r.onset, "candidate", r.target, s)}
           traces == Traces(r)
           ref    == TraceOf(r, "reference").intra
           cand   == TraceOf(r, "candidate").intra
           common == CommonStages(traces)
           x      == LocalizeStages(o, traces)
           N      == Cardinality(both)
<1>1. /\ IsRun(r) /\ both \in SUBSET StageIds
  BY DEF IsGenuine, IsRun, Sides
<1>2. traces["reference"].intra = ref /\ traces["candidate"].intra = cand
  BY DEF Traces, Sides
<1>3. StageLayouts(o, traces) = Passed
  BY GenuineParse
<1>4. /\ ref # None /\ cand # None
      /\ \/ common = <<>> /\ x.status = "insufficient_common_intra_layer_coverage"
         \/ /\ common # <<>> /\ (~StagesAlign(traces) \/ StagePolicy(ref, cand) # Passed)
         \/ /\ common # <<>>
            /\ \E at : /\ LocalizedSays(o, at, x)
                       /\ at.coverage.comparable = common
                       /\ x.stages.comparisons = StageComparisons(ref, cand, common)
  <2> HIDE DEF ref, cand, traces, x, common
  <2>1. /\ traces["reference"].intra # None /\ traces["candidate"].intra # None
        /\ \/ common = <<>> /\ x.status = "insufficient_common_intra_layer_coverage"
           \/ /\ common # <<>>
              /\ ~StagesAlign(traces)
                 \/ StagePolicy(traces["reference"].intra, traces["candidate"].intra) # Passed
           \/ /\ common # <<>>
              /\ \E at : /\ LocalizedSays(o, at, x)
                         /\ at.coverage.comparable = common
                         /\ x.stages.comparisons =
                              StageComparisons(traces["reference"].intra,
                                               traces["candidate"].intra, common)
    BY <1>3, LocalizeReads DEF x, common
  <2> QED
    BY <1>2, <2>1
<1>5. StagesAlign(traces) /\ StagePolicy(ref, cand) = Passed
  BY GenuineStagesAlign
<1>6. common = StagesAt(r, both)
  BY GenuineCommonStages
<1>7. /\ N \in Nat /\ common = [i \in 1 .. N |-> common[i]] /\ DOMAIN common = 1 .. N
      /\ Len(common) = N
      /\ \A i \in 1 .. N : common[i].stage \in both
      /\ \A c \in both : \E i \in 1 .. N : common[i].stage = c
  <2>1. /\ N \in Nat /\ common = [i \in 1 .. N |-> common[i]] /\ DOMAIN common = 1 .. N
        /\ \A i \in 1 .. N : common[i].stage \in both
        /\ \A c \in both : \E i \in 1 .. N : common[i].stage = c
    <3> HIDE DEF common, both
    <3> QED
      BY <1>1, <1>6, StagesAtIs
  <2> HIDE DEF common, both, N
  <2>2. Len(common) = N
    BY <2>1
  <2> QED
    BY <2>1, <2>2
<1>8. \A i \in DOMAIN common :
        (EntryAt(ref, common[i]).digest = EntryAt(cand, common[i]).digest)
          <=> ~StageDiffers(r.onset, "candidate", r.target, common[i].stage)
  <2>1. \A s \in Sides : /\ TraceOf(r, s).intra # None
                         /\ StageEntries(TraceOf(r, s).intra) = Passed
    <3> SUFFICES ASSUME NEW s \in Sides
                 PROVE  TraceOf(r, s).intra # None /\ StageEntries(TraceOf(r, s).intra) = Passed
      OBVIOUS
    <3>1. StageEntries(TraceOf(r, s).intra) = Passed
      BY GenuineStageEntries
    <3>2. TraceOf(r, s).intra # None
      BY GenuineBlock
    <3> QED
      BY <3>1, <3>2
  <2> QED
    BY <1>1, <2>1, StageIsEquivalent DEF Traces
<1> HIDE DEF both, traces, ref, cand, common, x, N
<1>9. common = <<>> <=> both = {}
  <2>1. common = <<>> <=> N = 0
    BY <1>7
  <2>2. 1 .. N = {} <=> N = 0
    BY <1>7
  <2> QED
    BY <1>7, <2>1, <2>2
<1>10. common = <<>> => x.status = "insufficient_common_intra_layer_coverage"
  BY <1>4
<1>11. common # <<>> =>
         x.status = IF shown = {} THEN "mismatch_bounded_to_inherited_closing_boundary"
                    ELSE "observable_intra_layer_mismatch_found"
  <2> SUFFICES ASSUME common # <<>>
               PROVE  x.status = IF shown = {}
                                 THEN "mismatch_bounded_to_inherited_closing_boundary"
                                 ELSE "observable_intra_layer_mismatch_found"
    OBVIOUS
  <2>1. PICK at : /\ LocalizedSays(o, at, x) /\ at.coverage.comparable = common
                  /\ x.stages.comparisons = StageComparisons(ref, cand, common)
    BY <1>4, <1>5
  <2> DEFINE compared  == x.stages.comparisons
             differing == {i \in DOMAIN compared : ~compared[i].equivalent}
  <2>2. x.status = IF differing = {} THEN "mismatch_bounded_to_inherited_closing_boundary"
                   ELSE "observable_intra_layer_mismatch_found"
    BY <2>1 DEF LocalizedSays
  <2>3. /\ DOMAIN compared = 1 .. N
        /\ \A i \in 1 .. N : compared[i].equivalent <=>
             EntryAt(ref, common[i]).digest = EntryAt(cand, common[i]).digest
    BY <1>7, <2>1, ComparedStages
  <2>4. differing = {i \in 1 .. N : StageDiffers(r.onset, "candidate", r.target, common[i].stage)}
    BY <1>7, <1>8, <2>3
  <2>5. differing = {} <=> shown = {}
    <3> HIDE DEF differing
    <3>1. ASSUME NEW i \in differing PROVE common[i].stage \in shown
      BY <1>7, <2>4
    <3>2. ASSUME NEW c \in shown PROVE \E i \in differing : TRUE
      <4>1. c \in both /\ StageDiffers(r.onset, "candidate", r.target, c)
        OBVIOUS
      <4>2. PICK i \in 1 .. N : common[i].stage = c
        BY <1>7, <4>1
      <4> QED
        BY <2>4, <4>1, <4>2
    <3> QED
      BY <3>1, <3>2
  <2> HIDE DEF differing, shown
  <2> QED
    BY <2>2, <2>5
<1> HIDE DEF shown
<1>12. x.status = IF both = {} THEN "insufficient_common_intra_layer_coverage"
                  ELSE IF shown = {} THEN "mismatch_bounded_to_inherited_closing_boundary"
                  ELSE "observable_intra_layer_mismatch_found"
  BY <1>9, <1>10, <1>11
<1> QED
  BY <1>12 DEF x, traces, both, shown

LEMMA GenuineProceeding ==
    ASSUME ChainInv, NamesInv, pc = "done", Genuine, Bind(Given).status = "proceed"
    PROVE  LET o == Bind(Given)
               a == run["authoritative"]
           IN  /\ IsGenuine(a) /\ a.target = FoundIn(a) /\ a.target # Absent
               /\ IsProceeding(o) /\ o.target.step = Step /\ o.target.layer = a.target
               /\ \A s \in Sides : o.bindings[s].trace = TraceOf(a, s)
<1> DEFINE o == Bind(Given)
           a == run["authoritative"]
           raw == Given.artifact["authoritative"]
<1>1. /\ IsProceeding(o) /\ FoundIn(HandedRun("authoritative")) # Absent
      /\ o.target.step = Step /\ o.target.layer = FoundIn(HandedRun("authoritative"))
      /\ o.bindings = raw.sources
  BY ProceedingIs DEF AfterPass3
<1>2. GivesOwn(Given, run) /\ HandedRun("authoritative") = a
  BY GenuineGiven DEF Generations
<1>3. a.target = FoundIn(a)
  BY GenuineBind
<1>4. IsGenuine(a)
  BY <1>2 DEF GivesOwn, Generations
<1>5. IsSound(a, Given.result["authoritative"], raw)
  BY <1>2, GenuineParent DEF Generations
<1> HIDE DEF raw, a, o
<1>6. \A s \in Sides : raw.sources[s] =
        SourceBinding(SourceRoles(Pass2Of(a))[s], ReportOf(a, s), TraceOf(a, s))
  BY <1>5 DEF IsSound
<1>7. \A s \in Sides : o.bindings[s].trace = TraceOf(a, s)
  BY <1>1, <1>6, SourceBindingIs
<1> QED
  BY <1>1, <1>2, <1>3, <1>4, <1>7 DEF o, a

\* What Pass 4 says in the end.
LEMMA GenuineFinal ==
    ASSUME ChainInv, NamesInv, pc = "done", Genuine
    PROVE  final.status = ExpectedStatus
<1> DEFINE o == Bind(Given)
           d == run["discovery"]
           a == run["authoritative"]
           both == a.stages["reference"] \cap a.stages["candidate"]
           shown == {s \in both : StageDiffers(a.onset, "candidate", a.target, s)}
           many == \E g \in Generations : Cardinality(Looked(run[g])) > MaxComparisons
<1>1. outcome = o /\ parsed = Parsing /\ final = Localizing /\ pc \in AfterPass3
  BY DEF ChainInv, OutcomeInv, AfterPass3
<1>0. ~WarningsOverflow(o)
  <2>1. o.warnings.inherited = "few"
    BY GenuineWarnings, BindInherits
  <2> HIDE DEF o
  <2> QED
    BY <2>1 DEF WarningsOverflow, OneMore
<1>2. o.status = IF many \/ CommonLayers(a) = {}     THEN "comparison_blocked_by_pass3"
                 ELSE IF FoundIn(a) = Absent         THEN "not_applicable"
                 ELSE IF FoundIn(d) = Absent         THEN "comparison_blocked_by_pass3"
                 ELSE IF FoundIn(d) # FoundIn(a)     THEN "parent_revalidation_inconsistent"
                 ELSE "proceed"
  BY GenuineBind
<1>3. ExpectedStatus =
        IF many \/ CommonLayers(a) = {}     THEN "comparison_blocked_by_pass3"
        ELSE IF FoundIn(a) = Absent         THEN "not_applicable"
        ELSE IF FoundIn(d) = Absent         THEN "comparison_blocked_by_pass3"
        ELSE IF FoundIn(d) # FoundIn(a)     THEN "parent_revalidation_inconsistent"
        ELSE IF both = {}                   THEN "insufficient_common_intra_layer_coverage"
        ELSE IF shown = {}                  THEN "mismatch_bounded_to_inherited_closing_boundary"
        ELSE "observable_intra_layer_mismatch_found"
  BY DEF ExpectedStatus
<1>4. o.status # "proceed" => final.status = o.status
  <2> SUFFICES ASSUME o.status # "proceed" PROVE final.status = o.status
    OBVIOUS
  <2>1. o.status # "passed"
    <3> HIDE DEF o, many, a, d
    <3> QED
      BY <1>2
  <2> HIDE DEF o
  <2>2. parsed = [status |-> o.status, reason |-> o.reason]
    BY <1>1 DEF Parsing
  <2>3. parsed.status = o.status
    BY <2>2
  <2>4. parsed # Passed
    BY <2>1, <2>3 DEF Passed
  <2>5. final = Pass4Result(o, parsed, NoStages)
    BY <1>0, <1>1, <2>4 DEF Localizing
  <2> QED
    BY <2>3, <2>5, Pass4ResultIs
<1>5. o.status = "proceed" =>
        final.status =
          IF both = {} THEN "insufficient_common_intra_layer_coverage"
          ELSE IF shown = {} THEN "mismatch_bounded_to_inherited_closing_boundary"
          ELSE "observable_intra_layer_mismatch_found"
  <2> SUFFICES ASSUME o.status = "proceed"
               PROVE  final.status =
                        IF both = {} THEN "insufficient_common_intra_layer_coverage"
                        ELSE IF shown = {} THEN "mismatch_bounded_to_inherited_closing_boundary"
                        ELSE "observable_intra_layer_mismatch_found"
    OBVIOUS
  <2>1. /\ IsGenuine(a) /\ a.target # Absent
        /\ IsProceeding(o) /\ o.target.step = Step /\ o.target.layer = a.target
        /\ \A s \in Sides : o.bindings[s].trace = TraceOf(a, s)
    BY GenuineProceeding
  <2>2. Given.trace["authoritative"] = Traces(a)
    BY GenuineGiven DEF Generations
  <2> HIDE DEF o, a
  <2>3. parsed = ParseStages(o, Traces(a))
    BY <1>1, <2>2 DEF Parsing
  <2>4. parsed = Passed
    BY <2>1, <2>3, GenuineParse
  <2>5. final = LocalizeStages(o, Traces(a))
    BY <1>0, <1>1, <2>2, <2>4 DEF Localizing
  <2> QED
    BY <2>1, <2>5, GenuineStages
<1> HIDE DEF o, d, a, both, shown, many
<1>6. CASE o.status = "proceed"
  <2>1. /\ ~(many \/ CommonLayers(a) = {}) /\ FoundIn(a) # Absent /\ FoundIn(d) # Absent
        /\ FoundIn(d) = FoundIn(a)
    BY <1>2, <1>6
  <2> QED
    BY <1>3, <1>5, <1>6, <2>1
<1>7. CASE o.status # "proceed"
  <2>1. final.status = o.status
    BY <1>4, <1>7
  <2> QED
    BY <1>2, <1>3, <1>7, <2>1
<1> QED
  BY <1>6, <1>7

\* Evidence without a fault, each object in its slot, is never refused for a wrong
\* reason: the status of Pass 4 is the one that follows from what was captured, from
\* where the runs differ, and from the bound on the comparisons written.
THEOREM GenuineAlways == Spec => []GenuineEvidenceIsLocalized
<1>1. Init => NamesInv
  BY NamesAreGiven
<1>2. ChainInv /\ NamesInv /\ [Next]_vars => NamesInv'
  BY NamesKeep
<1>3. ChainInv /\ NamesInv => GenuineEvidenceIsLocalized
  BY GenuineFinal DEF GenuineEvidenceIsLocalized
<1> QED
  BY <1>1, <1>2, <1>3, ChainInvariance, PTL DEF Spec
===============================================================================
