--------------------------- MODULE MCEvidenceChain ---------------------------
EXTENDS EvidenceChain

Pair(reference, candidate) == [reference |-> reference, candidate |-> candidate]

MCOnsets == {[layer |-> l, stage |-> s] : l \in {0, 2}, s \in {0, 1}} \ {[layer |-> 0, stage |-> 0]}
MCCaptures == {Pair({0, 1, 2}, {0, 1, 2}), Pair({0, 2}, {0, 1, 2}), Pair({0}, {0, 1}), Pair({0}, {2})}
MCStages == {Pair({0, 1}, {0, 1})}
MCFiles == {"setup", "precision", "family", "step", "captured_other_layer", "report_set",
  "trace_kind", "payload", "unsupported", "layout_step", "contract", "missing_captured",
  "reordered", "requests_captured", "summary", "no_digest", "shape",
  "stage_entry", "stage_phase", "stage_shape", "stage_precision", "stage_digest",
  "no_stages", "stage_layout", "stage_step", "stage_position", "stage_request",
  "stage_contract", "stage_payload", "stage_order", "stage_missing",
  "unverified", "request_only", "original_pair", "full_warnings", "unfit_warnings"}

MCWrongSlots == [odd \in 0 .. 1 |-> IF odd = 0 THEN 2 ELSE 0]
MCNone == {}
MCNoWrongSlot == [odd \in {0} |-> 0]
MCStageOnsets == [layer : {0, 1}, stage : 0 .. 3]
MCStageCaptures == {Pair({0, 1}, {0, 1}), Pair({1}, {0, 1}), Pair({0}, {1})}
MCAllStages == {Pair(a, b) : a, b \in SUBSET (0 .. 2)}

\* Counting gives what sorting and selecting give.
ASSUME AscendingIsSorted ==
    \A set \in SUBSET (-2 .. 4) : Ascending(set) = SetToSortSeq(set, <)
ASSUME PickedIsSelected ==
    \A s \in UNION {[1 .. n -> 0 .. 3] : n \in 0 .. 4}, kept \in SUBSET (0 .. 3) :
        Picked(s, {i \in DOMAIN s : s[i] \in kept}) = SelectSeq(s, LAMBDA x : x \in kept)
=============================================================================
