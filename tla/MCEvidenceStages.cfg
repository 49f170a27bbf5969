SPECIFICATION Spec
CONSTANTS
  MaxComparisons = 3
  StageCount = 3
  LayerCount = 2
  Onsets <- MCStageOnsets
  Captures <- MCStageCaptures
  StageCaptures <- MCAllStages
  FileFaults <- MCNone
  MaxOddRuns = 0
  MaxWrongSlots <- MCNoWrongSlot
INVARIANTS StageIntervalHoldsOnset GenuineEvidenceIsLocalized
CHECK_DEADLOCK FALSE
