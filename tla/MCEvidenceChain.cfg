SPECIFICATION Spec
CONSTANTS
  MaxComparisons = 2
  StageCount = 2
  LayerCount = 3
  Onsets <- MCOnsets
  Captures <- MCCaptures
  StageCaptures <- MCStages
  FileFaults <- MCFiles
  MaxOddRuns = 1
  MaxWrongSlots <- MCWrongSlots
INVARIANTS ProceedIsOneLineage FitInputIsClassified EveryArtifactIsRepresentable TargetIsFirstMismatch
CHECK_DEADLOCK FALSE
