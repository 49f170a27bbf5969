CONSTANTS
    MaxThreads = 4
    MaxTotal = 6
    MaxDispatches = 2
    CreateMayFail = FALSE
SPECIFICATION Spec
INVARIANTS TypeOK JoinBeforeReturn ConcurrentChunksDisjoint NoLostWakeup
PROPERTIES SlotNotOverwritten EachIndexOnce CallsReturn ImplementsForkJoin
