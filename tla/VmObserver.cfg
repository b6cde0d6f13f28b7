CONSTANTS
    NumCommandFrames = 3
    NumPageFrames = 4
    MaxLen = 2
    WaitLimit = 2
    MaxBatches = 3
    MaxBatch = 3
SPECIFICATION FairSpec
INVARIANTS ResultBelongsToRequest NeverOutOfPages
PROPERTIES SetupKeepsLiveCommands ImplementsBatchObserver CallsReturn
CHECK_DEADLOCK FALSE
