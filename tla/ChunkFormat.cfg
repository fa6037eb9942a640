\* Dumps, cut dumps and changed dumps of every dialect through the loaders.
CONSTANTS
    Programs <- MCPrograms
    Chunks <- MCChunks
    Overrides <- MCOverrides
    MaxInputBytes = 62
    MaxNestingDepth = 2
    MaxTotalPrototypes = 3
    MaxInstructionsPerProto = 2
    MaxTotalInstructions = 3
    MaxConstantsPerProto = 2
    MaxUpvaluesPerProto = 2
    MaxStringBytes = 2
    Huge = 100
SPECIFICATION Spec
INVARIANTS
    TypeOK
    PathIsInnermost
    LimitsHold
    DumpsAreLoaded
    LoadedTreeIsAccounted
    RoundTripsKeepBytes
CHECK_DEADLOCK FALSE
