\* A block that follows itself and is widened.
CONSTANTS
    Strings <- MCStrings
    Inputs <- WideningInputs
    MaxExpressionDepth = 8
    MaxExpressionNodes = 30
    MaxAlternatives = 2
    MaxBlockRevisits = 2
    MaxTableFields = 2
    MaxTableScanSteps = 3
    MutationBudget = 20
    MaxTables = 2
    MaxEntries = 2
SPECIFICATION RunSpec
INVARIANT SettlesWithinBound
CHECK_DEADLOCK FALSE
