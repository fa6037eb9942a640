\* A closure that writes a local variable of its creator.
CONSTANTS
    Strings <- MCStrings
    Inputs <- CellInputs
    MaxExpressionDepth = 4
    MaxExpressionNodes = 7
    MaxAlternatives = 2
    MaxBlockRevisits = 2
    MaxTableFields = 2
    MaxTableScanSteps = 3
    MutationBudget = 20
    MaxTables = 2
    MaxEntries = 2
SPECIFICATION RunSpec
INVARIANT SharedVariablesAreCurrent
CHECK_DEADLOCK FALSE
