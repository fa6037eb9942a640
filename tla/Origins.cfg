\* The facts of the origin analysis against all executions.
CONSTANTS
    Strings <- MCStrings
    Inputs <- MCInputs
    MaxExpressionDepth = 4
    MaxExpressionNodes = 7
    MaxAlternatives = 2
    MaxBlockRevisits = 2
    MaxTableFields = 2
    MaxTableScanSteps = 3
    MutationBudget = 20
    MaxTables = 2
    MaxEntries = 2
SPECIFICATION RunSpec
INVARIANTS
    ArgumentsAreTrue
    ParameterFieldsAreTrue
    CapturesAreTrue
    LimitsAreTotal
CHECK_DEADLOCK FALSE
