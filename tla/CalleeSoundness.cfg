\* The facts of one prototype against all its executions.
CONSTANTS
    Strings <- MCStrings
    ModuleSegments <- MCModuleSegments
    NaN <- MCNaN
    MaxPathSegments = 2
    Inputs <- MCInputs
SPECIFICATION RunSpec
INVARIANTS
    TypeOK
    ResolvedCallsAreTrue
    ReachedCallsAreAnalysed
    RelationsAreTrue
    EndsAtFixpoint
    SettlesWithinBound
CHECK_DEADLOCK FALSE
