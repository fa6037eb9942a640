\* Roles, validation, graph construction, reachability and dominators.
CONSTANTS
    Prototypes <- MCPrototypes
    AdjacencyLists <- MCAdjacencyLists
    Graphs <- MCAdjacencyLists
SPECIFICATION CfFairSpec
INVARIANTS
    TypeOK
    ReachIsExact
    DominatorsAreExact
    DominatorTreeIsExact
    ControlStaysOnInstructions
    CfgCoversExecution
    ReachedWordsAreMarked
    AcceptedOperandsAreDeclared
PROPERTY Converges
CHECK_DEADLOCK FALSE
