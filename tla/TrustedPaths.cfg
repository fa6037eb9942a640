\* Roots that call module on some paths only.
CONSTANTS
    Strings <- MCStrings
    ModuleSegments <- MCModuleSegments
    NaN = "NaN"
    MaxPathSegments = 4
    Selectors <- MCSelectors
    NameParts <- MCParts
    MaxNesting = 1
    MaxModuleInitWords = 12
    MaxModuleInitConstants = 6
    MaxModuleInitAliasSteps = 2
    Rank <- MCRank
    MaxModuleIndexLabels = 16
    Corpora <- MCPickingCorpora
SPECIFICATION Spec
INVARIANTS
    AdmittedRootsDeclare
CHECK_DEADLOCK FALSE
