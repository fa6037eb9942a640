\* The links of small corpora against the executions of their roots.
CONSTANTS
    Strings <- MCStrings
    ModuleSegments <- MCModuleSegments
    NaN = "NaN"
    MaxPathSegments = 4
    Selectors <- MCSelectors
    NameParts <- MCParts
    MaxNesting = 1
    MaxModuleInitWords = 12
    MaxModuleInitConstants = 6
    MaxModuleInitAliasSteps = 2
    Rank <- MCRank
    MaxModuleIndexLabels = 16
    Corpora <- MCCorpora
SPECIFICATION Spec
INVARIANTS
    LinksAreTrue
    OmissionsAreVisible
CHECK_DEADLOCK FALSE
