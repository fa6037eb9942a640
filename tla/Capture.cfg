\* Captures of small corpora that change while they are exported.
CONSTANTS
    List = List
    Binary = Binary
    Selectors <- MCSelectors
    MaxModuleIndexLabels = 16
    MaxVersion = 2
    Corpora <- MCCorpora
SPECIFICATION Spec
INVARIANTS
    LimitsAreVisible
    CompleteExportsAreAccepted
PROPERTY
    CapturesAreSnapshots

