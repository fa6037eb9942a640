\* Rehearsals, publications and withdrawals with two failures anywhere.
CONSTANTS
    NumRevisions = 2
    MaxFaults = 2
SPECIFICATION FairSpec
INVARIANTS
    TypeOK
    LatestIsVerified
    LeftoverIsReported
PROPERTIES
    VersionTagNeverMoves
    SuccessIsProved
    PromotionResumes
CHECK_DEADLOCK FALSE
