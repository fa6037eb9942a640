\* The withdrawal of a version, as documented.
CONSTANTS
    NumRevisions = 1
    MaxFaults = 1
SPECIFICATION FairSpec
PROPERTY ActiveLatestIsNotWithdrawn
CHECK_DEADLOCK FALSE
