SPECIFICATION FairSpec
CONSTANTS
    Timed = TRUE
    StdoutLimit = 1
    StderrLimit = 2
    ChunkSize = 1
    Capacity = 1
    Input = 1
    MaxStdout = 3
    MaxStderr = 2
    Inherited = {{}, {"stdin"}, {"stdout", "stderr"}}
INVARIANTS VerdictIsTrue OutputIsComplete NothingSurvives
PROPERTY Returns
CHECK_DEADLOCK FALSE
