SPECIFICATION FairSpec
CONSTANTS
    p1 = p1
    p2 = p2
    p3 = p3
    Processes = {p1, p2, p3}
    Modes <- AnyMode
    Verbose = {p1}
    StrictWarnings = {p1}
    Troubled = {p1}
    Inodes = {i1, i2, i3, i4}
    LinterCount = 2
    Outcomes <- AllOutcomes
    IssuesExitCode = 1
    None = None
INVARIANTS
    TypeOK
    ExitCodeTruthful
    OverlapNeedsRemover
PROPERTIES
    RunEnds
    SerialRunStarts
CHECK_DEADLOCK FALSE
