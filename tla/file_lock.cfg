SPECIFICATION Spec
CONSTANTS
    p1 = p1
    p2 = p2
    p3 = p3
    Processes = {p1, p2, p3}
    Modes <- AnyMode
    Verbose = {}
    StrictWarnings = {}
    Troubled = {}
    Inodes = {i1, i2, i3, i4}
    LinterCount = 1
    Outcomes <- AllOutcomes
    IssuesExitCode = 1
    None = None
INVARIANT
    Serialized
CHECK_DEADLOCK FALSE
