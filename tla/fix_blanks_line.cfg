SPECIFICATION Spec
CONSTANTS
    None = None
    Scenarios <- MCScenarios
    LowerCase <- MCLowerCase
    LinterConfigs <- MCLinterConfigs
    GoCache = "gocache"
    DefaultDirs = {"vendor"}
    Mark <- MCMark
    FileRank <- MCFileRank
    NameRank <- MCNameRank
INVARIANT FixesOnly
CHECK_DEADLOCK FALSE
