SPECIFICATION Spec
CONSTANTS
    None = None
    Scenarios <- MCScenarios
    LowerCase <- MCLowerCase
    LinterConfigs <- MCLinterConfigs
    GoCache = "gocache"
    DefaultDirs = {"vendor"}
    Mark <- MCMark
    FileRank <- MCFileRank
    NameRank <- MCNameRank
INVARIANTS
    TypeOK
    CompileErrorsShown
    ShownPassesFilters
    UnusedIsHarmless
    UnusedIsReported
    FixesSurviveLimits
    FixedAsAsked
CHECK_DEADLOCK FALSE
