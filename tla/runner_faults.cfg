SPECIFICATION FairSpec
CONSTANTS
    Packages <- DiamondPackages
    Imports <- DiamondImports
    Initial = {"main","lib"}
    Analyzers <- FactAnalyzerSet
    Requires <- FactRequires
    FactAnalyzers = {"printf"}
    Requested = {"printf","lint"}
    MaxParallel = 1
    LoadMode = 2
    Unsafe = {"unsafe"}
    SourceStates <- AnyBroken
    CacheStates <- AnyCache
    MayFail = {"inspect"}
    MayPanic = {"printf"}
    None = None
INVARIANTS
    TypeOK
    RunOnSoundTypes
    BrokenPackagesReported
PROPERTIES
    FollowsSchedule
    RunTerminates
