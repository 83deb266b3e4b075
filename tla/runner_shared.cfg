SPECIFICATION Spec
CONSTANTS
    Packages <- TwoMainsPackages
    Imports <- TwoMainsImports
    Initial = {"cmdA","cmdB"}
    Analyzers <- FactAnalyzerSet
    Requires <- FactRequires
    FactAnalyzers = {"printf"}
    Requested = {"printf"}
    MaxParallel = 3
    LoadMode = 2
    Unsafe = {}
    SourceStates <- AnyDamage
    CacheStates <- Cold
    MayFail = {}
    MayPanic = {}
    None = None
INVARIANTS
    RefCount
    TypesOutliveUsers
    PassInputsComplete
PROPERTIES
    TypesClearedLast
