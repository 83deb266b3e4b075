SPECIFICATION Spec
CONSTANTS
    Packages <- ChainPackages
    Imports <- ChainImports
    Initial = {"main"}
    Analyzers <- FactAnalyzerSet
    Requires <- FactRequires
    FactAnalyzers = {"printf"}
    Requested = {"printf"}
    MaxParallel = 2
    LoadMode = 2
    Unsafe = {}
    SourceStates <- AllFine
    CacheStates <- Cold
    MayFail = {"inspect"}
    MayPanic = {}
    None = None
INVARIANTS
    NoPassOnFailedPrerequisite
