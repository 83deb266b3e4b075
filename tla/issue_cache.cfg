SPECIFICATION Spec
CONSTANTS
    Packages <- ChainPackages
    Imports <- ChainImports
    Initial = {"main", "lib"}
    Linters = {l1, l2}
    Versions = {"v1", "broken"}
    Broken = {"broken"}
    MayFail = {l1, l2}
    MaxRuns = 2
    MaxEdits = 2
    None = None
SYMMETRY Symmetry
INVARIANTS
    TypeOK
    HitsAreFresh
    CompileErrorsSeen
CHECK_DEADLOCK FALSE
