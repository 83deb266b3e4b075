SPECIFICATION Spec
CONSTANTS
    Clients = {c1,c2}
    Ids = {"i1"}
    Outputs = {"o1","o2"}
    Blocks <- Mixed
    Operations = {"put","get","trim"}
    Faults = {"write","close","index","crash"}
    DamagedBlocks <- AnyDamage
    MtimeInterval = 0
    TrimInterval = 0
    TrimLimit = 0
    Miss = Miss
    Garbled = Garbled
    None = None
INVARIANTS
    TypeOK
    IndexedOutputsComplete
PROPERTIES
    ImplementsMap
SYMMETRY Symmetry
