SPECIFICATION RecencySpec
CONSTANTS
    Clients = {c1,c2}
    Ids = {"i1"}
    Outputs = {"o1"}
    Blocks <- TwoBlocks
    Operations = {"put","get","trim"}
    Faults = {}
    DamagedBlocks <- NoDamage
    MtimeInterval = 2
    TrimInterval = 2
    TrimLimit = 2
    Miss = Miss
    Garbled = Garbled
    None = None
PROPERTIES
    TrimKeepsUsed
