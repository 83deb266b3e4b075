SPECIFICATION FairSpec
CONSTANTS
    Ids = {"i1"}
    Outputs = {"o1", "o2"}
    Clients = {c1,c2}
    Closer = closer
    IoTokens = 2
    PipeSize = 1
    MaxRequests = 3
    Abilities <- Declared
    Faults = {"die", "leave", "repeat"}
    Miss = Miss
    None = None
INVARIANTS
    TypeOK
    FramesIntact
    WaitersRegistered
PROPERTIES
    ImplementsMap
    EveryoneReturns
CHECK_DEADLOCK FALSE
