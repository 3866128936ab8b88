SPECIFICATION Spec
CONSTANTS
    Mode = "fixed"
    MaxActiveRequests = 2
    PressureDeny = TRUE
    Policy = "fifo"
    MaxBypass = 1
    Req = {r1, r2, r3, r4, r5}
    tight = tight
    wide = wide
    Lanes <- TwoLanes
    LaneMax <- TwoLaneMax
    Uncapped = {wide}
    NonStreaming = {}
    Kinds = {"chat"}
    CacheHints = {FALSE}
    EnableQueue = TRUE
    MaxQueueDepth = 2
    QueueTimeout = 1
    Profiles = {}
    Disconnects = FALSE
SYMMETRY ReqSymmetry
INVARIANTS
    SlotsBounded
    QueueIntegrity
PROPERTIES
    FifoWithinLane
    NoLateExecution
CONSTRAINT OneCancel
