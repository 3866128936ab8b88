SPECIFICATION Spec
CONSTANTS
    Mode = "fixed"
    MaxActiveRequests = 2
    PressureDeny = TRUE
    Policy = "fifo"
    MaxBypass = 1
    Req = {r1, r2}
    tight = tight
    wide = wide
    Lanes <- TwoLanes
    LaneMax <- TwoLaneMax
    Uncapped = {wide}
    NonStreaming = {}
    Kinds = {"stream"}
    CacheHints = {FALSE}
    EnableQueue = TRUE
    MaxQueueDepth = 2
    QueueTimeout = 1
    Profiles = {}
    Disconnects = TRUE
SYMMETRY ReqSymmetry
INVARIANTS
    EveryRecordEnds
