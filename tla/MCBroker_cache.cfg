SPECIFICATION Spec
CONSTANTS
    Mode = "adaptive"
    MaxActiveRequests = 2
    PressureDeny = TRUE
    Policy = "cache_aware_fifo"
    MaxBypass = 1
    Req = {r1, r2, r3, r4, r5}
    tight = tight
    wide = wide
    Lanes <- TwoLanes
    LaneMax <- TwoLaneMax
    Uncapped = {wide}
    NonStreaming = {}
    Kinds = {"chat"}
    CacheHints = {FALSE, TRUE}
    EnableQueue = TRUE
    MaxQueueDepth = 4
    QueueTimeout = 1
    Profiles = {1}
    Disconnects = FALSE
SYMMETRY ReqSymmetry
INVARIANTS
    BypassBound
CONSTRAINT WarmTraffic
