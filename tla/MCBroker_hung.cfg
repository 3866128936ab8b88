SPECIFICATION HungSpec
CONSTANTS
    Mode = "adaptive"
    MaxActiveRequests = 2
    PressureDeny = TRUE
    Policy = "fifo"
    MaxBypass = 1
    Req = {r1, r2, r3}
    tight = tight
    wide = wide
    Lanes <- TwoLanes
    LaneMax <- TwoLaneMax
    Uncapped = {wide}
    NonStreaming = {}
    Kinds = {"chat"}
    CacheHints = {FALSE}
    EnableQueue = TRUE
    MaxQueueDepth = 2
    QueueTimeout = 1
    Profiles = {1}
    Disconnects = FALSE
PROPERTIES
    QueuedIsAnswered
