SPECIFICATION MCSpec
CONSTANTS
    Requests = {1, 2}
    Ends = {"cancelled", "failed"}
    MaxSlots = 2
    MaxPrefill = 1
    MaxDecode = 1
    MaxDecodeSteps = 2
    MaxAdmissions = 3
    Seqs = {"s", "t"}
    MaxTokens = 2
    LastStep = 2
INVARIANTS
    SchedulerConsistent
    StreamsAreOrdered
    SequencesAreIndependent
PROPERTIES
    SlottedRequestsEnd
CHECK_DEADLOCK FALSE
