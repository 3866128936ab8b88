SPECIFICATION FairSpec
CONSTANTS
    Warmups = {w1, w2}
    Requests = {r1}
    Lanes = {"mlx"}
    Kinds = {"chat", "generate"}
    LlamaModes = {"managed", "external", "unconfigured"}
    MaxConcurrent = 1
    StartupTimeout = 1
    VlmModels = {m1}
    None = None
    MaxCalls = 3
PROPERTY
    WarmupEnds
