SPECIFICATION Spec
CONSTANTS
    Warmups = {w1, w2}
    Requests = {r1, r2}
    Lanes = {"llama_cpp", "mlx_lm_server", "mlx_vlm", "mlx"}
    Kinds = {"chat", "generate"}
    LlamaModes = {"managed", "external", "unconfigured"}
    MaxConcurrent = 1
    StartupTimeout = 1
    VlmModels = {m1}
    None = None
    MaxCalls = 3
INVARIANTS
    OnlyFailedKillsOrphan
    WarmingHasAWarmer
    AdaptersConsistent
    StreamsKeepTheirModel
CONSTRAINT FewCalls
SYMMETRY RuntimeSymmetry
