SPECIFICATION Spec
CONSTANTS
    Requests <- MCRequests
    Media = {"img"}
    Canonical <- MCCanonical
    Tokenizers = {"fake", "mlx"}
    NoValue = NoValue
    AllowGlobal = TRUE
    MinTokens = 1
    MaxEntries = 2
    MaxTokens = 4
    MaxPending = 2
INVARIANTS
    ReuseIsComplete
