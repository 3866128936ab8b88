SPECIFICATION MCSpec
CONSTANTS
    Tokenized <- MCTokenized
    MinPrefix = 2
    MinSeen = 2
    MinWorth = 3
    MaxSeen = 2
    MaxWrites = 2
    MaxFailures = 1
    MaxRestarts = 1
    EventTypes = {"kv_created", "kv_released", "kv_hit"}
    RingSize = 2
    MaxRecorded = 5
    Paths = {"m", "m2"}
    Sources <- MCSources
    NameWords <- MCNameWords
    Stem <- MCStem
    Ids = {"a", "a1", "bad"}
    SafeIds = {"a", "a1"}
    Cut <- MCCut
    MaxEdits = 1
    MaxCrashes = 1
    MaxModels = 2
    Routes <- MCRoutes
    Repos <- MCRepos
    GgufNamed = {"p/m-GGUF"}
    Files <- MCFiles
    Hidden = {"._m-Q4_K_M"}
    Quant <- MCQuant
    Spells <- MCSpells
    Shelves <- MCShelves
    MaxMoves = 1
    Calls = {1, 2}
    Plain <- MCPlain
    GgufFile <- MCGgufFile
    RegistryFiles <- MCRegistryFiles
    Loaded <- MCLoaded
    StoreListed <- MCStoreListed
    AdapterSets = {{"stub"}, {"stub", "llama_cpp", "mlx_lm_server", "mlx_vlm"}}
    Managed = {}
    Asks <- MCAsks
    Profiles <- MCProfiles
    Identity <- MCIdentity
    Host <- MCHost
    CharsPerToken = 4
    DefaultOutput = 2
    MaxClock = 2
    FieldSets <- MCFieldSets
    AdapterKinds = {"llama_cpp", "mlx_vlm"}
    MaxLines = 3
    Pgids = {1, 2}
    Terminals = {"t"}
    MaxBorn = 2
    MaxInterrupts = 1
    CandidateLists <- MCCandidateLists
    MaxGroupSize = 3
    MaxTotalTokens = 4
INVARIANTS
    TypeOK
    AttemptsAccountedFor
    RingHoldsLatest
    StoreConsistent
    RegistryIsAuthoritative
    BindingIsOwn
    ListingsHonest
    RefusedExactlyWhenItCannotFit
    ExchangeFaithful
    StopsAimAtTheDaemon
    LaunchedStaysTracked
    GroupsPartitionTheQueue
PROPERTIES
    StoredOnlyGrows
    RegistrationsSurvive
    StaleOnlyInOneTick
CHECK_DEADLOCK FALSE
