INIT Init
NEXT Next
CHECK_DEADLOCK FALSE
INVARIANTS
    PlatformTypesOK  TuneIsJournaled OneJobAtATime SlotRunsOnce 
    PromotionIsEarned FlagMeansSeeded InstalledBodyIsKept  
    NeverStalerThanPromised RequestOfItsTime SavedFollowsMemory SchemaIsItsHistory
    RowFollowsManifest
CONSTANTS
    p1 = p1  p2 = p2  d1 = d1  d2 = d2
    haiku = haiku  gemini = gemini  groq = groq  ollama = ollama
    Symbols = {s1, s2}
    Prices = {2, 3}
    Capital = 2000
    Limits <- MCLimits
    Sizing = 50
    Fee = 1
    Slippage = 1
    DaysPerWeek = 2
    MaxDate = 3
    MaxTrades = 3
    Values = {v1, v2}
    LOCK_CYCLES = 0
    MAX_CHANGES_PER_WEEK = 3
    MAX_PRETEST_VARIANTS = 1
    MaxVariants = 3
    MaxEdits = 2
    Timers = {k1}
    MAX_FAILURES = 2
    EVERY_N_CYCLES = 2
    MaxLaunches = 3
    MaxRequests = 1
    MaxKvFaults = 2
    Ticks = {t1, t2}
    Intervals = {0, 1, 2}
    DEFAULT_INTERVAL = 2
    Portfolios = {n1}
    MaxClock = 4
    MaxIntervalEdits = 2
    MaxSchedulerFaults = 1
    Assets = {"a", "b", "c"}
    SIZING_DIVISOR = 2
    MAX_OPEN_POSITIONS = 2
    MIN_TRADES = 1
    MIN_LOSS_TRADES = 1
    CycleRuns = {c1, c2}
    INITIAL_CAPITAL = 8
    PretestQuotes <- MCQuotes
    Orders <- MCOrders
    MaxPretestCycles = 3
    MaxRowEdits = 1
    Strategies = {"s1", "s2"}
    BundleKeys <- MCBundle
    SeedSteps <- MCSeed
    SeededPortfolios = {"n1"}
    MaxSetupFaults = 2
    MaxOperatorWrites = 1
    MaxApplies = 2
    SNAPSHOT_CAP = 2
    MaxBodies = 3
    Plugins = {p1, p2}
    Bundled = {p1}
    Requires <- MCRequires
    StackRequires <- MCStack
    Requests = {r1, r2}
    MaxRelease = 3
    MaxLifecycleFaults = 1
    Decisions = {d1, d2}
    Proposal <- MCProposal
    Sweepers = {w1}
    HORIZON = 2
    MAX_FETCH_LIMIT = 3
    MaxDay = 4
    Providers = {"yahoo"}
    Yahoo = {"yahoo"}
    Readers = {u1, u2}
    Instruments <- MCInstruments
    TTL <- MCTTL
    MAX_ENTRIES <- MCMaxEntries
    YAHOO_MAX_RETRIES = 1
    TIMEOUT = 1
    MaxNow = 2
    Models = {haiku, gemini}
    Haiku = haiku
    GeminiModels = {gemini}
    CustomIds = {groq, ollama}
    Keyless = {ollama}
    DefaultModelOf <- MCDefaultModelOf
    Unset = unset
    EnvBackend = "openai"
    EnvModel = unset
    Bundle <- MCApplied
    Patches <- MCPatches
    Turns = {t1}
    MaxLlmActs = 2
    MaxLlmFaults = 1
    MaxBoots = 2
    MigrationCount = 2
    DayCount = 2
    Backups = {b1}
    Passphrases = {"pass"}
    MaxData = 1
    MaxEnv = 1
    MaxCrashes = 1
    MaxRestores = 1
    Extensions = {"p1"}
    DEBOUNCE = 2
    MaxVersion = 2
    MaxReloadFaults = 1
    MaxSwitches = 1
