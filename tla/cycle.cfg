INIT Init
NEXT Next
CHECK_DEADLOCK FALSE
INVARIANTS
    CycleTypesOK  CapsHoldOverTheBatch OnlyDisciplinesApprove BlockedMeansGone
    BudgetHolds EntryWasPermitted ExitFollowsPosition OneIntentPerSignal
    OutcomeIsItsCycles
SYMMETRY Symmetry
CONSTANTS
    SkillIds <- MCSkills
    HookConducts <- MCConducts
    RiskSymbols = {"a", "b", "c"}
    SectorOf <- MCSectorOf
    RiskContexts <- MCRiskContexts
    RiskBatches <- MCRiskBatches
    RiskConfig <- MCRiskConfig
    Proposals <- MCProposals
    Disciplines <- MCDisciplines
    Extras = 1
    MaxCycles = 2
    Replies <- MCReplies
    RawLimits = {0, 2}
    SearchesPerIteration = 1
    SearchesPerCycle = 1
    Roles <- MCRoles
    MaxRoles = 2
    MaxToggles = 1
    Symbols = {s1}
    Intents = {i1, i2}
    Cycles = {c1}
    Callers = {h1}
    Quotes = {2}
    InitialCapital = 2000
    Risk <- MCLimits
    SIZING_PCT = 20
    MaxToday = 1
    MaxChanges = 1
    LabelledCycles = 2
    MAX_LESSON_ROWS = 2
    MIN_ML_SAMPLES = 1
    MaxPrices = 1
    MaxLessons = 3
    MemoryCallers = {m1, m2}
    FlagKeys = {"f"}
    MAX_OBSERVATIONS = 1
    MaxNotes = 2
