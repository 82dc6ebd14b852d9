SPECIFICATION FairSpecLogged
CONSTANTS
    BinCount = 4
    DialogBound = 7
    MaxStimuli = 2
    TokenBudget = 9
    MaxTokens = 2
    ConvergeSpan = 4
    TailSpan = 5
    TailGain = 1
    ResetModes = {"STABLE", "KEEP", "CLEAR"}
    RstPlan <- Tolerant
    BestCap = 2
    None = None
INVARIANTS
    JudgedOnce
    HitAttribution
    ConvergenceStops
    PlaceholderEnds
    TxtNumbering
    TxtComplete
    CsvRows
PROPERTIES
    Termination
    LedgerSpec
