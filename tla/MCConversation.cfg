SPECIFICATION SpecConversation
CONSTANTS
    BinCount = 2
    DialogBound = 10
    MaxStimuli = 1
    TokenBudget = None
    MaxTokens = 1
    ConvergeSpan = 20
    TailSpan = 20
    TailGain = 1
    ResetModes = {"STABLE", "CLEAR", "KEEP"}
    RstPlan <- Tolerant
    BestCap = 6
    None = None
    Settings <- WorkingSettings
    RemainIterNum = 2
INVARIANTS
    BoundedConversation
    Alternating
    OwnDialog
    InOrder
