SPECIFICATION OperatedSpec
CONSTANTS
    INIT_BUDGET = 6
    MaxCall = 3
    MaxStimuli = 2
    MaxCrashes = 2
INVARIANTS
    BudgetKept
    OwnCoverage
PROPERTIES
    Ends
