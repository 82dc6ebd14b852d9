SPECIFICATION FairSpec
CONSTANTS
    INIT_BUDGET = 6
    MaxCall = 3
    MaxStimuli = 2
    MaxCrashes = 0
PROPERTIES
    Responded
