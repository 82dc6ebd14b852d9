SPECIFICATION SpecMonitor
CONSTANTS
    Half = 1
    ValueCount = 8
    Window = 4
    NoStrideLimit = 4
INVARIANTS
    DoubleInRange
