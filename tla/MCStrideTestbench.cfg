SPECIFICATION SpecBench
CONSTANTS
    Half = 1
    ValueCount = 8
    Window = 8
    NoStrideLimit = 8
    StrideSet <- Steps
    FinishValues = {0, 7}
INVARIANTS
    MonitorAgrees
    DirectSwitch
    ConfidentIsCurrent
    DetectsSingle
    LearnsDouble
