--------------------------- MODULE StrideTestbench ---------------------------
(***************************************************************************)
(* The server of the stride detector: for each stimulus it drives one      *)
(* clock edge of the detector, then samples coverage, of the values by the *)
(* monitor and of the outputs here (stride_detector_cocotb.py).            *)
(***************************************************************************)
EXTENDS StrideDetector, StrideCoverage

CONSTANTS
    StrideSet,      \* bound: the strides between successive stimuli
    FinishValues    \* bound: the values after which a trial may be finished

\* The monitor looks at 16 values and tolerates 16 samples: more strides than the
\* detector takes to learn one, and time for a new pattern to fill the window.
ASSUME TestbenchAssumption ==
    /\ StrideSet \subseteq Int
    /\ Window >= 8
    /\ NoStrideLimit >= Window - 1

VARIABLE seen   \* the bin of stride_1_seen or stride_2_seen the sample increments

benchVars == <<vars, monitorVars, seen>>

\* Faulty: the pair is sampled without a look at stride_1_valid_o's meaning.
Reported_Pair ==
    IF ~stride_1_valid_o THEN << >> ELSE <<stride_1_o, stride_2_o>>

Reported ==
    IF ~stride_1_valid_o THEN << >>
    ELSE IF stride_2_valid_o THEN <<stride_1_o, stride_2_o>>
    ELSE <<stride_1_o>>

InitBench == Init /\ InitMonitor /\ seen = << >>

Drive(value) ==
    /\ value - last_value \in StrideSet
    /\ Valid(value)
    /\ Stimulus(value)
    /\ seen' = Reported'

\* valid_i is low for the finish message.
DriveFinish ==
    /\ last_value \in FinishValues
    /\ Idle
    /\ FinishTrial
    /\ seen' = Reported

NextBench ==
    \/ \E value \in Values : Drive(value)
    \/ DriveFinish
    \/ finished /\ UNCHANGED benchVars

SpecBench == InitBench /\ [][NextBench]_benchVars

-----------------------------------------------------------------------------
\* The two halves of the coverage agree: when the monitor finds a window filled
\* by one stride in range, the sample counts that stride as a single one, and a
\* sample of a window filled by a stride out of range counts no stride at all,
\* neither in stride_1_seen nor in stride_2_seen, however confident the detector
\* was of other strides, or of the same low bits, before.
MonitorAgrees ==
    /\ pattern.kind = "single" /\ InRange(pattern) => seen = <<Bits(pattern.first)>>
    /\ pattern.kind = "single" /\ ~InRange(pattern) => seen = << >>
=============================================================================
