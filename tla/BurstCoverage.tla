--------------------------- MODULE BurstCoverage ---------------------------
(***************************************************************************)
(* The weight bank's server (agile_prefetcher/weight_bank/                 *)
(* agile_prefetcher_weight_bank_cocotb.py) with the coverage helper        *)
(* (shared_helpers/cocotb_helpers.py).  A stimulus asks for a matrix of    *)
(* weights; the design dumps it as a burst of beats, one diagonal a beat,  *)
(* and the server measures from the beats how long row 0 lasted and how    *)
(* many rows there were.                                                   *)
(*                                                                         *)
(* The beats are those of prefetcher_weight_bank.sv: a row starts one beat *)
(* after the row before, lasts the features rounded up to whole beats of   *)
(* memory, and the first beat without a row is the last.  Beats that wait  *)
(* for the queues are left out.                                            *)
(***************************************************************************)
EXTENDS Integers, Sequences

CONSTANTS
    AG_WB_BOUND,            \* 64
    Features,               \* features of a beat of memory: 16
    ROWS                    \* rows in the slice of the mask: 1023

ASSUME BurstAssumption ==
    /\ AG_WB_BOUND \in Nat \ {0}
    /\ Features \in Nat \ {0, 1}
    /\ ROWS \in Nat
    /\ ROWS > AG_WB_BOUND + 1

VARIABLES
    burst_pc,               \* "recv", "skip", "sample", or "ended"
    request,                \* in_features, out_features of the weight bank
    beat,                   \* of the burst
    max_high, duration,     \* of the monitor
    counted,                \* the bins of the last burst
    bursts                  \* bursts counted, up to 2

burstVars == <<burst_pc, request, beat, max_high, duration, counted, bursts>>

Ceil(a, b) == (a + b - 1) \div b

required_pulses == Features * Ceil(request.in_features, Features)

\* valid_mask of the beat, row 0 first.
valid_mask ==
    {row \in 0..(request.out_features - 1) : row <= beat /\ beat < row + required_pulses}

done == valid_mask = {}

\* Python's signals[-n] of a string whose last character is row 0.
Signal(n) == (IF n = 0 THEN ROWS - 1 ELSE n - 1) \in valid_mask

\* Python's index of a list of AG_WB_BOUND + 1 bins.
Index(n) == IF n < 0 THEN AG_WB_BOUND + 1 + n ELSE n

-----------------------------------------------------------------------------
InitBurst ==
    /\ burst_pc = "recv"
    /\ request = [in_features |-> 1, out_features |-> 1]
    /\ beat = 0
    /\ max_high = 0
    /\ duration = 0
    /\ counted = <<0, 0>>
    /\ bursts = 0

AtLeastOne(n) == IF n < 1 THEN 1 ELSE n

\* The design is reset for each stimulus and asked for the matrix.
RequestBurst(in_features, out_features) ==
    /\ burst_pc = "recv"
    /\ request' = [in_features |-> AtLeastOne(in_features),
                   out_features |-> AtLeastOne(out_features)]
    /\ beat' = 0
    /\ burst_pc' = "skip"
    /\ UNCHANGED <<max_high, duration, counted, bursts>>

\* Until a beat has a row, and one clock more.
SkipBeats ==
    /\ burst_pc = "skip"
    /\ beat' = beat + 1
    /\ burst_pc' = IF valid_mask # {} THEN "sample" ELSE "skip"
    /\ UNCHANGED <<request, max_high, duration, counted, bursts>>

SampleBeat ==
    /\ burst_pc = "sample"
    /\ ~done
    /\ duration' = duration + IF Signal(1) THEN 1 ELSE 0
    /\ max_high' = max_high + IF Signal(max_high) THEN 1 ELSE 0
    /\ beat' = beat + 1
    /\ UNCHANGED <<burst_pc, request, counted, bursts>>

\* Faulty: the rows of the last burst are still there.
NextHigh_Kept == max_high - 1

NextHigh == 1

LastBeat ==
    /\ burst_pc = "sample"
    /\ done
    /\ counted' = <<Ceil(duration, Features), Index(max_high - 1)>>
    /\ duration' = 0
    /\ max_high' = NextHigh
    /\ bursts' = IF bursts < 2 THEN bursts + 1 ELSE 2
    /\ burst_pc' \in {"recv", "ended"}
    /\ UNCHANGED <<request, beat>>

BurstEnded == burst_pc = "ended" /\ UNCHANGED burstVars

NextBurst ==
    \/ \E in_features, out_features \in 0..AG_WB_BOUND :
          RequestBurst(in_features, out_features)
    \/ SkipBeats
    \/ SampleBeat
    \/ LastBeat
    \/ BurstEnded

SpecBurst == InitBurst /\ [][NextBurst]_burstVars

-----------------------------------------------------------------------------
Measured ==
    counted = <<Ceil(request.in_features, Features), request.out_features>>

\* Although max_high runs one ahead of the rows and neither the first nor the last
\* beat is sampled, a burst is counted under its own size, after the first one.
LaterBurstMeasured == burst_pc = "recv" /\ bursts = 2 => Measured
=============================================================================
