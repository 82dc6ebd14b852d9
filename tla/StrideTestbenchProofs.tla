----------------------- MODULE StrideTestbenchProofs ------------------------
(***************************************************************************)
(* Theorems about StrideDetector and about the server that drives it and   *)
(* samples coverage, for strides and values of every width.                *)
(*                                                                         *)
(* The single stride and each stride of the pair follow one rule, so the   *)
(* argument is about a slot: a stride `expected` and its `confidence`.     *)
(* After n matching inputs a slot has either spent n of the confidence in  *)
(* another stride, or holds the right one with at least n - 4 of it.       *)
(***************************************************************************)
EXTENDS StrideTestbench, TLAPS

Counters == 0..7

Least(n) == IF n < 7 THEN n ELSE 7

\* What n inputs `full`, the last n of the slot, have made of it.
Progress(full, expected, confidence, n) ==
    ~overflow(full) =>
        \/ expected # Bits(full) /\ confidence + n <= 3
        \/ expected = Bits(full) /\ n <= confidence + 4

\* Inputs the slot of the pair updated last, and the other one, have met.
LastMet == Least((swings + 3) \div 2)
NextMet == Least((swings + 2) \div 2)

\* The inductive invariant.
SingleProgress == Progress(stride, stride_1, stride_1_confidence, streak)

PairProgress ==
    LET last == Other(stride_2_state)
        next == stride_2_state
    IN  /\ Progress(stride, stride_2[last], stride_2_confidence[last], LastMet)
        /\ Progress(previous, stride_2[next], stride_2_confidence[next], NextMet)

OverflowProgress ==
    streak > 0 /\ overflow(stride) =>
        /\ stride_1_confidence = 0 \/ stride_1_confidence + streak <= 3
        /\ stride_2_confidence[Other(stride_2_state)] < 3
        /\ streak > 1 => stride_2_confidence[stride_2_state] < 3

IInv ==
    /\ TypeOK
    /\ ConfidentIsCurrent
    /\ SingleProgress
    /\ PairProgress
    /\ OverflowProgress

-----------------------------------------------------------------------------
\* The low bits of a stride are one of the strides.
LEMMA BitsType == \A full \in Int : Bits(full) \in Strides
BY StrideTypesAssumption DEF Bits, Strides, NUM_STRIDES

\* A slot keeps its type: the confidence stays between 0 and 3.
LEMMA SlotType ==
    ASSUME NEW full \in Int, NEW expected \in Strides, NEW confidence \in 0..3
    PROVE  /\ NextStride(full, expected, confidence) \in Strides
           /\ NextConfidence(full, expected, confidence) \in 0..3
BY BitsType DEF NextStride, NextConfidence

\* One more matching input is one more step of progress.
LEMMA SlotAdvances ==
    ASSUME NEW full \in Int, NEW expected \in Strides, NEW confidence \in 0..3,
           NEW n \in Counters, Progress(full, expected, confidence, n)
    PROVE  Progress(full, NextStride(full, expected, confidence),
                    NextConfidence(full, expected, confidence), Least(n + 1))
<1>1. Bits(full) \in Strides
    BY BitsType
<1>2. CASE expected # Bits(full)
    BY <1>1, <1>2 DEF Progress, NextStride, NextConfidence, Seen, Least, Counters
<1>3. CASE expected = Bits(full)
    BY <1>1, <1>3 DEF Progress, NextStride, NextConfidence, Seen, Least, Counters
<1>4. QED
    BY <1>2, <1>3

\* Whatever the slot has learnt, the first input is a step of progress.
LEMMA SlotStarts ==
    ASSUME NEW full \in Int, NEW expected \in Strides, NEW confidence \in 0..3
    PROVE  Progress(full, NextStride(full, expected, confidence),
                    NextConfidence(full, expected, confidence), 1)
BY BitsType DEF Progress, NextStride, NextConfidence, Seen

\* Progress is never lost by asking for less of it.
LEMMA ProgressWeakens ==
    ASSUME NEW full \in Int, NEW expected \in Strides, NEW confidence \in 0..3,
           NEW n \in Counters, NEW m \in 0..n, Progress(full, expected, confidence, n)
    PROVE  Progress(full, expected, confidence, m)
BY DEF Progress, Counters

-----------------------------------------------------------------------------
\* The registers hold no valid stride yet: progress of nothing.
LEMMA InitIInv == Init => IInv
<1> SUFFICES ASSUME Init PROVE IInv
    OBVIOUS
<1>1. 0 \in Values /\ 0 \in Strides /\ Bits(0) = 0
    BY StrideTypesAssumption DEF Values, Strides, Bits, NUM_STRIDES
<1>2. TypeOK
    BY <1>1 DEF Init, TypeOK, Strides2
<1>3. ConfidentIsCurrent /\ SingleProgress /\ OverflowProgress
    BY <1>1 DEF Init, ConfidentIsCurrent, SingleProgress, OverflowProgress, Progress
<1>4. LastMet = 1 /\ NextMet = 1
    BY DEF Init, LastMet, NextMet, Least
<1>5. PairProgress
    BY <1>1, <1>4 DEF Init, PairProgress, Progress, Other, Strides2
<1>6. QED
    BY <1>2, <1>3, <1>5 DEF IInv

\* What a valid input does to the history of the single stride.
LEMMA ValidStreak ==
    ASSUME TypeOK, NEW value \in Values, Valid(value)
    PROVE  /\ stride' = value - last_value /\ stride' \in Int
           /\ \/ streak' = 1
              \/ streak > 0 /\ stride' = stride /\ streak' = Least(streak + 1)
BY DEF TypeOK, Valid, Least, Values

\* A valid input keeps every register and every counter in its range.
LEMMA ValidType ==
    ASSUME TypeOK, NEW value \in Values, Valid(value)
    PROVE  TypeOK'
<1> DEFINE full == value - last_value
           turn == stride_2_state
<1>1. full \in Int /\ turn \in Strides2
    BY DEF TypeOK, Values
<1>2. /\ stride_1' \in Strides
      /\ stride_1_confidence' \in 0..3
    BY <1>1, SlotType DEF TypeOK, Valid
<1>3. /\ NextStride(full, stride_2[turn], stride_2_confidence[turn]) \in Strides
      /\ NextConfidence(full, stride_2[turn], stride_2_confidence[turn]) \in 0..3
    BY <1>1, SlotType DEF TypeOK
<1>4. /\ stride_2' \in [Strides2 -> Strides]
      /\ stride_2_confidence' \in [Strides2 -> 0..3]
    BY <1>1, <1>3 DEF TypeOK, Valid
<1>5. stride_2_state' \in Strides2 /\ last_value' \in Values
    BY DEF TypeOK, Valid, Other, Strides2
<1>6. /\ streak' \in 0..7
      /\ swings' \in 0..13
      /\ stride' \in Int
      /\ previous' \in Int
    BY <1>1 DEF TypeOK, Valid
<1>7. QED
    BY <1>2, <1>4, <1>5, <1>6 DEF TypeOK

\* Only a match leaves full confidence behind.
LEMMA ValidConfident ==
    ASSUME TypeOK, NEW value \in Values, Valid(value)
    PROVE  ConfidentIsCurrent'
<1>1. value - last_value \in Int /\ stride_1_confidence \in 0..3
    BY DEF TypeOK, Values
<1>2. QED
    BY <1>1 DEF Valid, ConfidentIsCurrent, NextConfidence, NextStride, Seen, Bits

\* The single stride advances while the streak does, and starts over with it.
LEMMA ValidSingle ==
    ASSUME TypeOK, SingleProgress, NEW value \in Values, Valid(value)
    PROVE  SingleProgress'
<1> DEFINE full == value - last_value
           next_stride == NextStride(full, stride_1, stride_1_confidence)
           next_confidence == NextConfidence(full, stride_1, stride_1_confidence)
<1>1. full \in Int /\ stride_1 \in Strides /\ stride_1_confidence \in 0..3
    BY DEF TypeOK, Values
<1>2. /\ stride_1' = next_stride
      /\ stride_1_confidence' = next_confidence
      /\ stride' = full
    BY DEF Valid
<1>3. CASE streak' = 1
    <2>1. Progress(full, next_stride, next_confidence, 1)
        BY <1>1, SlotStarts
    <2>2. QED
        BY <1>2, <1>3, <2>1 DEF SingleProgress, Progress, Bits, overflow
<1>4. CASE streak > 0 /\ stride' = stride /\ streak' = Least(streak + 1)
    <2>1. Progress(full, stride_1, stride_1_confidence, streak)
        BY <1>2, <1>4 DEF SingleProgress
    <2>2. streak \in Counters
        BY DEF TypeOK, Counters
    <2>3. Progress(full, next_stride, next_confidence, Least(streak + 1))
        BY <1>1, <2>1, <2>2, SlotAdvances
    <2>4. QED
        BY <1>2, <1>4, <2>3 DEF SingleProgress, Progress, Bits, overflow
<1>5. QED
    BY <1>3, <1>4, ValidStreak

\* The slot of the pair whose turn it is advances while the strides alternate,
\* and starts over when they stop; the other one keeps what it has met.
LEMMA ValidPair ==
    ASSUME TypeOK, PairProgress, NEW value \in Values, Valid(value)
    PROVE  PairProgress'
<1> DEFINE full == value - last_value
           turn == stride_2_state
           rest == Other(turn)
           next_stride == NextStride(full, stride_2[turn], stride_2_confidence[turn])
           next_confidence == NextConfidence(full, stride_2[turn], stride_2_confidence[turn])
<1>1. /\ full \in Int /\ stride \in Int
      /\ turn \in Strides2 /\ rest \in Strides2 /\ rest # turn
      /\ stride_2_state' = rest /\ Other(stride_2_state') = turn
    BY DEF TypeOK, Valid, Values, Other, Strides2
<1>2. /\ stride_2[turn] \in Strides /\ stride_2_confidence[turn] \in 0..3
      /\ stride_2[rest] \in Strides /\ stride_2_confidence[rest] \in 0..3
    BY <1>1 DEF TypeOK
<1>3. /\ stride_2'[turn] = next_stride
      /\ stride_2_confidence'[turn] = next_confidence
      /\ stride_2'[rest] = stride_2[rest]
      /\ stride_2_confidence'[rest] = stride_2_confidence[rest]
      /\ stride' = full /\ previous' = stride
    BY <1>1 DEF TypeOK, Valid
<1>4. /\ Progress(stride, stride_2[rest], stride_2_confidence[rest], LastMet)
      /\ Progress(previous, stride_2[turn], stride_2_confidence[turn], NextMet)
    BY DEF PairProgress
<1>5. SUFFICES /\ Progress(full, next_stride, next_confidence, LastMet')
               /\ Progress(stride, stride_2[rest], stride_2_confidence[rest], NextMet')
    BY <1>1, <1>3 DEF PairProgress, Progress, Bits, overflow
<1>6. /\ LastMet \in Counters /\ 1 \in 0..LastMet
      /\ NextMet \in Counters
    BY DEF TypeOK, LastMet, NextMet, Least, Counters
<1>7. CASE full # previous
    <2>1. LastMet' = 1 /\ NextMet' = 1
        BY <1>7 DEF Valid, LastMet, NextMet, Least
    <2>2. Progress(full, next_stride, next_confidence, 1)
        BY <1>1, <1>2, SlotStarts
    <2>3. Progress(stride, stride_2[rest], stride_2_confidence[rest], 1)
        BY <1>1, <1>2, <1>4, <1>6, ProgressWeakens
    <2>4. QED
        BY <2>1, <2>2, <2>3
<1>8. CASE full = previous
    <2>1. swings' = IF swings < 13 THEN swings + 1 ELSE swings
        BY <1>8 DEF Valid
    <2>2. LastMet' = Least(NextMet + 1) /\ NextMet' = LastMet
        BY <2>1 DEF TypeOK, LastMet, NextMet, Least
    <2>3. Progress(full, stride_2[turn], stride_2_confidence[turn], NextMet)
        BY <1>4, <1>8
    <2>4. Progress(full, next_stride, next_confidence, Least(NextMet + 1))
        BY <1>1, <1>2, <1>6, <2>3, SlotAdvances
    <2>5. QED
        BY <1>4, <2>2, <2>4
<1>9. QED
    BY <1>7, <1>8

\* A stride out of range matches nothing: it lowers every confidence it meets.
LEMMA ValidOverflow ==
    ASSUME TypeOK, OverflowProgress, NEW value \in Values, Valid(value)
    PROVE  OverflowProgress'
<1> SUFFICES ASSUME overflow(stride')
             PROVE  /\ stride_1_confidence' = 0 \/ stride_1_confidence' + streak' <= 3
                    /\ stride_2_confidence'[Other(stride_2_state')] < 3
                    /\ streak' > 1 => stride_2_confidence'[stride_2_state'] < 3
    BY DEF OverflowProgress, overflow
<1> DEFINE full == value - last_value
           turn == stride_2_state
<1>1. /\ stride' = full /\ overflow(full)
      /\ turn \in Strides2 /\ Other(stride_2_state') = turn
    BY DEF TypeOK, Valid, Other, Strides2
<1>2. /\ stride_1_confidence \in 0..3 /\ stride_2_confidence[turn] \in 0..3
      /\ streak \in 0..7
    BY <1>1 DEF TypeOK
<1>3. stride_2_confidence'[turn] < 3
    <2>1. stride_2_confidence'[turn] =
            NextConfidence(full, stride_2[turn], stride_2_confidence[turn])
        BY <1>1 DEF TypeOK, Valid
    <2>2. QED
        BY <1>1, <1>2, <2>1 DEF NextConfidence, Seen
<1>4. stride_1_confidence' =
        IF stride_1_confidence > 0 THEN stride_1_confidence - 1 ELSE stride_1_confidence
    BY <1>1, <1>2 DEF Valid, NextConfidence, Seen
<1>5. \/ streak' = 1
      \/ streak > 0 /\ stride' = stride /\ streak' = Least(streak + 1)
    BY ValidStreak
<1>6. stride_1_confidence' = 0 \/ stride_1_confidence' + streak' <= 3
    BY <1>1, <1>2, <1>4, <1>5 DEF OverflowProgress, Least
<1>7. ASSUME streak' > 1 PROVE stride_2_confidence'[stride_2_state'] < 3
    <2>1. streak > 0 /\ stride' = stride
        BY <1>5, <1>7
    <2>2. stride_2_confidence[Other(turn)] < 3
        BY <1>1, <2>1 DEF OverflowProgress
    <2>3. stride_2_state' = Other(turn) /\ Other(turn) \in Strides2 /\ Other(turn) # turn
        BY <1>1 DEF Valid, Other, Strides2
    <2>4. stride_2_confidence'[Other(turn)] = stride_2_confidence[Other(turn)]
        BY <1>1, <2>3 DEF TypeOK, Valid
    <2>5. QED
        BY <2>2, <2>3, <2>4
<1>8. QED
    BY <1>1, <1>3, <1>6, <1>7

\* Every clock edge keeps the invariant.
LEMMA NextIInv == IInv /\ [Next]_vars => IInv'
<1> SUFFICES ASSUME IInv, [Next]_vars PROVE IInv'
    OBVIOUS
<1>1. CASE UNCHANGED vars
    BY <1>1 DEF IInv, vars, registers, history, TypeOK, ConfidentIsCurrent,
        SingleProgress, PairProgress, OverflowProgress, LastMet, NextMet
<1>2. ASSUME NEW value \in Values, Valid(value) PROVE IInv'
    BY <1>2, ValidType, ValidConfident, ValidSingle, ValidPair, ValidOverflow DEF IInv
<1>3. QED
    BY <1>1, <1>2 DEF Next, Idle

\* The invariant holds for every stream of values (stride_detector.sv).
THEOREM Invariance == Spec => []IInv
BY InitIInv, NextIInv, PTL DEF Spec

-----------------------------------------------------------------------------
\* Confidences never leave 0..3 and strides their width, however strides and
\* overflows alternate.
THEOREM TypeCorrect == Spec => []TypeOK
<1>1. IInv => TypeOK
    BY DEF IInv
<1>2. QED
    BY <1>1, Invariance, PTL

\* At full confidence the stride reported is the one just seen.
THEOREM ConfidenceIsCurrent == Spec => []ConfidentIsCurrent
<1>1. IInv => ConfidentIsCurrent
    BY DEF IInv
<1>2. QED
    BY <1>1, Invariance, PTL

\* The invariant after seven equal strides within range, and out of range.
LEMMA SevenEqual ==
    ASSUME IInv, streak = 7, ~overflow(stride)
    PROVE  stride_1_valid_o /\ ~stride_2_valid_o /\ stride_1_o = Bits(stride)
<1>1. stride_1_confidence = 3 /\ stride_1 = Bits(stride)
    BY DEF IInv, TypeOK, SingleProgress, Progress
<1>2. QED
    BY <1>1 DEF stride_1_valid_o, stride_2_valid_o, stride_1_o

LEMMA SevenOverflows ==
    ASSUME IInv, streak = 7, overflow(stride)
    PROVE  ~stride_1_valid_o /\ ~stride_2_valid_o
<1>1. stride_1_confidence < 3
    BY DEF IInv, TypeOK, OverflowProgress
<1>2. stride_2_confidence["first"] < 3
    BY DEF IInv, TypeOK, OverflowProgress, Other, Strides2
<1>3. QED
    BY <1>1, <1>2 DEF IInv, TypeOK, Strides2, stride_1_valid_o, stride_2_valid_o

\* Seven equal strides within range are reported, at every width.
THEOREM SingleDetected == Spec => []DetectsSingle
<1>1. IInv => DetectsSingle
    BY SevenEqual DEF DetectsSingle
<1>2. QED
    BY <1>1, Invariance, PTL

\* Seven equal strides out of range leave neither output valid, whatever their low
\* bits and whatever the detector had learnt before.
THEOREM OverflowIgnored == Spec => []OverflowUndetected
<1>1. IInv => OverflowUndetected
    BY SevenOverflows DEF OverflowUndetected
<1>2. QED
    BY <1>1, Invariance, PTL

\* The invariant once both slots of the pair have met seven inputs.
LEMMA PairFull == IInv => LearnsDouble
<1> SUFFICES ASSUME IInv, Alternating
             PROVE  /\ \A s \in Strides2 : stride_2_confidence[s] = 3
                    /\ stride_2[Other(stride_2_state)] = Bits(stride)
                    /\ stride_2[stride_2_state] = Bits(previous)
    BY DEF LearnsDouble
<1> DEFINE last == Other(stride_2_state)
           next == stride_2_state
<1>1. {last, next} = Strides2
    BY DEF IInv, TypeOK, Other, Strides2
<1>2. stride_2_confidence[last] \in 0..3 /\ stride_2_confidence[next] \in 0..3
    BY <1>1 DEF IInv, TypeOK
<1>3. LastMet = 7 /\ NextMet = 7
    BY DEF IInv, TypeOK, Alternating, LastMet, NextMet, Least
<1>4. stride_2_confidence[last] = 3 /\ stride_2[last] = Bits(stride)
    BY <1>2, <1>3 DEF IInv, PairProgress, Progress, Alternating
<1>5. stride_2_confidence[next] = 3 /\ stride_2[next] = Bits(previous)
    BY <1>2, <1>3 DEF IInv, PairProgress, Progress, Alternating
<1>6. QED
    BY <1>1, <1>4, <1>5

\* Fourteen strides that alternate within range fill the pair, each in its slot.
THEOREM DoubleLearnt == Spec => []LearnsDouble
BY PairFull, Invariance, PTL

\* Two strides within range are told apart by their low bits.
LEMMA BitsInjective ==
    ASSUME NEW a \in Int, NEW b \in Int, ~overflow(a), ~overflow(b), Bits(a) = Bits(b)
    PROVE  a = b
BY StrideTypesAssumption DEF Bits, NUM_STRIDES, overflow, STRIDE_MIN, STRIDE_MAX

\* While two strides alternate the single one cannot hide the pair for two
\* outputs in a row: it would be fully confident in one, then in the other.
LEMMA NotHiddenTwice ==
    ASSUME IInv, IInv', [Next]_vars, Alternating, Alternating', stride' = previous,
           LearnsDouble, LearnsDouble'
    PROVE  stride_2_valid_o \/ stride_2_valid_o'
<1>1. /\ stride_2_confidence["first"] = 3 /\ stride_2_confidence["second"] = 3
      /\ stride_2_confidence'["first"] = 3 /\ stride_2_confidence'["second"] = 3
    BY DEF LearnsDouble, Strides2
<1>2. SUFFICES ASSUME stride_1_confidence = 3, stride_1_confidence' = 3
               PROVE  FALSE
    BY <1>1 DEF stride_2_valid_o
<1>3. stride \in Int /\ previous \in Int /\ stride # previous
    BY DEF IInv, TypeOK, Alternating
<1>4. PICK value \in Values : Valid(value)
    BY <1>3 DEF Next, Idle, vars, history
<1>5. Bits(stride) = stride_1
    BY <1>2 DEF IInv, ConfidentIsCurrent
<1>6. value - last_value = previous
    BY <1>4 DEF Valid
<1>7. Bits(previous) = stride_1
    BY <1>2, <1>4, <1>6 DEF Valid, NextConfidence, Seen
<1>8. QED
    BY <1>3, <1>5, <1>7, BitsInjective DEF Alternating

\* A pair of strides learnt is reported at least at every other output.
THEOREM DoubleReported == Spec => ReportsDouble
<1>1. IInv /\ IInv' /\ LearnsDouble /\ LearnsDouble' /\ [Next]_vars =>
        [Alternating /\ Alternating' /\ stride' = previous
            => stride_2_valid_o \/ stride_2_valid_o']_vars
    BY NotHiddenTwice
<1>2. QED
    BY <1>1, PairFull, Invariance, PTL DEF Spec, ReportsDouble

-----------------------------------------------------------------------------
(* The monitor and the detector on the same values.                        *)

\* The last k strides of the values are s.
Steady(values, k, s) ==
    \A j \in 1..k : values[Len(values) + 1 - j] - values[Len(values) - j] = s

\* The monitor's window ends where the detector is; strides that are equal in the
\* window have been counted by the detector's streak.
WindowInv ==
    /\ last_values \in Seq(Values)
    /\ Len(last_values) <= Window
    /\ last_values # << >> => last_values[Len(last_values)] = last_value
    /\ Len(last_values) >= 2 =>
            last_values[Len(last_values)] - last_values[Len(last_values) - 1] = stride
    /\ \A k \in 1..7 :
            k < Len(last_values) /\ Steady(last_values, k, stride) => k <= streak

SampleInv ==
    /\ pattern = Pattern(last_values)
    /\ seen = Reported

\* Since a single stride filled the window, the samples without a pattern have
\* not been too many for the monitor to remember it.
Remembered ==
    since_single < Window =>
        /\ no_strides_count <= since_single
        /\ stride_state # "no_stride"

MonitorInv ==
    /\ since_single \in 0..Window
    /\ no_strides_count \in Nat
    /\ ~finished => Remembered
    /\ DirectSwitch

BenchInv ==
    /\ IInv
    /\ WindowInv
    /\ SampleInv
    /\ MonitorInv

\* The oldest value leaves a full window when the next one comes.
LEMMA WindowSlides ==
    ASSUME NEW S, NEW values \in Seq(S), NEW value \in S, Len(values) <= Window
    PROVE  LET all == Append(values, value)
               next == IF Len(all) > Window THEN Tail(all) ELSE all
           IN  /\ next \in Seq(S)
               /\ Len(next) \in 1..Window
               /\ Len(next) <= Len(values) + 1
               /\ next[Len(next)] = value
               /\ \A j \in 1..(Len(next) - 1) : next[Len(next) - j] = values[Len(values) + 1 - j]
<1>1. PICK l \in Nat, w \in Nat : l = Len(values) /\ w = Window /\ l <= w /\ w > 2
    BY StrideCoverageAssumption
<1>2. PICK all \in Seq(S) : /\ all = Append(values, value) /\ Len(all) = l + 1
                            /\ all[l + 1] = value /\ \A i \in 1..l : all[i] = values[i]
    <2>1. /\ Append(values, value) \in Seq(S)
          /\ Len(Append(values, value)) = Len(values) + 1
          /\ Append(values, value)[Len(values) + 1] = value
          /\ \A i \in 1..Len(values) : Append(values, value)[i] = values[i]
        OBVIOUS
    <2>2. QED
        BY <1>1, <2>1
<1>3. CASE l + 1 > w
    <2>1. PICK next \in Seq(S) : /\ next = Tail(all) /\ Len(next) = l
                                 /\ \A i \in 1..l : next[i] = all[i + 1]
        <3>1. all # << >>
            BY <1>2
        <3>2. /\ Tail(all) \in Seq(S) /\ Len(Tail(all)) = Len(all) - 1
              /\ \A i \in 1..(Len(all) - 1) : Tail(all)[i] = all[i + 1]
            BY <3>1
        <3>3. (l + 1) - 1 = l
            OBVIOUS
        <3>4. QED
            BY <1>2, <3>2, <3>3
    <2>2. next[l] = value
        BY <1>1, <1>2, <1>3, <2>1
    <2>3. ASSUME NEW j \in 1..(l - 1) PROVE next[l - j] = values[l + 1 - j]
        <3>1. l - j \in 1..l /\ (l - j) + 1 = l + 1 - j /\ l + 1 - j \in 1..l
            OBVIOUS
        <3>2. QED
            BY <1>2, <2>1, <3>1
    <2>4. l \in 1..w /\ l <= l + 1
        BY <1>1, <1>3
    <2>5. QED
        BY <1>1, <1>2, <1>3, <2>1, <2>2, <2>3, <2>4
<1>4. CASE ~(l + 1 > w)
    <2>1. ASSUME NEW j \in 1..l PROVE all[l + 1 - j] = values[l + 1 - j]
        <3>1. l + 1 - j \in 1..l
            OBVIOUS
        <3>2. QED
            BY <1>2, <3>1
    <2>2. l + 1 \in 1..w /\ (l + 1) - 1 = l
        BY <1>4
    <2>3. QED
        BY <1>1, <1>2, <1>4, <2>1, <2>2
<1>5. QED
    BY <1>3, <1>4

\* The window after a stimulus.
LEMMA StimulusWindow ==
    ASSUME WindowInv, NEW value \in Values, Stimulus(value)
    PROVE  /\ last_values' \in Seq(Values)
           /\ Len(last_values') \in 1..Window
           /\ Len(last_values') <= Len(last_values) + 1
           /\ last_values'[Len(last_values')] = value
           /\ \A j \in 1..(Len(last_values') - 1) :
                last_values'[Len(last_values') - j] = last_values[Len(last_values) + 1 - j]
<1> DEFINE all == Append(last_values, value)
           next == IF Len(all) > Window THEN Tail(all) ELSE all
<1>1. last_values' = next
    BY DEF Stimulus, SampleCoverage
<1>2. last_values \in Seq(Values) /\ Len(last_values) <= Window
    BY DEF WindowInv
<1>3. /\ next \in Seq(Values)
      /\ Len(next) \in 1..Window
      /\ Len(next) <= Len(last_values) + 1
      /\ next[Len(next)] = value
      /\ \A j \in 1..(Len(next) - 1) : next[Len(next) - j] = last_values[Len(last_values) + 1 - j]
    BY <1>2, WindowSlides
<1> HIDE DEF next
<1>4. QED
    BY <1>1, <1>3

\* A value driven extends the equal strides of the window and of the detector
\* together.
LEMMA DriveWindow ==
    ASSUME TypeOK, WindowInv, NEW value \in Values, Valid(value), Stimulus(value)
    PROVE  WindowInv'
<1>1. PICK v \in Seq(Values), l \in Nat, z \in Int :
        v = last_values /\ l = Len(v) /\ z = last_value
    BY DEF WindowInv, TypeOK, Values
<1>2. PICK n \in Seq(Values), m \in Nat :
        /\ n = last_values' /\ m = Len(n) /\ m \in 1..Window /\ m <= l + 1
        /\ n[m] = value
        /\ \A j \in 1..(m - 1) : n[m - j] = v[l + 1 - j]
    <2>1. PICK n \in Seq(Values) :
            /\ n = last_values' /\ Len(n) \in 1..Window /\ Len(n) <= l + 1
            /\ n[Len(n)] = value
            /\ \A j \in 1..(Len(n) - 1) : n[Len(n) - j] = v[l + 1 - j]
        BY <1>1, StimulusWindow
    <2>2. QED
        BY <2>1
<1>3. last_value' = value /\ stride' = value - z
    BY <1>1 DEF Valid
<1>4. m >= 2 => n[m - 1] = z
    <2> SUFFICES ASSUME m >= 2 PROVE n[m - 1] = z
        OBVIOUS
    <2>1. n[m - 1] = v[l + 1 - 1]
        BY <1>2
    <2>2. l + 1 - 1 = l /\ l # 0
        BY <1>2
    <2>3. v[l] = z
        BY <1>1, <2>2 DEF WindowInv
    <2>4. QED
        BY <2>1, <2>2, <2>3
<1>5. m >= 2 => n[m] - n[m - 1] = stride'
    BY <1>2, <1>3, <1>4
<1>6. ASSUME NEW k \in 1..7, k < m, Steady(n, k, stride')
      PROVE  k <= streak'
    <2>1. streak \in 0..7 /\ stride \in Int /\ streak' \in 1..7
        BY DEF TypeOK, Valid
    <2>2. CASE k = 1
        BY <2>1, <2>2
    <2>3. CASE k # 1
        <3>1. PICK h \in 1..6 : k = h + 1 /\ h + 1 < m /\ h < l
            <4>1. k - 1 \in 1..6 /\ k = (k - 1) + 1 /\ (k - 1) + 1 < m /\ k - 1 < l
                BY <1>2, <1>6, <2>3
            <4>2. QED
                BY <4>1
        <3>2. ASSUME NEW j \in 1..h
              PROVE  v[l + 1 - j] - v[l - j] = stride'
            <4>1. j + 1 \in 1..k /\ j \in 1..(m - 1) /\ j + 1 \in 1..(m - 1)
                BY <3>1
            <4>2. n[m + 1 - (j + 1)] - n[m - (j + 1)] = stride'
                BY <1>2, <1>6, <4>1 DEF Steady
            <4>3. n[m - j] = v[l + 1 - j] /\ n[m - (j + 1)] = v[l + 1 - (j + 1)]
                BY <1>2, <4>1
            <4>4. m + 1 - (j + 1) = m - j /\ l + 1 - (j + 1) = l - j
                OBVIOUS
            <4>5. QED
                BY <4>2, <4>3, <4>4
        <3>3. v[l] - v[l - 1] = stride'
            <4>1. 1 \in 1..h /\ l + 1 - 1 = l
                OBVIOUS
            <4>2. QED
                BY <3>2, <4>1
        <3>4. stride' = stride
            BY <1>1, <3>1, <3>3 DEF WindowInv
        <3>5. Steady(v, h, stride)
            BY <1>1, <3>2, <3>4 DEF Steady
        <3>6. h <= streak
            BY <1>1, <3>1, <3>5 DEF WindowInv
        <3>7. streak' = IF streak < 7 THEN streak + 1 ELSE streak
            BY <1>1, <1>3, <2>1, <3>1, <3>4, <3>6 DEF Valid
        <3>8. QED
            BY <2>1, <3>1, <3>6, <3>7
    <2>4. QED
        BY <2>2, <2>3
<1>7. Len(n) <= Window
    BY <1>2, StrideCoverageAssumption
<1>8. QED
    BY <1>2, <1>3, <1>5, <1>6, <1>7 DEF WindowInv

\* The sample is described as the monitor makes it, of the window it keeps.
LEMMA BenchSamples ==
    ASSUME SampleInv, NextBench
    PROVE  SampleInv'
<1>1. ASSUME NEW value \in Values, Drive(value) PROVE SampleInv'
    BY <1>1 DEF SampleInv, Drive, Stimulus, SampleCoverage, Pattern, Reported,
        stride_1_valid_o, stride_2_valid_o, stride_1_o, stride_2_o
<1>2. CASE DriveFinish
    BY <1>2 DEF SampleInv, DriveFinish, FinishTrial, Idle, vars, registers, SampleCoverage,
        Pattern, Reported, stride_1_valid_o, stride_2_valid_o, stride_1_o, stride_2_o
<1>3. CASE UNCHANGED benchVars
    BY <1>3 DEF SampleInv, benchVars, monitorVars, vars, registers,
        Pattern, Reported, stride_1_valid_o, stride_2_valid_o, stride_1_o, stride_2_o
<1>4. QED
    BY <1>1, <1>2, <1>3 DEF NextBench

\* A sample that is credited as a change from no stride begins without a stride.
LEMMA Credited ==
    ASSUME NEW values, SampleCoverage(values), stride_state # "no_stride"
    PROVE  "no_stride_to_double" \notin credited'
<1>1. "no_stride_to_double" \notin Switch(Pattern(values))
    BY DEF Switch
<1>2. "no_stride_to_double" \notin Overflows(Pattern(values))
    BY DEF Overflows
<1>3. QED
    BY <1>1, <1>2 DEF SampleCoverage

\* A sample counts at most one more, and what it credits it remembers.
LEMMA SampleCounts ==
    ASSUME NEW values, SampleCoverage(values), no_strides_count \in Nat
    PROVE  /\ no_strides_count' \in Nat /\ no_strides_count' <= no_strides_count + 1
           /\ pattern' = Pattern(values)
           /\ Counts(pattern') => no_strides_count' = 0
           /\ no_strides_count' <= NoStrideLimit =>
                stride_state' = IF Counts(pattern') THEN pattern'.kind ELSE stride_state
<1> DEFINE p == Pattern(values)
<1>1. /\ no_strides_count' = CASE p.kind = "short" -> no_strides_count
                                 [] Counts(p) -> 0
                                 [] OTHER -> IF Tolerated(no_strides_count)
                                             THEN no_strides_count + 1
                                             ELSE no_strides_count
      /\ stride_state' = IF ~Tolerated(no_strides_count') THEN "no_stride"
                         ELSE IF Counts(p) THEN p.kind
                         ELSE stride_state
      /\ pattern' = p
    BY DEF SampleCoverage
<1> HIDE DEF p
<1>2. Counts(p) => p.kind # "short"
    BY DEF Counts
<1>3. no_strides_count' \in {no_strides_count, 0, no_strides_count + 1}
    BY <1>1
<1>4. no_strides_count' \in Nat /\ no_strides_count' <= no_strides_count + 1
    BY <1>3
<1>5. Counts(p) => no_strides_count' = 0
    BY <1>1, <1>2
<1>6. no_strides_count' <= NoStrideLimit =>
        stride_state' = IF Counts(p) THEN p.kind ELSE stride_state
    BY <1>1 DEF Tolerated
<1>7. pattern' = Pattern(values)
    BY <1>1 DEF p
<1>8. QED
    BY <1>1, <1>4, <1>5, <1>6, <1>7

\* The monitor's memory of a single stride, after each stimulus.
LEMMA StimulusRemembers ==
    ASSUME MonitorInv, NEW value \in Values, Stimulus(value)
    PROVE  MonitorInv'
<1>1. ~finished /\ finished' = finished /\ Remembered
    BY DEF Stimulus, MonitorInv
<1>2. PICK values : SampleCoverage(values)
    BY DEF Stimulus
<1>3. PICK w \in Nat, s \in Nat, c \in Nat :
        w = Window /\ s = since_single /\ c = no_strides_count /\ s <= w /\ w > 2
    BY StrideCoverageAssumption DEF MonitorInv
<1>4. /\ no_strides_count' \in Nat /\ no_strides_count' <= c + 1
      /\ Counts(pattern') => no_strides_count' = 0
      /\ no_strides_count' <= NoStrideLimit =>
            stride_state' = IF Counts(pattern') THEN pattern'.kind ELSE stride_state
    BY <1>2, <1>3, SampleCounts
<1>5. Counts(pattern') => pattern'.kind \in {"single", "double"}
    BY DEF Counts
<1>6. NoStrideLimit \in Nat /\ NoStrideLimit >= w - 1
    BY <1>3, StrideCoverageAssumption, TestbenchAssumption
<1>7. CASE pattern'.kind = "single" /\ Overflows(pattern') = {}
    <2>1. since_single' = 0 /\ Counts(pattern')
        BY <1>7 DEF Stimulus, Counts
    <2>2. no_strides_count' = 0 /\ stride_state' = "single"
        BY <1>4, <1>6, <1>7, <2>1
    <2>3. DirectSwitch'
        BY <1>7 DEF DirectSwitch
    <2>4. QED
        BY <1>3, <2>1, <2>2, <2>3 DEF MonitorInv, Remembered
<1>8. CASE ~(pattern'.kind = "single" /\ Overflows(pattern') = {})
    <2>1. since_single' = IF s < w THEN s + 1 ELSE s
        BY <1>3, <1>8 DEF Stimulus
    <2>2. since_single' \in 0..w
        BY <1>3, <2>1
    <2>3. ASSUME since_single' < w
          PROVE  /\ no_strides_count' <= since_single' /\ stride_state' # "no_stride"
                 /\ "no_stride_to_double" \notin credited'
        <3>1. s < w /\ since_single' = s + 1
            BY <1>3, <2>1, <2>3
        <3>2. c <= s /\ stride_state # "no_stride"
            BY <1>1, <1>3, <3>1 DEF Remembered
        <3>3. no_strides_count' <= s + 1 /\ no_strides_count' <= NoStrideLimit
            BY <1>4, <1>6, <2>3, <3>1, <3>2
        <3>4. stride_state' # "no_stride"
            BY <1>4, <1>5, <3>2, <3>3
        <3>5. QED
            BY <1>2, <3>1, <3>2, <3>3, <3>4, Credited
    <2>4. QED
        BY <1>3, <1>4, <2>2, <2>3 DEF MonitorInv, Remembered, DirectSwitch
<1>9. QED
    BY <1>7, <1>8

\* The last sample, of the same window once more.
LEMMA FinishRemembers ==
    ASSUME MonitorInv, FinishTrial
    PROVE  MonitorInv'
<1>1. Remembered /\ finished' /\ since_single' = since_single
    BY DEF FinishTrial, MonitorInv
<1>2. SampleCoverage(last_values)
    BY DEF FinishTrial
<1>3. no_strides_count' \in Nat
    BY <1>2, SampleCounts DEF MonitorInv
<1>4. since_single < Window => "no_stride_to_double" \notin credited'
    BY <1>1, <1>2, Credited DEF Remembered
<1>5. QED
    BY <1>1, <1>3, <1>4 DEF MonitorInv, DirectSwitch

-----------------------------------------------------------------------------
\* The initial window is empty.
LEMMA InitBenchInv == InitBench => BenchInv
<1> SUFFICES ASSUME InitBench PROVE BenchInv
    OBVIOUS
<1>1. PICK w \in Nat : w = Window /\ w > 2
    BY StrideCoverageAssumption
<1>2. last_values = << >> /\ << >> \in Seq(Values) /\ Len(<< >>) = 0
    BY DEF InitBench, InitMonitor
<1>3. IInv
    BY InitIInv DEF InitBench
<1>4. WindowInv
    BY <1>1, <1>2 DEF WindowInv
<1>5. SampleInv
    <2>1. Pattern(last_values) = [kind |-> "short"]
        BY <1>1, <1>2 DEF Pattern
    <2>2. Reported = << >>
        BY DEF InitBench, Init, Reported, stride_1_valid_o, Strides2
    <2>3. QED
        BY <2>1, <2>2 DEF SampleInv, InitBench, InitMonitor
<1>6. MonitorInv
    BY <1>1 DEF MonitorInv, Remembered, DirectSwitch, InitBench, InitMonitor
<1>7. QED
    BY <1>3, <1>4, <1>5, <1>6 DEF BenchInv

\* Every step of the server keeps the invariant.
LEMMA BenchStep == BenchInv /\ [NextBench]_benchVars => BenchInv'
<1> SUFFICES ASSUME BenchInv, [NextBench]_benchVars PROVE BenchInv'
    OBVIOUS
<1>1. CASE UNCHANGED benchVars
    <2>1. IInv'
        BY <1>1, NextIInv DEF BenchInv, benchVars
    <2>2. WindowInv'
        BY <1>1 DEF BenchInv, WindowInv, Steady, benchVars, monitorVars, vars, registers, history
    <2>3. MonitorInv'
        BY <1>1 DEF BenchInv, MonitorInv, Remembered, DirectSwitch, benchVars, monitorVars
    <2>4. SampleInv'
        BY <1>1 DEF BenchInv, SampleInv, benchVars, monitorVars, vars, registers, Pattern,
            Reported, stride_1_valid_o, stride_2_valid_o, stride_1_o, stride_2_o
    <2>5. QED
        BY <2>1, <2>2, <2>3, <2>4 DEF BenchInv
<1>2. ASSUME NEW value \in Values, Drive(value)
      PROVE  BenchInv'
    <2>1. Valid(value) /\ Stimulus(value) /\ NextBench
        BY <1>2 DEF Drive, NextBench
    <2>2. IInv'
        BY <2>1, NextIInv DEF BenchInv, Next
    <2>3. QED
        BY <2>1, <2>2, DriveWindow, BenchSamples, StimulusRemembers DEF BenchInv, IInv
<1>3. CASE DriveFinish
    <2>1. UNCHANGED vars /\ FinishTrial /\ NextBench /\ last_values' = last_values
        BY <1>3 DEF DriveFinish, Idle, FinishTrial, SampleCoverage, NextBench
    <2>2. IInv'
        BY <2>1, NextIInv DEF BenchInv
    <2>3. WindowInv'
        BY <2>1 DEF BenchInv, WindowInv, Steady, vars, registers, history
    <2>4. QED
        BY <2>1, <2>2, <2>3, BenchSamples, FinishRemembers DEF BenchInv
<1>4. QED
    BY <1>1, <1>2, <1>3 DEF NextBench

\* What the monitor's window, its memory and the detector's learning have to do
\* with each other holds after every stimulus (stride_detector_cocotb.py).
THEOREM BenchInvariance == SpecBench => []BenchInv
BY InitBenchInv, BenchStep, PTL DEF SpecBench

\* The invariant when one stride fills the window.
LEMMA WindowFilled ==
    ASSUME BenchInv, pattern.kind = "single"
    PROVE  streak = 7 /\ stride = pattern.first
<1>1. PICK v \in Seq(Values), w \in Nat, l \in Nat :
        v = last_values /\ w = Window /\ l = Len(v) /\ l <= w /\ w >= 8
    <2>1. PICK w \in Nat : w = Window /\ w >= 8
        BY StrideCoverageAssumption, TestbenchAssumption
    <2>2. PICK v \in Seq(Values) : v = last_values /\ Len(v) <= w
        BY <2>1 DEF BenchInv, WindowInv
    <2>3. QED
        BY <2>1, <2>2
<1>2. ~(l < w)
    <2> SUFFICES ASSUME l < w PROVE FALSE
        OBVIOUS
    <2>1. pattern = [kind |-> "short"]
        BY <1>1 DEF BenchInv, SampleInv, Pattern
    <2>2. QED
        BY <2>1
<1>3. l = w
    BY <1>1, <1>2
<1>4. PICK first \in Int : first = v[2] - v[1]
    <2>1. v[2] \in Values /\ v[1] \in Values
        <3>1. 1 \in 1..l /\ 2 \in 1..l
            BY <1>1, <1>3
        <3>2. QED
            BY <1>1, <3>1
    <2>2. v[2] - v[1] \in Int
        BY <2>1 DEF Values
    <2>3. QED
        BY <2>2
<1>5. pattern.first = first /\ \A i \in 2..(w - 1) : v[i + 1] - v[i] = first
    <2>1. pattern = Pattern(v)
        BY <1>1 DEF BenchInv, SampleInv
    <2>2. 1 + 1 = 2 /\ v[1 + 1] = v[2]
        OBVIOUS
    <2>3. CASE \A i \in 2..(w - 1) : v[i + 1] - v[i] = first
        BY <1>1, <1>2, <1>4, <2>1, <2>2, <2>3 DEF Pattern
    <2>4. CASE ~(\A i \in 2..(w - 1) : v[i + 1] - v[i] = first)
        <3>1. pattern.kind # "single"
            BY <1>1, <1>2, <1>4, <2>1, <2>2, <2>4 DEF Pattern
        <3>2. QED
            BY <3>1
    <2>5. QED
        BY <2>3, <2>4
<1>6. stride = first
    <2>1. w - 1 \in 2..(w - 1) /\ (w - 1) + 1 = w
        BY <1>1
    <2>2. v[w] - v[w - 1] = first
        BY <1>5, <2>1
    <2>3. QED
        BY <1>1, <1>3, <2>2 DEF BenchInv, WindowInv
<1>7. Steady(v, 7, stride)
    <2> SUFFICES ASSUME NEW j \in 1..7 PROVE v[l + 1 - j] - v[l - j] = first
        BY <1>1, <1>6 DEF Steady
    <2>1. PICK i \in 1..(w - 1) : i = w - j /\ l + 1 - j = i + 1 /\ l - j = i
        <3>1. w - j \in 1..(w - 1) /\ l + 1 - j = (w - j) + 1 /\ l - j = w - j
            BY <1>1, <1>3
        <3>2. QED
            BY <3>1
    <2>2. v[i + 1] - v[i] = first
        <3>1. CASE i = 1
            BY <1>4, <3>1
        <3>2. CASE i # 1
            BY <1>5, <3>2
        <3>3. QED
            BY <3>1, <3>2
    <2>3. QED
        BY <2>1, <2>2
<1>8. 7 <= streak
    <2>1. 7 \in 1..7 /\ 7 < l
        BY <1>1, <1>3
    <2>2. QED
        BY <1>1, <1>7, <2>1 DEF BenchInv, WindowInv
<1>9. streak = 7
    BY <1>8 DEF BenchInv, IInv, TypeOK
<1>10. QED
    BY <1>5, <1>6, <1>9

\* A window filled by one stride is counted as that stride when it is in range
\* and as no stride, single or double, when it is not: what is counted from the values and
\* what is counted from the outputs cannot disagree about it.
THEOREM MonitorsAgree == SpecBench => []MonitorAgrees
<1>1. BenchInv => MonitorAgrees
    <2> SUFFICES ASSUME BenchInv, pattern.kind = "single"
                 PROVE  /\ InRange(pattern) => seen = <<Bits(pattern.first)>>
                        /\ ~InRange(pattern) => seen = << >>
        BY DEF MonitorAgrees
    <2>1. streak = 7 /\ stride = pattern.first
        BY WindowFilled
    <2>2. seen = Reported
        BY DEF BenchInv, SampleInv
    <2>3. InRange(pattern) <=> ~overflow(stride)
        <3>1. Overflows(pattern) =
                {b \in {"single_stride_n_overflow", "single_stride_p_overflow"} :
                    \/ b = "single_stride_n_overflow" /\ stride < STRIDE_MIN
                    \/ b = "single_stride_p_overflow" /\ stride > STRIDE_MAX}
            BY <2>1 DEF Overflows
        <3>2. Overflows(pattern) = {} <=> ~overflow(stride)
            BY <3>1 DEF overflow
        <3>3. QED
            BY <3>2 DEF InRange
    <2>4. CASE ~overflow(stride)
        <3>1. stride_1_valid_o /\ ~stride_2_valid_o /\ stride_1_o = Bits(stride)
            BY <2>1, <2>4, SevenEqual DEF BenchInv
        <3>2. seen = <<Bits(stride)>>
            BY <2>2, <3>1 DEF Reported
        <3>3. QED
            BY <2>1, <2>3, <2>4, <3>2
    <2>5. CASE overflow(stride)
        <3>1. ~stride_1_valid_o
            BY <2>1, <2>5, SevenOverflows DEF BenchInv
        <3>2. seen = << >>
            BY <2>2, <3>1 DEF Reported
        <3>3. QED
            BY <2>3, <2>5, <3>2
    <2>6. QED
        BY <2>4, <2>5
<1>2. QED
    BY <1>1, BenchInvariance, PTL

\* A single stride that gives way to a double one, with nothing but mixed windows
\* in between, is credited as that change: the count of samples without a pattern
\* cannot run out first.
THEOREM SwitchesCredited == SpecBench => []DirectSwitch
<1>1. BenchInv => DirectSwitch
    BY DEF BenchInv, MonitorInv
<1>2. QED
    BY <1>1, BenchInvariance, PTL
=============================================================================
