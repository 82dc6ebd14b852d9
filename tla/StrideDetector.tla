--------------------------- MODULE StrideDetector ---------------------------
(***************************************************************************)
(* The stride detector in hardware (stride_detector/stride_detector.sv): a *)
(* register of the last value, one stride with a confidence, and a pair of *)
(* strides met in turn with a confidence each.  A step is a clock edge.    *)
(*                                                                         *)
(* Values are unsigned and their difference is taken one bit wider, so it  *)
(* never wraps: `stride` below is incoming_stride_full read as signed.     *)
(***************************************************************************)
EXTENDS StrideTypes

Strides == 0..(NUM_STRIDES - 1)
Strides2 == {"first", "second"}

VARIABLES
    last_value,
    stride_1, stride_1_confidence,
    stride_2, stride_2_confidence,  \* functions on the two states
    stride_2_state,
    streak,     \* history: the last valid strides that are equal, at most 7
    swings,     \* history: the last valid strides that equal the one before the
                \* one before them, at most 13
    stride,     \* history: the last valid stride
    previous    \* history: the one before it

registers == <<last_value, stride_1, stride_1_confidence, stride_2,
               stride_2_confidence, stride_2_state>>
history == <<streak, swings, stride, previous>>
vars == <<registers, history>>

-----------------------------------------------------------------------------
\* The low bits of a stride.
Bits(full) == full % NUM_STRIDES

Seen(full, expected) == Bits(full) = expected /\ ~overflow(full)

\* Faulty: an overflow of the right low bits confirms the stride.
NextConfidence_Wrapped(full, expected, confidence) ==
    IF Bits(full) = expected
    THEN IF confidence < 3 THEN confidence + 1 ELSE confidence
    ELSE IF confidence > 0 THEN confidence - 1 ELSE confidence

\* Faulty: a mismatch does not lower the confidence.
NextConfidence_Stubborn(full, expected, confidence) ==
    IF Seen(full, expected) /\ confidence < 3 THEN confidence + 1 ELSE confidence

\* A match raises the confidence up to 3, a mismatch lowers it down to 0.
NextConfidence(full, expected, confidence) ==
    IF Seen(full, expected)
    THEN IF confidence < 3 THEN confidence + 1 ELSE confidence
    ELSE IF confidence > 0 THEN confidence - 1 ELSE confidence

\* A mismatch without confidence replaces the stride, even by an overflow.
NextStride(full, expected, confidence) ==
    IF ~Seen(full, expected) /\ confidence = 0 THEN Bits(full) ELSE expected

\* Faulty: the pair does not alternate.
Other_Stuck(s) == s

Other(s) == IF s = "first" THEN "second" ELSE "first"

Init ==
    /\ last_value = 0
    /\ stride_1 = 0
    /\ stride_1_confidence = 0
    /\ stride_2 = [s \in Strides2 |-> 0]
    /\ stride_2_confidence = [s \in Strides2 |-> 0]
    /\ stride_2_state = "first"
    /\ streak = 0
    /\ swings = 0
    /\ stride = 0
    /\ previous = 0

\* A clock edge with valid_i.
Valid(value) ==
    LET full == value - last_value
        turn == stride_2_state
    IN  /\ last_value' = value
        /\ stride_1_confidence' = NextConfidence(full, stride_1, stride_1_confidence)
        /\ stride_1' = NextStride(full, stride_1, stride_1_confidence)
        /\ stride_2_confidence' = [stride_2_confidence EXCEPT
                                    ![turn] = NextConfidence(full, stride_2[turn], @)]
        /\ stride_2' = [stride_2 EXCEPT
                            ![turn] = NextStride(full, @, stride_2_confidence[turn])]
        /\ stride_2_state' = Other(stride_2_state)
        /\ stride' = full
        /\ previous' = stride
        /\ streak' = IF streak = 0 \/ full # stride THEN 1
                     ELSE IF streak < 7 THEN streak + 1 ELSE streak
        /\ swings' = IF full # previous THEN 0
                     ELSE IF swings < 13 THEN swings + 1 ELSE swings

\* A clock edge without: every register keeps its value.
Idle == UNCHANGED vars

Next == Idle \/ \E value \in Values : Valid(value)

Spec == Init /\ [][Next]_vars

-----------------------------------------------------------------------------
\* The outputs.
stride_1_valid_o == stride_1_confidence = 3 \/ stride_2_confidence["first"] = 3

stride_1_o == IF stride_1_confidence = 3 THEN stride_1 ELSE stride_2["first"]

stride_2_valid_o ==
    /\ stride_2_confidence["first"] = 3
    /\ stride_2_confidence["second"] = 3
    /\ stride_1_confidence # 3

stride_2_o == stride_2["second"]

-----------------------------------------------------------------------------
TypeOK ==
    /\ last_value \in Values
    /\ stride_1 \in Strides
    /\ stride_1_confidence \in 0..3
    /\ stride_2 \in [Strides2 -> Strides]
    /\ stride_2_confidence \in [Strides2 -> 0..3]
    /\ stride_2_state \in Strides2
    /\ streak \in 0..7
    /\ swings \in 0..13
    /\ stride \in Int
    /\ previous \in Int

\* Full confidence is about the present: the last stride was the one reported,
\* and within range, however many others came before it.
ConfidentIsCurrent ==
    stride_1_confidence = 3 => ~overflow(stride) /\ Bits(stride) = stride_1

\* Whatever the detector had learnt before, seven equal strides within range are
\* enough for it to report them.
DetectsSingle ==
    streak = 7 /\ ~overflow(stride) =>
        stride_1_valid_o /\ ~stride_2_valid_o /\ stride_1_o = Bits(stride)

\* Overflows are not detected: after seven equal strides out of range neither
\* output is valid, so that nothing learnt before is reported either, as the
\* single stride or through the first slot of the pair.
OverflowUndetected ==
    streak = 7 /\ overflow(stride) => ~stride_1_valid_o /\ ~stride_2_valid_o

\* Fourteen strides that alternate within range fill the pair.
Alternating == swings >= 12 /\ ~overflow(stride) /\ ~overflow(previous) /\ stride # previous

LearnsDouble ==
    Alternating =>
        /\ \A s \in Strides2 : stride_2_confidence[s] = 3
        /\ stride_2[Other(stride_2_state)] = Bits(stride)
        /\ stride_2[stride_2_state] = Bits(previous)

\* A double stride may hide behind a single stride learnt before it, but not for
\* two strides in a row.
ReportsDouble ==
    [][Alternating /\ Alternating' /\ stride' = previous
        => stride_2_valid_o \/ stride_2_valid_o']_vars
=============================================================================
