--------------------------- MODULE StrideCoverage ---------------------------
(***************************************************************************)
(* The part of the stride detector's coverage monitor that looks at the    *)
(* values themselves (stride_detector/stride_detector_cocotb.py): it       *)
(* classifies the last 16 of them after each stimulus.                     *)
(*                                                                         *)
(* The monitor only ever increments its counters, so a sample is described *)
(* by the bins of misc_bins it increments, `credited`.                     *)
(***************************************************************************)
EXTENDS StrideTypes, Sequences, FiniteSets

CONSTANTS
    Window,         \* 16: values looked at
    NoStrideLimit   \* 16: samples without a pattern that are still tolerated

ASSUME StrideCoverageAssumption ==
    /\ Window \in Nat /\ Window > 2
    /\ NoStrideLimit \in Nat

VARIABLES last_values, stride_state, no_strides_count, credited,
          finished,     \* the server has left its loop
          pattern,      \* history: what the last sample made of the window
          since_single  \* history: samples since a single stride in range filled
                        \* the window, at most Window

monitorVars == <<last_values, stride_state, no_strides_count, credited, finished,
                 pattern, since_single>>

-----------------------------------------------------------------------------
\* The shape of the strides, and the one or two that make it.
Pattern(values) ==
    IF Len(values) < Window THEN [kind |-> "short"]
    ELSE LET Stride(i) == values[i + 1] - values[i]
             first == Stride(1)
             second == Stride(2)
         IN  IF \A i \in 2..Window - 1 : Stride(i) = first
             THEN [kind |-> "single", first |-> first]
             ELSE IF \A i \in 3..Window - 1 : Stride(i) = Stride(i - 2)
             THEN [kind |-> "double", first |-> first, second |-> second]
             ELSE [kind |-> "none"]

\* The overflow bins a pattern hits.
Overflows(p) ==
    CASE p.kind = "single" ->
            {b \in {"single_stride_n_overflow", "single_stride_p_overflow"} :
                \/ b = "single_stride_n_overflow" /\ p.first < STRIDE_MIN
                \/ b = "single_stride_p_overflow" /\ p.first > STRIDE_MAX}
      [] p.kind = "double" ->
            {b \in {"double_stride_nn_overflow", "double_stride_np_overflow",
                    "double_stride_pn_overflow", "double_stride_pp_overflow"} :
                /\ IF b \in {"double_stride_nn_overflow", "double_stride_np_overflow"}
                   THEN p.first < STRIDE_MIN ELSE p.first > STRIDE_MAX
                /\ IF b \in {"double_stride_nn_overflow", "double_stride_pn_overflow"}
                   THEN p.second < STRIDE_MIN ELSE p.second > STRIDE_MAX}
      [] OTHER -> {}

\* Whether the sample counts as a stride pattern.  For double strides the else
\* belongs to the last if only: every pair but a pp overflow counts.
Counts(p) ==
    \/ p.kind = "single" /\ Overflows(p) = {}
    \/ p.kind = "double" /\ "double_stride_pp_overflow" \notin Overflows(p)

\* The bin of the change from the pattern seen before to this one.
Switch(p) ==
    CASE stride_state = "no_stride" /\ p.kind = "single" -> {"no_stride_to_single"}
      [] stride_state = "no_stride" /\ p.kind = "double" -> {"no_stride_to_double"}
      [] stride_state = "single" /\ p.kind = "double" -> {"single_stride_to_double"}
      [] stride_state = "double" /\ p.kind = "single" -> {"double_stride_to_single"}
      [] OTHER -> {}

\* Faulty: the tolerance ends while a new pattern is still filling the window.
Tolerated_Less(count) == 2 * count < Window

Tolerated(count) == count <= NoStrideLimit

InitMonitor ==
    /\ last_values = << >>
    /\ stride_state = "no_stride"
    /\ no_strides_count = 0
    /\ credited = {}
    /\ finished = FALSE
    /\ since_single = Window
    /\ pattern = [kind |-> "short"]

\* sample_coverage on this window.  The counter is only compared with
\* NoStrideLimit, so the model stops it one above.
SampleCoverage(values) ==
    LET p == Pattern(values)
    IN  /\ last_values' = values
        /\ no_strides_count' = CASE p.kind = "short" -> no_strides_count
                                 [] Counts(p) -> 0
                                 [] OTHER -> IF Tolerated(no_strides_count)
                                             THEN no_strides_count + 1
                                             ELSE no_strides_count
        /\ credited' = Overflows(p) \cup (IF Counts(p) THEN Switch(p) ELSE {})
        /\ stride_state' = IF ~Tolerated(no_strides_count') THEN "no_stride"
                           ELSE IF Counts(p) THEN p.kind
                           ELSE stride_state
        /\ pattern' = p

\* The server drives a value and samples coverage.
Stimulus(value) ==
    /\ ~finished
    /\ LET all == Append(last_values, value)
       IN  SampleCoverage(IF Len(all) > Window THEN Tail(all) ELSE all)
    /\ since_single' = IF pattern'.kind = "single" /\ Overflows(pattern') = {} THEN 0
                       ELSE IF since_single < Window
                       THEN since_single + 1 ELSE since_single
    /\ UNCHANGED finished

\* The last request has no value, but the window is sampled once more.
FinishTrial ==
    /\ ~finished
    /\ SampleCoverage(last_values)
    /\ finished' = TRUE
    /\ UNCHANGED since_single

NextMonitor ==
    \/ \E value \in Values : Stimulus(value)
    \/ FinishTrial
    \/ finished /\ UNCHANGED monitorVars

SpecMonitor == InitMonitor /\ [][NextMonitor]_monitorVars

-----------------------------------------------------------------------------
InRange(p) ==
    /\ p.kind \in {"single", "double"}
    /\ Overflows(p) = {}
    /\ p.kind = "double" => {p.first, p.second} \subseteq STRIDE_MIN..STRIDE_MAX

\* A single stride that gives way to a double stride, with only mixed windows in
\* between, is credited as such and not as a pattern out of nothing.
DirectSwitch ==
    pattern.kind = "double" /\ since_single < Window =>
        "no_stride_to_double" \notin credited

\* A change to a double stride needs both strides in range, as in the covers of
\* stride_detector.sv:205 and :206.
DoubleInRange ==
    credited \cap {"no_stride_to_double", "single_stride_to_double"} # {} =>
        InRange(pattern)
=============================================================================
