-------------------------- MODULE ExperimentsProofs --------------------------
(***************************************************************************)
(* Theorems about Experiments, for any number of messages, answers and     *)
(* bins hit: what the sampling of missed bins remembers and shows, and what *)
(* keeps a main experiment going.                                          *)
(***************************************************************************)
EXTENDS Experiments, FiniteSetTheorems, TLAPS

-----------------------------------------------------------------------------
(* The inductive invariant.                                                *)

SamplingTypes ==
    /\ cur_sampling_method \in {"None", "mild_determ", "determ", "random", "list"}
    /\ adas_cov_hist \in Seq(Int)
    /\ Len(adas_cov_hist) <= 4
    /\ uses \in 0..4

\* The client's count of the bins hit only grows, and never says too much.
CoverageKnown ==
    /\ experiment \in Experiments
    /\ covered \in 0..plan
    /\ told \in -1..covered

\* What generate_iterative_prompt compares with is what the last prompt knew.
LastPromptKnown == prev_coverage = prompted

\* The two methods that the stagnation of the rates switches between are only in use
\* beyond a fifth of the plan.  While many bins are missed, a method has been used once
\* more than rates have been kept since it was chosen.
AdaptiveUses ==
    cur_sampling_method \in {"determ", "random"} =>
        /\ ~AtMost(5, told)
        /\ missed_bins >= 40 => uses = 4 \/ uses > Len(adas_cov_hist)

ExperimentInv == SamplingTypes /\ CoverageKnown /\ LastPromptKnown /\ AdaptiveUses

-----------------------------------------------------------------------------
LEMMA PlanIsNat ==
    ASSUME experiment \in Experiments
    PROVE  plan \in Nat
    BY PlansAssumption DEF plan

\* Arithmetic, over values rather than states.
LEMMA UpToFour ==
    ASSUME NEW n \in Nat, n <= 4
    PROVE  n < 4 \/ n = 4
    OBVIOUS

LEMMA FewerMissed ==
    ASSUME NEW n \in Int, NEW m \in Int, NEW p \in Int, n <= m
    PROVE  /\ 5 * m <= p => 5 * n <= p
           /\ p - m >= 40 => p - n >= 40
           /\ p - n < 7 => p - m < 7
    OBVIOUS

\* The history of rates is as long as they are many, up to four.
LEMMA HistoryGrows ==
    ASSUME NEW hist \in Seq(Int), Len(hist) <= 4, NEW hit \in Int
    PROVE  /\ Append4(hist, hit) \in Seq(Int)
           /\ Len(Append4(hist, hit)) = IF Len(hist) < 4 THEN Len(hist) + 1 ELSE 4
    <1>0. Len(hist) < 4 \/ Len(hist) = 4
        <2>1. Len(hist) \in Nat
            OBVIOUS
        <2>2. QED
            BY <2>1, UpToFour
    <1>1. CASE Len(hist) < 4
        <2>1. Append4(hist, hit) = Append(hist, hit)
            BY <1>1 DEF Append4
        <2>2. QED
            BY <1>1, <2>1
    <1>2. CASE Len(hist) = 4
        <2>1. SubSeq(hist, 2, 4) \in Seq(Int) /\ Len(SubSeq(hist, 2, 4)) = 3
            BY <1>2
        <2>2. Append4(hist, hit) = Append(SubSeq(hist, 2, 4), hit)
            BY <1>2 DEF Append4
        <2>3. QED
            BY <1>2, <2>1, <2>2
    <1>3. QED
        BY <1>0, <1>1, <1>2

\* _mixed sampling: a method gives way to the other only beyond a fifth of the plan,
\* with many bins missed, and when four rates are kept.
LEMMA MethodChanges ==
    ASSUME NEW m \in Int, NEW hit \in Int, NEW hist,
           NEW cur \in {"None", "mild_determ", "determ", "random", "list"}
    PROVE  LET next == MixedMethod(m, hit, cur, hist)
               kept == mixed_hist(m, hit, cur, hist) IN
           /\ next \in {"None", "mild_determ", "determ", "random", "list"}
           /\ kept \in {hist, << >>}
           /\ AtMost(5, hit) => next = "mild_determ"
           /\ next # cur /\ next \in {"determ", "random"} /\ m >= 40 => kept = << >>
           /\ next # cur /\ cur \in {"determ", "random"} /\ m >= 40 /\ ~AtMost(5, hit) =>
                Len(hist) = 4
           /\ next = cur /\ m >= 40 /\ ~AtMost(5, hit) => kept = hist
    <1> DEFINE next == MixedMethod(m, hit, cur, hist)
               kept == mixed_hist(m, hit, cur, hist)
    <1>1. CASE AtMost(5, hit)
        <2>1. next = "mild_determ" /\ kept = hist
            BY <1>1 DEF MixedMethod, mixed_hist, Adapts
        <2>2. QED
            BY <1>1, <2>1
    <1>2. CASE ~AtMost(5, hit) /\ m < 40
        <2>1. ~Adapts(m, hit) /\ (m \in 7..39 \/ m < 7)
            BY <1>2 DEF Adapts
        <2>2. kept = hist
            BY <2>1 DEF mixed_hist
        <2>3. next \in {"random", "list"}
            <3>1. m \in 7..39 => next = "random"
                BY <1>2, <2>1 DEF MixedMethod
            <3>2. m < 7 => next = "list"
                BY <1>2, <2>1 DEF MixedMethod
            <3>3. QED
                BY <2>1, <3>1, <3>2
        <2>4. QED
            BY <1>2, <2>2, <2>3
    <1>3. CASE ~AtMost(5, hit) /\ m >= 40
        <2>1. Adapts(m, hit)
            BY <1>3 DEF Adapts
        <2>2. /\ next = resolve_strategy(cur, hist)
              /\ kept = IF Clears(cur, hist) THEN << >> ELSE hist
            BY <1>3, <2>1 DEF MixedMethod, mixed_hist
        <2>3. CASE cur = "None"
            <3>1. next = "mild_determ" /\ kept = hist
                BY <2>2, <2>3 DEF resolve_strategy, Clears
            <3>2. QED
                BY <1>3, <2>3, <3>1
        <2>4. CASE cur # "None" /\ Stalls(hist)
            <3>1. next = NextMethod[cur] /\ kept = << >> /\ Len(hist) = 4
                BY <2>2, <2>4 DEF resolve_strategy, Clears, Stalls
            <3>2. next \in {"None", "determ", "random"} /\ next # cur
                BY <2>4, <3>1 DEF NextMethod
            <3>3. QED
                BY <1>3, <2>4, <3>1, <3>2
        <2>5. CASE cur # "None" /\ ~Stalls(hist)
            <3>1. next = cur /\ kept = hist
                BY <2>2, <2>5 DEF resolve_strategy, Clears
            <3>2. QED
                BY <1>3, <2>5, <3>1
        <2>6. QED
            BY <2>3, <2>4, <2>5
    <1>4. QED
        BY <1>1, <1>2, <1>3

LEMMA InitExperimentInv == Init => ExperimentInv
    <1> SUFFICES ASSUME Init PROVE ExperimentInv
        OBVIOUS
    <1>1. experiment \in Experiments /\ plan \in Nat
        BY PlanIsNat DEF Init
    <1>2. << >> \in Seq(Int) /\ Len(<< >>) = 0
        OBVIOUS
    <1>3. adas_cov_hist = << >>
        BY DEF Init
    <1>4. SamplingTypes
        <2>1. adas_cov_hist \in Seq(Int) /\ Len(adas_cov_hist) = 0
            BY <1>2, <1>3
        <2>2. cur_sampling_method = "None" /\ uses = 0
            BY DEF Init
        <2>3. QED
            BY <2>1, <2>2 DEF SamplingTypes
    <1>5. CoverageKnown
        BY <1>1 DEF Init, CoverageKnown, Never
    <1>6. LastPromptKnown /\ AdaptiveUses
        BY DEF Init, LastPromptKnown, AdaptiveUses
    <1>7. QED
        BY <1>4, <1>5, <1>6 DEF ExperimentInv

\* A step that neither prompts nor restarts, and counts no bin.
LEMMA KeepsInv ==
    ASSUME ExperimentInv,
           UNCHANGED <<experiment, covered, told, samplingVars, prompted, uses>>
    PROVE  ExperimentInv'
    BY DEF ExperimentInv, SamplingTypes, CoverageKnown, LastPromptKnown, AdaptiveUses,
           AtMost, missed_bins, plan, samplingVars

LEMMA RestartInv ==
    ASSUME ExperimentInv, Restart
    PROVE  ExperimentInv'
    <1>1. LastPromptKnown'
        BY DEF Restart, LastPromptKnown, AfterReset
    <1>2. UNCHANGED <<experiment, covered, told, adas_cov_hist, cur_sampling_method, uses>>
        BY DEF Restart, programVars, serverVars
    <1>3. QED
        BY <1>1, <1>2 DEF ExperimentInv, SamplingTypes, CoverageKnown, AdaptiveUses, AtMost,
           missed_bins, plan

LEMMA ServeInv ==
    ASSUME ExperimentInv, NEW gain \in Gains, Serve(gain)
    PROVE  ExperimentInv'
    <1>1. plan \in Nat /\ experiment' = experiment /\ plan' = plan
        BY PlanIsNat DEF ExperimentInv, CoverageKnown, Serve, programVars, plan
    <1>2. UNCHANGED <<samplingVars, prompted, uses>>
        BY DEF Serve, promptVars
    <1>3. gain \in Nat
        BY <1>1 DEF Gains
    <1>4. covered \in 0..plan /\ told \in -1..covered /\ experiment \in Experiments
        BY DEF ExperimentInv, CoverageKnown
    <1>5. /\ covered' \in 0..plan
          /\ told' \in -1..covered'
          /\ told' >= told
        <2>1. CASE told' = covered' /\ covered' = IF covered + gain > plan THEN plan ELSE covered + gain
            BY <1>1, <1>3, <1>4, <2>1
        <2>2. CASE UNCHANGED <<covered, told>>
            BY <1>1, <1>4, <2>2
        <2>3. QED
            BY <2>1, <2>2 DEF Serve, serverVars
    <1>6. CoverageKnown'
        BY <1>1, <1>4, <1>5 DEF CoverageKnown
    <1>7. AdaptiveUses'
        <2>0. /\ told \in Int /\ told' \in Int /\ plan \in Int
              /\ plan' = plan /\ told <= told'
            BY <1>1, <1>4, <1>5
        <2>1. AtMost(5, told)' => AtMost(5, told)
            BY <2>0, FewerMissed DEF AtMost
        <2>2. missed_bins' >= 40 => missed_bins >= 40
            BY <2>0, FewerMissed DEF missed_bins
        <2>3. UNCHANGED <<cur_sampling_method, uses, adas_cov_hist>> /\ AdaptiveUses
            BY <1>2 DEF samplingVars, ExperimentInv
        <2>4. QED
            BY <2>1, <2>2, <2>3 DEF AdaptiveUses
    <1>8. SamplingTypes' /\ LastPromptKnown'
        BY <1>2 DEF ExperimentInv, SamplingTypes, LastPromptKnown, samplingVars
    <1>9. QED
        BY <1>6, <1>7, <1>8 DEF ExperimentInv

\* What a prompt does to the method and its history.
LEMMA PromptSampling ==
    ASSUME ExperimentInv, IterativePrompt
    PROVE  /\ adas_cov_hist' \in Seq(Int) /\ Len(adas_cov_hist') <= 4
           /\ cur_sampling_method' \in {"None", "mild_determ", "determ", "random", "list"}
           /\ AtMost(5, told) /\ cur_sampling_method' # cur_sampling_method =>
                cur_sampling_method' = "mild_determ"
           /\ cur_sampling_method' # cur_sampling_method
                /\ cur_sampling_method' \in {"determ", "random"} /\ missed_bins >= 40 =>
                Len(adas_cov_hist') = 0
           /\ cur_sampling_method' # cur_sampling_method
                /\ cur_sampling_method \in {"determ", "random"} /\ missed_bins >= 40 =>
                Len(adas_cov_hist) >= 3
           /\ Len(adas_cov_hist') <= Len(adas_cov_hist) + 1
    <1> DEFINE m == missed_bins
               cur == cur_sampling_method
               hist == adas_cov_hist
    <1>1. /\ hist \in Seq(Int) /\ Len(hist) <= 4
          /\ cur \in {"None", "mild_determ", "determ", "random", "list"}
          /\ told \in Int /\ m \in Int /\ Len(hist) \in Nat
          /\ cur \in {"determ", "random"} => ~AtMost(5, told)
        BY PlanIsNat
        DEF ExperimentInv, SamplingTypes, CoverageKnown, AdaptiveUses, missed_bins
    <1>2. << >> \in Seq(Int) /\ Len(<< >>) = 0
        OBVIOUS
    <1>3. CASE method = "MIXED"
        <2> DEFINE new == Append4(hist, told)
        <2>1. /\ new \in Seq(Int)
              /\ Len(new) = IF Len(hist) < 4 THEN Len(hist) + 1 ELSE 4
            BY <1>1, HistoryGrows
        <2>2. /\ hist' = mixed_hist(m, told, cur, new)
              /\ cur' = MixedMethod(m, told, cur, new)
            BY <1>3 DEF IterativePrompt, MethodNow, HistNow
        <2> HIDE DEF new, m, cur, hist
        <2>3. /\ cur' \in {"None", "mild_determ", "determ", "random", "list"}
              /\ hist' \in {new, << >>}
              /\ AtMost(5, told) => cur' = "mild_determ"
              /\ cur' # cur /\ cur' \in {"determ", "random"} /\ m >= 40 => hist' = << >>
              /\ cur' # cur /\ cur \in {"determ", "random"} /\ m >= 40 /\ ~AtMost(5, told) =>
                   Len(new) = 4
            BY <1>1, <2>2, MethodChanges
        <2>4. hist' \in Seq(Int) /\ Len(hist') <= 4 /\ Len(hist') <= Len(hist) + 1
            <3>1. CASE hist' = new
                BY <1>1, <2>1, <3>1 DEF hist
            <3>2. CASE hist' = << >>
                BY <1>1, <1>2, <3>2 DEF hist
            <3>3. QED
                BY <2>3, <3>1, <3>2
        <2>5. cur' # cur /\ cur' \in {"determ", "random"} /\ m >= 40 => Len(hist') = 0
            BY <1>2, <2>3
        <2>6. cur' # cur /\ cur \in {"determ", "random"} /\ m >= 40 => Len(hist) >= 3
            BY <1>1, <2>1, <2>3
        <2>7. QED
            BY <2>3, <2>4, <2>5, <2>6 DEF m, cur, hist
    <1>4. CASE method # "MIXED"
        <2>1. hist' = << >> /\ cur' = cur
            BY <1>4 DEF IterativePrompt, MethodNow, HistNow
        <2>2. hist' \in Seq(Int) /\ Len(hist') = 0
            BY <1>2, <2>1
        <2>3. QED
            BY <1>1, <2>1, <2>2
    <1>5. QED
        BY <1>3, <1>4

LEMMA PromptInv ==
    ASSUME ExperimentInv, IterativePrompt
    PROVE  ExperimentInv'
    <1>1. /\ UNCHANGED <<experiment, covered, told>>
          /\ prev_coverage' = told /\ prompted' = told
          /\ uses' = IF MethodNow # cur_sampling_method THEN 1
                     ELSE IF MethodNow = "None" \/ uses = 4 THEN uses ELSE uses + 1
          /\ cur_sampling_method' = MethodNow
        BY DEF IterativePrompt, programVars, serverVars
    <1>2. plan' = plan /\ missed_bins' = missed_bins
        BY <1>1 DEF plan, missed_bins
    <1>3. uses \in 0..4 /\ uses' \in 0..4 /\ adas_cov_hist \in Seq(Int)
        BY <1>1 DEF ExperimentInv, SamplingTypes
    <1>4. SamplingTypes'
        BY <1>3, PromptSampling DEF SamplingTypes
    <1>5. CoverageKnown' /\ LastPromptKnown'
        BY <1>1, <1>2 DEF ExperimentInv, CoverageKnown, LastPromptKnown
    <1>6. AdaptiveUses'
        <2>1. SUFFICES ASSUME cur_sampling_method' \in {"determ", "random"}
                       PROVE  /\ ~AtMost(5, told)
                              /\ missed_bins >= 40 => uses' = 4 \/ uses' > Len(adas_cov_hist')
            BY <1>1, <1>2 DEF AdaptiveUses, AtMost
        <2>2. CASE cur_sampling_method' # cur_sampling_method
            <3>1. uses' = 1 /\ ~AtMost(5, told)
                BY <1>1, <2>1, <2>2, PromptSampling
            <3>2. missed_bins >= 40 => Len(adas_cov_hist') = 0
                BY <2>1, <2>2, PromptSampling
            <3>3. QED
                BY <3>1, <3>2
        <2>3. CASE cur_sampling_method' = cur_sampling_method
            <3>1. /\ ~AtMost(5, told)
                  /\ missed_bins >= 40 => uses = 4 \/ uses > Len(adas_cov_hist)
                BY <2>1, <2>3 DEF ExperimentInv, AdaptiveUses
            <3>2. uses' = IF uses = 4 THEN 4 ELSE uses + 1
                BY <1>1, <2>1, <2>3
            <3>3. /\ Len(adas_cov_hist') <= Len(adas_cov_hist) + 1
                  /\ Len(adas_cov_hist) \in Nat /\ Len(adas_cov_hist') \in Nat
                BY <1>3, PromptSampling
            <3>4. QED
                BY <1>3, <3>1, <3>2, <3>3
        <2>4. QED
            BY <2>2, <2>3
    <1>7. QED
        BY <1>4, <1>5, <1>6 DEF ExperimentInv

\* No other step prompts, restarts a dialogue or counts a bin.
LEMMA OtherSteps ==
    ASSUME \/ Build \/ GoOn \/ Leave \/ SendRandom \/ SendOpening \/ SendBuffered
           \/ InitialPrompt \/ IterativePromptFails \/ Respond \/ UNCHANGED vars
    PROVE  /\ UNCHANGED <<experiment, covered, told, samplingVars, prompted, uses>>
           /\ prompt' = prompt \/ prompt' = NoPrompt
    BY DEF Build, GoOn, Leave, SendRandom, SendOpening, SendBuffered, InitialPrompt,
           IterativePromptFails, Respond, vars, programVars, serverVars, promptVars

LEMMA ExperimentInvariant == Spec => []ExperimentInv
    <1>1. ExperimentInv /\ [Next]_vars => ExperimentInv'
        BY ServeInv, RestartInv, PromptInv, OtherSteps, KeepsInv DEF Next, Ended
    <1>2. QED
        BY InitExperimentInv, <1>1, PTL DEF Spec

-----------------------------------------------------------------------------
\* prev_coverage of the prompt generator, which a restart clears: a prompt says that no
\* new bin was hit just if the last prompt of its own dialogue knew of as many.
THEOREM SaysNoNewHit == Spec => NoNewHit
    <1> DEFINE P == prompt' # prompt /\ prompt' # NoPrompt =>
                       (prompt'.no_new_hit <=> told = prompted)
    <1>1. ASSUME ExperimentInv, IterativePrompt PROVE P
        <2>1. prompt'.no_new_hit = (told = prev_coverage)
            BY <1>1 DEF IterativePrompt
        <2>2. prev_coverage = prompted
            BY <1>1 DEF ExperimentInv, LastPromptKnown
        <2>3. QED
            BY <2>1, <2>2
    <1>2. (\E gain \in Gains : Serve(gain)) \/ Restart => P
        BY DEF Serve, Restart, promptVars
    <1>3. ExperimentInv /\ [Next]_vars => [P]_vars
        BY <1>1, <1>2, OtherSteps DEF Next, Ended
    <1>4. QED
        BY <1>3, ExperimentInvariant, PTL DEF Spec, NoNewHit

\* resolve_strategy and the history it clears: while many bins are missed, neither of
\* the two adaptive methods gives way to the other before its fifth prompt.
THEOREM TriedBeforeChange == Spec => Patience
    <1> DEFINE P == /\ {cur_sampling_method, cur_sampling_method'} = {"determ", "random"}
                    /\ missed_bins >= 40
                    => uses >= 4
    <1>1. ASSUME ExperimentInv, IterativePrompt PROVE P
        <2>1. SUFFICES ASSUME cur_sampling_method' # cur_sampling_method,
                              cur_sampling_method \in {"determ", "random"},
                              missed_bins >= 40
                       PROVE  uses >= 4
            OBVIOUS
        <2>2. Len(adas_cov_hist) >= 3 /\ Len(adas_cov_hist) \in Nat
            BY <1>1, <2>1, PromptSampling DEF ExperimentInv, SamplingTypes
        <2>3. uses \in 0..4 /\ (uses = 4 \/ uses > Len(adas_cov_hist))
            BY <1>1, <2>1 DEF ExperimentInv, SamplingTypes, AdaptiveUses
        <2>4. QED
            BY <2>2, <2>3
    <1>2. UNCHANGED cur_sampling_method => P
        OBVIOUS
    <1>3. (\E gain \in Gains : Serve(gain)) \/ Restart => UNCHANGED cur_sampling_method
        BY DEF Serve, Restart, samplingVars
    <1>4. ExperimentInv /\ [Next]_vars => [P]_vars
        BY <1>1, <1>2, <1>3, OtherSteps DEF Next, Ended, samplingVars
    <1>5. QED
        BY <1>4, ExperimentInvariant, PTL DEF Spec, Patience
-----------------------------------------------------------------------------
(* What a run needs to go on: its samplings, its stimuli and its replies.  *)

\* Build lets no other method pass.
MethodKnown ==
    /\ method \in experiment.methods
    /\ pc \notin {"build", "ended"} => method \in Methods \cup {"none"}

\* Less and less is missed: the mixed method does not adapt again.
ListWhenFew == cur_sampling_method = "list" => missed_bins < 7

PlanDescribed == undescribed \in {0, Undescribed[experiment.design]}

\* Stimuli of the length that the design of e reads, within the bounds of its filter.
Fitting(e) ==
    { v \in Seq({"in", "edge", "low", "high", "word", "zero"}) :
        /\ Len(v) \in {Len(e.opening), Len(e.bounds)}
        /\ \A j \in DOMAIN v : v[j] \in {"in", "edge", "zero"} \/ e.bounds[j] = "free" }

StimuliKnown ==
    experiment.kind = "main" =>
        /\ stimuli_buffer \in Seq(Fitting(experiment))
        /\ pc = "sent" => stimulus \in Fitting(experiment)

RunInv ==
    /\ MethodKnown
    /\ ListWhenFew
    /\ PlanDescribed
    /\ StimuliKnown
    /\ ShownEnough
    /\ MainsRun

-----------------------------------------------------------------------------
(* The samplings, over numbers of missed bins.                             *)

LEMMA SamplesShow ==
    ASSUME NEW m \in Nat, NEW c
    PROVE  /\ Shown(EveryBin(m)) = m
           /\ Shown(sample_determ(m)) \in 5..7
           /\ Shown(sample_mild_determ(m, c)) \in 5..7
           /\ Shown(sample_random(m)) = 7
    <1> DEFINE n == FirstTwo(m)
    <1>1. n \in 0..2
        BY DEF FirstTwo
    <1>2. Shown(EveryBin(m)) = m + 0 + 0
        BY DEF Shown, EveryBin, Sample, NoDraw, Draw
    <1>3. Shown(sample_determ(m)) = n + 5 + 0
        BY DEF Shown, sample_determ, Sample, NoDraw, Draw
    <1>4. Shown(sample_mild_determ(m, c)) = n + 3 + 2
        BY DEF Shown, sample_mild_determ, Sample, Draw
    <1>5. Shown(sample_random(m)) = 0 + 7 + 0
        BY DEF Shown, sample_random, Sample, NoDraw, Draw
    <1> HIDE DEF n
    <1>6. QED
        BY <1>1, <1>2, <1>3, <1>4, <1>5

LEMMA RandomSample ==
    ASSUME NEW m \in Nat
    PROVE  /\ Shown(sample_missed_bins_RANDOM(m)) \in 0..7
           /\ \/ Shown(sample_missed_bins_RANDOM(m)) >= m
              \/ Shown(sample_missed_bins_RANDOM(m)) >= 5
           /\ ~Raises(sample_missed_bins_RANDOM(m))
    <1> DEFINE sample == sample_missed_bins_RANDOM(m)
    <1>1. CASE m >= 40
        <2>1. sample = Sample(0, Draw(7, m), NoDraw)
            BY <1>1 DEF sample_missed_bins_RANDOM
        <2>2. Shown(sample) = 0 + 7 + 0 /\ (Raises(sample) <=> 7 > m \/ 0 > 0)
            BY <2>1 DEF Shown, Raises, Sample, NoDraw, Draw
        <2>3. QED
            BY <1>1, <2>2
    <1>2. CASE m \in 5..39
        <2>1. sample = Sample(0, Draw(5, m), NoDraw)
            BY <1>2 DEF sample_missed_bins_RANDOM
        <2>2. Shown(sample) = 0 + 5 + 0 /\ (Raises(sample) <=> 5 > m \/ 0 > 0)
            BY <2>1 DEF Shown, Raises, Sample, NoDraw, Draw
        <2>3. QED
            BY <1>2, <2>2
    <1>3. CASE m < 5
        <2>1. sample = Sample(m, Draw(0, 0), Draw(0, 0))
            BY <1>3 DEF sample_missed_bins_RANDOM, EveryBin, NoDraw
        <2>2. Shown(sample) = m + 0 + 0 /\ (Raises(sample) <=> 0 > 0)
            BY <2>1 DEF Shown, Raises, Sample, Draw
        <2>3. QED
            BY <1>3, <2>2
    <1>4. QED
        BY <1>1, <1>2, <1>3

LEMMA UniversalSample ==
    ASSUME NEW m \in Nat, NEW hit \in Nat, NEW c
    PROVE  LET shown == Shown(sample_missed_bins_Universal(m, hit, c))
           IN  shown \in 0..7 /\ (shown >= m \/ shown >= 5)
    <1> DEFINE sample == sample_missed_bins_Universal(m, hit, c)
    <1>1. CASE m >= 40 /\ AtMost(20, hit)
        <2>1. sample = sample_mild_determ(m, c)
            BY <1>1 DEF sample_missed_bins_Universal
        <2>2. QED
            BY <2>1, SamplesShow
    <1>2. CASE (m >= 40 /\ ~AtMost(20, hit)) \/ m \in 8..39
        <2>1. sample = sample_determ(m)
            BY <1>2 DEF sample_missed_bins_Universal
        <2>2. QED
            BY <2>1, SamplesShow
    <1>3. CASE m < 8
        <2>1. sample = EveryBin(m)
            BY <1>3 DEF sample_missed_bins_Universal
        <2>2. QED
            BY <1>3, <2>1, SamplesShow
    <1>4. QED
        BY <1>1, <1>2, <1>3

\* A deterministic sampling of eight bins or more raises nothing, and with a cutoff
\* well below the number of missed bins the mild one does not either.
LEMMA UniversalDraws ==
    ASSUME NEW m \in Nat, NEW hit \in Nat, NEW c \in Nat, c >= 5,
           m >= 40 /\ AtMost(20, hit) => m >= c + 2
    PROVE  ~Raises(sample_missed_bins_Universal(m, hit, c))
    <1> DEFINE sample == sample_missed_bins_Universal(m, hit, c)
               easy == IF m < c THEN m ELSE c
    <1>1. CASE m >= 40 /\ AtMost(20, hit)
        <2>1. sample = sample_mild_determ(m, c)
            BY <1>1 DEF sample_missed_bins_Universal
        <2>2. FirstTwo(m) = 2 /\ easy = c
            BY <1>1 DEF FirstTwo
        <2>3. Raises(sample) <=> 3 > c - 2 \/ 2 > m - c
            BY <2>1, <2>2 DEF Raises, sample_mild_determ, Sample, Draw
        <2>4. QED
            BY <1>1, <2>3
    <1>2. CASE (m >= 40 /\ ~AtMost(20, hit)) \/ m \in 8..39
        <2>1. sample = sample_determ(m)
            BY <1>2 DEF sample_missed_bins_Universal
        <2>2. FirstTwo(m) = 2 /\ m >= 8
            BY <1>2 DEF FirstTwo
        <2>3. Raises(sample) <=> 5 > m - 2 \/ 0 > 0
            BY <2>1, <2>2 DEF Raises, sample_determ, Sample, NoDraw, Draw
        <2>4. QED
            BY <2>2, <2>3
    <1>3. CASE m < 8
        <2>1. sample = EveryBin(m)
            BY <1>3 DEF sample_missed_bins_Universal
        <2>2. Raises(sample) <=> 0 > 0
            BY <2>1 DEF Raises, EveryBin, Sample, NoDraw, Draw
        <2>3. QED
            BY <2>2
    <1>4. QED
        BY <1>1, <1>2, <1>3

\* The mixed method always has a sampling to go to: it lists few bins only.
LEMMA MixedSamples ==
    ASSUME NEW m \in Nat, NEW hit \in Int, NEW hist,
           NEW cur \in {"None", "mild_determ", "determ", "random", "list"},
           cur = "list" => m < 7
    PROVE  LET next == MixedMethod(m, hit, cur, hist) IN
           /\ next \in {"mild_determ", "determ", "random", "list"}
           /\ next = "list" => m < 7
    <1> DEFINE next == MixedMethod(m, hit, cur, hist)
    <1>1. CASE AtMost(5, hit)
        <2>1. next = "mild_determ"
            BY <1>1 DEF MixedMethod, Adapts
        <2>2. QED
            BY <2>1
    <1>2. CASE ~AtMost(5, hit) /\ m < 40
        <2>1. ~Adapts(m, hit) /\ (m \in 7..39 \/ m < 7)
            BY <1>2 DEF Adapts
        <2>2. m \in 7..39 => next = "random"
            BY <1>2, <2>1 DEF MixedMethod
        <2>3. m < 7 => next = "list"
            BY <1>2, <2>1 DEF MixedMethod
        <2>4. QED
            BY <2>1, <2>2, <2>3
    <1>3. CASE ~AtMost(5, hit) /\ m >= 40
        <2>1. Adapts(m, hit) /\ cur # "list"
            BY <1>3 DEF Adapts
        <2>2. next = resolve_strategy(cur, hist)
            BY <1>3, <2>1 DEF MixedMethod
        <2>3. CASE cur = "None"
            BY <2>2, <2>3 DEF resolve_strategy
        <2>4. CASE cur # "None" /\ Stalls(hist)
            <3>1. next = NextMethod[cur]
                BY <2>2, <2>4 DEF resolve_strategy
            <3>2. QED
                BY <2>1, <2>4, <3>1 DEF NextMethod
        <2>5. CASE cur # "None" /\ ~Stalls(hist)
            <3>1. next = cur
                BY <2>2, <2>5 DEF resolve_strategy
            <3>2. QED
                BY <2>1, <2>5, <3>1
        <2>6. QED
            BY <2>3, <2>4, <2>5
    <1>4. QED
        BY <1>1, <1>2, <1>3

LEMMA MixedShows ==
    ASSUME NEW m \in Nat, NEW name \in {"mild_determ", "determ", "random", "list"},
           name = "list" => m < 7, NEW c
    PROVE  LET shown == Shown(SampleBy(name, m, c))
           IN  shown \in 0..7 /\ (shown >= m \/ shown >= 5)
    <1>1. name = "mild_determ" => SampleBy(name, m, c) = sample_mild_determ(m, c)
        BY DEF SampleBy
    <1>2. name = "determ" => SampleBy(name, m, c) = sample_determ(m)
        BY DEF SampleBy
    <1>3. name = "random" => SampleBy(name, m, c) = sample_random(m)
        BY DEF SampleBy
    <1>4. name = "list" => SampleBy(name, m, c) = EveryBin(m)
        BY DEF SampleBy
    <1>5. QED
        BY <1>1, <1>2, <1>3, <1>4, SamplesShow

-----------------------------------------------------------------------------
(* The clients, for every design.                                          *)

MainClients == {main_FT, main_WB, main_AF, main_SDRAM, main_SD, main_ID, main_IC, main_MC}

LEMMA MainIsMain ==
    ASSUME NEW e \in Experiments, e.kind = "main"
    PROVE  e \in MainClients
    <1>1. e \in MainClients \/ e.kind \in {"random", "other"}
        <2>1. \A x \in {random_FT, random_WB, random_AF, random_SDRAM, random_SD, random_ID,
                        random_IC, random_MC} : x.kind = "random"
            BY DEF random_FT, random_WB, random_AF, random_SDRAM, random_SD, random_ID,
                   random_IC, random_MC, Scripted
        <2>2. \A x \in {main_llama2_ID, budget_experiment_ID, budget_experiment_IC} :
                 x.kind = "other"
            BY DEF main_llama2_ID, budget_experiment_ID, budget_experiment_IC, main_ID,
                   main_IC
        <2>3. QED
            BY <2>1, <2>2 DEF Experiments, MainClients
    <1>2. QED
        BY <1>1

\* Whatever the prompt generator is asked for: the random agents ask for nothing.
LEMMA OthersAskToo ==
    ASSUME NEW e \in Experiments, e.kind # "random"
    PROVE  "none" \notin e.methods
    <1>1. \A x \in {random_FT, random_WB, random_AF, random_SDRAM, random_SD, random_ID,
                    random_IC, random_MC} : x.kind = "random"
        BY DEF random_FT, random_WB, random_AF, random_SDRAM, random_SD, random_ID,
               random_IC, random_MC, Scripted
    <1>2. \A x \in {main_llama2_ID, budget_experiment_ID, budget_experiment_IC} :
             "none" \notin x.methods
        <2>1. main_llama2_ID.methods = {"IDNEWEST"}
            BY DEF main_llama2_ID, main_ID
        <2>2. budget_experiment_ID.methods = {"IDADANEW"}
            BY DEF budget_experiment_ID, main_llama2_ID, main_ID
        <2>3. budget_experiment_IC.methods = {"ICNEWEST"}
            BY DEF budget_experiment_IC, main_IC
        <2>4. QED
            BY <2>1, <2>2, <2>3
    <1>3. \A x \in MainClients : "none" \notin x.methods
        BY DEF MainClients, main_FT, main_WB, main_AF, main_SDRAM, main_SD, main_ID, main_IC,
               main_MC, Methods
    <1>4. QED
        BY <1>1, <1>2, <1>3 DEF Experiments, MainClients

Ints == Seq({"in", "edge", "low", "high", "word", "zero"})

\* What the server of a main experiment reads of a value is there in each that is sent.
LEMMA MainSends ==
    ASSUME NEW e \in MainClients
    PROVE  /\ e.methods = Methods
           /\ e.cutoff \in Nat /\ e.cutoff >= 5
           /\ e.opening \in Ints /\ e.leaving \in Ints
           /\ \A j \in DOMAIN e.opening : e.opening[j] \in {"in", "zero"}
           /\ Len(e.bounds) \in 1..4
           /\ PartsRead[e.design] \in 0..Len(e.bounds)
           /\ PartsRead[e.design] <= Len(e.opening)
           /\ PartsRead[e.design] <= Len(e.leaving)
           /\ e.extractor = "Dumb" => Len(e.bounds) = 1
           /\ Takes(e.sender, reply_of[e.design])
    <1>1. CASE e = main_FT
        BY <1>1 DEF main_FT, Repeat, ZeroInt, NoValue, Ints, PartsRead, Takes, sender_FT,
           reply_of
    <1>2. CASE e = main_WB
        BY <1>2 DEF main_WB, Repeat, ZeroInt, NoValue, Ints, PartsRead, Takes, sender_WB,
           reply_of
    <1>3. CASE e = main_AF
        BY <1>3 DEF main_AF, Repeat, ZeroInt, NoValue, Ints, PartsRead, Takes, sender_AF,
           reply_of
    <1>4. CASE e = main_SDRAM
        BY <1>4 DEF main_SDRAM, Repeat, ZeroInt, NoValue, Ints, PartsRead, Takes, sender_SDRAM,
           reply_of
    <1>5. CASE e = main_SD
        BY <1>5 DEF main_SD, Repeat, ZeroInt, NoValue, Ints, PartsRead, Takes, sender_SD,
           reply_of
    <1>6. CASE e = main_ID
        BY <1>6 DEF main_ID, Repeat, ZeroInt, NoValue, Ints, PartsRead, Takes, sender_ID,
           reply_of
    <1>7. CASE e = main_IC
        BY <1>7 DEF main_IC, Repeat, ZeroInt, NoValue, Ints, PartsRead, Takes, sender_IC,
           reply_of
    <1>8. CASE e = main_MC
        BY <1>8 DEF main_MC, Repeat, ZeroInt, NoValue, Ints, PartsRead, Takes, sender_MC,
           reply_of
    <1>9. QED
        BY <1>1, <1>2, <1>3, <1>4, <1>5, <1>6, <1>7, <1>8 DEF MainClients

-----------------------------------------------------------------------------
(* Answers and stimuli.                                                    *)

Parts == {"in", "low", "high", "word"}

\* Of n = 1, 2, 3 or 4 parts a stimulus.
LEMMA ExtractedPlace ==
    ASSUME NEW n \in 1..4, NEW len \in Nat, NEW i \in 1..(len \div n), NEW j \in 1..n
    PROVE  (i - 1) * n + j \in 1..len
    <1>1. CASE n = 1
        BY <1>1
    <1>2. CASE n = 2
        BY <1>2
    <1>3. CASE n = 3
        BY <1>3
    <1>4. CASE n = 4
        BY <1>4
    <1>5. QED
        BY <1>1, <1>2, <1>3, <1>4

LEMMA WithinBounds ==
    ASSUME NEW part \in Parts, NEW bound
    PROVE  /\ FilteredPart(part, bound) \in {"in", "edge", "low", "high", "word", "zero"}
           /\ FilteredPart(part, bound) \in {"in", "edge", "zero"} \/ bound = "free"
    <1>1. bound = "free" => FilteredPart(part, bound) = part
        BY DEF FilteredPart
    <1>2. bound # "free" /\ part = "word" => FilteredPart(part, bound) = "zero"
        BY DEF FilteredPart
    <1>3. bound # "free" /\ part \in {"low", "high"} => FilteredPart(part, bound) = "edge"
        BY DEF FilteredPart
    <1>4. bound # "free" /\ part = "in" => FilteredPart(part, bound) = "in"
        BY DEF FilteredPart
    <1>5. QED
        BY <1>1, <1>2, <1>3, <1>4 DEF Parts

LEMMA UniversalStimuli ==
    ASSUME NEW e, Len(e.bounds) \in 1..4, NEW parts \in Seq(Parts)
    PROVE  UniversalFilter(UniversalExtractor(parts, Len(e.bounds)), e.bounds)
             \in Seq(Fitting(e))
    <1> DEFINE stimuli == UniversalExtractor(parts, Len(e.bounds))
               filtered == UniversalFilter(stimuli, e.bounds)
    <1>1. PICK n \in 1..4 : n = Len(e.bounds)
        OBVIOUS
    <1>2. PICK len \in Nat : len = Len(parts)
        OBVIOUS
    <1>3. PICK k \in Nat : k = len \div n
        <2>1. len \div n \in Nat
            OBVIOUS
        <2>2. QED
            BY <2>1
    <1>4. stimuli = [i \in 1..k |-> [j \in 1..n |-> parts[(i - 1) * n + j]]]
        BY <1>1, <1>2, <1>3 DEF UniversalExtractor
    <1> HIDE DEF stimuli
    <1>5. /\ filtered = [i \in 1..k |-> filtered[i]]
          /\ \A i \in 1..k : filtered[i] = [j \in 1..n |-> FilteredPart(stimuli[i][j], e.bounds[j])]
        BY <1>4 DEF UniversalFilter
    <1>6. ASSUME NEW i \in 1..k PROVE filtered[i] \in Fitting(e)
        <2>1. \A j \in 1..n : stimuli[i][j] \in Parts
            <3>1. SUFFICES ASSUME NEW j \in 1..n PROVE stimuli[i][j] \in Parts
                OBVIOUS
            <3>2. stimuli[i][j] = parts[(i - 1) * n + j]
                BY <1>4
            <3>3. PICK at \in 1..len : at = (i - 1) * n + j
                BY <1>3, ExtractedPlace
            <3>4. parts[at] \in Parts
                BY <1>2
            <3>5. QED
                BY <3>2, <3>3, <3>4
        <2> DEFINE v == filtered[i]
        <2>2. v = [j \in 1..n |-> FilteredPart(stimuli[i][j], e.bounds[j])]
            BY <1>5
        <2> HIDE DEF v
        <2>3. \A j \in 1..n :
                 /\ v[j] \in {"in", "edge", "low", "high", "word", "zero"}
                 /\ v[j] \in {"in", "edge", "zero"} \/ e.bounds[j] = "free"
            BY <2>1, <2>2, WithinBounds
        <2>4. v \in [1..n -> {"in", "edge", "low", "high", "word", "zero"}]
            BY <2>2, <2>3
        <2>5. /\ v \in Seq({"in", "edge", "low", "high", "word", "zero"})
              /\ Len(v) = n /\ DOMAIN v = 1..n
            BY <2>4
        <2>6. v \in Fitting(e)
            BY <1>1, <2>3, <2>5 DEF Fitting
        <2>7. QED
            BY <2>6 DEF v
    <1> HIDE DEF filtered
    <1>7. filtered \in [1..k -> Fitting(e)]
        BY <1>5, <1>6
    <1>8. filtered \in Seq(Fitting(e))
        BY <1>7
    <1>9. QED
        BY <1>8 DEF filtered, stimuli

\* The numbers within bounds of an answer, for an experiment with stimuli of one part.
LEMMA DumbStimuli ==
    ASSUME NEW e, Len(e.bounds) = 1, NEW parts \in Seq(Parts),
           NEW stimuli \in InOrder(parts, Filter(parts, DumbExtractor(parts)))
    PROVE  stimuli \in Seq(Fitting(e))
    <1> DEFINE places == Filter(parts, DumbExtractor(parts))
    <1>1. places \subseteq 1..Len(parts) /\ \A i \in places : parts[i] \in {"in", "edge"}
        BY DEF Filter, DumbExtractor
    <1>2. IsFiniteSet(places) /\ Cardinality(places) \in Nat
        <2>1. IsFiniteSet(1..Len(parts))
            BY FS_Interval
        <2>2. QED
            BY <1>1, <2>1, FS_Subset, FS_CardinalityType
    <1>3. PICK n \in Nat : n = Cardinality(places)
        BY <1>2
    <1> HIDE DEF places
    <1>4. PICK o \in [1..n -> places] : stimuli = [i \in 1..n |-> <<parts[o[i]]>>]
        BY <1>3 DEF InOrder, places
    <1>5. ASSUME NEW i \in 1..n PROVE stimuli[i] \in Fitting(e)
        <2>1. PICK part \in {"in", "edge"} : part = parts[o[i]]
            BY <1>1, <1>4
        <2>2. stimuli[i] = <<part>>
            BY <1>4, <2>1
        <2>3. /\ <<part>> \in Seq({"in", "edge", "low", "high", "word", "zero"})
              /\ Len(<<part>>) = 1 /\ \A j \in DOMAIN <<part>> : <<part>>[j] = part
            OBVIOUS
        <2>4. <<part>> \in Fitting(e)
            BY <2>3 DEF Fitting
        <2>5. QED
            BY <2>2, <2>4
    <1>6. stimuli \in [1..n -> Fitting(e)]
        BY <1>4, <1>5
    <1>7. QED
        BY <1>6

-----------------------------------------------------------------------------
(* The steps of a run.                                                     *)

\* An agent that asks its model knows what is missed and how to sample it.
LEMMA AsksKnowing ==
    ASSUME ExperimentInv, RunInv, AsksModel
    PROVE  /\ told \in Nat /\ told <= plan /\ missed_bins \in Nat
           /\ method \in Methods
           /\ experiment \in Experiments
           /\ cur_sampling_method \in {"None", "mild_determ", "determ", "random", "list"}
           /\ cur_sampling_method = "list" => missed_bins < 7
    <1>1. experiment \in Experiments /\ plan \in Nat /\ covered \in 0..plan
            /\ told \in -1..covered /\ told # -1
        BY PlanIsNat DEF ExperimentInv, CoverageKnown, AsksModel, Never
    <1>2. told \in Nat /\ told <= plan /\ missed_bins \in Nat
        BY <1>1 DEF missed_bins
    <1>3. method \in experiment.methods /\ method \in Methods \cup {"none"}
        BY DEF RunInv, MethodKnown, AsksModel
    <1>4. method \in Methods
        BY <1>1, <1>3, OthersAskToo DEF AsksModel, IsMain
    <1>5. QED
        BY <1>1, <1>2, <1>4 DEF ExperimentInv, SamplingTypes, RunInv, ListWhenFew

LEMMA MixedKnows ==
    ASSUME ExperimentInv, RunInv, AsksModel, method = "MIXED"
    PROVE  /\ MethodNow \in {"mild_determ", "determ", "random", "list"}
           /\ MethodNow = "list" => missed_bins < 7
    <1>1. MethodNow = MixedMethod(missed_bins, told, cur_sampling_method, HistNow)
        BY DEF MethodNow
    <1>2. QED
        BY <1>1, AsksKnowing, MixedSamples

LEMMA SampleNowShows ==
    ASSUME ExperimentInv, RunInv, AsksModel
    PROVE  /\ Shown(SampleNow) \in 0..7
           /\ Shown(SampleNow) >= missed_bins \/ Shown(SampleNow) >= 5
    <1>1. CASE method = "RANDOM"
        <2>1. SampleNow = sample_missed_bins_RANDOM(missed_bins)
            BY <1>1 DEF SampleNow
        <2>2. QED
            BY <2>1, AsksKnowing, RandomSample
    <1>2. CASE method = "NEWEST"
        <2>1. SampleNow = sample_missed_bins_Universal(missed_bins, told, experiment.cutoff)
            BY <1>2 DEF SampleNow
        <2>2. QED
            BY <2>1, AsksKnowing, UniversalSample
    <1>3. CASE method = "MIXED"
        <2>1. SampleNow = SampleBy(MethodNow, missed_bins, experiment.cutoff)
            BY <1>3 DEF SampleNow
        <2>2. QED
            BY <1>3, <2>1, AsksKnowing, MixedKnows, MixedShows
    <1>4. QED
        BY <1>1, <1>2, <1>3, AsksKnowing DEF Methods

LEMMA InitRunInv == Init => RunInv
    <1> SUFFICES ASSUME Init PROVE RunInv
        OBVIOUS
    <1>1. << >> \in Seq(Fitting(experiment))
        OBVIOUS
    <1>2. MethodKnown /\ ListWhenFew /\ PlanDescribed /\ ShownEnough /\ MainsRun
        BY DEF Init, MethodKnown, ListWhenFew, PlanDescribed, ShownEnough, MainsRun
    <1>3. StimuliKnown
        BY <1>1 DEF Init, StimuliKnown
    <1>4. QED
        BY <1>2, <1>3 DEF RunInv

\* A step that neither counts bins, prompts, nor leads to a value that is sent, of a
\* program that goes on.
LEMMA KeepsRun ==
    ASSUME RunInv, UNCHANGED <<programVars, undescribed, told, cur_sampling_method, outcome,
                               stimuli_buffer>>,
           prompt' = prompt \/ prompt' = NoPrompt,
           pc' \notin {"sent", pc} => pc \notin {"build", "ended"},
           pc' = "sent" => pc = "sent" /\ stimulus' = stimulus
    PROVE  RunInv'
    <1>1. MethodKnown' /\ ListWhenFew' /\ PlanDescribed' /\ MainsRun' /\ ShownEnough'
        BY DEF RunInv, MethodKnown, ListWhenFew, PlanDescribed, MainsRun, ShownEnough,
               missed_bins, plan, programVars
    <1>2. StimuliKnown'
        BY DEF RunInv, StimuliKnown, programVars
    <1>3. QED
        BY <1>1, <1>2 DEF RunInv

LEMMA BuildRuns ==
    ASSUME ExperimentInv, RunInv, Build
    PROVE  RunInv'
    <1>1. UNCHANGED <<experiment, method, undescribed, told, cur_sampling_method,
                      stimuli_buffer, prompt>>
        BY DEF Build, programVars, serverVars, agentVars, samplingVars, promptVars
    <1>2. /\ pc' \in {"check", "ended"}
          /\ pc' = "check" => method \in Methods \cup {"none"}
          /\ method \in Methods => outcome' = outcome
        BY DEF Build, End
    <1>3. MethodKnown' /\ ListWhenFew' /\ PlanDescribed' /\ ShownEnough'
        BY <1>1, <1>2 DEF RunInv, MethodKnown, ListWhenFew, PlanDescribed, ShownEnough,
               missed_bins, plan
    <1>4. StimuliKnown'
        BY <1>1, <1>2 DEF RunInv, StimuliKnown
    <1>5. experiment.kind = "main" => method \in Methods
        BY MainIsMain, MainSends DEF ExperimentInv, CoverageKnown, RunInv, MethodKnown
    <1>6. MainsRun'
        BY <1>1, <1>2, <1>5 DEF RunInv, MainsRun
    <1>7. QED
        BY <1>3, <1>4, <1>6 DEF RunInv

\* What is sent is long enough.
LEMMA LongEnough ==
    ASSUME NEW e \in MainClients, NEW v \in Fitting(e)
    PROVE  Len(v) >= PartsRead[e.design]
    <1>1. /\ Len(v) \in {Len(e.opening), Len(e.bounds)}
          /\ PartsRead[e.design] \in Nat /\ Len(e.bounds) \in Nat
          /\ PartsRead[e.design] <= Len(e.opening) /\ PartsRead[e.design] <= Len(e.bounds)
        BY MainSends DEF Fitting
    <1>2. QED
        BY <1>1

LEMMA OpeningFits ==
    ASSUME NEW e \in MainClients
    PROVE  e.opening \in Fitting(e)
    BY MainSends DEF Fitting, Ints

LEMMA LeaveRuns ==
    ASSUME ExperimentInv, RunInv, Leave
    PROVE  RunInv'
    <1>1. UNCHANGED <<experiment, method, undescribed, told, cur_sampling_method,
                      stimuli_buffer, prompt>> /\ pc' = "ended"
        BY DEF Leave, End, programVars, serverVars, agentVars, samplingVars, promptVars
    <1>2. MethodKnown' /\ ListWhenFew' /\ PlanDescribed' /\ ShownEnough'
        BY <1>1 DEF RunInv, MethodKnown, ListWhenFew, PlanDescribed, ShownEnough,
               missed_bins, plan
    <1>3. StimuliKnown'
        BY <1>1 DEF RunInv, StimuliKnown
    <1>4. experiment.kind = "main" => outcome' = "finished"
        <2>1. SUFFICES ASSUME experiment.kind = "main" PROVE outcome' = "finished"
            OBVIOUS
        <2>2. Len(experiment.leaving) >= PartsRead[experiment.design]
            <3>1. PICK e \in MainClients : e = experiment
                BY <2>1, MainIsMain DEF ExperimentInv, CoverageKnown
            <3>2. /\ Len(e.leaving) \in Nat /\ PartsRead[e.design] \in Nat
                  /\ PartsRead[e.design] <= Len(e.leaving)
                BY MainSends DEF Ints
            <3>3. QED
                BY <3>1, <3>2
        <2>3. QED
            BY <2>2 DEF Leave, End, ServerTakes
    <1>5. MainsRun'
        BY <1>1, <1>4 DEF MainsRun
    <1>6. QED
        BY <1>2, <1>3, <1>5 DEF RunInv

LEMMA SendRuns ==
    ASSUME ExperimentInv, RunInv, SendRandom \/ SendOpening \/ SendBuffered
    PROVE  RunInv'
    <1>1. /\ UNCHANGED <<experiment, method, undescribed, told, cur_sampling_method, prompt,
                         outcome>>
          /\ pc = "generate" /\ pc' = "sent"
        BY DEF SendRandom, SendOpening, SendBuffered, Send, programVars, serverVars,
               samplingVars, promptVars
    <1>2. MethodKnown' /\ ListWhenFew' /\ PlanDescribed' /\ ShownEnough' /\ MainsRun'
        BY <1>1 DEF RunInv, MethodKnown, ListWhenFew, PlanDescribed, ShownEnough, MainsRun,
               missed_bins, plan
    <1>3. StimuliKnown'
        <2>1. SUFFICES ASSUME experiment.kind = "main"
                       PROVE  /\ stimuli_buffer' \in Seq(Fitting(experiment))
                              /\ stimulus' \in Fitting(experiment)
            BY <1>1 DEF StimuliKnown
        <2>2. PICK e \in MainClients : e = experiment
            BY <2>1, MainIsMain DEF ExperimentInv, CoverageKnown
        <2>3. stimuli_buffer \in Seq(Fitting(e))
            BY <2>1, <2>2 DEF RunInv, StimuliKnown
        <2>4. CASE SendOpening
            BY <2>2, <2>3, <2>4, OpeningFits DEF SendOpening, Send, agentVars
        <2>5. CASE SendBuffered
            <3>1. /\ stimuli_buffer # << >> /\ stimulus' = Head(stimuli_buffer)
                  /\ stimuli_buffer' = Tail(stimuli_buffer)
                BY <2>5 DEF SendBuffered, Send
            <3>2. PICK buffer \in Seq(Fitting(e)) : buffer = stimuli_buffer
                BY <2>3
            <3>3. buffer # << >> => Head(buffer) \in Fitting(e) /\ Tail(buffer) \in Seq(Fitting(e))
                OBVIOUS
            <3>4. QED
                BY <2>2, <3>1, <3>2, <3>3
        <2>6. CASE SendRandom
            BY <2>1, <2>6 DEF SendRandom, IsMain
        <2>7. QED
            BY <2>4, <2>5, <2>6
    <1>4. QED
        BY <1>2, <1>3 DEF RunInv

LEMMA ServeRuns ==
    ASSUME ExperimentInv, ExperimentInv', RunInv, NEW gain \in Gains, Serve(gain)
    PROVE  RunInv'
    <1>1. /\ UNCHANGED <<experiment, method, cur_sampling_method, stimuli_buffer, prompt>>
          /\ pc = "sent" /\ pc' \in {"check", "ended"}
        BY DEF Serve, End, programVars, agentVars, samplingVars, promptVars
    <1>2. MethodKnown' /\ ShownEnough'
        BY <1>1 DEF RunInv, MethodKnown, ShownEnough
    <1>3. StimuliKnown'
        BY <1>1 DEF RunInv, StimuliKnown
    <1>4. PlanDescribed'
        <2>1. undescribed' \in {0, undescribed}
            BY DEF Serve, serverVars
        <2>2. QED
            BY <1>1, <2>1 DEF RunInv, PlanDescribed
    <1>5. ListWhenFew'
        <2>1. /\ plan \in Nat /\ plan' = plan
              /\ covered \in 0..plan /\ told \in -1..covered /\ gain \in Nat
            BY <1>1, PlanIsNat DEF ExperimentInv, CoverageKnown, plan, Gains
        <2>2. PICK p \in Int, old \in Int, new \in Int :
                 p = plan /\ old = told /\ new = told' /\ old <= new
            <3>1. CASE /\ told' = covered'
                       /\ covered' = IF covered + gain > plan THEN plan ELSE covered + gain
                BY <2>1, <3>1
            <3>2. CASE UNCHANGED told
                BY <2>1, <3>2
            <3>3. QED
                BY <3>1, <3>2 DEF Serve, serverVars
        <2>3. p - old < 7 => p - new < 7
            BY <2>2, FewerMissed
        <2>4. QED
            BY <1>1, <2>1, <2>2, <2>3 DEF RunInv, ListWhenFew, missed_bins
    <1>6. experiment.kind = "main" => outcome' = outcome
        <2>1. SUFFICES ASSUME experiment.kind = "main" PROVE outcome' = outcome
            OBVIOUS
        <2>2. PICK e \in MainClients : e = experiment
            BY <2>1, MainIsMain DEF ExperimentInv, CoverageKnown
        <2>3. stimulus \in Fitting(e)
            BY <1>1, <2>1, <2>2 DEF RunInv, StimuliKnown
        <2>4. Len(stimulus) >= PartsRead[e.design] /\ Takes(e.sender, reply_of[e.design])
            BY <2>3, LongEnough, MainSends
        <2>5. QED
            BY <2>2, <2>4 DEF Serve, ServerTakes
    <1>7. MainsRun'
        BY <1>1, <1>6 DEF RunInv, MainsRun
    <1>8. QED
        BY <1>2, <1>3, <1>4, <1>5, <1>7 DEF RunInv

LEMMA PromptRuns ==
    ASSUME ExperimentInv, RunInv, IterativePrompt
    PROVE  RunInv'
    <1>1. /\ UNCHANGED <<experiment, method, undescribed, told, outcome, stimuli_buffer>>
          /\ AsksModel /\ pc = "generate" /\ pc' = "response"
          /\ cur_sampling_method' = MethodNow
          /\ prompt'.missed = missed_bins /\ prompt'.shown = Shown(SampleNow)
        BY DEF IterativePrompt, AsksModel, programVars, serverVars
    <1>2. MethodKnown' /\ PlanDescribed' /\ MainsRun'
        BY <1>1 DEF RunInv, MethodKnown, PlanDescribed, MainsRun
    <1>3. StimuliKnown'
        BY <1>1 DEF RunInv, StimuliKnown
    <1>4. ShownEnough'
        <2>1. Shown(SampleNow) \in 0..7
            BY <1>1, SampleNowShows
        <2>2. Shown(SampleNow) <= 7
            BY <2>1
        <2>3. QED
            BY <1>1, <2>2, SampleNowShows DEF ShownEnough
    <1>5. MethodNow = "list" => missed_bins < 7
        <2>1. CASE method = "MIXED"
            BY <1>1, <2>1, MixedKnows
        <2>2. CASE method # "MIXED"
            BY <1>1, <2>2, AsksKnowing DEF MethodNow
        <2>3. QED
            BY <2>1, <2>2
    <1>6. ListWhenFew'
        BY <1>1, <1>5 DEF ListWhenFew, missed_bins, plan
    <1>7. QED
        BY <1>2, <1>3, <1>4, <1>6 DEF RunInv

\* A main experiment, other than the decoder's and without the mixed method, samples
\* what it can, and has words for it.
LEMMA MainSamples ==
    ASSUME ExperimentInv, RunInv, AsksModel,
           experiment.kind = "main", experiment.design # "ID", method # "MIXED"
    PROVE  ~Raises(SampleNow) /\ undescribed = 0
    <1>1. PICK e \in MainClients : e = experiment
        BY MainIsMain, AsksKnowing
    <1>2. /\ Undescribed[e.design] = 0
          /\ plan < 40 \/ 19 * plan >= 20 * (e.cutoff + 2)
        BY <1>1, AsksKnowing, PlansAssumption DEF plan
    <1>3. undescribed = 0
        BY <1>1, <1>2 DEF RunInv, PlanDescribed
    <1>4. CASE method = "RANDOM"
        <2>1. SampleNow = sample_missed_bins_RANDOM(missed_bins)
            BY <1>4 DEF SampleNow
        <2>2. QED
            BY <1>3, <2>1, AsksKnowing, RandomSample
    <1>5. CASE method = "NEWEST"
        <2>1. SampleNow = sample_missed_bins_Universal(missed_bins, told, e.cutoff)
            BY <1>1, <1>5 DEF SampleNow
        <2>2. PICK c \in Nat : c = e.cutoff /\ c >= 5
            BY MainSends
        <2>3. PICK p \in Nat, hit \in Nat : p = plan /\ hit = told
            BY AsksKnowing, PlanIsNat
        <2>4. PICK m \in Nat : m = missed_bins /\ m = p - hit
            BY <2>3, AsksKnowing DEF missed_bins
        <2>5. m >= 40 /\ 20 * hit <= p => m >= c + 2
            BY <1>2, <2>2, <2>3, <2>4
        <2>6. m >= 40 /\ AtMost(20, hit) => m >= c + 2
            BY <2>3, <2>5 DEF AtMost
        <2>7. ~Raises(sample_missed_bins_Universal(m, hit, c))
            BY <2>2, <2>6, UniversalDraws
        <2>8. QED
            BY <1>3, <2>1, <2>2, <2>3, <2>4, <2>7
    <1>6. QED
        BY <1>4, <1>5, AsksKnowing DEF Methods

LEMMA PromptFailsRuns ==
    ASSUME ExperimentInv, RunInv, IterativePromptFails
    PROVE  RunInv'
    <1>1. /\ UNCHANGED <<experiment, method, undescribed, told, cur_sampling_method,
                         stimuli_buffer, prompt>>
          /\ pc' = "ended" /\ AsksModel
          /\ Raises(SampleNow) \/ undescribed > 0
        BY DEF IterativePromptFails, End, ShowsUndescribed, programVars, serverVars,
               agentVars, samplingVars, promptVars
    <1>2. MethodKnown' /\ ListWhenFew' /\ PlanDescribed' /\ ShownEnough'
        BY <1>1 DEF RunInv, MethodKnown, ListWhenFew, PlanDescribed, ShownEnough,
               missed_bins, plan
    <1>3. StimuliKnown'
        BY <1>1 DEF RunInv, StimuliKnown
    <1>4. ~(experiment.kind = "main" /\ method # "MIXED" /\ experiment.design # "ID")
        <2>1. undescribed = 0 => ~(undescribed > 0)
            OBVIOUS
        <2>2. QED
            BY <1>1, <2>1, MainSamples
    <1>5. MainsRun'
        BY <1>1, <1>4 DEF MainsRun
    <1>6. QED
        BY <1>2, <1>3, <1>5 DEF RunInv

LEMMA AnswersAreParts ==
    ASSUME NEW parts \in Answers, Len(experiment.bounds) \in Nat
    PROVE  parts \in Seq(Parts)
    <1>1. PICK n \in Nat : n = Len(experiment.bounds)
        OBVIOUS
    <1>2. parts \in { [i \in 1..k |-> IF i = odd THEN part ELSE "in"] :
                        k \in {1, n, n + 1}, odd \in 1..n, part \in Parts }
        BY <1>1 DEF Answers, Parts
    <1> PICK k \in {1, n, n + 1}, odd \in 1..n, part \in Parts :
           parts = [i \in 1..k |-> IF i = odd THEN part ELSE "in"]
        BY <1>2
    <1>3. parts \in [1..k -> Parts] /\ k \in Nat
        BY DEF Parts
    <1>4. QED
        BY <1>3

LEMMA RespondRuns ==
    ASSUME ExperimentInv, RunInv, Respond
    PROVE  RunInv'
    <1>1. /\ UNCHANGED <<experiment, method, undescribed, told, cur_sampling_method, outcome>>
          /\ prompt' = NoPrompt /\ pc = "response" /\ pc' = "generate"
        BY DEF Respond, programVars, serverVars, samplingVars
    <1>2. MethodKnown' /\ ListWhenFew' /\ PlanDescribed' /\ ShownEnough' /\ MainsRun'
        BY <1>1 DEF RunInv, MethodKnown, ListWhenFew, PlanDescribed, ShownEnough, MainsRun,
               missed_bins, plan
    <1>3. StimuliKnown'
        <2>1. SUFFICES ASSUME experiment.kind = "main"
                       PROVE  stimuli_buffer' \in Seq(Fitting(experiment))
            BY <1>1 DEF StimuliKnown
        <2>2. PICK e \in MainClients : e = experiment
            BY <2>1, MainIsMain DEF ExperimentInv, CoverageKnown
        <2>3. PICK parts \in Answers : \E stimuli \in StimuliOf(parts) :
                 stimuli_buffer' \in {<< >>, stimuli}
            BY DEF Respond
        <2> PICK stimuli \in StimuliOf(parts) : stimuli_buffer' \in {<< >>, stimuli}
            BY <2>3
        <2>4. Len(e.bounds) \in 1..4 /\ Len(e.bounds) \in Nat
            BY MainSends
        <2>5. parts \in Seq(Parts)
            BY <2>2, <2>4, AnswersAreParts
        <2>6. stimuli \in Seq(Fitting(e))
            <3>1. CASE e.extractor = "Dumb"
                <4>1. stimuli \in InOrder(parts, Filter(parts, DumbExtractor(parts)))
                    BY <2>2, <3>1 DEF StimuliOf
                <4>2. Len(e.bounds) = 1
                    BY <3>1, MainSends
                <4>3. QED
                    BY <2>5, <4>1, <4>2, DumbStimuli
            <3>2. CASE e.extractor # "Dumb"
                <4>1. stimuli = UniversalFilter(UniversalExtractor(parts, Len(e.bounds)),
                                                e.bounds)
                    BY <2>2, <3>2 DEF StimuliOf
                <4>2. QED
                    BY <2>4, <2>5, <4>1, UniversalStimuli
            <3>3. QED
                BY <3>1, <3>2
        <2>7. << >> \in Seq(Fitting(e))
            OBVIOUS
        <2>8. QED
            BY <2>2, <2>6, <2>7
    <1>4. QED
        BY <1>2, <1>3 DEF RunInv

LEMMA QuietRuns ==
    ASSUME RunInv, GoOn \/ Restart \/ InitialPrompt \/ UNCHANGED vars
    PROVE  RunInv'
    <1>1. /\ UNCHANGED <<programVars, undescribed, told, cur_sampling_method, outcome,
                         stimuli_buffer>>
          /\ prompt' = prompt
          /\ pc' \notin {"sent", pc} => pc \notin {"build", "ended"}
          /\ pc' = "sent" => pc = "sent" /\ stimulus' = stimulus
        BY DEF GoOn, Restart, InitialPrompt, AsksModel, vars, programVars, serverVars,
               agentVars, samplingVars, promptVars
    <1>2. QED
        BY <1>1, KeepsRun

LEMMA RunInvariant == Spec => []RunInv
    <1>1. ExperimentInv /\ ExperimentInv' /\ RunInv /\ [Next]_vars => RunInv'
        BY BuildRuns, LeaveRuns, SendRuns, ServeRuns, PromptRuns, PromptFailsRuns,
           RespondRuns, QuietRuns DEF Next, Ended
    <1>2. QED
        BY InitRunInv, <1>1, ExperimentInvariant, PTL DEF Spec

\* generate_iterative_prompt and its samplings: whatever the plan, the bins hit and the
\* rates before, the prompt shows five of the missed bins or all, and never over seven.
THEOREM EnoughIsShown == Spec => []ShownEnough
    <1>1. RunInv => ShownEnough
        BY DEF RunInv
    <1>2. QED
        BY <1>1, RunInvariant, PTL

\* The extractors and filters between a model and a server: a main experiment sends its
\* design stimuli of the length that it reads, within their bounds.
THEOREM StimuliAreFit == Spec => []StimuliFit
    <1>1. RunInv => StimuliFit
        BY DEF RunInv, StimuliKnown, StimuliFit, Fitting
    <1>2. QED
        BY <1>1, RunInvariant, PTL

\* A main experiment, but the decoder's and with the mixed method, only ends as its loop
\* leaves: no sampling raises, no bin lacks words, and client and server take what the
\* other one sends.
THEOREM MainsGoOn == Spec => []MainsRun
    <1>1. RunInv => MainsRun
        BY DEF RunInv
    <1>2. QED
        BY <1>1, RunInvariant, PTL
=============================================================================
