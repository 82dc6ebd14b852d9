----------------------------- MODULE Experiments -----------------------------
(***************************************************************************)
(* One experiment of a client: its loop (generate_stimulus.py), the prompt *)
(* generator with its samplings of the missed bins                         *)
(* (prompt_generators/prompt_generator_template.py), the extractors and    *)
(* filters of answers (stimuli_extractor.py, stimuli_filter.py), and the   *)
(* random agents (agents/agent_random.py).                                 *)
(*                                                                         *)
(* LLMAgent has the detail of the agent, the modules of the servers that   *)
(* of the designs: here a design hits some bins of its plan or none with   *)
(* the last stimulus of a message, and a dialogue may restart after each   *)
(* message (RestartPlans says when it does).                               *)
(***************************************************************************)
EXTENDS CoveragePlans, ExperimentClients

VARIABLES
    experiment, method,
    pc,             \* "build", "check", "generate", "response", "sent" or "ended"
    outcome,        \* how it ended
    covered,        \* bins hit, as the server counts them
    undescribed,    \* bins not hit for which the template has no words
    told,           \* bins hit, as the last reply has them
    stimulus,       \* on its way to the server
    dialogue,       \* state of the agent: INIT or ITER
    messages,       \* total_msg_cnt, or current_cycle of a random agent
    stimuli_buffer,
    gibberish,      \* f_ of the agent
    prev_coverage, adas_cov_hist, cur_sampling_method,
    prompt,         \* an iterative prompt, on its way to the model
    prompted,       \* history: bins hit at the last one of the dialogue
    uses            \* history: prompts with this method of sampling, up to four

programVars == <<experiment, method>>
serverVars == <<covered, undescribed>>
agentVars == <<dialogue, messages, stimuli_buffer, gibberish>>
samplingVars == <<prev_coverage, adas_cov_hist, cur_sampling_method>>
promptVars == <<prompt, prompted, uses>>
vars == <<programVars, pc, outcome, serverVars, told, stimulus, agentVars,
          samplingVars, promptVars>>

\* No reply, prompt or rate yet.
Never == -1

NoPrompt == [no_new_hit |-> FALSE, summary |-> "none", missed |-> 0, shown |-> 0]

\* Of a plan that the template of a main experiment describes, either few bins are
\* missed at most, or two beyond the cutoff with a twentieth of them hit.
ASSUME PlansAssumption ==
    \A e \in Experiments :
        /\ Bins[e.design] \in Nat
        /\ (e.kind = "main" /\ e.design # "ID") =>
             /\ Undescribed[e.design] = 0
             /\ \/ Bins[e.design] < 40
                \/ 19 * Bins[e.design] >= 20 * (e.cutoff + 2)

plan == Bins[experiment.design]

missed_bins == plan - told

-----------------------------------------------------------------------------
(* Sampling of m missed bins: the first ones, and those np.random.choice    *)
(* draws without replacement, k bins of n, near the first or far beyond.    *)

Draw(k, n) == [k |-> k, n |-> n]

NoDraw == Draw(0, 0)

Sample(first, near, far) == [first |-> first, near |-> near, far |-> far]

EveryBin(m) == Sample(m, NoDraw, NoDraw)

Raises(sample) == sample.near.k > sample.near.n \/ sample.far.k > sample.far.n

Shown(sample) == sample.first + sample.near.k + sample.far.k

AtMost(share, hit) == share * hit <= plan

FirstTwo(m) == IF m < 2 THEN m ELSE 2

sample_determ(m) == Sample(FirstTwo(m), Draw(5, m - FirstTwo(m)), NoDraw)

\* Three of the bins before the cutoff and two beyond it.
sample_mild_determ(m, easy_cutoff) ==
    LET easy == IF m < easy_cutoff THEN m ELSE easy_cutoff
    IN Sample(FirstTwo(m), Draw(3, easy - FirstTwo(m)), Draw(2, m - easy))

sample_random(m) == Sample(0, Draw(7, m), NoDraw)

\* Faulty: also few bins are sampled.
sample_missed_bins_RANDOM_Few(m) ==
    CASE m >= 40 -> Sample(0, Draw(7, m), NoDraw)
      [] m < 40  -> Sample(0, Draw(IF m < 5 THEN 1 ELSE 5, m), NoDraw)

sample_missed_bins_RANDOM(m) ==
    CASE m >= 40            -> Sample(0, Draw(7, m), NoDraw)
      [] m \in 5..39        -> Sample(0, Draw(5, m), NoDraw)
      [] m < 5              -> EveryBin(m)

\* The coverpoint type-based method.
sample_missed_bins_Universal(m, hit, easy_cutoff) ==
    CASE m >= 40 /\ AtMost(20, hit) -> sample_mild_determ(m, easy_cutoff)
      [] m >= 40 /\ ~AtMost(20, hit) -> sample_determ(m)
      [] m \in 8..39 -> sample_determ(m)
      [] m < 8 -> EveryBin(m)

epsilon == 3

\* Four rates are compared: no others are kept.
Append4(hist, hit) ==
    Append(IF Len(hist) < 4 THEN hist ELSE SubSeq(hist, 2, 4), hit)

Stalls(hist) == Len(hist) = 4 /\ hist[4] - hist[1] < epsilon

NextMethod == [mild_determ |-> "determ", random |-> "determ", determ |-> "random",
               list |-> "None"]

\* resolve_strategy, and whether it clears the history.
resolve_strategy(cur, hist) ==
    CASE cur = "None" -> "mild_determ"
      [] cur # "None" /\ Stalls(hist) -> NextMethod[cur]
      [] cur # "None" /\ ~Stalls(hist) -> cur

Clears(cur, hist) == cur # "None" /\ Stalls(hist)

Adapts(m, hit) == ~AtMost(5, hit) /\ m >= 40

MixedMethod(m, hit, cur, hist) ==
    CASE AtMost(5, hit) -> "mild_determ"
      [] Adapts(m, hit) -> resolve_strategy(cur, hist)
      [] ~AtMost(5, hit) /\ m \in 7..39 -> "random"
      [] ~AtMost(5, hit) /\ m < 7 -> "list"

SampleBy(name, m, easy_cutoff) ==
    CASE name = "mild_determ" -> sample_mild_determ(m, easy_cutoff)
      [] name = "determ" -> sample_determ(m)
      [] name = "random" -> sample_random(m)
      [] name = "list" -> EveryBin(m)

\* Faulty: the rates seen before a change stay.
mixed_hist_Kept(m, hit, cur, hist) == hist

mixed_hist(m, hit, cur, hist) ==
    IF Adapts(m, hit) /\ Clears(cur, hist) THEN <<>> ELSE hist

-----------------------------------------------------------------------------
(* Extractors and filters.                                                  *)

\* What is left of an answer that makes no stimulus is dropped.
UniversalExtractor(parts, n) ==
    [i \in 1..(Len(parts) \div n) |-> [j \in 1..n |-> parts[(i - 1) * n + j]]]

\* The parts at these places of an answer, each a stimulus: one sequence.
InOrder(parts, places) ==
    {[i \in DOMAIN o |-> <<parts[o[i]]>>] :
        o \in {o \in [1..Cardinality(places) -> places] :
                  \A i, j \in DOMAIN o : i < j => o[i] < o[j]}}

\* The places of the numbers of an answer.
DumbExtractor(parts) == {i \in DOMAIN parts : parts[i] # "word"}

\* Those within bounds.
Filter(parts, places) == {i \in places : parts[i] \in {"in", "edge"}}

\* Faulty: a part over its bounds stays.
FilteredPart_Over(part, bound) ==
    CASE bound = "free" -> part
      [] bound # "free" /\ part = "word" -> "zero"
      [] bound # "free" /\ part = "low" -> "edge"
      [] bound # "free" /\ part \notin {"word", "low"} -> part

FilteredPart(part, bound) ==
    CASE bound = "free" -> part
      [] bound # "free" /\ part = "word" -> "zero"
      [] bound # "free" /\ part \in {"low", "high"} -> "edge"
      [] bound # "free" /\ part \in {"in", "edge"} -> part

UniversalFilter(stimuli, bounds) ==
    [i \in DOMAIN stimuli |->
        [j \in DOMAIN stimuli[i] |-> FilteredPart(stimuli[i][j], bounds[j])]]

\* One sequence of stimuli.
StimuliOf(parts) ==
    IF experiment.extractor = "Dumb"
    THEN InOrder(parts, Filter(parts, DumbExtractor(parts)))
    ELSE {UniversalFilter(UniversalExtractor(parts, Len(experiment.bounds)),
                          experiment.bounds)}

\* Answers of one part, of a stimulus, and of a part more: one part at most is not
\* within bounds.
Answers ==
    LET n == Len(experiment.bounds)
    IN { [i \in 1..k |-> IF i = odd THEN part ELSE "in"] :
           k \in {1, n, n + 1}, odd \in 1..n, part \in {"in", "low", "high", "word"} }

-----------------------------------------------------------------------------
Init ==
    /\ experiment \in Experiments
    /\ method \in experiment.methods
    /\ pc = "build"
    /\ outcome = "none"
    /\ covered = 0
    /\ undescribed = Undescribed[experiment.design]
    /\ told = Never
    /\ stimulus = NoValue
    /\ dialogue = "INIT"
    /\ messages = 0
    /\ stimuli_buffer = <<>>
    /\ gibberish = FALSE
    /\ prev_coverage = Never
    /\ adas_cov_hist = <<>>
    /\ cur_sampling_method = "None"
    /\ prompt = NoPrompt
    /\ prompted = Never
    /\ uses = 0

End(how) ==
    /\ pc' = "ended"
    /\ outcome' = how

\* _resolve_sampling_method: some of the names it knows have no method.
Build ==
    /\ pc = "build"
    /\ \/ /\ method \in Methods \cup {"none"}
          /\ pc' = "check"
          /\ UNCHANGED outcome
       \/ /\ method \notin Methods \cup {"none"}
          /\ End("no method")
    /\ UNCHANGED <<programVars, serverVars, told, stimulus, agentVars, samplingVars,
                   promptVars>>

IsMain == experiment.kind # "random"

Complete == told = plan

Exhausted == messages >= experiment.messages

-----------------------------------------------------------------------------
(* The loop of the client: end_simulation.                                  *)

Send(value) ==
    /\ stimulus' = value
    /\ pc' = "sent"

\* The parts the servers read of a value: one that has fewer ends the server, or
\* leaves it to wait for its design, and the reply never comes.
PartsRead == [FT |-> 4, WB |-> 2, AF |-> 3, SDRAM |-> 3, SD |-> 0, ID |-> 0, IC |-> 0,
              MC |-> 0]

ServerTakes(value) == Len(value) >= PartsRead[experiment.design]

GoOn ==
    /\ pc = "check"
    /\ IF IsMain
       THEN told = Never \/ (~Complete /\ (~Exhausted \/ stimuli_buffer # <<>>))
       ELSE ~Exhausted
    /\ pc' = "generate"
    /\ gibberish' = FALSE
    /\ UNCHANGED <<programVars, outcome, serverVars, told, stimulus, dialogue, messages,
                   stimuli_buffer, samplingVars, promptVars>>

\* The loop is left, and the server told so.
Leave ==
    /\ pc = "check"
    /\ IF IsMain
       THEN told # Never /\ (Complete \/ (Exhausted /\ stimuli_buffer = <<>>))
       ELSE Exhausted
    /\ stimulus' = experiment.leaving
    /\ End(IF ServerTakes(experiment.leaving) THEN "finished" ELSE "no reply")
    /\ UNCHANGED <<programVars, serverVars, told, agentVars, samplingVars, promptVars>>

\* random_experiment: the next value of the agent.
SendRandom ==
    /\ pc = "generate"
    /\ ~IsMain
    /\ messages' = messages + 1
    /\ Send(experiment.opening)
    /\ UNCHANGED <<programVars, outcome, serverVars, told, dialogue, stimuli_buffer,
                   gibberish, samplingVars, promptVars>>

\* The agent has no value, before the first reply or at its limit.
SendOpening ==
    /\ pc = "generate"
    /\ IsMain
    /\ told = Never \/ (stimuli_buffer = <<>> /\ Exhausted)
    /\ Send(experiment.opening)
    /\ UNCHANGED <<programVars, outcome, serverVars, told, agentVars, samplingVars,
                   promptVars>>

SendBuffered ==
    /\ pc = "generate"
    /\ IsMain
    /\ told # Never
    /\ stimuli_buffer # <<>>
    /\ Send(Head(stimuli_buffer))
    /\ stimuli_buffer' = Tail(stimuli_buffer)
    /\ UNCHANGED <<programVars, outcome, serverVars, told, dialogue, messages, gibberish,
                   samplingVars, promptVars>>

\* With the last stimulus of a message bins may be hit.
Gains == IF stimuli_buffer = <<>> THEN {0, 3, plan \div 4} ELSE {0}

\* The reply goes to the client, unless the server has ended or the sender refuses it.
Serve(gain) ==
    /\ pc = "sent"
    /\ IF ServerTakes(stimulus) /\ Takes(experiment.sender, reply_of[experiment.design])
       THEN /\ covered' = IF covered + gain > plan THEN plan ELSE covered + gain
            /\ undescribed' \in
                 IF covered' = plan THEN {0}
                 ELSE IF covered' = covered \/ plan - covered' < undescribed
                 THEN {undescribed}
                 ELSE {0, undescribed}
            /\ told' = covered'
            /\ stimulus' = NoValue
            /\ pc' = "check"
            /\ UNCHANGED outcome
       ELSE /\ End(IF ServerTakes(stimulus) THEN "bad format" ELSE "no reply")
            /\ UNCHANGED <<serverVars, told, stimulus>>
    /\ UNCHANGED <<programVars, agentVars, samplingVars, promptVars>>

-----------------------------------------------------------------------------
(* The agent's next message.                                                *)

AsksModel ==
    /\ pc = "generate"
    /\ IsMain
    /\ told # Never
    /\ stimuli_buffer = <<>>
    /\ ~Exhausted

\* Faulty: the rate of the last dialogue stays.
AfterReset_Kept == prev_coverage

AfterReset == Never

\* reset of the prompt generator: what adapts the sampling stays.
Restart ==
    /\ AsksModel
    /\ dialogue = "ITER"
    /\ dialogue' = "INIT"
    /\ gibberish' = FALSE
    /\ prev_coverage' = AfterReset
    /\ prompted' = Never
    /\ UNCHANGED <<programVars, pc, outcome, serverVars, told, stimulus, messages,
                   stimuli_buffer, adas_cov_hist, cur_sampling_method, prompt, uses>>

InitialPrompt ==
    /\ AsksModel
    /\ dialogue = "INIT"
    /\ dialogue' = "ITER"
    /\ messages' = messages + 1
    /\ pc' = "response"
    /\ UNCHANGED <<programVars, outcome, serverVars, told, stimulus, stimuli_buffer,
                   gibberish, samplingVars, promptVars>>

\* _load_result_summary: the CPUs' templates do not say that no bin was hit.
ResultSummary(no_new_hit) ==
    CASE gibberish -> "invalid"
      [] ~gibberish /\ no_new_hit /\ experiment.design \notin {"IC", "MC"} -> "no new hit"
      [] ~gibberish /\ ~(no_new_hit /\ experiment.design \notin {"IC", "MC"}) -> "missed"

\* generate_iterative_prompt, up to the sampling.  The mixed method alone reads the
\* rates, and they are kept for it alone.
HistNow == IF method = "MIXED" THEN Append4(adas_cov_hist, told) ELSE <<>>

MethodNow ==
    IF method = "MIXED"
    THEN MixedMethod(missed_bins, told, cur_sampling_method, HistNow)
    ELSE cur_sampling_method

SampleNow ==
    CASE method = "RANDOM" -> sample_missed_bins_RANDOM(missed_bins)
      [] method = "NEWEST" ->
           sample_missed_bins_Universal(missed_bins, told, experiment.cutoff)
      [] method = "MIXED" -> SampleBy(MethodNow, missed_bins, experiment.cutoff)

\* A bin without words may be among the sample: it is if all are shown.
ShowsUndescribed ==
    /\ undescribed > 0
    /\ Shown(SampleNow) > 0

MustShowUndescribed == undescribed > 0 /\ Shown(SampleNow) >= missed_bins

IterativePrompt ==
    /\ AsksModel
    /\ dialogue = "ITER"
    /\ ~Raises(SampleNow)
    /\ ~MustShowUndescribed
    /\ messages' = messages + 1
    /\ adas_cov_hist' =
         IF method = "MIXED"
         THEN mixed_hist(missed_bins, told, cur_sampling_method, HistNow)
         ELSE HistNow
    /\ cur_sampling_method' = MethodNow
    /\ uses' = IF MethodNow # cur_sampling_method THEN 1
               ELSE IF MethodNow = "None" \/ uses = 4 THEN uses ELSE uses + 1
    /\ prompt' = [no_new_hit |-> told = prev_coverage,
                  summary |-> ResultSummary(told = prev_coverage),
                  missed |-> missed_bins, shown |-> Shown(SampleNow)]
    /\ prev_coverage' = told
    /\ prompted' = told
    /\ pc' = "response"
    /\ UNCHANGED <<programVars, outcome, serverVars, told, stimulus, dialogue,
                   stimuli_buffer, gibberish>>

\* np.random.choice or the look-up of a bin's words raises.
IterativePromptFails ==
    /\ AsksModel
    /\ dialogue = "ITER"
    /\ \/ Raises(SampleNow) /\ End("ValueError")
       \/ ~Raises(SampleNow) /\ ShowsUndescribed /\ End("KeyError")
    /\ UNCHANGED <<programVars, serverVars, told, stimulus, agentVars, samplingVars,
                   promptVars>>

\* The answer of the model, gibberish if it has no stimulus or many blank lines.
Respond ==
    /\ pc = "response"
    /\ \E parts \in Answers, blank \in BOOLEAN : \E stimuli \in StimuliOf(parts) :
         /\ gibberish' = (blank \/ stimuli = <<>>)
         /\ stimuli_buffer' = IF gibberish' THEN <<>> ELSE stimuli
    /\ prompt' = NoPrompt
    /\ pc' = "generate"
    /\ UNCHANGED <<programVars, outcome, serverVars, told, stimulus, dialogue, messages,
                   samplingVars, prompted, uses>>

Ended == pc = "ended" /\ UNCHANGED vars

Next ==
    \/ Build
    \/ GoOn
    \/ Leave
    \/ SendRandom
    \/ SendOpening
    \/ SendBuffered
    \/ \E gain \in Gains : Serve(gain)
    \/ Restart
    \/ InitialPrompt
    \/ IterativePrompt
    \/ IterativePromptFails
    \/ Respond
    \/ Ended

Spec == Init /\ [][Next]_vars

-----------------------------------------------------------------------------
\* A prompt says that no new bin was hit just if the prompt before it in its dialogue
\* knew of as many: a restarted dialogue is not told so of the one before.
NoNewHit ==
    [][ prompt' # prompt /\ prompt' # NoPrompt =>
          (prompt'.no_new_hit <=> told = prompted) ]_vars

\* Whatever the plan and the coverage, an iterative prompt shows five of the missed
\* bins, or all that are fewer, and never more than seven.
ShownEnough ==
    prompt # NoPrompt =>
        /\ prompt.shown <= 7
        /\ prompt.shown >= prompt.missed \/ prompt.shown >= 5

\* The adaptive sampling tries a method for four prompts before it changes to the
\* other for want of new hits.
Patience ==
    [][ /\ {cur_sampling_method, cur_sampling_method'} = {"determ", "random"}
        /\ missed_bins >= 40
        => uses >= 4 ]_vars

\* A main experiment gives its design stimuli of the length it reads, each part within
\* bounds or a 0: what a filter makes of no number, or a part of the opening, of which
\* the fetch tag's and the FIFO's lie below the bounds of their filters.
StimuliFit ==
    (pc = "sent" /\ experiment.kind = "main") =>
        /\ Len(stimulus) \in {Len(experiment.opening), Len(experiment.bounds)}
        /\ \A j \in DOMAIN stimulus :
             \/ stimulus[j] \in {"in", "edge", "zero"}
             \/ experiment.bounds[j] = "free"

\* Every main experiment but the decoder's runs until it is complete or has used its
\* messages up, unless it samples by the mixed method: no sampling, reply or stimulus
\* of it fails.  The other ends of a trial, convergence above all, are LLMAgent's, and
\* the template's code summary is the one of type 0, which needs no file.
MainsRun ==
    (experiment.kind = "main" /\ method # "MIXED" /\ experiment.design # "ID") =>
        outcome \in {"none", "finished"}

\* "may have invalid cross bin entries that will never be in missed bins"
\* (prompt_generators/prompt_generator_template_ID.py:173): the template has words for
\* every bin that may be missed.
Described == outcome # "KeyError"
=============================================================================
