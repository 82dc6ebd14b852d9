------------------------------ MODULE LLMAgent ------------------------------
(***************************************************************************)
(* One trial: the client's main loop (generate_stimulus.py), the LLMAgent  *)
(* it drives (agents/agent_LLM.py), the buffer of successful messages of   *)
(* the model wrapper, and, as its environment, the language model and the  *)
(* simulation server.                                                      *)
(*                                                                         *)
(* The client is one thread.  `pc` is its place in                         *)
(*     while not agent.end_simulation(...):          "check"               *)
(*         agent.generate_next_value(...)            "generate", "loop",   *)
(*                                                   "prompt", "answer"    *)
(*         stimulus_sender.send_stimulus(...)        "await"               *)
(*     finish                                        "finish", "ended"     *)
(* and it changes only where the thread meets a branch, the model or the   *)
(* server.  A stimulus is not told from another one of the same response,  *)
(* so stimuli_buffer is their number; coverage is the number of bins hit.  *)
(***************************************************************************)
EXTENDS Integers, Sequences, FiniteSets, BestMessages, RestartPlans

CONSTANTS
    BinCount,       \* bins of the coverage plan
    DialogBound,    \* dialog_bound: messages per trial
    MaxStimuli,     \* bound: stimuli in one response
    TokenBudget,    \* tokens of the trial, or None
    MaxTokens,      \* bound: tokens of one call
    ConvergeSpan,   \* 25: messages without any new bin
    TailSpan,       \* 40: messages with at most TailGain new bins
    TailGain,       \* 2
    ResetModes,     \* values of best_iter_buffer_resetting explored
    RstPlan(_, _),  \* rst_plan, on the histories of the dialog and of the run
    None

ASSUME LLMAgentAssumption ==
    /\ BinCount \in Nat
    /\ DialogBound \in Nat \ {0}
    /\ MaxStimuli \in Nat \ {0}
    /\ MaxTokens \in Nat \ {0}
    /\ ConvergeSpan \in Nat \ {0}
    /\ TailSpan \in Nat \ {0}
    /\ TailGain \in Nat
    /\ ResetModes \subseteq {"STABLE", "KEEP", "CLEAR"}
    /\ None \notin Int
    /\ TokenBudget \in (Nat \ {0}) \cup {None}

VARIABLES
    pc, state, stimuli_buffer, total_msg_cnt, msg_index, dialog_index,
    history_cov_rate, all_history_cov_rate, token_budget,
    f_,             \* the last response of this loop was gibberish
    best_messages,
    best_iter_buffer_resetting,     \* a setting of the wrapper, chosen once
    g_coverage,     \* the client's copy of the coverage, None before a reply
    dut_hits,       \* the server's coverage
    stop,           \* why end_simulation returned True
    sent,           \* the message the stimulus in flight comes from, 0: none
    gain            \* history variable: bins hit by the stimuli of a message

agentVars == <<state, total_msg_cnt, msg_index, dialog_index, history_cov_rate,
               all_history_cov_rate, token_budget, best_messages,
               best_iter_buffer_resetting>>
vars == <<agentVars, pc, stimuli_buffer, f_, g_coverage, dut_hits, stop, sent, gain>>

-----------------------------------------------------------------------------
Converged(hist) ==
    \/ Len(hist) >= ConvergeSpan /\ FromEnd(hist, 1) = FromEnd(hist, ConvergeSpan)
    \/ Len(hist) >= TailSpan /\ FromEnd(hist, 1) <= FromEnd(hist, TailSpan) + TailGain

_check_converge == Converged(all_history_cov_rate)

no_budget == token_budget # None /\ token_budget <= 0

\* Faulty: convergence is left to end_simulation.
LimitReached_NoConvergence == total_msg_cnt >= DialogBound \/ no_budget

\* Faulty: one message early, where end_simulation does not stop.
LimitReached_Early == total_msg_cnt + 1 >= DialogBound \/ _check_converge \/ no_budget

\* The three limits after which generate_next_value asks nothing more.
LimitReached == total_msg_cnt >= DialogBound \/ _check_converge \/ no_budget

\* The verdict of end_simulation, and the reason it logs.
StopReason ==
    IF g_coverage = None THEN "none"
    ELSE IF g_coverage = BinCount THEN "done"
    ELSE IF _check_converge THEN "model converged"
    ELSE IF stimuli_buffer > 0 THEN "none"
    ELSE IF total_msg_cnt >= DialogBound THEN "max dialog number"
    ELSE IF no_budget THEN "token budget exceeded"
    ELSE "none"

Init ==
    /\ pc = "check"
    /\ state = "INIT"
    /\ stimuli_buffer = 0
    /\ total_msg_cnt = 0
    /\ msg_index = 0
    /\ dialog_index = 1
    /\ history_cov_rate = << >>
    /\ all_history_cov_rate = << >>
    /\ token_budget = TokenBudget
    /\ f_ = 0
    /\ best_messages = NoMessages
    /\ best_iter_buffer_resetting \in ResetModes
    /\ g_coverage = None
    /\ dut_hits = 0
    /\ stop = "none"
    /\ sent = 0
    /\ gain = [m \in 1..DialogBound |-> 0]

-----------------------------------------------------------------------------
\* end_simulation, at the head of the main loop.
EndSimulation ==
    /\ pc = "check"
    /\ stop' = StopReason
    /\ IF StopReason = "none"
       THEN pc' = "generate" /\ UNCHANGED state
       ELSE pc' = "finish" /\ state' = "DONE"
    /\ UNCHANGED <<total_msg_cnt, msg_index, dialog_index, history_cov_rate,
                   all_history_cov_rate, token_budget, best_messages,
                   best_iter_buffer_resetting, stimuli_buffer, f_, g_coverage, dut_hits,
                   sent, gain>>

Send(message) == pc' = "await" /\ sent' = message

\* The first message of a dialog is never appended to best_messages.
HasEntry == msg_index # 1

\* Faulty: a message without new bins leaves no trace.
Recorded_Changes(hist) ==
    IF hist # << >> /\ FromEnd(hist, 1) = g_coverage THEN hist ELSE Append(hist, g_coverage)

Recorded(hist) == Append(hist, g_coverage)

\* Faulty: the history of the dialog survives the restart.
reset_KeepHistory(best) ==
    /\ state' = "INIT"
    /\ dialog_index' = dialog_index + 1
    /\ msg_index' = 0
    /\ history_cov_rate' = Recorded(history_cov_rate)
    /\ best_messages' = best

\* A new dialog; what happens to the buffer of messages is the wrapper's choice.
reset(best) ==
    /\ state' = "INIT"
    /\ dialog_index' = dialog_index + 1
    /\ msg_index' = 0
    /\ history_cov_rate' = << >>
    /\ best_messages' = IF best_iter_buffer_resetting = "CLEAR" THEN NoMessages ELSE best

\* The bookkeeping of a message whose stimuli have all been simulated: credit
\* it, record the coverage, and restart an inefficient dialog.
JudgeMessage ==
    LET cov  == Recorded(history_cov_rate)
        all  == Recorded(all_history_cov_rate)
        best == IF HasEntry
                THEN update_successful(best_messages, g_coverage)
                ELSE best_messages
    IN  /\ all_history_cov_rate' = all
        /\ IF RstPlan(cov, all)
           THEN reset(best)
           ELSE /\ history_cov_rate' = cov
                /\ best_messages' = best
                /\ UNCHANGED <<state, dialog_index, msg_index>>
        /\ UNCHANGED <<total_msg_cnt, token_budget, best_iter_buffer_resetting>>

\* generate_next_value up to its loop.
GenerateNextValue ==
    /\ pc = "generate"
    /\ f_' = 0
    /\ \/ /\ g_coverage = None
          /\ Send(0)
          /\ UNCHANGED agentVars
       \/ /\ g_coverage # None
          /\ pc' = "loop"
          /\ IF stimuli_buffer = 0 /\ state # "INIT"
             THEN JudgeMessage
             ELSE UNCHANGED agentVars
          /\ UNCHANGED sent
    /\ UNCHANGED <<stimuli_buffer, g_coverage, dut_hits, stop, gain>>

\* The loop is left: the next stimulus of the response is sent.
SendStimulus ==
    /\ pc = "loop"
    /\ stimuli_buffer > 0
    /\ stimuli_buffer' = stimuli_buffer - 1
    /\ Send(total_msg_cnt)
    /\ UNCHANGED <<agentVars, f_, g_coverage, dut_hits, stop, gain>>

\* The early return: a placeholder is sent, for end_simulation to stop next.
ReturnPlaceholder ==
    /\ pc = "loop"
    /\ stimuli_buffer = 0
    /\ LimitReached
    /\ Send(0)
    /\ UNCHANGED <<agentVars, stimuli_buffer, f_, g_coverage, dut_hits, stop, gain>>

\* A gibberish response is judged at once, then the prompt is built.  The
\* limits are not looked at again in between.
PreparePrompt ==
    /\ pc = "loop"
    /\ stimuli_buffer = 0
    /\ ~LimitReached
    /\ pc' = "prompt"
    /\ IF f_ = 1
       THEN JudgeMessage
       ELSE UNCHANGED agentVars
    /\ f_' = IF state' = "INIT" THEN 0 ELSE f_
    /\ UNCHANGED <<stimuli_buffer, g_coverage, dut_hits, stop, sent, gain>>

\* The model answers: `stimuli` is what the extractor and the filter leave of
\* the response, 0 when it is gibberish.
Answer(stimuli, tokens) ==
    /\ pc = "prompt"
    /\ best_messages' = IF state = "ITER"
                        THEN append_successful(best_messages, total_msg_cnt + 1, g_coverage)
                        ELSE best_messages
    /\ state' = "ITER"
    /\ total_msg_cnt' = total_msg_cnt + 1
    /\ msg_index' = msg_index + 1
    /\ token_budget' = IF token_budget = None THEN None ELSE token_budget - tokens
    /\ f_' = IF stimuli = 0 THEN 1 ELSE f_
    /\ stimuli_buffer' = stimuli
    /\ pc' = "loop"
    /\ UNCHANGED <<dialog_index, history_cov_rate, all_history_cov_rate,
                   best_iter_buffer_resetting, g_coverage, dut_hits, stop, sent, gain>>

\* Every retry of the call failed: the wrapper returns None, which the agent
\* cannot unpack, and the exception ends the client.
AnswerFails ==
    /\ pc = "prompt"
    /\ pc' = "crashed"
    /\ UNCHANGED <<agentVars, stimuli_buffer, f_, g_coverage, dut_hits, stop, sent, gain>>

\* The server simulates the stimulus, which may hit new bins, and replies.
Simulate(hits) ==
    /\ pc = "await"
    /\ dut_hits' = dut_hits + hits
    /\ gain' = IF sent = 0 THEN gain ELSE [gain EXCEPT ![sent] = @ + hits]
    /\ g_coverage' = dut_hits'
    /\ pc' = "check"
    /\ UNCHANGED <<agentVars, stimuli_buffer, f_, stop, sent>>

\* After the loop the client tells the server to finish.
Finish ==
    /\ pc = "finish"
    /\ pc' = "ended"
    /\ UNCHANGED <<agentVars, stimuli_buffer, f_, g_coverage, dut_hits, stop, sent, gain>>

Stopped == pc \in {"ended", "crashed"} /\ UNCHANGED vars

Next ==
    \/ EndSimulation
    \/ GenerateNextValue
    \/ SendStimulus
    \/ ReturnPlaceholder
    \/ PreparePrompt
    \/ \E stimuli \in 0..MaxStimuli, tokens \in 1..MaxTokens : Answer(stimuli, tokens)
    \/ AnswerFails
    \/ \E hits \in 0..(BinCount - dut_hits) : Simulate(hits)
    \/ Finish
    \/ Stopped

Spec == Init /\ [][Next]_vars

\* The client is a sequential program; the model is retried a bounded number of
\* times and the server answers each request after one pass of its loop.
FairSpec == Spec /\ WF_vars(Next)

-----------------------------------------------------------------------------
\* Messages asked and not judged yet: at most the current one.
Open == total_msg_cnt - Len(all_history_cov_rate)

\* Every variable keeps to its range; an exhausted budget overshoots by less
\* than one call.
TypeOK ==
    /\ pc \in {"check", "generate", "loop", "prompt", "await", "finish", "ended", "crashed"}
    /\ state \in {"INIT", "ITER", "DONE"}
    /\ stimuli_buffer \in 0..MaxStimuli
    /\ total_msg_cnt \in 0..DialogBound
    /\ msg_index \in 0..total_msg_cnt
    /\ dialog_index \in Nat \ {0}
    /\ history_cov_rate \in Seq(0..BinCount)
    /\ all_history_cov_rate \in Seq(0..BinCount)
    /\ token_budget \in Int \cup {None}
    /\ token_budget # None => token_budget > -MaxTokens
    /\ f_ \in {0, 1}
    /\ Entries(best_messages) \subseteq [id : 1..DialogBound, hit : 0..BinCount]
    /\ best_iter_buffer_resetting \in ResetModes
    /\ g_coverage \in (0..BinCount) \cup {None}
    /\ dut_hits \in 0..BinCount
    /\ stop \in {"none", "done", "model converged", "max dialog number",
                 "token budget exceeded"}
    /\ sent \in 0..total_msg_cnt
    /\ gain \in [1..DialogBound -> 0..BinCount]

\* However dialogs restart, answers turn out gibberish and the loop is left
\* early, each message is judged exactly once, before the next one is asked, and
\* the history of the dialog is the part of the run's history that belongs to it:
\* a restart plan compares consecutive messages of one dialog.
JudgedOnce ==
    /\ Open \in {0, 1}
    /\ pc = "prompt" => Open = 0
    /\ Len(history_cov_rate) = msg_index - Open
    /\ \A k \in 1..Len(history_cov_rate) :
            FromEnd(history_cov_rate, k) = FromEnd(all_history_cov_rate, k)

\* update_successful always finds the entry of the message being judged at the
\* end of the list: an entry waits there exactly while an iterative message,
\* not the first of its dialog, is open.
PairedUpdate ==
    best_messages.fresh # << >> =>
        /\ Len(best_messages.fresh) = 1
        /\ best_messages.fresh[1].id = total_msg_cnt
        /\ Open = 1 /\ msg_index > 1

\* The hit number a message is remembered, ranked and offered to the model again
\* for is the number of bins its own stimuli hit: neither those of the opening
\* placeholder, of the first message of a dialog nor of any other message.
HitAttribution ==
    \A e \in best_messages.ranked : e.hit = gain[e.id]

\* Once the run has converged, at most one more message is asked (the one after
\* a gibberish response, whose judgement the loop's limits do not see).
ConvergenceStops ==
    \A i \in 1..Len(all_history_cov_rate) :
        Converged(SubSeq(all_history_cov_rate, 1, i)) => total_msg_cnt <= i + 1

\* The placeholder generate_next_value returns at a limit reaches the simulated
\* design only as the last stimulus: end_simulation stops right after it.
PlaceholderEnds ==
    pc = "check" /\ sent = 0 /\ total_msg_cnt > 0 => StopReason # "none"

\* The trial ends, or the client dies of a model that never answers.
Termination == <>(pc \in {"ended", "crashed"})

\* A trial does what the ledger promises.
Ledger == INSTANCE MessageLedger WITH
            Bound   <- DialogBound,
            asked   <- total_msg_cnt,
            judged  <- Len(all_history_cov_rate),
            running <- state # "DONE" /\ pc # "crashed"

LedgerSpec == Ledger!Spec
=============================================================================
