------------------------------- MODULE Trials -------------------------------
(***************************************************************************)
(* The budget experiment (stride_detector/generate_stimulus.py,            *)
(* budget_experiment) and the server it talks to                           *)
(* (stride_detector/stride_detector_cocotb.py).  The client runs trials    *)
(* until it has used its tokens; the server serves one trial and leaves.   *)
(*                                                                         *)
(* The agent of a trial is abstract: LLMAgent has its detail.  What a      *)
(* monitor has counted is described by the trials the stimuli came from.   *)
(***************************************************************************)
EXTENDS Integers, FiniteSetsExt

CONSTANTS
    INIT_BUDGET,    \* tokens of the experiment, and of a trial at most
    MaxCall,        \* bound: tokens of a call of the model
    MaxStimuli,     \* bound: stimuli of an answer
    MaxCrashes      \* bound: clients that a model which fails ends

ASSUME TrialsAssumption ==
    /\ INIT_BUDGET \in Nat \ {0}
    /\ MaxCall \in Nat \ {0}
    /\ MaxStimuli \in Nat
    /\ MaxCrashes \in Nat

VARIABLES
    pc,             \* where the client is
    total_budget, init_budget, budget,
    asked,          \* the model has been asked in this trial
    stopping,       \* a limit other than tokens has been reached
    stimuli_buffer, \* stimuli not sent yet
    g_coverage,     \* trials counted in the last reply, NoReply before it
    row,            \* the same, in the last row of the summary
    request, reply, \* between the client's socket and the server's
    server,         \* "down" or "bound"
    monitor,        \* trials counted by the server's monitor
    crashes,
    spent,          \* history: tokens used since the client was started
    stale_rows      \* history: rows that count stimuli of another client

budgetVars == <<total_budget, init_budget, budget, spent>>
agentVars == <<asked, stopping, stimuli_buffer, g_coverage>>
wireVars == <<request, reply>>
serverVars == <<server, monitor>>
summaryVars == <<row, stale_rows>>
vars == <<pc, budgetVars, agentVars, summaryVars, wireVars, serverVars, crashes>>

NoReply == {"no reply"}

\* This trial, one before it of the same client, one of a client that crashed.
TrialKinds == {"own", "earlier", "abandoned"}

Stale == "earlier" \in g_coverage \/ "abandoned" \in g_coverage

no_budget == budget <= 0

-----------------------------------------------------------------------------
Init ==
    /\ pc = "while"
    /\ total_budget = INIT_BUDGET
    /\ init_budget = INIT_BUDGET
    /\ budget = INIT_BUDGET
    /\ asked = FALSE
    /\ stopping = FALSE
    /\ stimuli_buffer = 0
    /\ g_coverage = NoReply
    /\ row = NoReply
    /\ request = "none"
    /\ reply = "none"
    /\ server = "bound"
    /\ monitor = {}
    /\ crashes = 0
    /\ spent = 0
    /\ stale_rows = 0

\* Faulty: a trial may always use what the first one could.
TrialBudget_Full == init_budget

TrialBudget == Min({init_budget, total_budget})

\* Faulty: tokens used beyond the budget keep the experiment going.
TokensLeft_NotZero == total_budget # 0

TokensLeft == total_budget > 0

BeginTrial ==
    /\ pc = "while"
    /\ TokensLeft
    /\ pc' = "check"
    /\ init_budget' = TrialBudget
    /\ budget' = TrialBudget
    /\ asked' = FALSE
    /\ stopping' = FALSE
    /\ stimuli_buffer' = 0
    /\ g_coverage' = NoReply
    /\ monitor' = IF "own" \in monitor THEN {"earlier"} \cup (monitor \ {"own"})
                                       ELSE monitor
    /\ UNCHANGED <<total_budget, spent, summaryVars, wireVars, server, crashes>>

EndExperiment ==
    /\ pc = "while"
    /\ ~TokensLeft
    /\ pc' = "ended"
    /\ UNCHANGED <<budgetVars, agentVars, summaryVars, wireVars, serverVars, crashes>>

-----------------------------------------------------------------------------
(* A trial: end_simulation, generate_next_value and send_stimulus in turn.  *)

\* All bins are hit: for a new server not before a message, since the opening value
\* hits no bin.
MayBeComplete == asked \/ Stale

\* end_simulation returns False.
GoesOn ==
    /\ pc = "check"
    /\ g_coverage = NoReply \/ stimuli_buffer > 0 \/ ~(no_budget \/ stopping)
    /\ pc' = "generate"
    /\ UNCHANGED <<budgetVars, agentVars, summaryVars, wireVars, serverVars, crashes>>

\* end_simulation returns True: the row is written, the tokens are taken off and
\* the server is told.
EndTrial ==
    /\ pc = "check"
    /\ g_coverage # NoReply
    /\ \/ stimuli_buffer = 0 /\ (no_budget \/ stopping)
       \/ MayBeComplete
    /\ row' = g_coverage
    /\ stale_rows' = stale_rows + IF "abandoned" \in g_coverage THEN 1 ELSE 0
    /\ total_budget' = total_budget - (init_budget - budget)
    /\ request' = "finish"
    /\ pc' = "finish"
    /\ UNCHANGED <<init_budget, budget, spent, agentVars, reply, serverVars, crashes>>

Send ==
    /\ request' = "stimulus"
    /\ pc' = "await"

\* The opening value, a stimulus of the buffer, or the placeholder of a limit.
SendStimulus ==
    /\ pc = "generate"
    /\ \/ g_coverage = NoReply /\ UNCHANGED <<stimuli_buffer, stopping>>
       \/ /\ stimuli_buffer > 0
          /\ stimuli_buffer' = stimuli_buffer - 1
          /\ UNCHANGED stopping
       \/ /\ g_coverage # NoReply
          /\ stimuli_buffer = 0
          /\ stopping' \in IF asked THEN {stopping, TRUE} ELSE {stopping}
          /\ no_budget \/ stopping'
          /\ UNCHANGED stimuli_buffer
    /\ Send
    /\ UNCHANGED <<budgetVars, asked, g_coverage, summaryVars, reply, serverVars,
                   crashes>>

AsksModel ==
    /\ pc = "generate"
    /\ g_coverage # NoReply
    /\ stimuli_buffer = 0
    /\ ~no_budget
    /\ ~stopping

\* An answer, gibberish if it has no stimuli.
Answer(tokens, stimuli) ==
    /\ AsksModel
    /\ asked' = TRUE
    /\ budget' = budget - tokens
    /\ spent' = spent + tokens
    /\ stimuli_buffer' = stimuli
    /\ UNCHANGED <<pc, total_budget, init_budget, stopping, g_coverage, summaryVars,
                   wireVars, serverVars, crashes>>

\* All retries fail, which ends the client.
AnswerFails ==
    /\ AsksModel
    /\ crashes < MaxCrashes
    /\ crashes' = crashes + 1
    /\ pc' = "crashed"
    /\ UNCHANGED <<budgetVars, agentVars, summaryVars, wireVars, serverVars>>

ReceiveReply ==
    /\ reply = "sent"
    /\ reply' = "none"
    /\ \/ pc = "await" /\ pc' = "check" /\ g_coverage' = monitor
       \/ pc = "finish" /\ pc' = "while" /\ UNCHANGED g_coverage
    /\ UNCHANGED <<budgetVars, asked, stopping, stimuli_buffer, summaryVars, request,
                   serverVars, crashes>>

-----------------------------------------------------------------------------
\* Faulty: the controller goes on to receive.
Leaves_Never(message) == FALSE

Leaves(message) == message = "finish"

\* The controller simulates a stimulus and replies; after the last it leaves, and
\* the simulation with it.
Serve ==
    /\ server = "bound"
    /\ request # "none"
    /\ request' = "none"
    /\ reply' = "sent"
    /\ monitor' = IF request = "stimulus" THEN monitor \cup {"own"} ELSE monitor
    /\ server' = IF Leaves(request) THEN "down" ELSE "bound"
    /\ UNCHANGED <<pc, budgetVars, agentVars, summaryVars, crashes>>

\* Somebody starts the server, with a monitor of its own.
StartServer ==
    /\ server = "down"
    /\ server' = "bound"
    /\ monitor' = {}
    /\ UNCHANGED <<pc, budgetVars, agentVars, summaryVars, wireVars, crashes>>

\* Somebody starts the client again.
RestartClient ==
    /\ pc = "crashed"
    /\ pc' = "while"
    /\ total_budget' = INIT_BUDGET
    /\ init_budget' = INIT_BUDGET
    /\ budget' = INIT_BUDGET
    /\ spent' = 0
    /\ monitor' = IF monitor # {} THEN {"abandoned"} ELSE {}
    /\ UNCHANGED <<agentVars, summaryVars, wireVars, server, crashes>>

Client ==
    \/ BeginTrial
    \/ EndExperiment
    \/ GoesOn
    \/ EndTrial
    \/ SendStimulus
    \/ \E tokens \in 1..MaxCall, stimuli \in 0..MaxStimuli : Answer(tokens, stimuli)
    \/ AnswerFails
    \/ ReceiveReply

Operator == StartServer \/ RestartClient

Ended == pc = "ended" /\ UNCHANGED vars

Next == Client \/ Serve \/ Operator \/ Ended

Spec == Init /\ [][Next]_vars

\* Both programs run; nobody looks after them.  The server is started first.
FairSpec == Spec /\ WF_vars(Client) /\ WF_vars(Serve)

\* Somebody starts again what has ended.
OperatedSpec == FairSpec /\ WF_vars(StartServer) /\ WF_vars(RestartClient)

-----------------------------------------------------------------------------
\* Every variable has its type, and a trial overspends by less than a call.
TypeOK ==
    /\ pc \in {"while", "check", "generate", "await", "finish", "ended", "crashed"}
    /\ total_budget \in (1 - MaxCall)..INIT_BUDGET
    /\ init_budget \in 1..INIT_BUDGET
    /\ budget \in (1 - MaxCall)..INIT_BUDGET
    /\ asked \in BOOLEAN
    /\ stopping \in BOOLEAN
    /\ stimuli_buffer \in 0..MaxStimuli
    /\ g_coverage \in {NoReply} \cup SUBSET TrialKinds
    /\ row \in {NoReply} \cup SUBSET TrialKinds
    /\ request \in {"none", "stimulus", "finish"}
    /\ reply \in {"none", "sent"}
    /\ server \in {"down", "bound"}
    /\ monitor \subseteq TrialKinds
    /\ crashes \in 0..MaxCrashes
    /\ spent \in Nat
    /\ stale_rows \in Nat

\* However many trials it takes, the experiment overspends by less than one call.
BudgetKept == spent < INIT_BUDGET + MaxCall

\* The coverage in a row of the summary is that of its trial alone, but for the
\* first row after a crash: the server the crashed client had goes on with its
\* monitor.
OwnCoverage == "earlier" \notin row /\ stale_rows <= crashes

\* As long as somebody starts the programs again, the experiment uses its tokens up
\* and ends, though each trial may end before its tokens do.
Ends == <>(pc = "ended")

\* "For every new piece of stimulus sent from the client the server responds with
\* the latest coverage" (stride_detector/README.md:50).
Responded == request # "none" ~> reply = "sent"
=============================================================================
