---------------------------- MODULE TrialsProofs ----------------------------
(***************************************************************************)
(* Theorems about Trials: for every budget, size of a call and number of   *)
(* crashes.                                                                *)
(***************************************************************************)
EXTENDS Trials, TLAPS

-----------------------------------------------------------------------------
(* The inductive invariant.                                                *)

InTrial == pc \in {"check", "generate", "await", "crashed"}

\* What is spent and not yet taken off the total is what the trial has used, and a
\* trial never starts with more than is left.
Accounts ==
    /\ InTrial => /\ spent = INIT_BUDGET - total_budget + (init_budget - budget)
                  /\ init_budget <= total_budget
                  /\ budget <= init_budget
    /\ ~InTrial => spent = INIT_BUDGET - total_budget

\* Requests and replies alternate; the server has left, or is a new one, when the
\* client hears that a trial has ended.
Wire ==
    /\ request = "stimulus" => pc = "await" /\ reply = "none"
    /\ request = "finish" => pc = "finish" /\ reply = "none"
    /\ reply = "sent" => pc \in {"await", "finish"}
    /\ pc = "await" /\ reply = "sent" => server = "bound"
    /\ pc = "finish" => request = "finish" \/ server = "down" \/ monitor = {}

\* A server that is up has counted nothing of an earlier trial.
OneTrial ==
    /\ pc \in {"while", "ended"} => server = "down" \/ "own" \notin monitor
    /\ "earlier" \in monitor => server = "down"
    /\ "earlier" \notin g_coverage

\* A server that may still contribute to a row what it counted for a client that
\* crashed.
Owed ==
    \/ "abandoned" \in monitor /\ server = "bound" /\ pc # "finish"
    \/ InTrial /\ "abandoned" \in g_coverage
    \/ pc = "crashed"

\* Every crash leaves at most one such server, and it serves one row.
Debts == Owed => stale_rows + 1 <= crashes

IInv ==
    /\ TypeOK
    /\ Accounts
    /\ Wire
    /\ OneTrial
    /\ Debts
    /\ OwnCoverage

-----------------------------------------------------------------------------
LEMMA TrialBudgetIsLess ==
    ASSUME init_budget \in Int, total_budget \in Int
    PROVE  /\ TrialBudget \in {init_budget, total_budget}
           /\ TrialBudget <= init_budget
           /\ TrialBudget <= total_budget
    <1> DEFINE Least(x) == x \in {init_budget, total_budget}
                           /\ \A y \in {init_budget, total_budget} : x <= y
    <1>1. \E x : Least(x)
        <2>1. CASE init_budget <= total_budget
            BY <2>1
        <2>2. CASE total_budget <= init_budget
            BY <2>2
        <2>3. QED
            BY <2>1, <2>2
    <1>2. TrialBudget = CHOOSE x : Least(x)
        BY DEF TrialBudget, Min
    <1>3. Least(TrialBudget)
        BY <1>1, <1>2
    <1>4. QED
        BY <1>3

LEMMA InitIInv == Init => IInv
    <1> SUFFICES ASSUME Init PROVE IInv
        OBVIOUS
    <1>1. TypeOK
        <2>1. /\ total_budget \in (1 - MaxCall)..INIT_BUDGET
              /\ init_budget \in 1..INIT_BUDGET
              /\ budget \in (1 - MaxCall)..INIT_BUDGET
              /\ stimuli_buffer \in 0..MaxStimuli
              /\ crashes \in 0..MaxCrashes
            BY TrialsAssumption DEF Init
        <2>2. monitor \subseteq TrialKinds
            BY DEF Init
        <2>3. QED
            BY <2>1, <2>2 DEF Init, TypeOK
    <1>2. Accounts /\ Wire
        BY TrialsAssumption DEF Init, Accounts, InTrial, Wire
    <1>3. OneTrial /\ OwnCoverage
        <2>1. "earlier" \notin NoReply
            BY DEF NoReply
        <2>2. monitor = {} /\ g_coverage = NoReply /\ row = NoReply
            BY DEF Init
        <2>3. stale_rows <= crashes
            BY DEF Init
        <2>4. QED
            BY <2>1, <2>2, <2>3 DEF OneTrial, OwnCoverage
    <1>4. Debts
        BY DEF Init, Debts, Owed, InTrial
    <1>5. QED
        BY <1>1, <1>2, <1>3, <1>4 DEF IInv

LEMMA BeginTrialIInv ==
    ASSUME IInv, BeginTrial
    PROVE  IInv'
    <1>1. /\ TrialBudget \in 1..INIT_BUDGET
          /\ TrialBudget <= total_budget
        <2>1. init_budget \in Int /\ total_budget \in Int
            BY TrialsAssumption DEF IInv, TypeOK
        <2>2. QED
            BY <2>1, TrialBudgetIsLess, TrialsAssumption
               DEF IInv, TypeOK, BeginTrial, TokensLeft
    <1>2. TypeOK'
        <2>1. /\ budget' \in (1 - MaxCall)..INIT_BUDGET
              /\ stimuli_buffer' \in 0..MaxStimuli
            BY <1>1, TrialsAssumption DEF BeginTrial
        <2>2. monitor' \subseteq TrialKinds
            BY DEF IInv, TypeOK, BeginTrial, TrialKinds
        <2>3. QED
            BY <1>1, <2>1, <2>2 DEF IInv, TypeOK, BeginTrial, summaryVars, wireVars
    <1>3. Accounts'
        BY <1>1, TrialsAssumption DEF IInv, TypeOK, BeginTrial, Accounts, InTrial
    <1>4. Wire'
        BY DEF IInv, BeginTrial, Wire, wireVars
    <1>5. OneTrial'
        BY DEF IInv, BeginTrial, OneTrial, NoReply
    <1>6. Debts' /\ OwnCoverage'
        BY DEF IInv, BeginTrial, Debts, Owed, InTrial, OwnCoverage, NoReply, summaryVars
    <1>7. QED
        BY <1>2, <1>3, <1>4, <1>5, <1>6 DEF IInv

LEMMA EndExperimentIInv ==
    ASSUME IInv, EndExperiment
    PROVE  IInv'
    BY DEF IInv, TypeOK, EndExperiment, Accounts, InTrial, Wire, OneTrial, Debts, Owed,
           OwnCoverage, budgetVars, agentVars, summaryVars, wireVars, serverVars

LEMMA GoesOnIInv ==
    ASSUME IInv, GoesOn
    PROVE  IInv'
    BY DEF IInv, TypeOK, GoesOn, Accounts, InTrial, Wire, OneTrial, Debts, Owed,
           OwnCoverage, budgetVars, agentVars, summaryVars, wireVars, serverVars

LEMMA EndTrialIInv ==
    ASSUME IInv, EndTrial
    PROVE  IInv'
    <1>1. total_budget' \in (1 - MaxCall)..INIT_BUDGET
        BY TrialsAssumption DEF IInv, TypeOK, EndTrial, Accounts, InTrial
    <1>2. stale_rows' \in Nat
        BY DEF IInv, TypeOK, EndTrial
    <1>3. TypeOK'
        BY <1>1, <1>2 DEF IInv, TypeOK, EndTrial, agentVars, serverVars
    <1>4. Accounts'
        BY TrialsAssumption DEF IInv, TypeOK, EndTrial, Accounts, InTrial
    <1>5. Wire' /\ OneTrial'
        BY DEF IInv, TypeOK, EndTrial, Wire, OneTrial, agentVars, serverVars
    <1>6. Debts' /\ OwnCoverage'
        <2>1. CASE "abandoned" \in g_coverage
            BY <2>1 DEF IInv, TypeOK, EndTrial, OneTrial, Debts, Owed, InTrial, OwnCoverage
        <2>2. CASE "abandoned" \notin g_coverage
            BY <2>2 DEF IInv, TypeOK, EndTrial, OneTrial, Debts, Owed, InTrial, OwnCoverage
        <2>3. QED
            BY <2>1, <2>2
    <1>7. QED
        BY <1>3, <1>4, <1>5, <1>6 DEF IInv

LEMMA SendStimulusIInv ==
    ASSUME IInv, SendStimulus
    PROVE  IInv'
    <1>1. stimuli_buffer' \in 0..MaxStimuli
        <2>1. stimuli_buffer \in 0..MaxStimuli
            BY DEF IInv, TypeOK
        <2>2. \/ stimuli_buffer' = stimuli_buffer
              \/ stimuli_buffer > 0 /\ stimuli_buffer' = stimuli_buffer - 1
            BY DEF SendStimulus
        <2>3. QED
            BY <2>1, <2>2, TrialsAssumption
    <1>2. stopping' \in BOOLEAN
        BY DEF IInv, TypeOK, SendStimulus
    <1>3. TypeOK'
        BY <1>1, <1>2 DEF IInv, TypeOK, SendStimulus, Send, budgetVars, summaryVars,
               serverVars
    <1>4. Accounts'
        BY DEF IInv, SendStimulus, Send, Accounts, InTrial, budgetVars
    <1>5. (Wire /\ OneTrial /\ Debts /\ OwnCoverage)'
        BY DEF IInv, TypeOK, SendStimulus, Send, Wire, OneTrial, Debts, Owed, InTrial,
               OwnCoverage, summaryVars, serverVars
    <1>6. QED
        BY <1>3, <1>4, <1>5 DEF IInv

LEMMA AnswerIInv ==
    ASSUME IInv, NEW tokens \in 1..MaxCall, NEW stimuli \in 0..MaxStimuli,
           Answer(tokens, stimuli)
    PROVE  IInv'
    <1>1. budget' \in (1 - MaxCall)..INIT_BUDGET /\ spent' \in Nat
        BY TrialsAssumption DEF IInv, TypeOK, Answer, AsksModel, no_budget
    <1>2. TypeOK'
        BY <1>1 DEF IInv, TypeOK, Answer, summaryVars, wireVars, serverVars
    <1>3. Accounts'
        BY TrialsAssumption DEF IInv, TypeOK, Answer, AsksModel, Accounts, InTrial
    <1>4. (Wire /\ OneTrial /\ Debts /\ OwnCoverage)'
        BY DEF IInv, Answer, Wire, OneTrial, Debts, Owed, InTrial, OwnCoverage,
               summaryVars, wireVars, serverVars
    <1>5. QED
        BY <1>2, <1>3, <1>4 DEF IInv

LEMMA AnswerFailsIInv ==
    ASSUME IInv, AnswerFails
    PROVE  IInv'
    <1>1. TypeOK'
        BY TrialsAssumption
           DEF IInv, TypeOK, AnswerFails, budgetVars, agentVars, summaryVars, wireVars,
               serverVars
    <1>2. (Accounts /\ Wire /\ OneTrial)'
        BY DEF IInv, AnswerFails, AsksModel, Accounts, InTrial, Wire, OneTrial, budgetVars,
               agentVars, wireVars, serverVars
    <1>3. (Debts /\ OwnCoverage)'
        BY TrialsAssumption DEF IInv, TypeOK, AnswerFails, Debts, OwnCoverage, summaryVars
    <1>4. QED
        BY <1>1, <1>2, <1>3 DEF IInv

LEMMA ReceiveReplyIInv ==
    ASSUME IInv, ReceiveReply
    PROVE  IInv'
    <1>1. TypeOK'
        BY DEF IInv, TypeOK, ReceiveReply, budgetVars, summaryVars, serverVars
    <1>2. (Accounts /\ Wire /\ OneTrial)'
        BY DEF IInv, TypeOK, ReceiveReply, Accounts, InTrial, Wire, OneTrial, budgetVars,
               serverVars
    <1>3. (Debts /\ OwnCoverage)'
        BY DEF IInv, TypeOK, ReceiveReply, Wire, Debts, Owed, InTrial, OwnCoverage,
               summaryVars, serverVars
    <1>4. QED
        BY <1>1, <1>2, <1>3 DEF IInv

LEMMA ServeIInv ==
    ASSUME IInv, Serve
    PROVE  IInv'
    <1>1. TypeOK'
        BY DEF IInv, TypeOK, Serve, Leaves, TrialKinds, budgetVars, agentVars, summaryVars
    <1>2. (Accounts /\ Wire /\ OneTrial)'
        BY DEF IInv, TypeOK, Serve, Leaves, Accounts, InTrial, Wire, OneTrial, budgetVars,
               agentVars
    <1>3. (Debts /\ OwnCoverage)'
        BY DEF IInv, TypeOK, Serve, Leaves, Wire, Debts, Owed, InTrial, OwnCoverage,
               agentVars, summaryVars
    <1>4. QED
        BY <1>1, <1>2, <1>3 DEF IInv

LEMMA StartServerIInv ==
    ASSUME IInv, StartServer
    PROVE  IInv'
    BY DEF IInv, TypeOK, StartServer, Accounts, InTrial, Wire, OneTrial, Debts, Owed,
           OwnCoverage, budgetVars, agentVars, summaryVars, wireVars

LEMMA RestartClientIInv ==
    ASSUME IInv, RestartClient
    PROVE  IInv'
    <1>1. TypeOK'
        BY TrialsAssumption
           DEF IInv, TypeOK, RestartClient, TrialKinds, agentVars, summaryVars, wireVars
    <1>2. Accounts'
        BY TrialsAssumption DEF RestartClient, Accounts, InTrial
    <1>3. (Wire /\ OneTrial)'
        BY DEF IInv, RestartClient, Wire, OneTrial, agentVars, wireVars
    <1>4. (Debts /\ OwnCoverage)'
        BY DEF IInv, RestartClient, Debts, Owed, InTrial, OwnCoverage, summaryVars
    <1>5. QED
        BY <1>1, <1>2, <1>3, <1>4 DEF IInv

-----------------------------------------------------------------------------
LEMMA StepIInv == IInv /\ [Next]_vars => IInv'
    <1> SUFFICES ASSUME IInv, [Next]_vars PROVE IInv'
        OBVIOUS
    <1>1. CASE Client
        BY <1>1, BeginTrialIInv, EndExperimentIInv, GoesOnIInv, EndTrialIInv,
           SendStimulusIInv, AnswerIInv, AnswerFailsIInv, ReceiveReplyIInv DEF Client
    <1>2. CASE Serve
        BY <1>2, ServeIInv
    <1>3. CASE Operator
        BY <1>3, StartServerIInv, RestartClientIInv DEF Operator
    <1>4. CASE UNCHANGED vars
        BY <1>4 DEF vars, budgetVars, agentVars, summaryVars, wireVars, serverVars, IInv,
               TypeOK, Accounts, InTrial, Wire, OneTrial, Debts, Owed, OwnCoverage
    <1>5. QED
        BY <1>1, <1>2, <1>3, <1>4 DEF Next, Ended

LEMMA Invariance == Spec => []IInv
    BY InitIInv, StepIInv, PTL DEF Spec

\* Every variable keeps its type: a budget is overdrawn by less than a call.
THEOREM TypeCorrect == Spec => []TypeOK
    <1>1. IInv => TypeOK
        BY DEF IInv
    <1>2. QED
        BY Invariance, <1>1, PTL

\* However many trials share the tokens of an experiment, it overspends by less
\* than one call.
THEOREM ExperimentBudget == Spec => []BudgetKept
    <1>1. IInv => BudgetKept
        BY TrialsAssumption DEF IInv, TypeOK, Accounts, InTrial, BudgetKept
    <1>2. QED
        BY Invariance, <1>1, PTL

\* A row reports the coverage of its own trial; after each crash at most one row
\* contains what another client left in the server.
THEOREM RowsOwnCoverage == Spec => []OwnCoverage
    <1>1. IInv => OwnCoverage
        BY DEF IInv
    <1>2. QED
        BY Invariance, <1>1, PTL
-----------------------------------------------------------------------------
(* The agent of every trial is one TrialAgent allows, as that of LLMAgent    *)
(* is (LLMAgentProofs): BudgetKept and OwnCoverage rest on no more of it     *)
(* than the code has.                                                        *)

Place == IF pc \in {"check", "generate", "await"} THEN pc ELSE "over"

Agent == INSTANCE TrialAgent WITH
            Budget   <- INIT_BUDGET,
            place    <- Place,
            tokens   <- budget,
            left     <- stimuli_buffer,
            replied  <- g_coverage # NoReply

\* A trial begins as a new one.
LEMMA AgentBegins ==
    ASSUME IInv, BeginTrial
    PROVE  Agent!Begin
    <1>1. TrialBudget \in 1..INIT_BUDGET
        <2>1. init_budget \in Int /\ total_budget \in Int
            BY TrialsAssumption DEF IInv, TypeOK
        <2>2. QED
            BY <2>1, TrialBudgetIsLess, TrialsAssumption
               DEF IInv, TypeOK, BeginTrial, TokensLeft
    <1>2. Place = "over" /\ Place' = "check"
        BY DEF BeginTrial, Place
    <1>3. Agent!trial' = Agent!New(TrialBudget)
        BY DEF BeginTrial, Agent!trial, Agent!New
    <1>4. QED
        BY <1>1, <1>2, <1>3 DEF Agent!Begin

\* A monitor that counted is not what the client has before a reply.
LEMMA MonitorIsReply ==
    ASSUME IInv
    PROVE  monitor # NoReply
    <1>1. "no reply" \notin monitor
        BY DEF IInv, TypeOK, TrialKinds
    <1>2. QED
        BY <1>1 DEF NoReply

\* A step of the experiment is a step of the agent, or is not seen.
LEMMA AgentStep == IInv /\ [Next]_vars => [Agent!Next]_(Agent!vars)
    <1> SUFFICES ASSUME IInv, [Next]_vars
                 PROVE  Agent!Next \/ UNCHANGED Agent!vars
        OBVIOUS
    <1>1. CASE BeginTrial
        BY <1>1, AgentBegins DEF Agent!Next
    <1>2. CASE EndExperiment \/ RestartClient
        <2>1. Place = "over" /\ Place' = "over"
            BY <1>2 DEF EndExperiment, RestartClient, Place
        <2>2. QED
            BY <2>1 DEF Agent!Between, Agent!Next
    <1>3. CASE GoesOn
        <2>1. Place = "check" /\ Place' = "generate"
            BY <1>3 DEF GoesOn, Place
        <2>2. QED
            BY <1>3, <2>1 DEF GoesOn, no_budget, budgetVars, agentVars, Agent!GoOn,
                              Agent!Limit, Agent!trial, Agent!Next
    <1>4. CASE EndTrial
        <2>1. Place = "check" /\ Place' = "over"
            BY <1>4 DEF EndTrial, Place
        <2>2. QED
            BY <1>4, <2>1 DEF EndTrial, Agent!End, Agent!Next
    <1>5. CASE SendStimulus
        <2>1. /\ Place = "generate" /\ Place' = "await"
              /\ UNCHANGED <<budget, asked, g_coverage>>
            BY <1>5 DEF SendStimulus, Send, Place, budgetVars
        <2>2. Agent!SendOpening \/ Agent!SendNext \/ Agent!SendPlaceholder
            <3>1. asked \in BOOLEAN /\ stopping \in BOOLEAN
                BY DEF IInv, TypeOK
            <3>2. QED
                BY <1>5, <3>1 DEF SendStimulus, no_budget, Agent!SendOpening,
                                  Agent!SendNext, Agent!SendPlaceholder
        <2>3. QED
            BY <2>1, <2>2 DEF Agent!Send, Agent!Next
    <1>6. ASSUME NEW tokens \in 1..MaxCall, NEW stimuli \in 0..MaxStimuli,
                 Answer(tokens, stimuli)
          PROVE  Agent!Ask
        <2>1. Place = "generate" /\ Place' = "generate"
            BY <1>6 DEF Answer, AsksModel, Place
        <2>2. Agent!MayAsk
            BY <1>6, <2>1 DEF Answer, AsksModel, no_budget, Agent!MayAsk, Agent!Limit
        <2>3. QED
            BY <1>6, <2>1, <2>2 DEF Answer, Agent!Ask
    <1>7. CASE AnswerFails
        <2>1. Place = "generate" /\ Place' = "over"
            BY <1>7 DEF AnswerFails, AsksModel, Place
        <2>2. QED
            BY <1>7, <2>1 DEF AnswerFails, AsksModel, no_budget, Agent!MayAsk,
                              Agent!Limit, Agent!Fail, Agent!Next
    <1>8. CASE ReceiveReply
        <2>1. UNCHANGED <<budget, asked, stopping, stimuli_buffer>>
            BY <1>8 DEF ReceiveReply, budgetVars
        <2>2. CASE pc = "finish"
            <3>1. Place = "over" /\ Place' = "over"
                BY <1>8, <2>2 DEF ReceiveReply, Place
            <3>2. QED
                BY <3>1 DEF Agent!Between, Agent!Next
        <2>3. CASE pc = "await"
            <3>1. Place = "await" /\ Place' = "check" /\ g_coverage' = monitor
                BY <1>8, <2>3 DEF ReceiveReply, Place
            <3>2. (g_coverage # NoReply)' = TRUE
                BY <3>1, MonitorIsReply DEF NoReply
            <3>3. QED
                BY <2>1, <3>1, <3>2 DEF Agent!Receive, Agent!Next
        <2>4. QED
            BY <1>8, <2>2, <2>3 DEF ReceiveReply
    <1>9. CASE Serve \/ StartServer \/ UNCHANGED vars
        <2>1. UNCHANGED <<pc, budget, asked, stopping, stimuli_buffer, g_coverage>>
            BY <1>9 DEF Serve, StartServer, vars, budgetVars, agentVars
        <2>2. QED
            BY <2>1 DEF Place, NoReply, Agent!vars, Agent!trial
    <1>10. QED
        BY <1>1, <1>2, <1>3, <1>4, <1>5, <1>6, <1>7, <1>8, <1>9
           DEF Next, Client, Operator, Ended, Agent!Next

\* The agent of every trial of an experiment, the first after a crash included,
\* asks and sends as TrialAgent allows.
THEOREM AgentImplemented == Spec => Agent!Init /\ [][Agent!Next]_(Agent!vars)
    <1>1. Init => Agent!Init
        BY DEF Init, Place, Agent!Init
    <1>2. QED
        BY <1>1, Invariance, AgentStep, PTL DEF Spec
=============================================================================
