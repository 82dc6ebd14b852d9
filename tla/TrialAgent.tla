----------------------------- MODULE TrialAgent -----------------------------
(***************************************************************************)
(* What a budget experiment relies on in the agent of a trial, whatever    *)
(* its limits and however it restarts its dialogues.  It asks the model    *)
(* only with tokens left, no limit met and no stimulus in hand; it sends   *)
(* the stimuli of an answer one at a time, each after the reply to the one *)
(* before; at a limit it sends one more, and the trial is over.            *)
(***************************************************************************)
EXTENDS Integers

CONSTANTS
    Budget,     \* tokens of a trial at most
    MaxCall,    \* tokens of a call at most
    MaxStimuli  \* stimuli of an answer at most

VARIABLES
    place,      \* "over": there is no trial, and the rest has no meaning
    tokens,     \* left of the budget of the trial
    asked,      \* the model has been asked
    stopping,   \* a limit other than the budget has been met
    left,       \* stimuli in hand
    replied     \* the server has replied

trial == <<tokens, asked, stopping, left, replied>>
vars == <<place, trial>>

New(budget) == <<budget, FALSE, FALSE, 0, FALSE>>

Init ==
    \/ place = "over"
    \/ place = "check" /\ trial = New(Budget)

Begin ==
    /\ place = "over"
    /\ place' = "check"
    /\ \E budget \in 1..Budget : trial' = New(budget)

Between == place = "over" /\ place' = "over"

Limit == tokens <= 0 \/ stopping

GoOn ==
    /\ place = "check"
    /\ ~replied \/ left > 0 \/ ~Limit
    /\ place' = "generate"
    /\ UNCHANGED trial

End == place = "check" /\ replied /\ place' = "over"

SendOpening == ~replied /\ UNCHANGED <<left, stopping>>

SendNext == left > 0 /\ left' = left - 1 /\ UNCHANGED stopping

SendPlaceholder ==
    /\ replied
    /\ left = 0
    /\ stopping' \in {stopping, stopping \/ asked}
    /\ tokens <= 0 \/ stopping'
    /\ UNCHANGED left

Send ==
    /\ place = "generate"
    /\ place' = "await"
    /\ SendOpening \/ SendNext \/ SendPlaceholder
    /\ UNCHANGED <<tokens, asked, replied>>

MayAsk == place = "generate" /\ replied /\ left = 0 /\ ~Limit

Ask ==
    /\ MayAsk
    /\ \E call \in 1..MaxCall : tokens' = tokens - call
    /\ left' \in 0..MaxStimuli
    /\ asked' = TRUE
    /\ UNCHANGED <<place, stopping, replied>>

\* The model does not answer.
Fail == MayAsk /\ place' = "over"

Receive ==
    /\ place = "await"
    /\ place' = "check"
    /\ replied' = TRUE
    /\ UNCHANGED <<tokens, asked, stopping, left>>

Next == Begin \/ Between \/ GoOn \/ End \/ Send \/ Ask \/ Fail \/ Receive

Spec == Init /\ [][Next]_vars
=============================================================================
