---------------------------- MODULE Conversation ----------------------------
(***************************************************************************)
(* A trial with the conversation the model wrapper keeps and sends on each *)
(* call (models/llm_gpt.py; llm_openrouter.py, llm_llama2.py and           *)
(* llm_azure.py repeat it, with the differences modelled by wrapper).      *)
(* Message k of the run is a user message and the answer to it; a          *)
(* best_messages entry with that id stands for the two.                    *)
(***************************************************************************)
EXTENDS LLMAgent, FiniteSetsExt

CONSTANTS
    Settings,           \* the settings of wrappers explored
    RemainIterNum       \* REMAIN_ITER_NUM, and the 3 of __best_3, __recent_3

\* One model wrapper as main constructs it.
WrapperSettings == [
    wrapper       : {"ChatGPT", "OpenRouter", "Llama2", "AzureOpenai"},
    resetting     : {"STABLE", "KEEP", "CLEAR"},
    algo          : {"best_3", "best_2_recent_1", "recent_3"},
    system_prompt : BOOLEAN]

ASSUME ConversationAssumption ==
    /\ Settings \subseteq WrapperSettings
    /\ ResetModes = {s.resetting : s \in Settings}
    /\ RemainIterNum \in Nat \ {0}
    /\ BestCap = 3 * RemainIterNum

VARIABLES
    messages, recent_msgs,
    wrapper, algo, system_prompt    \* settings, chosen once

settings == <<wrapper, algo, system_prompt>>
convVars == <<messages, recent_msgs, settings>>

-----------------------------------------------------------------------------
Message(role, id) == [role |-> role, id |-> id]

Pair(id) == <<Message("user", id), Message("assistant", id)>>

Opening == IF system_prompt THEN <<Message("system", 0)>> ELSE << >>

\* s[:n] and s[-n:] of Python.
FirstN(s, n) == SubSeq(s, 1, IF n < Len(s) THEN n ELSE Len(s))
LastN(s, n) == SubSeq(s, IF n < Len(s) THEN Len(s) - n + 1 ELSE 1, Len(s))

\* Users and assistants in turn.
Turn(i) == IF i % 2 = 1 THEN "user" ELSE "assistant"

\* The messages with the ids of s, each the question and its answer.
Pairs(s) == [i \in 1..2 * Len(s) |-> Message(Turn(i), s[(i + 1) \div 2])]

\* Faulty: the entries stay in the order of their hits.
Chronological_Reversed(ids) ==
    {Pairs(s) : s \in {o \in [1..Cardinality(ids) -> ids] :
                            \A i, j \in DOMAIN o : i < j => o[i] > o[j]}}

\* The entries with these ids, sorted by id: one sequence.
Chronological(ids) ==
    {Pairs(s) : s \in {o \in [1..Cardinality(ids) -> ids] :
                            \A i, j \in DOMAIN o : i < j => o[i] < o[j]}}

\* _select_successful: any n entries at random, all of them when they are fewer.
Selections(n) ==
    LET ids == {e.id : e \in Entries(best_messages)}
    IN  UNION {Chronological(chosen) :
            chosen \in IF Cardinality(ids) < n THEN {ids} ELSE kSubset(n, ids)}

\* What the compression algorithm may keep of the conversation.
Compressed ==
    CASE algo = "best_3" -> Selections(RemainIterNum)
      [] algo = "best_2_recent_1" ->
            {best \o LastN(recent_msgs, 2) : best \in Selections(RemainIterNum - 1)}
      [] algo = "recent_3" -> {LastN(messages, 2 * RemainIterNum)}

\* Faulty: compression never starts.
CompressionDue_Never == best_iter_buffer_resetting = "KEEP"

CompressionDue ==
    \/ best_iter_buffer_resetting = "KEEP"
    \/ Len(messages) >= 4 + 2 * RemainIterNum

\* Faulty: the system prompt is not counted.
Init3_NoSystem == FirstN(messages, 2)

\* The system prompt and the first query and answer of the conversation.
Init3 == FirstN(messages, IF messages[1].role = "system" THEN 3 ELSE 2)

\* _compress_conversation: the conversations it may leave.
Conversations ==
    IF CompressionDue THEN {Init3 \o kept : kept \in Compressed} ELSE {messages}

\* llm_azure.py names a class it does not import, unless KEEP hides the name;
\* and under KEEP messages[0] is looked at even in an empty conversation.
CompressionRaises ==
    \/ wrapper = "AzureOpenai" /\ best_iter_buffer_resetting # "KEEP"
    \/ best_iter_buffer_resetting = "KEEP" /\ messages = << >>

-----------------------------------------------------------------------------
InitConversation ==
    /\ Init
    /\ \E s \in Settings :
            /\ s.resetting = best_iter_buffer_resetting
            /\ wrapper = s.wrapper
            /\ algo = s.algo
            /\ system_prompt = s.system_prompt
    /\ messages = Opening
    /\ recent_msgs = << >>

\* __call__ up to the answer of the model.
Asked == \E conversation \in Conversations :
            messages' = Append(conversation, Message("user", total_msg_cnt + 1))

CallAnswered(stimuli, tokens) ==
    /\ ~CompressionRaises
    /\ Answer(stimuli, tokens)
    /\ \E conversation \in Conversations :
            messages' = conversation \o Pair(total_msg_cnt + 1)
    /\ recent_msgs' = recent_msgs \o Pair(total_msg_cnt + 1)
    /\ UNCHANGED settings

\* Every retry fails: the question stays in the conversation.
CallFails ==
    /\ ~CompressionRaises
    /\ AnswerFails
    /\ Asked
    /\ recent_msgs' = Append(recent_msgs, Message("user", total_msg_cnt + 1))
    /\ UNCHANGED settings

\* The exception of the compression ends the client.
CallRaises ==
    /\ CompressionRaises
    /\ AnswerFails
    /\ UNCHANGED convVars

\* Faulty: the conversation goes on over a restart.
ResetConversation_Keep == messages' = messages /\ recent_msgs' = << >>

\* The reset of the wrapper; Llama2 does not clear recent_msgs.
ResetConversation ==
    /\ messages' = Opening
    /\ recent_msgs' = IF wrapper = "Llama2" THEN recent_msgs ELSE << >>

\* A step of the agent that may restart the dialog.
Restarting ==
    /\ GenerateNextValue \/ PreparePrompt
    /\ IF dialog_index' # dialog_index
       THEN ResetConversation
       ELSE UNCHANGED <<messages, recent_msgs>>
    /\ UNCHANGED settings

NextConversation ==
    \/ Restarting
    \/ \E stimuli \in 0..MaxStimuli, tokens \in 1..MaxTokens : CallAnswered(stimuli, tokens)
    \/ CallFails
    \/ CallRaises
    \/ EndSimulation /\ UNCHANGED convVars
    \/ SendStimulus /\ UNCHANGED convVars
    \/ ReturnPlaceholder /\ UNCHANGED convVars
    \/ (\E hits \in 0..(BinCount - dut_hits) : Simulate(hits)) /\ UNCHANGED convVars
    \/ Finish /\ UNCHANGED convVars
    \/ Stopped /\ UNCHANGED convVars

SpecConversation ==
    InitConversation /\ [][NextConversation]_<<vars, convVars>>

-----------------------------------------------------------------------------
\* The conversation sent to the model stays short enough for its context: the
\* opening three messages, the kept pairs and the new one.
BoundedConversation == Len(messages) <= 5 + 2 * RemainIterNum

\* KEEP compresses a conversation of any length, and the end recent_3 keeps of a
\* short one is its opening once more.
OpeningTwice == best_iter_buffer_resetting = "KEEP" /\ algo = "recent_3"

\* Models expect a dialog: an optional system prompt, only at the start, then
\* the user and the assistant in turn.
Alternating ==
    ~OpeningTwice =>
        /\ FirstN(messages, Len(Opening)) = Opening
        /\ \A i \in 1..(Len(messages) - Len(Opening)) :
                messages[i + Len(Opening)].role = Turn(i)

\* No message is offered twice: STABLE compresses only when the opening and the
\* messages kept cannot overlap, and the buffer holds no message of the opening.
\* (best_2_recent_1 may take the last message from both of its sources.)
NoRepeats ==
    best_iter_buffer_resetting = "STABLE" /\ algo # "best_2_recent_1" =>
        \A i, j \in 1..Len(messages) : messages[i] = messages[j] => i = j

\* The number of the first message of this dialog.
FirstOfDialog == total_msg_cnt - msg_index + 1

\* However often it is compressed, the conversation starts with the first query
\* of this dialog, which holds the task description and the coverage plan.  (KEEP
\* fills a restarted conversation before that query is asked.)
OpeningKept ==
    LET start == Len(Opening)
    IN  best_iter_buffer_resetting # "KEEP" =>
        /\ FirstN(messages, start) = Opening
        /\ pc # "crashed" /\ msg_index > 0 =>
                SubSeq(messages, start + 1, start + 2) = Pair(FirstOfDialog)

\* Under CLEAR a restarted dialog knows nothing of the dialogs before it.
ClearForgets ==
    best_iter_buffer_resetting = "CLEAR" => \A i \in 1..Len(messages) :
        messages[i].role # "system" => messages[i].id >= FirstOfDialog

\* A conversation is about its own dialog: it opens with the query of this dialog,
\* and under CLEAR it holds nothing of the dialogs before.
OwnDialog == OpeningKept /\ ClearForgets

\* After the opening, the messages kept stand in the order in which they were
\* exchanged, whatever their hits and whichever were drawn, and none twice.
InOrder ==
    /\ NoRepeats
    /\ ~OpeningTwice => \A i, j \in Len(Opening) + 3..Len(messages) :
            i < j => messages[i].id <= messages[j].id

\* README.md:129 offers CLEAR, KEEP and STABLE as ways to reset the buffer:
\* under each of them the conversation can be compressed and the model called.
Callable == pc = "prompt" => ~CompressionRaises
=============================================================================
