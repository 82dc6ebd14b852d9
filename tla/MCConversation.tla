--------------------------- MODULE MCConversation ---------------------------
(***************************************************************************)
(* Small instances of Conversation.                                        *)
(***************************************************************************)
EXTENDS Conversation

Tolerant(cov, all) == rst_plan_Tolerance(cov, 5, 1)

Setting(class, mode, algorithm, prompted) ==
    [wrapper |-> class, resetting |-> mode, algo |-> algorithm, system_prompt |-> prompted]

WorkingSettings == {
    Setting("OpenRouter", "STABLE", "best_3", TRUE),
    Setting("OpenRouter", "STABLE", "recent_3", FALSE),
    Setting("Llama2", "CLEAR", "best_2_recent_1", TRUE),
    Setting("Llama2", "CLEAR", "best_3", FALSE),
    Setting("ChatGPT", "KEEP", "best_3", TRUE),
    Setting("OpenRouter", "KEEP", "recent_3", TRUE),
    Setting("ChatGPT", "KEEP", "best_2_recent_1", FALSE)}

AzureSettings == {Setting("AzureOpenai", "STABLE", "best_3", TRUE)}
=============================================================================
