-------------------------- MODULE ExperimentClients --------------------------
(***************************************************************************)
(* The clients of the designs (the generate_stimulus.py of each): how an   *)
(* experiment builds its agent, what it makes of the agent's stimuli, how  *)
(* it tells the server to leave, and which replies it takes.  Experiments  *)
(* has the loop they share.                                                *)
(*                                                                         *)
(* A stimulus is a sequence of parts: an integer has one, None and a list  *)
(* of no updates have none.  A part is within its bounds ("in"), on one    *)
(* ("edge"), under or over them ("low", "high"), no number ("word"), or a  *)
(* 0 put there whatever the bounds ("zero"): by a filter for what is no    *)
(* number, or by the client itself in the value that opens a dialog.       *)
(***************************************************************************)
EXTENDS Naturals, Sequences

CONSTANT
    DIALOG_BOUNDS   \* bound: what stands for a dialog_bound of 300 or 700 messages
                    \* and for the cycles of a random agent

ASSUME ClientsAssumption == DIALOG_BOUNDS \in Nat \ {0}

NoValue == <<>>

ZeroInt == <<"in">>

Repeat(part, n) == [i \in 1..n |-> part]

-----------------------------------------------------------------------------
(* StimulusSender.send_stimulus: the types of state and database it takes.  *)

sender_FT == [state |-> {"AG_FTDS"}, coverage |-> {"AG_FTCD"}]

sender_WB == [state |-> {"AG_WBDS"}, coverage |-> {"AG_WBCD"}]

sender_AF == [state |-> {"AFDS"}, coverage |-> {"AFCD"}]

sender_SDRAM == [state |-> {"SDRAMDS"}, coverage |-> {"SDRAMCD"}]

sender_SD == [state |-> {"SDDS"}, coverage |-> {"SDCD"}]

sender_IC == [state |-> {"ICDS"}, coverage |-> {"ICCD"}]

\* The decoder's reply is a database alone.
sender_ID == [state |-> {"none"}, coverage |-> {"IDCD"}]

\* Faulty: takes its own type of database only, as the others do.
sender_MC_Checked == [state |-> {"MCDS"}, coverage |-> {"MCCD"}]

\* The type of the database is not checked.
sender_MC == [state |-> {"MCDS"}, coverage |-> {"MCCD", "ICCD"}]

\* The servers' replies: the MIPS server's monitor has an ICCD.
reply_of ==
    [FT |-> [state |-> "AG_FTDS", coverage |-> "AG_FTCD"],
     WB |-> [state |-> "AG_WBDS", coverage |-> "AG_WBCD"],
     AF |-> [state |-> "AFDS", coverage |-> "AFCD"],
     SDRAM |-> [state |-> "SDRAMDS", coverage |-> "SDRAMCD"],
     SD |-> [state |-> "SDDS", coverage |-> "SDCD"],
     ID |-> [state |-> "none", coverage |-> "IDCD"],
     IC |-> [state |-> "ICDS", coverage |-> "ICCD"],
     MC |-> [state |-> "MCDS", coverage |-> "ICCD"]]

Takes(sender, reply) ==
    reply.state \in sender.state /\ reply.coverage \in sender.coverage

-----------------------------------------------------------------------------
(* main: an LLMAgent.  "cutoff" is easy_cutoff, "bounds" the filter's, one  *)
(* for each part ("free" for None), "opening" what is sent for the agent's  *)
(* 0 or [], "leaving" what is sent with finish.                             *)

Methods == {"RANDOM", "NEWEST", "MIXED"}

main_FT ==
    [design |-> "FT", kind |-> "main", methods |-> Methods, cutoff |-> 100,
     extractor |-> "Universal", bounds |-> <<"free", "ints", "ints", "ints">>,
     messages |-> DIALOG_BOUNDS, opening |-> <<"in", "in", "zero", "zero">>,
     leaving |-> Repeat("in", 4), sender |-> sender_FT]

main_WB ==
    [design |-> "WB", kind |-> "main", methods |-> Methods, cutoff |-> 100,
     extractor |-> "Universal", bounds |-> <<"ints", "ints">>,
     messages |-> DIALOG_BOUNDS, opening |-> Repeat("in", 2),
     leaving |-> Repeat("in", 2), sender |-> sender_WB]

main_AF ==
    [design |-> "AF", kind |-> "main", methods |-> Methods, cutoff |-> 100,
     extractor |-> "Universal", bounds |-> <<"ints", "ints", "ints">>,
     messages |-> DIALOG_BOUNDS, opening |-> <<"zero", "in", "in">>,
     leaving |-> Repeat("in", 3), sender |-> sender_AF]

main_SDRAM ==
    [design |-> "SDRAM", kind |-> "main", methods |-> Methods, cutoff |-> 100,
     extractor |-> "Universal", bounds |-> <<"ints", "ints", "ints">>,
     messages |-> DIALOG_BOUNDS, opening |-> Repeat("in", 3),
     leaving |-> Repeat("in", 3), sender |-> sender_SDRAM]

main_SD ==
    [design |-> "SD", kind |-> "main", methods |-> Methods, cutoff |-> 200,
     extractor |-> "Dumb", bounds |-> <<"ints">>,
     messages |-> DIALOG_BOUNDS, opening |-> ZeroInt, leaving |-> NoValue,
     sender |-> sender_SD]

main_ID ==
    [design |-> "ID", kind |-> "main", methods |-> Methods, cutoff |-> 200,
     extractor |-> "Universal", bounds |-> <<"ints">>,
     messages |-> DIALOG_BOUNDS, opening |-> ZeroInt, leaving |-> NoValue,
     sender |-> sender_ID]

\* The last updates are sent again with finish.
main_IC ==
    [design |-> "IC", kind |-> "main", methods |-> Methods, cutoff |-> 50,
     extractor |-> "Universal", bounds |-> <<"ints">>,
     messages |-> DIALOG_BOUNDS, opening |-> NoValue, leaving |-> NoValue,
     sender |-> sender_IC]

main_MC ==
    [design |-> "MC", kind |-> "main", methods |-> Methods, cutoff |-> 50,
     extractor |-> "Universal", bounds |-> <<"ints">>,
     messages |-> DIALOG_BOUNDS, opening |-> NoValue, leaving |-> NoValue,
     sender |-> sender_MC]
-----------------------------------------------------------------------------
(* random_experiment: a scripted agent, whose values are "opening".  Those  *)
(* of four designs leave with a value of None.                              *)

Scripted(design, value, leaving, sender) ==
    [design |-> design, kind |-> "random", methods |-> {"none"},
     messages |-> DIALOG_BOUNDS, opening |-> value, leaving |-> leaving,
     sender |-> sender]

random_FT == Scripted("FT", Repeat("in", 4), NoValue, sender_FT)

random_WB == Scripted("WB", Repeat("in", 2), NoValue, sender_WB)

random_AF == Scripted("AF", Repeat("in", 3), NoValue, sender_AF)

random_SDRAM == Scripted("SDRAM", Repeat("in", 3), NoValue, sender_SDRAM)

random_SD == Scripted("SD", ZeroInt, NoValue, sender_SD)

random_ID == Scripted("ID", ZeroInt, NoValue, sender_ID)

\* One pair of address and instruction.
random_IC == Scripted("IC", ZeroInt, ZeroInt, sender_IC)

random_MC == Scripted("MC", ZeroInt, ZeroInt, sender_MC)

-----------------------------------------------------------------------------
(* The decoder's and the Ibex CPU's other experiments ask for methods that  *)
(* the prompt generator lists and then refuses.                             *)

main_llama2_ID == [main_ID EXCEPT !.methods = {"IDNEWEST"}, !.kind = "other",
                                  !.extractor = "Dumb", !.cutoff = 100]

budget_experiment_ID == [main_llama2_ID EXCEPT !.methods = {"IDADANEW"}]

budget_experiment_IC == [main_IC EXCEPT !.methods = {"ICNEWEST"}, !.kind = "other",
                                        !.cutoff = 100]

Experiments ==
    {main_FT, main_WB, main_AF, main_SDRAM, main_SD, main_ID, main_IC, main_MC,
     random_FT, random_WB, random_AF, random_SDRAM, random_SD, random_ID, random_IC,
     random_MC, main_llama2_ID, budget_experiment_ID, budget_experiment_IC}
=============================================================================
