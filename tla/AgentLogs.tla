------------------------------ MODULE AgentLogs ------------------------------
(***************************************************************************)
(* A trial with its two loggers (loggers/logger_txt.py, logger_csv.py).    *)
(* The agent changes their records in memory (log_append, log_reset) and   *)
(* has them write what is new to their files (save_log).  Every step of    *)
(* LLMAgent is taken together with the logging the code does in it.        *)
(***************************************************************************)
EXTENDS LLMAgent

VARIABLES
    txt,    \* [log, index, dialog, msg, total, file] of the TXTLogger
    csv     \* [log, file] of the CSVLogger; logged_index is Len(csv.file)

logs == <<txt, csv>>
logVars == <<vars, logs>>

-----------------------------------------------------------------------------
\* An entry says what the agent knew; `dialog`, `msg` and `total` are not in the
\* code's entries of the text log, whose file is numbered by the logger's own
\* counters.
Entry(role, content, msg, total) ==
    [role |-> role, content |-> content,
     dialog |-> dialog_index, msg |-> msg, total |-> total]

\* An entry about the message asked last.
Note(role, content) == Entry(role, content, msg_index, total_msg_cnt)

Head4Log == <<Note("info", None), Note("system", None)>>

TxtAppend(t, entry) == [t EXCEPT !.log = Append(@, entry)]

\* save_log: write the entries from logged_index on, counting user messages.
TxtSave(t) ==
    LET new      == SubSeq(t.log, t.index + 1, Len(t.log))
        users(i) == Cardinality({j \in 1..i : new[j].role = "user"})
    IN  [t EXCEPT
            !.index = Len(t.log),
            !.msg   = @ + users(Len(new)),
            !.total = @ + users(Len(new)),
            !.file  = @ \o [i \in 1..Len(new) |->
                        [entry |-> new[i], dialog |-> t.dialog, msg |-> t.msg + users(i),
                         total |-> t.total + users(i)]]]

\* Faulty: logged_index is not reset with the list it points into.
TxtReset_KeepIndex(t) ==
    [TxtSave(TxtAppend(t, Note("reset", None)))
        EXCEPT !.log = << >>, !.msg = 0, !.dialog = @ + 1]

\* Faulty: messages are numbered on across dialogs.
TxtReset_KeepCount(t) ==
    [TxtSave(TxtAppend(t, Note("reset", None)))
        EXCEPT !.log = << >>, !.index = 0, !.dialog = @ + 1]

TxtReset(t) ==
    [TxtSave(TxtAppend(t, Note("reset", None)))
        EXCEPT !.log = << >>, !.index = 0, !.msg = 0, !.dialog = @ + 1]

\* The last row, logger.log[-1], is changed in place.
CsvCoverage(c, coverage) == [c EXCEPT !.log[Len(c.log)].cov = coverage]

CsvAction(c, action) == [c EXCEPT !.log[Len(c.log)].action = action]

CsvSave(c) == [c EXCEPT !.file = @ \o SubSeq(c.log, Len(@) + 1, Len(c.log))]

InitLogs ==
    /\ Init
    /\ txt = [log |-> Head4Log, index |-> 0, dialog |-> 1, msg |-> 0, total |-> 0,
              file |-> << >>]
    /\ csv = [log |-> << >>, file |-> << >>]

-----------------------------------------------------------------------------
\* Coverage and the stop reason are logged and saved.
LogStop ==
    /\ csv.log # << >>
    /\ txt' = TxtSave(TxtAppend(TxtAppend(txt, Note("coverage", g_coverage)),
                                Note("stop", StopReason)))
    /\ csv' = CsvSave(CsvAction(CsvCoverage(csv, g_coverage), StopReason))

EndSimulationLogged ==
    /\ EndSimulation
    /\ IF StopReason = "none" THEN UNCHANGED logs ELSE LogStop

\* Full coverage before the first message: the CSV logger has no row to change,
\* and log[-1] raises an exception.
StopWithoutRow ==
    /\ pc = "check"
    /\ StopReason # "none"
    /\ csv.log = << >>
    /\ state' = "DONE"
    /\ pc' = "crashed"
    /\ txt' = TxtAppend(txt, Note("coverage", g_coverage))
    /\ UNCHANGED <<total_msg_cnt, msg_index, dialog_index, history_cov_rate,
                   all_history_cov_rate, token_budget, best_messages,
                   best_iter_buffer_resetting, stimuli_buffer, f_, g_coverage, dut_hits,
                   stop, sent, gain, csv>>

\* Faulty: the row is written before it is marked as the last of its dialog.
LogJudgement_SaveFirst ==
    LET t == TxtAppend(txt, Note("coverage", g_coverage))
        c == CsvCoverage(csv, g_coverage)
    IN  IF all_history_cov_rate' = all_history_cov_rate
        THEN UNCHANGED logs
        ELSE IF dialog_index' # dialog_index
        THEN txt' = TxtReset(t) /\ csv' = CsvAction(CsvSave(c), "reset")
        ELSE txt' = TxtSave(t) /\ csv' = CsvSave(c)

\* What a step that judges a message logs: log_reset marks the last entries and
\* saves them, and a dialog that goes on is saved as it is.
LogJudgement ==
    LET t == TxtAppend(txt, Note("coverage", g_coverage))
        c == CsvCoverage(csv, g_coverage)
    IN  IF all_history_cov_rate' = all_history_cov_rate
        THEN UNCHANGED logs
        ELSE IF dialog_index' # dialog_index
        THEN txt' = TxtReset(t) /\ csv' = CsvSave(CsvAction(c, "reset"))
        ELSE txt' = TxtSave(t) /\ csv' = CsvSave(c)

AnswerLogged(stimuli, tokens) ==
    /\ Answer(stimuli, tokens)
    /\ txt' = TxtAppend(TxtAppend(txt, Entry("user", None, msg_index + 1, total_msg_cnt + 1)),
                        Entry("assistant", None, msg_index + 1, total_msg_cnt + 1))
    /\ csv' = [csv EXCEPT !.log = Append(@,
                [dialog |-> dialog_index, msg |-> msg_index + 1,
                 action |-> "none", cov |-> None])]

NextLogged ==
    \/ EndSimulationLogged
    \/ StopWithoutRow
    \/ GenerateNextValue /\ LogJudgement
    \/ SendStimulus /\ UNCHANGED logs
    \/ ReturnPlaceholder /\ UNCHANGED logs
    \/ PreparePrompt /\ LogJudgement
    \/ \E stimuli \in 0..MaxStimuli, tokens \in 1..MaxTokens : AnswerLogged(stimuli, tokens)
    \/ AnswerFails /\ UNCHANGED logs
    \/ (\E hits \in 0..(BinCount - dut_hits) : Simulate(hits)) /\ UNCHANGED logs
    \/ Finish /\ UNCHANGED logs
    \/ Stopped /\ UNCHANGED logs

SpecLogged == InitLogs /\ [][NextLogged]_logVars

\* Logging never waits: the trial goes on as it does without.
FairSpecLogged == SpecLogged /\ WF_logVars(NextLogged)

-----------------------------------------------------------------------------
Over == pc \in {"finish", "ended"}

\* The text file numbers each message as the agent does, though the loggers and
\* the agent count dialogs and messages apart, at different moments.
TxtNumbering ==
    \A i \in 1..Len(txt.file) :
        LET rec == txt.file[i]
        IN  rec.entry.role \in {"user", "assistant"} =>
                /\ rec.dialog = rec.entry.dialog
                /\ rec.msg = rec.entry.msg
                /\ rec.total = rec.entry.total

\* Records of prompts in the text file.
Asked == {i \in 1..Len(txt.file) : txt.file[i].entry.role = "user"}

\* When the trial is over the text file holds every message once, in the order
\* they were asked, and ends with the reason of the stop.
TxtComplete ==
    Over =>
        /\ \A m \in 1..total_msg_cnt : \E i \in Asked : txt.file[i].entry.total = m
        /\ \A i, j \in Asked : i < j => txt.file[i].entry.total < txt.file[j].entry.total
        /\ txt.file[Len(txt.file)].entry.role = "stop"
        /\ txt.file[Len(txt.file)].entry.content = stop

\* A row of the CSV file is written once, with the coverage its message was
\* judged by, and it says "reset" exactly where the next row opens a dialog.
CsvRows ==
    \A i \in 1..Len(csv.file) :
        LET row == csv.file[i]
        IN  /\ row.cov # None
            /\ i <= Len(all_history_cov_rate) => row.cov = all_history_cov_rate[i]
            /\ i < Len(csv.log) =>
                \/ /\ row.action = "reset"
                   /\ csv.log[i + 1].dialog = row.dialog + 1
                   /\ csv.log[i + 1].msg = 1
                \/ /\ row.action = "none"
                   /\ csv.log[i + 1].dialog = row.dialog
                   /\ csv.log[i + 1].msg = row.msg + 1
=============================================================================
