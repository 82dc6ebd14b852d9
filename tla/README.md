# A formal model of llm4dv

llm4dv lets a language model write test stimuli for hardware designs. A *client*
asks a model for stimuli, sends them to a *server* that simulates the design under
test with cocotb, gets the functional coverage back, and tells the model what is
still missing. This directory holds TLA+ modules that model both sides: the client's
agent, loggers, conversation with the model, prompt sampling and experiments, and
the servers of eight designs with as much of the designs as the servers wait for;
TLC configurations that check them on small instances; and proofs, checked by
TLAPS, of the main results for every value of the constants.

Paths below are relative to the repository root. `A:n` stands for
`agents/agent_LLM.py:n`, `G:n` for `models/llm_gpt.py:n`.

    tlc -workers 2 -config MCAgentLogs.cfg MCAgentLogs       # model-check a run
    tlapm LLMAgentProofs.tla                               # check the proofs

## 1. Inventory of the system

| part | state it keeps | operations | interacts with |
|------|----------------|------------|----------------|
| Main loop of the client (`*/generate_stimulus.py`) | last reply of the server | `while not end_simulation: generate_next_value, send_stimulus`; `budget_experiment` repeats trials on a shared token budget | agent (calls), server (ZMQ request and reply, blocking) |
| LLM agent (`agents/agent_LLM.py`) | state, stimuli buffer, message counters, coverage histories, token budget | `end_simulation`, `generate_next_value`, `reset`, log calls | model wrapper, prompt generator, extractor, filter, loggers (calls) |
| Restart plans (`A:425-483`) | none | six predicates on coverage histories | called by the agent |
| Best-message buffer (`models/llm_base.py`) | `best_messages` | `append_successful`, `update_successful`, `_select_successful` | written by the agent, read by the compression |
| Model wrappers (`models/llm_*.py`) | `messages`, `recent_msgs` | `__call__` with retries, `_compress_conversation`, `reset` | remote or local model |
| Loggers (`loggers/logger_{txt,csv}.py`) | records in memory, file, `logged_index`, counters | `save_log`; the agent changes the records directly | agent |
| Clients of the designs (`*/generate_stimulus.py`) | none | `main`, `random_experiment`: choose generator, extractor, filter and agent; what stands for the agent's 0, what is sent at the end | all of the client |
| Prompt generators (`prompt_generators/prompt_generator_template.py`) | previous coverage, history of rates, sampling method | initial and iterative prompts, three samplings of the missed bins, `reset` | agent |
| Prompt templates (`prompt_generator_template_*.py`) | words for the bins of a design | result summary, words of a bin | generator |
| Coverage databases (`global_shared_types.py`, `*/shared_types.py`) | counters of bins | plan of a design, rate, update | servers, agent, generator |
| Extractors and filters (`stimuli_extractor.py`, `stimuli_filter.py`) | none | text to stimuli, clamping | agent |
| Random agents (`agents/agent_random.py`) | cycles | values within bounds | `random_experiment` |
| Servers (`*/*_cocotb.py`) | coverage counters, sockets, monitors | receive a stimulus, drive the design, sample coverage, reply | client, design |
| Stride detector (`stride_detector/stride_detector.sv`) | last value, a stride, a pair of strides, confidences | clock edge | its server |
| Stride coverage monitor | last 16 values, stride state, tolerance counter | `sample_coverage` | its server |
| Ibex and MIPS servers | shared instruction buffer, counters of waits, registers of the monitor | memory agents, controller, monitor: three coroutines | client, design |
| Fetch tag server | copy of the allocation | six operations, some of which leave wires driven | client, design |
| Weight bank server, `shared_helpers/cocotb_helpers.py` | rows and beats counted so far | request a matrix, skip and sample beats | client, design |
| FIFO server | previous pointers and flags of two monitors | drive both sides; a monitor per clock | client, design |
| SDRAM server | cycles left of a reset | wait, drive, wait; a coroutine that counts commands | client, design |
| Decoder server | what was seen of the last instruction | sample, update of crossed bins | client, design |
| Dumb and CLI agents, plotter, CSV tools | trivial | | |

The client is sequential: hard behaviour there is not parallelism but *long
sequences of legal calls*. Restarts, gibberish answers, early returns and stops
interleave over many messages, and five counters (`total_msg_cnt`, `msg_index`,
`dialog_index`, two logger counters), two histories and a list sorted behind its
owner's back must stay in step. Failures are a model that never answers and a
budget that overshoots. In the servers it is cocotb coroutines that share globals
between awaits, wires that stay driven after an early return, copies of the design's
state, and monitors that compare with values they saved at an earlier edge.

What makes each part correct:

* agent: each message is judged exactly once, before the next is asked; a restart
  plan compares messages of one dialog only; a remembered message is ranked by what
  its own stimuli hit; the run stops when it has converged, used its messages or
  its tokens; the placeholder of an early return is never simulated as a stimulus
  in the middle of a trial;
* wrapper: the conversation sent stays bounded, is a well-formed dialog, keeps the
  task description, repeats nothing and is chronological; a cleared buffer is clear;
* loggers: every message reaches the file once, under the numbers the agent gave it;
* stride detector: any pattern is learnt in a bounded number of values from every
  earlier state, and overflows are not reported as strides;
* monitor: it agrees with the detector, and credits changes of pattern as documented;
* budget experiment: trials together stay within the budget, a row reports its own
  trial, and the experiment ends;
* Ibex and MIPS servers: coverage is counted for the instruction the client sent and
  no other, one execution is sampled a bounded number of times, the core always has
  something to execute, and every request is answered however the core behaves;
* fetch tag server: its copy of the allocation errs on one side only, and the design
  fetches for a request only under the conditions the code waits for;
* FIFO server: no word is lost between the two clocks, whatever their ratio, and the
  monitors agree on laps and refusals;
* SDRAM server: one access a stimulus, refreshes in time, commands in order;
* weight bank and decoder servers: a burst or an instruction is counted under what
  it was, and nothing of the one before is credited to it;
* experiments: the parts a client wires together fit each other and the server, and
  the generator never asks for bins or words that are not there.

`PROJECT.json` lists the hazards behind these properties, each with its line.

## 2. Modules

    MessageLedger  <----refines----  LLMAgent  -- extends --> BestMessages, RestartPlans
                                     |    |    \
                            AgentLogs  Conversation  LLMAgentProofs
    AgentLogs, LLMAgentProofs <- AgentLogsProofs
    Conversation, LLMAgentProofs <- ConversationProofs
    CoveragePlans, ExperimentClients <- Experiments <- ExperimentsProofs
    StrideTypes <- StrideDetector, StrideCoverage <- StrideTestbench
                   StrideTestbench <- StrideTestbenchProofs
    Trials <- TrialsProofs
    TrialAgent  <----refined by----  LLMAgent (LLMAgentProofs), Trials (TrialsProofs)
    InstructionMonitor <- InstructionFeed <- InstructionFeedProofs
    FetchTag, FifoMonitors, SdramServer, BurstCoverage, DecoderMonitor, MipsFeed <- Servers
    Servers <- ServersProofs

**LLMAgent** (the core). `pc` is the place of the client's thread: `check`
(`end_simulation`), `generate` (`generate_next_value` up to its loop), `loop` (head
of `while` at `A:177`), `prompt` (the model is being called), `await` (the server
has the stimulus), `finish`, `ended`, `crashed`. Code between two of these places
is one action, with all the calls it makes: `GenerateNextValue` contains the
judgement of a finished message (credit, history, restart), `PreparePrompt` that
of a gibberish one. The other variables have the code's names; `dut_hits` is the
server's coverage and `gain` a history variable that counts what each message's
stimuli hit. Stimuli of one answer are a number, coverage is the number of bins
hit, the model's answer is any number of stimuli (0 is gibberish) and any use of
tokens, and a stimulus hits any number of new bins. `AnswerFails` is a model
that fails through all retries: `__call__` returns `None`, which `A:245` cannot unpack.

**BestMessages** keeps `best_messages` as the unjudged tail (`fresh`) and the set of
settled entries (`ranked`): the list is sorted by hits with ties in any order that
no caller depends on. `update_successful` sorts, cuts to the best ones and keeps
ties. **RestartPlans** has the plans with their periods as parameters.

**MessageLedger** is the abstract specification of a trial: a message is asked,
judged, and only then is the next asked, up to a bound; the trial finally stops.

**TrialAgent** is what a budget experiment relies on in the agent of a trial: the model
is asked with tokens left, no limit met and no stimulus in hand; the stimuli of an answer
are sent one at a time, each after the reply to the one before; at a limit one more is
sent. LLMAgent and the agent in Trials are both shown to do no more than that, which is
what makes Trials an abstraction of the same program. Between trials it promises nothing.

**AgentLogs** takes every step of LLMAgent together with the logging done in it.
A record is what was appended; a file is the sequence of what was written, so that
in-place changes to rows already written are visible. `total` is `logged_total_msg_cnt`,
which numbers the messages of the file over all dialogs; an entry carries the numbers
the agent had when it made it, to be compared with those of the logger.

**Conversation** takes every step of LLMAgent together with the wrapper's lists.
Message k of the run is a pair of a user message and an answer. Random selection
is a choice of any subset; sorting one by id is to take its only increasing sequence. Wrapper differences are cases on `wrapper`.

**StrideDetector** has one action per kind of clock edge; `streak`, `swings`, `stride`
and `previous` are history variables. **StrideCoverage** is the monitor: window,
state, tolerance; `credited` is the set of bins a sample increments. **StrideTestbench**
drives both with the same values, in the order of `controller_loop`.

**Trials** is `budget_experiment` with the server it talks to and whoever starts the
two. A trial's agent is abstract: `check` is `end_simulation`, `generate` is
`generate_next_value`, an answer is some tokens and some stimuli, and limits other
than tokens are `stopping`. What a monitor has counted is described by whose stimuli
they were: of this trial, of an earlier one of the same client, or of one whose
client crashed. `Serve` is one round of `controller_loop`; after the stimulus that
says "finish" the server is down. `spent` and `stale_rows` are history variables.
The experiment of the stride detector is modelled; those of the other designs repeat
its text.

**InstructionFeed** is the Ibex server with `increment_address` set, as it always is.
The controller and the memory are coroutines that share `instr_buffer`: each runs
undisturbed from one await to the next, and after a clock edge the two run in either
order (`turns`). `Shorten`, `Wake`, `Sample` and `ResetDone` are the pieces of the loop
at `cocotb_ibex.py:162-188`, cut at its awaits and loop heads; `resetting` counts the
clock edges of `do_reset`. The core is external and may do anything a core that
retires in order may do: prefetch, drop what it fetched, jump, retire nothing.
**InstructionMonitor** is one sample of coverage, as the pair of instructions it
crosses; the counters it raises only grow. `retired`, `crossed` and `filled` are history variables.

**Experiments** is one experiment of a client from its constructors to its end, with the
generator, the extractors and filters and the random agents in detail, and the agent
and the design abstract: after each message the dialogue may restart, and the last
stimulus of a message hits no bin, three, or a quarter of the plan. A stimulus is a
sequence of parts, each within its bounds, on one, out of them, no number, or the 0
that a filter puts for it; an answer has one such part among good ones. **ExperimentClients**
has the experiments as records, field by field what each client's code passes on;
`PartsRead` is how many parts of a value each server takes. **CoveragePlans** has the plans as
functions from families of bins to their sizes, which are the code's own numbers, and
the families that each template has words for. A sample is what is taken from the front
and at most two draws, so that a draw of more bins than there are shows as one.

**FetchTag** is the fetch tag server around its design. An operation runs from await to
await; `tag_edge` says that the edge it awaits has come. `req_valid`, `req`, `allocation`
and `deallocation_valid` are the wires, which stay as an operation leaves them; `tag_free` and
`allocated_nodeslot` are the design's. `ManagerNext` is the manager of one of the two queues
and `MessagesNext` the message queue with its state machine.

**FifoMonitors** lets any set of the two clocks tick, which covers every ratio of periods.
An edge is the step of that side of the design followed by its monitor, which sees the
registers after the edge and the values it saved. **SdramServer** is the controller's three
waits around the design's states, with the coroutine that counts commands at every
edge. **BurstCoverage** derives the mask of each beat from the request, as the weight bank does,
and has `determine_coverage` with Python's negative indices. **DecoderMonitor** takes one instruction
a step, given by what the decoder puts out for its class. **MipsFeed** is the loop of
InstructionFeed with the MIPS server's differences. **Servers** puts the six side by side: a
simulation is of one design, the others stay in their initial states.

Definitions marked `Faulty` are not used by any specification: each is the form a
plausible mistake would give the definition after it, and is there to show that
some property notices.

## 3. Runs and bounds

| run | result | shows |
|-----|--------|-------|
| `agent` | 117 000 states | judgement, credit, both log files, stop and refinement of the ledger, with every way to stop |
| `conversation` | 74 000 states | six settings of wrappers, modes and algorithms at once |
| `conversation_azure` | violated | `llm_azure.py` names a class it does not import |
| `stride` | 3 840 000 states | detector and monitor on every stream of values 0..7 (two minutes) |
| `stride_coverage_double` | violated | the dangling `else` of the double-stride bins |
| `trials` | 6 400 states | tokens, rows and end of an experiment with crashes and restarts |
| `trials_reply` | violated | nobody answers the second trial unless the server is started again |
| `instruction_feed` | 1 430 000 states | the shared instruction buffer under an arbitrary core (a minute) |
| `instruction_pairs` | violated | an instruction retired once is crossed with itself |
| `servers` | 2 570 000 states | six servers, each around its design (a minute) |
| `experiments` | 6 950 000 states | nineteen experiments with all their methods of sampling (a minute) |
| `experiments_described` | violated | the decoder's template has no words for one bin |

*Bounds of `agent`.* 4 bins, 7 messages of at most 2 stimuli, 9 tokens at 1 or 2 a
call, convergence after 4 messages without a hit or 5 with one (25 and 40 in the
code), restart after 2 fruitless messages (7 by default), 2 remembered messages
before ties (9). So a run restarts up to three times, remembers more
messages than it may keep, and stops in each of the four ways; the three buffer modes
are initial states. Only the tolerance plan is run; the proofs hold for every plan.

*Bounds of `conversation`.* REMAIN_ITER_NUM is 2 instead of 3, so compression sets in
at the fifth message of a dialog; 10 messages allow a compressed dialog, a restart
and a second one that is compressed again. Coverage plays a part only by ranking,
so 2 bins are enough. `recent 3` with KEEP starts by sending the system prompt
twice (`G:160-167` with `G:178`), which no document rules out: a setting of its own runs
it, and Alternating makes an exception of it (`OpeningTwice`).
`best 2 recent 1` may select the most recent message twice, hence the guard in
NoRepeats.

*Bounds of `stride`.* `Half = 1` gives the strides -1 and 0; 8 values let both a stride
in range and one out of range with the same low bit repeat 7 times, and an alternation
last 14. Steps are -1, 0 and 1, and the window is 8 values instead of 16, the shortest
that a stride can fill after the detector has drained another. A trial may be finished
after the lowest and the highest value, where a window of one stride can end. The detector compares
strides only for equality, so more strides add no new case; the proofs cover every width.

*Bounds of `trials`.* 6 tokens at 1 to 3 a call, 2 stimuli an answer and 2 crashes: up to
six trials, the last of which starts with less than a call may use.

*Bounds of `instruction_feed`.* 3 instructions kept (5 in the code): one more would
be one more in the middle, and the cases of `Rest` are below 3. A word takes three
edges from the buffer to retirement, so a patience of 3 (10 in the code) lets it
retire or be late, and 1 spin (10) lets the pc stand still twice before a reset. Two
words are prefetched, so that the core holds words the controller has given up. The
three words are one that counts, one `instructions.py` does not list and one that is
no instruction. A request has at most one instruction; a longer one is the same
as several, but for the replies between them.

*Bounds of `servers`.* Two nodeslots and neighbour counts of 1 and 3 with queues of 2: a
list fits its queue or fills it before it ends, which is what the waits tell apart. A FIFO
of 2 words, the smallest there is, and 2 wraps of each pointer, the second of which is the first that follows a
lap seen from its start. The SDRAM design refreshes every 20 cycles with waits of 3 and 2 (519, 15 and 7
in the code): long enough for an access and a settling wait between two refreshes, and a
reset may cut in anywhere. A weight bank of up to 8 by 8 with 4 features a beat, against
64 and 16. The decoder's two registers and two operations, one without a name, are all
that its monitor tells apart. The MIPS buffer keeps 3 (5 in the code), waits 1 cycle (10)
and stands still for 2 samples (10); the words are a counted, an unlisted and a malformed one.

*Bounds of `experiments`.* Plans, cutoffs and parts are those of the code; 9 messages stand for
300 or 700. A plan is filled in four steps at least, so the sampling of a nearly complete plan, the
adaptive changes, which take four prompts each, and restarts all fit into 9. The described
run needs 3.

Deadlock is checked in every run: where the client has ended, `Stopped` is a
stuttering step, so a deadlock would be a place with nowhere to go.

*Fairness.* `agent` needs it for `Termination` and the liveness of the ledger:
weak fairness of the whole next-state relation, i.e. the client does not stop
between two statements. The code justifies it: it has one thread, six retries
with bounded delays (`G:105`) after which it goes on with `None`, and it waits for
nothing but the server, whose loop answers each request in one pass
(`stride_detector/stride_detector_cocotb.py:212-237`). No fairness between the
alternatives is assumed: neither that the model ever answers sensibly nor that a
stimulus ever hits.

`trials` has two specifications. In `FairSpec` client and server each go on while they
can; `trials_reply` uses it. `OperatedSpec` adds that somebody starts the server and
the client again when they have ended, which is outside the code; under it the
experiment ends.

In `instruction_feed` the simulator and the coroutines go on; the core is not
assumed to retire anything, nor to be fetched from.

## 4. Findings

1. `experiments_described`: the decoder's plan has a bin `illegal_instruction`
   (`global_shared_types.py:166`) that the dictionary of its template
   (`prompt_generator_template_ID.py:154-200`) lacks. When it is sampled, the look-up at
   `prompt_generator_template.py:167` raises KeyError and the client ends. The comment at
   `prompt_generator_template_ID.py:173` only reckons with entries too many.
2. `conversation_azure`: `models/llm_azure.py:146` uses `ChatGPT.REMAIN_ITER_NUM`
   without importing `ChatGPT`; only KEEP skips that operand. `README.md:129` offers
   all three modes.
3. `stride_coverage_double`: the `else` at `stride_detector_cocotb.py:141` belongs to
   the last of four `if`s, so double strides out of range count as changes of
   pattern; `stride_detector.sv:205` requires both strides in range.
4. `trials_reply`: the server leaves its loop over trials after the first
   (`stride_detector_cocotb.py:295`), while `budget_experiment` goes on
   (`stride_detector/generate_stimulus.py:268`); the first request of its second
   trial is never answered, against `stride_detector/README.md:50`.
5. `instruction_pairs`: the loop at `ibex_cpu/cocotb_ibex.py:162` does not wait for the
   clock when the next instruction of the buffer equals the one just retired, and
   samples that retirement again: `add, add` counts a hazard after one `add` was
   executed. `ibex_cpu/instructions.py:22` speaks of the previous instruction.

More facts the models show, which no document contradicts:

* a server left behind by a client that crashed adds its hits to the next client's
  first row (`stale_rows` in Trials);
* a request without instructions is answered without a clock cycle, though
  `ibex_cpu/README.md` offers it to advance the simulation;
* a trial whose last message was judged (its stimuli had run out) before a limit is seen puts
  the reason of the stop into a CSV row (`A:413`) that `A:173` has had written before;
  `loggers/logger_csv.py:53` writes a row once, so the file does not show it. It does when
  the last row is still unwritten: stimuli were left, or the message was gibberish;
* the random experiments of the fetch tag, the weight bank, the FIFO and the SDRAM
  controller leave with a value of `None`, which these servers take apart before they
  look at `finish`: the last send gets no reply (outcome "no reply");
* MIXED sampling draws two bins beyond `easy_cutoff` (`prompt_generator_template.py:286`), which
  raises ValueError for every plan that has fewer bins than that: the plans of 7 and 10
  bins and nearly complete ones (outcome "ValueError"; MainsRun leaves MIXED out);
* the methods IDNEWEST, IDADANEW and ICNEWEST, for which `main_llama2` and the budget
  experiments of the decoder and the Ibex CPU ask, are listed as valid and then refused
  (`prompt_generator_template.py:85-88`; outcome "no method");
* the fetch tag's design fetches a list only for a request that the server refused and
  left driven (OnlyRefusedFetch): one that passes the checks is taken back before an edge;
* an instruction of the MIPS server leaves its buffer only by way of a reset, since the
  two program counters compared at `cocotb_mips.py:161` are one handle;
* the first burst of a weight-bank server is counted wrong, because `max_high` starts at
  0 there and at 1 in every later one.

## 5. Proofs

`LLMAgentProofs` proves for every number of bins and messages, every budget, every
restart plan (`RstPlan` is an arbitrary operator) and every buffer mode: TypeOK,
JudgedOnce, PairedUpdate, HitAttribution, PlaceholderEnds, ConvergenceStops, and
that each step of LLMAgent is a step of the ledger or a stutter. The only
assumption is `LLMAgentAssumption`, the types of the constants, plus
`BestMessagesAssumption`; TLC evaluates both.

None of the invariants is inductive: what `update_successful` finds depends on which
code the thread is about to run. The inductive invariant `IInv` has six parts:

* `TypeOK` and `JudgedOnce` themselves;
* `Control`: at each `pc`, whether a message is open, which message the stimulus in
  flight belongs to, which limits have been passed (e.g. after a placeholder, either
  a limit holds or nothing has been asked);
* `Coverage`: what the client knows of the coverage is what the server has, except
  before the first reply;
* `Paired`: the entry waiting in the buffer belongs to the open message, and its
  saved coverage plus the message's gain is the present coverage; settled entries
  carry the gain of their message;
* `NoEarlyConvergence`: no proper prefix of the run's history, but for the last
  two, had converged.

Of Termination it proves what is not about fairness. `TrialRunsDown` gives the variant: each
step asks a message, or sends a stimulus of the last one, or lowers `Distance`, the
places left between there and the end. So a trial takes at most
(DialogBound + 1) * (MaxStimuli + 1) * 11 steps (`RunsDownFromABound`). The case that could
go round in circles is the placeholder, sent when nothing is left to send: it needs that
the budget of a trial is whole before its first message (`Unspent`) and that no placeholder
is followed by another stimulus. What TLC adds is that a step is always possible.

`AgentImplemented` shows that a trial with a budget is one TrialAgent allows. The mapping
forgets messages, dialogs, histories and the buffer; `loop` and `prompt` are still
`generate`, so that a judgement is not seen, and `stopping` is a placeholder in flight for
a limit other than the budget. The proof needs Control (the model is asked with the
buffer empty and the budget not used up), PlaceholderEnds (the loop does not go on after
a placeholder) and Unspent.

`Judging` is the lemma both judging actions share; below it there is one lemma per
action, one step per conjunct. The theorems follow from `Invariance` by PTL.

`AgentLogsProofs` proves TxtNumbering, TxtComplete and CsvRows, for every trial that
LLMAgentProofs is about. The records are in step with the agent only between two of its
steps, so the invariant speaks of the entries `save_log` has not written (`Waiting`): none
is a message, or one is, its prompt before its answer, under the number the logger
will give it. `Filed` says that the file has the first `total` messages in order, and
`CsvInv` that each row leads to the next one and the last to the message that is asked
next, which `LogJudgement` relies on when it changes a row in place. A logged trial has
one step more than LLMAgent, a crash in the logger, so `LoggedTrial`,
`LoggedLedger`, `LoggedAgent` and `LoggedRunsDown` show again what LLMAgentProofs shows without it.

`ConversationProofs` proves BoundedConversation, Alternating, OwnDialog and InOrder for
every REMAIN_ITER_NUM, all settings and any number of messages. `BodyInv` splits a
conversation into the opening and a body that is in turn (`Turns`), does not go back
(`Rises`; under STABLE `Climbs`), opens with the query of the dialog and is even in
length whenever the model is not being asked; `RecentInv` and `BestInv` say the same of
the two places messages are taken from. `best_messages` never offers the opening of the present
dialog, which is why STABLE sends nothing twice; this rests on JudgedOnce and
`Control` of LLMAgentProofs. Compression keeps these as concatenation and
selection do, which are lemmas of their own.

`StrideTestbenchProofs` proves for every stride width and value range that full
confidence is about the last stride, that seven equal strides in range are reported
and that seven out of range leave neither output valid, that fourteen alternating ones
fill the pair, and that a single stride learnt before hides a pair for at most one value. The invariant adds
progress: after n equal strides, the confidence is at least what n steps leave of
the worst earlier state (3 down to 0, replace, 3 up), for the single stride, for
each slot of the pair, and for strides that overflow. Two equal overflows in a row meet
both slots of the pair, so that nothing learnt before is reported in their place.

About detector and monitor together it proves MonitorAgrees and DirectSwitch for every
window of eight values or more and every tolerance that outlasts one (16 and 16 in
the code; `TestbenchAssumption`). `WindowInv` ties the monitor's window to the detector's streak: as
many equal strides at the end of the window as the detector has counted. MonitorAgrees says
of a window filled by one stride that its sample counts that stride alone when it is in range,
and no stride, single or double, when it is not. `Remembered`
says that the monitor has not forgotten a single stride before a whole window has gone by.

`TrialsProofs` proves TypeOK, BudgetKept and OwnCoverage for every budget, call size
and number of crashes. The invariant is bookkeeping of three kinds: `Accounts` (what
is spent is what was taken off the total plus what this trial has used, and a trial
starts with no more than is left), `Wire` and `OneTrial` (a server that is up has
counted nothing of an earlier trial, because the client hears of the end of a trial
only from a server that leaves), and `Debts` (each crash leaves at most one server
with foreign hits, and it serves one row). `AgentImplemented` is the other half of what
LLMAgentProofs shows: the agent of each trial of the experiment, the first of a client
started again included, is one TrialAgent allows.

`InstructionFeedProofs` proves TypeOK, CountsHead and NeverStarved for every set of
words, length of the buffer above 2, patience and prefetch. NeverStarved is not
inductive: an instruction can be given up by the wait, by the sample and by the
reset for the pc, two of them in one turn. `Lengths` gives the length of the buffer
at each place, `Counters` says which limits have been passed there, and `Cleared` that
a core in reset reports nothing, so that CountsHead survives giving one up.

`ServersProofs` proves the properties of the `servers` run and SampledAtMost, each from an invariant of its
own, and then puts the six together.

* Fetch tag: AllocatedHeld and OnlyRefusedFetch for every set of nodeslots and
  neighbour counts and queues of every depth. AllocatedHeld is not inductive: the tag is allocated an edge
  after it is asked for, so `CopyHeld` speaks of the tag from that edge on, `DrivenInTurn`
  says that an allocation or deallocation is driven only within its own operation, and
  `WaitsForBusy` that a request the server waits for keeps the manager of its queue busy. Of
  the managers' records the proof needs the state alone.
* FIFO: WithinDepth, WrapsInOrder and RefusalsCounted for a FIFO of
  every depth, clocks in any order and any bound on laps. The invariant is `InOrderAround`:
  around the ring of pointers lie, in this order, the read pointer as the writer knows it,
  on its way to the writer, as it is, the write pointer as the reader knows it, on its way, and
  as it is; the gaps between them add up to no more than the depth. So a pointer known late
  errs towards empty and full. `CopiesFollow` (a monitor has saved what still holds) gives
  RefusalsCounted in both directions (nothing counted that was not refused, and from a clock's
  second edge on no refusal missed), `LapsCounted` gives WrapsInOrder.
* SDRAM, for every wait and refresh interval: ProtocolOrder from `Leads` (a command
  on the pins belongs to the state it led to) and `SequenceCounted`; OneAccess from
  `OneAccessInv` (the server leaves its loop at the edge that starts an access, as `busy`
  follows a cycle later, and a settling wait passes no idle state); RefreshInTime from
  `BudgetKept`, which gives every state of the design the cycles that may have gone by
  since the last refresh, those it has still to count included.
* Weight bank, for every size: LaterBurstMeasured from `BurstInv`, which says how far
  `max_high` runs ahead at each beat.
* Decoder, for every set of registers and operations: SeenIsDone is inductive, since the
  monitor's fields after an instruction do not depend on those before.
* MIPS server, for every length of the buffer and patience: SampledAtMost and
  BufferKept from `MipsLengths` and `SamplesCounted`, as in InstructionFeedProofs.
* `ServersKeep`: a step of the composition is a step of one server and leaves the
  variables of the others alone, so Servers has all the run's properties.

`ExperimentsProofs` proves NoNewHit and Patience for any number of messages in a dialogue.
`LastPromptKnown` relates the generator's previous coverage to the last prompt of the dialogue across
restarts; `AdaptiveUses` says that a method the stagnation of the rates can take away
has been used once more often than rates have been kept since it was chosen. It
rests on the coverage never falling (`CoverageKnown`), since below a fifth of the plan
and beyond 40 missed bins different rules apply.

It also proves ShownEnough, StimuliFit and MainsRun, from `RunInv`. For ShownEnough the
mixed method must always have a sampling to go to: after a list it would have none
(`resolve_strategy` has no entry for it), so `ListWhenFew` says that a list is only made when too
few bins are missed for it to adapt again. `StimuliKnown` follows the stimuli from the
answer through extractor, filter and buffer to the server. MainsRun adds that no
sampling draws more than there is and no bin lacks words, which rests on the plans of
the code: `PlansAssumption` says that each plan of a main experiment, but the decoder's, is
described in full and either has less than 40 bins or leaves two beyond the cutoff with a
twentieth of it hit. It is a fact about the definitions of CoveragePlans, sums over
families that the prover cannot add up, and TLC does.

The assumptions of all these theorems are the named ASSUMEs of the modules, which
are types and lower bounds of constants; TLC evaluates each in a passing run. Three say
more: `PlansAssumption` and `TestbenchAssumption` as above, and `SdramAssumption`, which
has the memory initialised before a refresh is due (15 + 7 < 519 in the code), without which
RefreshInTime fails. Some
theorems state properties no run lists (the TypeOKs, PairedUpdate, OverflowUndetected,
ReportsDouble, SampledAtMost): the proofs cover every instance, and the runs' time goes to the others.

Every invariant and action property of the passing runs is proved. Only model-checked:
Termination, the liveness of the ledger, Ends and Answered, since liveness and ENABLED
are beyond the prover; and what the runs that expect a violation find.

## 6. What is not modelled

* In Experiments: the ends of a trial other than by completeness and messages (convergence and
  token budgets are LLMAgent's), and code summaries (`code_summary_type` is taken as 0, the
  default; type 1 reads the design's files, type 2 is not implemented).
* Text: prompts, formatting, the wording of templates; token counting; names and weights
  of single bins (`prioritise_harder_bins` rescales hits); the wire format.
* The encodings of instructions (`*/instructions.py`): stateless, with unit tests of their own.
* The prefetcher server: the constructor of its monitor adds a number to a string
  (`agile_prefetcher_cocotb.py:24-42`), so it ends before it serves a stimulus.
* The data memories of the two CPU servers, and Ibex's branch for `increment_address = False`,
  which is never set; the CPUs themselves.
* The FIFO server's reset of an idle FIFO: it awaits a timer of zero time, which cocotb
  versions treat differently. Read requests of the fetch tag, which no stimulus reaches.
* Sampling functions of the generator that `_resolve_sampling_method` cannot choose
  (`prompt_generator_template.py:181-231`, `326-447`), extractors and filters that no experiment
  which runs builds, and the agents that read a person's input or a fixed list.
* The log plotter and the CSV tools: offline data processing.

## 7. Plan

What is left, in order of importance:

1. Refinement: the agent of Experiments against LLMAgent; an abstract specification of
   the two feeds (an instruction sent is executed or given up, in order).
2. The data memories of the CPU servers.
