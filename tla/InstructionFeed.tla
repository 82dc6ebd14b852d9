--------------------------- MODULE InstructionFeed ---------------------------
(***************************************************************************)
(* The Ibex server (ibex_cpu/cocotb_ibex.py): two coroutines that share    *)
(* instr_buffer.  The controller appends the instructions of a request and *)
(* takes the first one off when the core has retired it; the instruction   *)
(* memory serves whatever is first.                                        *)
(*                                                                         *)
(* A coroutine runs undisturbed from one await to the next.  After a clock *)
(* edge the two run in either order, `turns` being those still to run.     *)
(* Waiting for a request stops the simulation: recv_pyobj blocks.          *)
(*                                                                         *)
(* The core is external: it prefetches, retires in order, jumps anywhere.  *)
(***************************************************************************)
EXTENDS Integers, Sequences, InstructionMonitor

CONSTANTS
    Keep,           \* 5: instructions kept in the buffer
    Patience,       \* 10: clock cycles the first one may take to retire
    Spins,          \* 10: samples with the same pc
    MaxUpdates,     \* bound: instructions of one request
    Prefetch,       \* bound: words the core fetches ahead
    PcCount,        \* bound: values of the pc, besides 0 in reset
    Zero            \* 0x0, served when the buffer is empty

ASSUME InstructionFeedAssumption ==
    /\ Keep \in Nat \ 0..2
    /\ Patience \in Nat
    /\ Spins \in Nat
    /\ Prefetch \in Nat
    /\ PcCount \in Nat \ {0}
    /\ Zero \notin Words \cup {None}

VARIABLES
    ctrl,           \* where the controller is
    updates,        \* instructions of the request still to append
    finish,
    instr_buffer,
    i, pc_unchanged, prevous_pc,
    resetting,      \* clock edges do_reset still waits for
    stuck,          \* why: at "buffer" or at "pc"
    turns,
    mem, rvalid, rdata,
    fetched,        \* words in the core
    rvfi_pc,
    retired,        \* history: the last two instructions retired since a reset
    filled          \* history: the buffer has been full

ctrlVars == <<ctrl, updates, finish, instr_buffer, i, pc_unchanged, prevous_pc,
              resetting, stuck>>
memVars == <<mem, rvalid, rdata>>
coreVars == <<fetched, valid, insn, rvfi_pc, retired>>
monVars == <<last_insn, crossed>>
vars == <<ctrlVars, memVars, coreVars, monVars, turns, filled>>

Pcs == 1..PcCount

-----------------------------------------------------------------------------
Init ==
    /\ ctrl = "recv"
    /\ updates = << >>
    /\ finish = FALSE
    /\ instr_buffer = << >>
    /\ i = 0
    /\ pc_unchanged = 0
    /\ prevous_pc = 0
    /\ resetting = 0
    /\ stuck = "pc"
    /\ turns = {}
    /\ mem \in {"idle", "granted"}
    /\ rvalid = FALSE
    /\ rdata = Zero
    /\ fetched = << >>
    /\ valid = FALSE
    /\ insn = None
    /\ rvfi_pc = 0
    /\ retired = <<None, None>>
    /\ last_insn = None
    /\ crossed = None
    /\ filled = FALSE

\* Faulty: the reset is released before a clock edge.
ResetEdges_One == 1

\* do_reset: one edge before the reset takes hold, three while it does, and a
\* release between two edges.
ResetEdges == 4

do_reset(reason) ==
    /\ ctrl' = "reset"
    /\ resetting' = ResetEdges
    /\ stuck' = reason

\* The core in reset at a clock edge.
CoreReset ==
    /\ fetched' = << >>
    /\ valid' = FALSE
    /\ insn' = None
    /\ rvfi_pc' = 0
    /\ retired' = <<None, None>>

\* The core at any other edge: it takes or ignores a word the memory presents,
\* and may retire one it had, after which it goes anywhere.
CoreRuns ==
    \E arrived \in {<< >>, IF rvalid THEN <<rdata>> ELSE << >>} :
        \/ /\ fetched' = fetched \o arrived
           /\ valid' = FALSE
           /\ UNCHANGED <<insn, rvfi_pc, retired>>
        \/ /\ fetched # << >>
           /\ fetched' \in {Tail(fetched) \o arrived, << >>}
           /\ valid' = TRUE
           /\ insn' = Head(fetched)
           /\ rvfi_pc' \in Pcs
           /\ retired' = <<retired[2], Head(fetched)>>

\* A clock edge, while the controller waits for one.
ClockEdge ==
    /\ turns = {}
    /\ \/ ctrl = "wait" /\ turns' = {"mem", "ctrl"} /\ CoreRuns /\ UNCHANGED resetting
       \/ /\ ctrl = "reset" /\ resetting > 0
          /\ turns' = {"mem"}
          /\ resetting' = resetting - 1
          /\ IF resetting = ResetEdges THEN CoreRuns ELSE CoreReset
    /\ crossed' = None
    /\ UNCHANGED <<ctrl, updates, finish, instr_buffer, i, pc_unchanged, prevous_pc,
                   stuck, memVars, last_insn, filled>>

\* MemAgent.run_mem of the instruction memory, from one await to the next: a
\* request is granted, and answered after the next edge.
RunMem ==
    /\ "mem" \in turns
    /\ ctrl \in {"wait", "reset"}
    /\ turns' = turns \ {"mem"}
    /\ \/ /\ mem = "idle"
          /\ rvalid' = FALSE
          /\ mem' \in {"idle"} \cup
                (IF Len(fetched) < Prefetch /\ (ctrl = "reset" => resetting >= ResetEdges - 1)
                 THEN {"granted"} ELSE {})
          /\ UNCHANGED rdata
       \/ /\ mem = "granted"
          /\ mem' = "idle"
          /\ rvalid' = TRUE
          /\ rdata' = IF instr_buffer # << >> THEN Head(instr_buffer) ELSE Zero
    /\ UNCHANGED <<ctrlVars, coreVars, monVars, filled>>

-----------------------------------------------------------------------------
\* The controller.  A request may be empty.
Receive(instructions, last) ==
    /\ ctrl = "recv"
    /\ ctrl' = "next"
    /\ updates' = instructions
    /\ finish' = last
    /\ UNCHANGED <<instr_buffer, i, pc_unchanged, prevous_pc, resetting, stuck,
                   memVars, coreVars, monVars, turns, filled>>

AppendInstruction ==
    /\ ctrl = "next"
    /\ updates # << >>
    /\ ctrl' = "buffer"
    /\ updates' = Tail(updates)
    /\ instr_buffer' = Append(instr_buffer, Head(updates))
    /\ prevous_pc' = rvfi_pc
    /\ filled' = (filled \/ Len(instr_buffer') >= Keep)
    /\ UNCHANGED <<finish, i, pc_unchanged, resetting, stuck, memVars, coreVars,
                   monVars, turns>>

\* The reply, once every instruction has been appended.
Reply ==
    /\ ctrl = "next"
    /\ updates = << >>
    /\ ctrl' = IF finish THEN "ended" ELSE "recv"
    /\ UNCHANGED <<updates, finish, instr_buffer, i, pc_unchanged, prevous_pc, resetting,
                   stuck, memVars, coreVars, monVars, turns, filled>>

\* The core has just retired the first instruction of the buffer.
Matches == valid /\ insn = Head(instr_buffer)

TooLong == Len(instr_buffer) > Keep

\* Head of the loop that shortens the buffer.
Shorten ==
    /\ ctrl = "buffer"
    /\ IF TooLong
       THEN /\ prevous_pc' = rvfi_pc
            /\ i' = 0
            /\ ctrl' = IF Matches THEN "sample" ELSE "wait"
       ELSE ctrl' = "next" /\ UNCHANGED <<prevous_pc, i>>
    /\ UNCHANGED <<updates, finish, instr_buffer, pc_unchanged, resetting, stuck,
                   memVars, coreVars, monVars, turns, filled>>

\* Faulty: the cycles are counted anew in every round.
Waited_Once == 1

Waited == i + 1

\* The controller wakes up after a clock edge.
Wake ==
    /\ ctrl = "wait"
    /\ "ctrl" \in turns
    /\ turns' = turns \ {"ctrl"}
    /\ i' = Waited
    /\ IF Waited > Patience
       THEN do_reset("buffer") /\ instr_buffer' = Tail(instr_buffer)
       ELSE /\ ctrl' = IF Matches THEN "sample" ELSE "wait"
            /\ UNCHANGED <<resetting, stuck, instr_buffer>>
    /\ UNCHANGED <<updates, finish, pc_unchanged, prevous_pc, memVars, coreVars,
                   monVars, filled>>

\* do_reset returns: the controller goes on where it called it.
ResetDone ==
    /\ ctrl = "reset"
    /\ resetting = 0
    /\ turns = {}
    /\ IF stuck = "buffer"
       THEN ctrl' = "sample" /\ UNCHANGED <<instr_buffer, pc_unchanged, prevous_pc>>
       ELSE /\ ctrl' = "buffer"
            /\ instr_buffer' = Tail(instr_buffer)
            /\ pc_unchanged' = 0
            /\ prevous_pc' = -1
    /\ UNCHANGED <<updates, finish, i, resetting, stuck, memVars, coreVars, monVars,
                   turns, filled>>

\* Faulty: whatever does not exceed the usual length is thrown away.
Rest_Usual(buffer) == IF Len(buffer) > Keep THEN Tail(buffer) ELSE << >>

Rest(buffer) == IF Len(buffer) > 2 THEN Tail(buffer) ELSE << >>

\* Coverage is sampled, and the first instruction taken off if the pc has moved
\* on since Shorten.
Sample ==
    /\ ctrl = "sample"
    /\ sample_insn_coverage
    /\ IF prevous_pc # rvfi_pc
       THEN /\ ctrl' = "buffer"
            /\ instr_buffer' = Rest(instr_buffer)
            /\ UNCHANGED <<pc_unchanged, resetting, stuck>>
       ELSE /\ pc_unchanged' = pc_unchanged + 1
            /\ UNCHANGED instr_buffer
            /\ IF pc_unchanged + 1 > Spins
               THEN do_reset("pc")
               ELSE ctrl' = "buffer" /\ UNCHANGED <<resetting, stuck>>
    /\ UNCHANGED <<updates, finish, i, prevous_pc, memVars, coreVars, turns, filled>>

Control ==
    \/ AppendInstruction
    \/ Reply
    \/ Shorten
    \/ Wake
    \/ ResetDone
    \/ Sample

Requests == UNION {[1..n -> Words] : n \in 0..MaxUpdates}

Next ==
    \/ \E instructions \in Requests, last \in BOOLEAN : Receive(instructions, last)
    \/ Control
    \/ ClockEdge
    \/ RunMem
    \/ ctrl = "ended" /\ UNCHANGED vars

Spec == Init /\ [][Next]_vars

\* The simulator goes on while a coroutine waits for the clock, and coroutines
\* run when they are woken.  The core need not retire anything.
FairSpec == Spec /\ WF_vars(Control \/ ClockEdge \/ RunMem)

-----------------------------------------------------------------------------
\* Every variable has its type; the buffer never holds more than one instruction
\* beyond those it keeps, and the counters stop just past their limits.
TypeOK ==
    /\ ctrl \in {"recv", "next", "buffer", "wait", "reset", "sample", "ended"}
    /\ updates \in Seq(Words)
    /\ finish \in BOOLEAN
    /\ instr_buffer \in Seq(Words)
    /\ Len(instr_buffer) <= Keep + 1
    /\ i \in 0..(Patience + 1)
    /\ pc_unchanged \in 0..(Spins + 1)
    /\ prevous_pc \in -1..PcCount
    /\ resetting \in 0..ResetEdges
    /\ stuck \in {"buffer", "pc"}
    /\ turns \subseteq {"mem", "ctrl"}
    /\ mem \in {"idle", "granted"}
    /\ rvalid \in BOOLEAN
    /\ rdata \in Words \cup {Zero}
    /\ fetched \in Seq(Words \cup {Zero})
    /\ valid \in BOOLEAN
    /\ insn \in Words \cup {Zero, None}
    /\ rvfi_pc \in 0..PcCount
    /\ retired \in (Words \cup {Zero, None}) \X (Words \cup {Zero, None})
    /\ last_insn \in Words \cup {Zero, None}
    /\ filled \in BOOLEAN

\* Coverage is counted only for the first instruction of the buffer: what is left
\* in the core of instructions given up is never counted, since the reset that
\* gives one up clears what the core has retired.
CountsHead == ctrl = "sample" /\ valid => Matches

\* Once the buffer has been full the memory has something to serve, though both
\* the wait and the code after it may give up an instruction in one turn: the
\* core is not fed 0x0 again.
NeverStarved == filled => Len(instr_buffer) >= Keep - 1

\* Every request is replied to, even if the core retires nothing or stays at one
\* address: an instruction that cannot be executed is given up.
Answered == ctrl \notin {"recv", "ended"} ~> ctrl \in {"recv", "ended"}

\* "Reads from  a register the previous instruction wrote to"
\* (ibex_cpu/instructions.py:22): the two instructions crossed by a sample are
\* the two the core retired last.
PairsExecuted == crossed # None => crossed = retired
=============================================================================
