------------------------------ MODULE MipsFeed ------------------------------
(***************************************************************************)
(* The MIPS server (mips_cpu/cocotb_mips.py).  As the Ibex server it keeps *)
(* a few instructions in instr_buffer, whose first one the memory serves,  *)
(* and takes it off when it has been executed.  But prevous_pc and the pc  *)
(* it is compared with are one handle of the simulator, not its values:    *)
(* they never differ, and an instruction leaves only by way of a reset.    *)
(*                                                                         *)
(* The core is external: what is decoded is a word that was served, at     *)
(* any cycle or never.  The monitor (mips_cpu/instruction_monitor.py) does *)
(* to insn and last_insn what the one of the Ibex server does.             *)
(***************************************************************************)
EXTENDS Naturals, Sequences, InstructionMonitor

CONSTANTS
    NoInsn,                 \* 0x0, served when the buffer is empty
    KeptInsns,              \* 5
    Cycles,                 \* 10: cycles the first instruction may take
    Unchanged,              \* 10: samples with an unchanged pc
    MaxInsns                \* bound: instructions of a request

ASSUME MipsAssumption ==
    /\ NoInsn \in Words
    /\ KeptInsns \in Nat \ 0..2
    /\ Cycles \in Nat
    /\ Unchanged \in Nat

VARIABLES
    mips_pc,                \* "recv", "append", "await", "sample", "reset", or "ended"
    insn_mem_updates,       \* instructions still to append
    buffer,                 \* instr_buffer
    cycles,                 \* i
    unchanged,              \* pc_unchanged
    served,                 \* rdata of the instruction memory
    samples,                \* samples since the last clock edge
    full                    \* the buffer has been full

mipsCore == <<served, valid, insn>>
mipsMonitor == <<last_insn, crossed>>
mipsVars == <<mips_pc, insn_mem_updates, buffer, cycles, unchanged, mipsCore, mipsMonitor,
              samples, full>>

InitMips ==
    /\ mips_pc = "recv"
    /\ insn_mem_updates = << >>
    /\ buffer = << >>
    /\ cycles = 0
    /\ unchanged = 0
    /\ served = NoInsn
    /\ insn = NoInsn
    /\ valid = FALSE
    /\ last_insn = None
    /\ crossed = None
    /\ samples = 0
    /\ full = FALSE

\* The memory answers every read with the first instruction of the buffer.
ServedOf(b) == IF b = << >> THEN NoInsn ELSE Head(b)

\* One edge, or the edges of do_reset, before or after the buffer has changed.
MipsEdges ==
    /\ served' \in {served, ServedOf(buffer), ServedOf(buffer')}
    /\ insn' \in {insn, served', NoInsn}
    /\ valid' \in BOOLEAN
    /\ crossed' = None
    /\ samples' = 0
    /\ UNCHANGED last_insn

ReceiveMips(updates) ==
    /\ mips_pc = "recv"
    /\ insn_mem_updates' = updates
    /\ mips_pc' = "append"
    /\ UNCHANGED <<buffer, cycles, unchanged, mipsCore, mipsMonitor, samples, full>>

\* The loop over the instructions of a request; the reply after the last.
AppendInsn ==
    /\ mips_pc = "append"
    /\ insn_mem_updates # << >>
    /\ buffer' = Append(buffer, Head(insn_mem_updates))
    /\ insn_mem_updates' = Tail(insn_mem_updates)
    /\ mips_pc' = IF Len(buffer') > KeptInsns THEN "await" ELSE "append"
    /\ cycles' = 0
    /\ full' = (full \/ Len(buffer') > KeptInsns)
    /\ UNCHANGED <<unchanged, mipsCore, mipsMonitor, samples>>

MipsReply ==
    /\ mips_pc = "append"
    /\ insn_mem_updates = << >>
    /\ mips_pc' \in {"recv", "ended"}
    /\ UNCHANGED <<insn_mem_updates, buffer, cycles, unchanged, mipsCore, mipsMonitor,
                   samples, full>>

Executed == insn = Head(buffer) /\ valid

AwaitInsn ==
    /\ mips_pc = "await"
    /\ ~Executed
    /\ cycles < Cycles
    /\ cycles' = cycles + 1
    /\ UNCHANGED <<mips_pc, insn_mem_updates, buffer, unchanged, full>>
    /\ MipsEdges

\* Stuck at the buffer: after one more edge the first instruction is given up.
GiveUpInsn ==
    /\ mips_pc = "await"
    /\ ~Executed
    /\ cycles = Cycles
    /\ buffer' = Tail(buffer)
    /\ MipsEdges
    /\ mips_pc' = "sample"
    /\ UNCHANGED <<insn_mem_updates, cycles, unchanged, full>>

InsnExecuted ==
    /\ mips_pc = "await"
    /\ Executed
    /\ mips_pc' = "sample"
    /\ UNCHANGED <<insn_mem_updates, buffer, cycles, unchanged, mipsCore, mipsMonitor,
                   samples, full>>

StuckAtPc == unchanged + 1 > Unchanged

\* Faulty: the loop goes on while any instruction is left.
GoesRound_All(b) == Len(b) > 0

GoesRound(b) == Len(b) > KeptInsns

\* One round of the loop that shortens the buffer, from the sample on.
SampleInsn ==
    /\ mips_pc = "sample"
    /\ sample_insn_coverage
    /\ samples' = samples + 1
    /\ unchanged' = IF StuckAtPc THEN 0 ELSE unchanged + 1
    /\ mips_pc' = IF StuckAtPc THEN "reset" ELSE IF GoesRound(buffer) THEN "await" ELSE "append"
    /\ cycles' = 0
    /\ UNCHANGED <<insn_mem_updates, buffer, mipsCore, full>>

ResetAtPc ==
    /\ mips_pc = "reset"
    /\ buffer' = Tail(buffer)
    /\ MipsEdges
    /\ mips_pc' = IF GoesRound(buffer') THEN "await" ELSE "append"
    /\ UNCHANGED <<insn_mem_updates, cycles, unchanged, full>>

MipsEnded == mips_pc = "ended" /\ UNCHANGED mipsVars

NextMips ==
    \/ \E n \in 0..MaxInsns : \E updates \in [1..n -> Words \ {NoInsn}] : ReceiveMips(updates)
    \/ AppendInsn
    \/ MipsReply
    \/ AwaitInsn
    \/ GiveUpInsn
    \/ InsnExecuted
    \/ SampleInsn
    \/ ResetAtPc
    \/ MipsEnded

SpecMips == InitMips /\ [][NextMips]_mipsVars

-----------------------------------------------------------------------------
\* One execution is sampled again and again while no clock edge passes, but no more
\* often than pc_unchanged lets it.
SampledAtMost == samples <= Unchanged + 1

\* A round may give up one instruction and then, stuck at the pc, another: even so
\* the buffer, once it has been full, never runs short of what the memory serves.
BufferKept == full => Len(buffer) >= KeptInsns - 1
=============================================================================
