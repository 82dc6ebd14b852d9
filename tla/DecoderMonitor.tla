--------------------------- MODULE DecoderMonitor ---------------------------
(***************************************************************************)
(* The Ibex decoder's server and coverage monitor (ibex_decoder/           *)
(* ibex_decoder_cocotb.py) with its coverage database (ibex_decoder/       *)
(* shared_types.py).  The decoder is combinational: a stimulus is an       *)
(* instruction, of which the monitor reads the decoder's outputs.          *)
(*                                                                         *)
(* Registers and operations are few of their kind; a bin is the sequence   *)
(* of its list and its keys.  The decoder itself is external.              *)
(***************************************************************************)
EXTENDS Naturals, Sequences

CONSTANTS
    Registers,              \* of an instruction
    AluOps,                 \* alu_operator values
    alu_op_names,           \* those the monitor has a name for
    NotSeen                 \* None

Sizes == {"word", "half-word", "byte"}

ASSUME DecoderAssumption ==
    /\ alu_op_names \subseteq AluOps
    /\ NotSeen \notin Registers
    /\ NotSeen \notin AluOps
    /\ NotSeen \notin Sizes

VARIABLES
    decoder_pc,             \* "recv", "ended", or "failed" by an assertion
    signals,                \* the outputs the monitor reads
    seen,                   \* the monitor's *_seen
    decoder_bins            \* the bins the last stimulus counted

decoderVars == <<decoder_pc, signals, seen, decoder_bins>>

-----------------------------------------------------------------------------
(* The decoder, by the classes of instructions it tells apart.             *)

Decoded(class, op, size, regs) ==
    [class |-> class,
     illegal_insn |-> class = "ILLEGAL",
     rf_we |-> class \in {"OP", "OP_IMM", "MUL", "UPPER", "CSR"},
     rf_waddr |-> regs[1], rf_raddr_a |-> regs[2], rf_raddr_b |-> regs[3],
     rf_ren_a |-> class \notin {"UPPER", "ILLEGAL"},
     rf_ren_b |-> class \in {"OP", "MUL", "STORE", "BRANCH"},
     mult_sel |-> class = "MUL",
     alu_operator |-> op,
     op_a_reg |-> class \in {"OP", "OP_IMM", "MUL", "LOAD", "STORE", "BRANCH"},
     op_b_imm |-> class \in {"OP_IMM", "LOAD", "STORE", "UPPER"},
     wdata_ex |-> class # "CSR",
     data_req |-> class \in {"LOAD", "STORE"},
     data_we |-> class = "STORE",
     data_type |-> size]

Classes == {"OP", "OP_IMM", "MUL", "UPPER", "CSR", "LOAD", "STORE", "BRANCH", "ILLEGAL"}

Instructions ==
    {Decoded(class, op, size, regs) :
        class \in Classes, op \in AluOps, size \in Sizes,
        regs \in Registers \X Registers \X Registers}

-----------------------------------------------------------------------------
clear_seen ==
    [alu_op |-> NotSeen, alu_imm_op |-> NotSeen, write_reg |-> NotSeen,
     read_reg_a |-> NotSeen, read_reg_b |-> NotSeen, store |-> NotSeen,
     load |-> NotSeen]

IsAluOp(s) ==
    /\ s.rf_we
    /\ ~s.mult_sel
    /\ s.rf_ren_a
    /\ s.op_a_reg
    /\ s.wdata_ex
    /\ s.alu_operator \in alu_op_names

sample_alu_ops(s, before) ==
    IF ~IsAluOp(s) THEN before
    ELSE IF s.op_b_imm THEN [before EXCEPT !.alu_imm_op = s.alu_operator]
                       ELSE [before EXCEPT !.alu_op = s.alu_operator]

sample_mem_ops(s, before) ==
    IF ~s.data_req THEN before
    ELSE IF s.data_we THEN [before EXCEPT !.store = s.data_type]
                      ELSE [before EXCEPT !.load = s.data_type]

\* A load writes its register later, so the decoder does not say so.
sample_rf_accesses(s, before) ==
    [before EXCEPT
        !.write_reg = IF s.rf_we \/ before.load # NotSeen THEN s.rf_waddr ELSE @,
        !.read_reg_a = IF s.rf_ren_a THEN s.rf_raddr_a ELSE @,
        !.read_reg_b = IF s.rf_ren_b THEN s.rf_raddr_b ELSE @]

\* Faulty: what the last instruction loaded is still seen.
Sampled_KeepLoad(s, before) ==
    IF s.illegal_insn THEN clear_seen
    ELSE sample_rf_accesses(s,
            sample_mem_ops(s, sample_alu_ops(s, [clear_seen EXCEPT !.load = before.load])))

Sampled(s, before) ==
    IF s.illegal_insn THEN clear_seen
    ELSE sample_rf_accesses(s, sample_mem_ops(s, sample_alu_ops(s, clear_seen)))

-----------------------------------------------------------------------------
\* What an operation of a kind is crossed with.
Crossed(kind) ==
    CASE kind = "alu_ops" -> {"read_reg_a", "read_reg_b", "write_reg"}
      [] kind \in {"alu_imm_ops", "load_ops"} -> {"read_reg_a", "write_reg"}
      [] kind = "store_ops" -> {"read_reg_a", "read_reg_b"}

RegistersSeen(n) ==
    {<<list, n[list]>> : list \in {l \in {"read_reg_a", "read_reg_b", "write_reg"} :
                                      n[l] # NotSeen}}

OperationsSeen(n) ==
    {op \in {<<"alu_ops", n.alu_op>>, <<"alu_imm_ops", n.alu_imm_op>>,
             <<"load_ops", n.load>>, <<"store_ops", n.store>>} : op[2] # NotSeen}

\* The assertions: the registers of an operation have been seen.
Asserted(n) ==
    \A op \in OperationsSeen(n) : \A list \in Crossed(op[1]) : n[list] # NotSeen

\* The bins CoverageDatabase.update adds one to.
Updated(illegal, n) ==
    IF illegal THEN {<<"misc", "illegal_insn">>}
    ELSE RegistersSeen(n) \cup OperationsSeen(n)
         \cup UNION {{<<op[1], op[2], list, n[list]>> : list \in Crossed(op[1])} :
                        op \in OperationsSeen(n)}

InitDecoder ==
    /\ decoder_pc = "recv"
    /\ signals = Decoded("ILLEGAL", CHOOSE op \in AluOps : TRUE, "word",
                         [i \in 1..3 |-> CHOOSE r \in Registers : TRUE])
    /\ seen = clear_seen
    /\ decoder_bins = {}

sample_coverage(s) ==
    /\ decoder_pc = "recv"
    /\ signals' = s
    /\ seen' = Sampled(s, seen)
    /\ IF s.illegal_insn \/ Asserted(seen')
       THEN /\ decoder_bins' = Updated(s.illegal_insn, seen')
            /\ UNCHANGED decoder_pc
       ELSE decoder_pc' = "failed" /\ decoder_bins' = {}

\* The stimulus None.
FinishDecoder ==
    /\ decoder_pc = "recv"
    /\ decoder_pc' = "ended"
    /\ UNCHANGED <<signals, seen, decoder_bins>>

DecoderEnded == decoder_pc = "ended" /\ UNCHANGED decoderVars

NextDecoder ==
    \/ \E s \in Instructions : sample_coverage(s)
    \/ FinishDecoder
    \/ DecoderEnded

SpecDecoder == InitDecoder /\ [][NextDecoder]_decoderVars

-----------------------------------------------------------------------------
\* No instruction fails an assertion of the database, and nothing of the one before
\* is credited to it: what is seen is what an instruction of its class does.
SeenIsDone ==
    /\ decoder_pc # "failed"
    /\ seen.write_reg # NotSeen <=>
          signals.class \in {"OP", "OP_IMM", "MUL", "UPPER", "CSR", "LOAD"}
    /\ seen.load # NotSeen <=> signals.class = "LOAD"
    /\ seen.store # NotSeen <=> signals.class = "STORE"
    /\ seen.alu_op # NotSeen => signals.class = "OP"
    /\ seen.alu_imm_op # NotSeen => signals.class = "OP_IMM"
=============================================================================
