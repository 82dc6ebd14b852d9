---------------------------- MODULE ServersProofs ----------------------------
(***************************************************************************)
(* Theorems about the servers of the MIPS CPU, the decoder, the SDRAM      *)
(* controller, the weight bank, the fetch tag and the asynchronous FIFO,   *)
(* for every value of their constants, and about Servers, where each of    *)
(* them is one of the designs a simulation may be of.                      *)
(***************************************************************************)
EXTENDS Servers, TLAPS

-----------------------------------------------------------------------------
(* The MIPS server: the inductive invariant.                                *)

MipsTypes ==
    /\ mips_pc \in {"recv", "append", "await", "sample", "reset", "ended"}
    /\ insn_mem_updates \in Seq(Words)
    /\ buffer \in Seq(Words)
    /\ unchanged \in 0..Unchanged
    /\ samples \in Nat
    /\ full \in BOOLEAN

\* The length of the buffer, by what the controller is about to do.  The wait gives
\* up one instruction and the reset for the pc another.
MipsLengths ==
    /\ mips_pc \in {"recv", "append", "ended"} => Len(buffer) <= KeptInsns
    /\ mips_pc = "await" => Len(buffer) = KeptInsns + 1
    /\ mips_pc \in {"sample", "reset"} => Len(buffer) \in KeptInsns..(KeptInsns + 1)

\* Every sample since the last clock edge has found the pc unchanged.
SamplesCounted ==
    /\ mips_pc # "reset" => samples <= unchanged
    /\ mips_pc = "reset" => samples <= Unchanged + 1

MipsInv == MipsTypes /\ MipsLengths /\ SamplesCounted /\ BufferKept

-----------------------------------------------------------------------------
LEMMA TailOf ==
    ASSUME NEW S, NEW s \in Seq(S), Len(s) > 0
    PROVE  /\ Tail(s) \in Seq(S)
           /\ Len(Tail(s)) = Len(s) - 1
           /\ Head(s) \in S
    OBVIOUS

LEMMA InitMipsInv == InitMips => MipsInv
    <1> SUFFICES ASSUME InitMips PROVE MipsInv
        OBVIOUS
    <1> USE MipsAssumption
    <1>1. buffer = << >> /\ insn_mem_updates = << >>
        BY DEF InitMips
    <1>2. << >> \in Seq(Words) /\ Len(<< >>) = 0
        OBVIOUS
    <1>3. MipsTypes
        <2>1. buffer \in Seq(Words) /\ insn_mem_updates \in Seq(Words)
            BY <1>1, <1>2
        <2>2. mips_pc = "recv" /\ unchanged = 0 /\ samples = 0 /\ full \in BOOLEAN
            BY DEF InitMips
        <2>3. QED
            BY <2>1, <2>2 DEF MipsTypes
    <1>4. MipsLengths /\ SamplesCounted /\ BufferKept
        BY <1>1, <1>2 DEF InitMips, MipsLengths, SamplesCounted, BufferKept
    <1>5. QED
        BY <1>3, <1>4 DEF MipsInv

LEMMA ReceiveMipsInv ==
    ASSUME MipsInv, NEW n \in 0..MaxInsns, NEW updates \in [1..n -> Words \ {NoInsn}],
           ReceiveMips(updates)
    PROVE  MipsInv'
    <1> USE MipsAssumption
    <1>1. CASE n \in Nat
        <2>1. updates \in Seq(Words)
            BY <1>1
        <2>2. MipsTypes'
            BY <2>1 DEF MipsInv, MipsTypes, ReceiveMips
        <2>3. QED
            BY <2>2 DEF MipsInv, MipsTypes, MipsLengths, SamplesCounted, BufferKept,
                        ReceiveMips
    <1>2. n \in Nat
        OBVIOUS
    <1>3. QED
        BY <1>1, <1>2

LEMMA AppendInsnInv ==
    ASSUME MipsInv, AppendInsn
    PROVE  MipsInv'
    <1> USE MipsAssumption
    <1>1. Len(insn_mem_updates) > 0 /\ insn_mem_updates \in Seq(Words)
        BY DEF MipsInv, MipsTypes, AppendInsn
    <1>2. Tail(insn_mem_updates) \in Seq(Words) /\ Head(insn_mem_updates) \in Words
        BY <1>1, TailOf
    <1>3. /\ buffer' \in Seq(Words)
          /\ Len(buffer') = Len(buffer) + 1
          /\ Len(buffer) \in Nat
        BY <1>2 DEF MipsInv, MipsTypes, AppendInsn
    <1>4. MipsTypes'
        BY <1>2, <1>3 DEF MipsInv, MipsTypes, AppendInsn
    <1>5. Len(buffer) <= KeptInsns
        BY DEF MipsInv, MipsLengths, AppendInsn
    <1>6. MipsLengths'
        BY <1>3, <1>5 DEF MipsLengths, AppendInsn
    <1>7. SamplesCounted'
        BY DEF MipsInv, SamplesCounted, AppendInsn
    <1>8. BufferKept'
        BY <1>3 DEF MipsInv, MipsTypes, BufferKept, AppendInsn
    <1>9. QED
        BY <1>4, <1>6, <1>7, <1>8 DEF MipsInv

LEMMA AwaitInsnInv ==
    ASSUME MipsInv, AwaitInsn
    PROVE  MipsInv'
    <1>1. MipsTypes' /\ samples' = 0 /\ unchanged' = unchanged
        BY DEF MipsInv, MipsTypes, AwaitInsn, MipsEdges
    <1>2. QED
        BY <1>1 DEF MipsInv, MipsTypes, MipsLengths, SamplesCounted, BufferKept, AwaitInsn

\* An instruction given up before the sample or after it.
LEMMA GivenUpInv ==
    ASSUME MipsInv, GiveUpInsn \/ ResetAtPc
    PROVE  MipsInv'
    <1> USE MipsAssumption
    <1>1. /\ buffer \in Seq(Words)
          /\ Len(buffer) \in KeptInsns..(KeptInsns + 1)
        BY DEF MipsInv, MipsTypes, MipsLengths, GiveUpInsn, ResetAtPc
    <1>2. buffer' \in Seq(Words) /\ Len(buffer') = Len(buffer) - 1
        <2>1. buffer' = Tail(buffer)
            BY DEF GiveUpInsn, ResetAtPc
        <2>2. Len(buffer) > 0
            BY <1>1
        <2>3. QED
            BY <1>1, <2>1, <2>2, TailOf
    <1>3. /\ samples' = 0
          /\ unchanged' = unchanged
          /\ insn_mem_updates' = insn_mem_updates
          /\ full' = full
          /\ mips_pc' \in {"sample", "await", "append"}
        BY DEF GiveUpInsn, ResetAtPc, MipsEdges
    <1>4. MipsTypes'
        BY <1>2, <1>3 DEF MipsInv, MipsTypes
    <1>5. SamplesCounted' /\ BufferKept'
        BY <1>1, <1>2, <1>3 DEF MipsInv, MipsTypes, SamplesCounted, BufferKept
    <1>6. MipsLengths'
        <2>1. CASE GiveUpInsn
            BY <1>1, <1>2, <2>1 DEF MipsInv, MipsLengths, GiveUpInsn
        <2>2. CASE ResetAtPc
            <3>1. mips_pc' = IF Len(buffer') > KeptInsns THEN "await" ELSE "append"
                BY <2>2 DEF ResetAtPc, GoesRound
            <3>2. QED
                BY <1>1, <1>2, <3>1 DEF MipsLengths
        <2>3. QED
            BY <2>1, <2>2
    <1>7. QED
        BY <1>4, <1>5, <1>6 DEF MipsInv

LEMMA SampleInsnInv ==
    ASSUME MipsInv, SampleInsn
    PROVE  MipsInv'
    <1> USE MipsAssumption
    <1>1. /\ mips_pc = "sample"
          /\ samples' = samples + 1
          /\ unchanged' = IF StuckAtPc THEN 0 ELSE unchanged + 1
          /\ mips_pc' = IF StuckAtPc THEN "reset"
                        ELSE IF GoesRound(buffer) THEN "await" ELSE "append"
          /\ UNCHANGED <<insn_mem_updates, buffer, full>>
        BY DEF SampleInsn
    <1>2. /\ unchanged \in 0..Unchanged
          /\ samples \in Nat
          /\ samples <= unchanged
          /\ Len(buffer) \in KeptInsns..(KeptInsns + 1)
        BY <1>1 DEF MipsInv, MipsTypes, MipsLengths, SamplesCounted
    <1>3. MipsTypes' /\ SamplesCounted'
        BY <1>1, <1>2 DEF MipsInv, MipsTypes, SamplesCounted, StuckAtPc
    <1>4. MipsLengths' /\ BufferKept'
        BY <1>1, <1>2 DEF MipsInv, MipsLengths, BufferKept, GoesRound
    <1>5. QED
        BY <1>3, <1>4 DEF MipsInv

LEMMA NextMipsInv == MipsInv /\ [NextMips]_mipsVars => MipsInv'
    <1> SUFFICES ASSUME MipsInv, [NextMips]_mipsVars PROVE MipsInv'
        OBVIOUS
    <1>1. ASSUME NEW n \in 0..MaxInsns, NEW updates \in [1..n -> Words \ {NoInsn}],
                 ReceiveMips(updates)
          PROVE  MipsInv'
        BY <1>1, ReceiveMipsInv
    <1>2. CASE AppendInsn
        BY <1>2, AppendInsnInv
    <1>3. CASE MipsReply
        BY <1>3 DEF MipsInv, MipsTypes, MipsLengths, SamplesCounted, BufferKept, MipsReply
    <1>4. CASE AwaitInsn
        BY <1>4, AwaitInsnInv
    <1>5. CASE GiveUpInsn \/ ResetAtPc
        BY <1>5, GivenUpInv
    <1>6. CASE InsnExecuted
        BY <1>6, MipsAssumption DEF MipsInv, MipsTypes, MipsLengths, SamplesCounted,
                                    BufferKept, InsnExecuted
    <1>7. CASE SampleInsn
        BY <1>7, SampleInsnInv
    <1>8. CASE MipsEnded \/ UNCHANGED mipsVars
        BY <1>8 DEF MipsInv, MipsTypes, MipsLengths, SamplesCounted, BufferKept, MipsEnded,
                    mipsVars
    <1>9. QED
        BY <1>1, <1>2, <1>3, <1>4, <1>5, <1>6, <1>7, <1>8 DEF NextMips

LEMMA MipsInvariance == SpecMips => []MipsInv
    BY InitMipsInv, NextMipsInv, PTL DEF SpecMips

-----------------------------------------------------------------------------
\* Between two clock edges the MIPS server samples at most once more than the unchanged
\* program counter is tolerated (cocotb_mips.py:160-168).
THEOREM SampledOnlySoOften == SpecMips => []SampledAtMost
    <1>1. MipsInv => SampledAtMost
        <2> SUFFICES ASSUME MipsInv PROVE SampledAtMost
            OBVIOUS
        <2>1. /\ unchanged \in 0..Unchanged
              /\ samples \in Nat
              /\ samples <= unchanged \/ samples <= Unchanged + 1
            BY DEF MipsInv, MipsTypes, SamplesCounted
        <2>2. QED
            BY <2>1, MipsAssumption DEF SampledAtMost
    <1>2. QED
        BY <1>1, MipsInvariance, PTL

\* Once full, the MIPS server's buffer keeps all but one of the instructions it should,
\* though the wait and the pc can each give one up in one round (cocotb_mips.py:147-173).
THEOREM InsnsKept == SpecMips => []BufferKept
    <1>1. MipsInv => BufferKept
        BY DEF MipsInv
    <1>2. QED
        BY <1>1, MipsInvariance, PTL

-----------------------------------------------------------------------------
(* The decoder's monitor.                                                   *)

\* What the monitor has seen after an instruction, whatever it had seen before.
LEMMA SampledIs ==
    ASSUME NEW class \in Classes, NEW op \in AluOps, NEW size \in Sizes,
           NEW regs \in Registers \X Registers \X Registers, NEW before
    PROVE  LET n == Sampled(Decoded(class, op, size, regs), before) IN
           /\ n.alu_op = IF class = "OP" /\ op \in alu_op_names THEN op ELSE NotSeen
           /\ n.alu_imm_op = IF class = "OP_IMM" /\ op \in alu_op_names THEN op ELSE NotSeen
           /\ n.store = IF class = "STORE" THEN size ELSE NotSeen
           /\ n.load = IF class = "LOAD" THEN size ELSE NotSeen
           /\ n.write_reg = IF class \in {"OP", "OP_IMM", "MUL", "UPPER", "CSR", "LOAD"}
                            THEN regs[1] ELSE NotSeen
           /\ n.read_reg_a = IF class \notin {"UPPER", "ILLEGAL"} THEN regs[2] ELSE NotSeen
           /\ n.read_reg_b = IF class \in {"OP", "MUL", "STORE", "BRANCH"}
                             THEN regs[3] ELSE NotSeen
    <1> DEFINE s == Decoded(class, op, size, regs)
               a == sample_alu_ops(s, clear_seen)
               m == sample_mem_ops(s, a)
               n == sample_rf_accesses(s, m)
    <1>1. /\ s.illegal_insn = (class = "ILLEGAL")
          /\ s.rf_we = (class \in {"OP", "OP_IMM", "MUL", "UPPER", "CSR"})
          /\ s.rf_waddr = regs[1] /\ s.rf_raddr_a = regs[2] /\ s.rf_raddr_b = regs[3]
          /\ s.rf_ren_a = (class \notin {"UPPER", "ILLEGAL"})
          /\ s.rf_ren_b = (class \in {"OP", "MUL", "STORE", "BRANCH"})
          /\ s.data_req = (class \in {"LOAD", "STORE"})
          /\ s.data_we = (class = "STORE")
          /\ s.data_type = size
          /\ s.alu_operator = op
          /\ s.op_b_imm = (class \in {"OP_IMM", "LOAD", "STORE", "UPPER"})
        BY DEF Decoded
    <1>2. IsAluOp(s) <=> class \in {"OP", "OP_IMM"} /\ op \in alu_op_names
        BY DEF IsAluOp, Decoded, Classes
    <1> HIDE DEF s
    <1> DEFINE Fields == {"alu_op", "alu_imm_op", "write_reg", "read_reg_a", "read_reg_b",
                          "store", "load"}
    <1>3. DOMAIN clear_seen = Fields /\ \A f \in Fields : clear_seen[f] = NotSeen
        BY DEF clear_seen
    <1>4. /\ DOMAIN a = Fields
          /\ \A f \in Fields \ {"alu_op", "alu_imm_op"} : a[f] = NotSeen
          /\ a.alu_op = IF class = "OP" /\ op \in alu_op_names THEN op ELSE NotSeen
          /\ a.alu_imm_op = IF class = "OP_IMM" /\ op \in alu_op_names THEN op ELSE NotSeen
        BY <1>1, <1>2, <1>3 DEF sample_alu_ops
    <1> HIDE DEF a
    <1>5. /\ DOMAIN m = Fields
          /\ \A f \in Fields \ {"store", "load"} : m[f] = a[f]
          /\ m.store = IF class = "STORE" THEN size ELSE NotSeen
          /\ m.load = IF class = "LOAD" THEN size ELSE NotSeen
        BY <1>1, <1>4 DEF sample_mem_ops
    <1> HIDE DEF m
    <1>6. m.load # NotSeen <=> class = "LOAD"
        BY <1>5, DecoderAssumption
    <1>7. /\ n.alu_op = m.alu_op /\ n.alu_imm_op = m.alu_imm_op
          /\ n.store = m.store /\ n.load = m.load
          /\ n.write_reg = IF class \in {"OP", "OP_IMM", "MUL", "UPPER", "CSR", "LOAD"}
                           THEN regs[1] ELSE m.write_reg
          /\ n.read_reg_a = IF class \notin {"UPPER", "ILLEGAL"} THEN regs[2] ELSE m.read_reg_a
          /\ n.read_reg_b = IF class \in {"OP", "MUL", "STORE", "BRANCH"}
                            THEN regs[3] ELSE m.read_reg_b
        BY <1>1, <1>5, <1>6 DEF sample_rf_accesses
    <1>8. Sampled(s, before) = IF class = "ILLEGAL" THEN clear_seen ELSE n
        BY <1>1 DEF Sampled, a, m
    <1> HIDE DEF n
    <1>9. QED
        BY <1>3, <1>4, <1>5, <1>7, <1>8 DEF s

LEMMA SampleSeen ==
    ASSUME NEW class \in Classes, NEW op \in AluOps, NEW size \in Sizes,
           NEW regs \in Registers \X Registers \X Registers,
           SeenIsDone, sample_coverage(Decoded(class, op, size, regs))
    PROVE  SeenIsDone'
    <1>1. /\ signals' = Decoded(class, op, size, regs)
          /\ seen' = Sampled(Decoded(class, op, size, regs), seen)
        BY DEF sample_coverage
    <1>2. signals'.class = class /\ Decoded(class, op, size, regs).illegal_insn = (class = "ILLEGAL")
        BY <1>1 DEF Decoded
    <1>3. /\ seen'.alu_op = IF class = "OP" /\ op \in alu_op_names THEN op ELSE NotSeen
          /\ seen'.alu_imm_op =
               IF class = "OP_IMM" /\ op \in alu_op_names THEN op ELSE NotSeen
          /\ seen'.store = IF class = "STORE" THEN size ELSE NotSeen
          /\ seen'.load = IF class = "LOAD" THEN size ELSE NotSeen
          /\ seen'.write_reg =
               IF class \in {"OP", "OP_IMM", "MUL", "UPPER", "CSR", "LOAD"}
               THEN regs[1] ELSE NotSeen
          /\ seen'.read_reg_a = IF class \notin {"UPPER", "ILLEGAL"} THEN regs[2] ELSE NotSeen
          /\ seen'.read_reg_b = IF class \in {"OP", "MUL", "STORE", "BRANCH"}
                                THEN regs[3] ELSE NotSeen
        BY <1>1, SampledIs
    <1>4. /\ regs[1] # NotSeen /\ regs[2] # NotSeen /\ regs[3] # NotSeen
          /\ op # NotSeen /\ size # NotSeen
        BY DecoderAssumption
    <1>5. ASSUME NEW o \in OperationsSeen(seen'), NEW list \in Crossed(o[1])
          PROVE  seen'[list] # NotSeen
        BY <1>3, <1>4, <1>5 DEF OperationsSeen, Crossed
    <1>6. Asserted(seen')
        BY <1>5 DEF Asserted
    <1>7. decoder_pc' # "failed"
        BY <1>6 DEF sample_coverage, SeenIsDone
    <1>8. QED
        BY <1>2, <1>3, <1>4, <1>7 DEF SeenIsDone

\* No instruction fails an assertion of the database's update, and nothing of the one
\* before is credited to it, for every set of registers and of operations.
THEOREM NothingCredited == SpecDecoder => []SeenIsDone
    <1>1. InitDecoder => SeenIsDone
        BY DEF InitDecoder, SeenIsDone, clear_seen, Decoded
    <1>2. SeenIsDone /\ [NextDecoder]_decoderVars => SeenIsDone'
        <2>1. ASSUME SeenIsDone, NEW s \in Instructions, sample_coverage(s)
              PROVE  SeenIsDone'
            BY <2>1, SampleSeen DEF Instructions
        <2>2. ASSUME SeenIsDone, FinishDecoder
              PROVE  SeenIsDone'
            BY <2>2 DEF FinishDecoder, SeenIsDone
        <2>3. ASSUME SeenIsDone, UNCHANGED decoderVars
              PROVE  SeenIsDone'
            BY <2>3 DEF decoderVars, SeenIsDone
        <2>4. QED
            BY <2>1, <2>2, <2>3 DEF NextDecoder, DecoderEnded
    <1>3. QED
        BY <1>1, <1>2, PTL DEF SpecDecoder

-----------------------------------------------------------------------------
(* The SDRAM controller's commands.                                         *)

Initialising == {"INIT_NOP1", "INIT_PRE1", "INIT_NOP1_1", "INIT_REF1", "INIT_NOP2",
                 "INIT_REF2", "INIT_NOP3"}

\* The bins of the commands that lead to a state have been counted, whatever resets
\* came in between, and so has the command that is held while a state counts down.
SequenceCounted ==
    /\ state \in SdramStates
    /\ state # "INIT_NOP1" => "precharge" \in sdram_bins
    /\ state \notin {"INIT_NOP1", "INIT_PRE1", "INIT_NOP1_1"} =>
          "auto_refresh" \in sdram_bins
    /\ state \notin Initialising => "load_mode_register" \in sdram_bins
    /\ state \in Accesses => "activate" \in sdram_bins
    /\ command # "NOP" => command \in DOMAIN SdramBins /\ BinOf(command) \in sdram_bins

SdramInv == SequenceCounted /\ ProtocolOrder

\* A command leads to its state.
Leads(s, c) ==
    /\ s \in SdramStates
    /\ c \in DOMAIN SdramBins
    /\ s = "INIT_PRE1" => c = "PALL"
    /\ s = "INIT_REF1" => c = "REF"
    /\ s = "INIT_LOAD" => c = "MRS"
    /\ s \in {"WRIT_ACT", "READ_ACT"} <=> c = "BACT"
    /\ c \in {"WRIT", "READ"} => s \in {"WRIT_CAS", "READ_CAS"}

\* The state before is of the same sequence, or the first of one follows IDLE.
From(s0, s) ==
    /\ s # "INIT_NOP1"
    /\ s0 = "INIT_NOP1" => s = "INIT_PRE1"
    /\ s0 = "INIT_PRE1" => s = "INIT_NOP1_1"
    /\ s0 = "INIT_NOP1_1" => s = "INIT_REF1"
    /\ s0 \in Initialising => s \in Initialising \cup {"INIT_LOAD"}
    /\ s \in Accesses => s0 \in Accesses \cup {"IDLE"}
    /\ s \in Accesses /\ s0 = "IDLE" => s \in {"WRIT_ACT", "READ_ACT"}

LEMMA FollowingLeads ==
    ASSUME NEW s \in DOMAIN Following
    PROVE  /\ Leads(Following[s].next, Following[s].command)
           /\ From(s, Following[s].next)
    BY DEF Following, To, Leads, From, SdramStates, SdramBins, Accesses, Initialising

LEMMA IdleLeads ==
    Leads(FromIdle.next, FromIdle.command) /\ (FromIdle.next = "IDLE" \/ From("IDLE", FromIdle.next))
    BY DEF FromIdle, To, Leads, From, SdramStates, Following, SdramBins, Accesses, Initialising

\* A step to a state by the command that leads to it.
LEMMA LeadsCounted ==
    ASSUME SdramInv, Leads(state', command'), From(state, state'), check_hits
    PROVE  SdramInv'
    <1>1. /\ sdram_bins' = sdram_bins \cup {BinOf(command')}
          /\ command' \in DOMAIN SdramBins
        BY DEF check_hits, Leads
    <1>2. /\ BinOf("PALL") = "precharge" /\ BinOf("REF") = "auto_refresh"
          /\ BinOf("MRS") = "load_mode_register" /\ BinOf("BACT") = "activate"
          /\ BinOf(command') = "activate" => command' = "BACT"
          /\ BinOf(command') \in {"read", "write"} => command' \in {"READ", "WRIT"}
        BY <1>1 DEF BinOf, SdramBins
    <1>3. SequenceCounted'
        BY <1>1, <1>2 DEF SdramInv, SequenceCounted, Leads, From, Accesses, Initialising
    <1>4. ProtocolOrder'
        <2>1. command' = "BACT" =>
                 {"precharge", "auto_refresh", "load_mode_register"} \subseteq sdram_bins
            BY DEF SdramInv, SequenceCounted, Leads, From, Accesses, Initialising
        <2>2. command' \in {"READ", "WRIT"} => "activate" \in sdram_bins
            BY DEF SdramInv, SequenceCounted, Leads, From, Accesses
        <2>3. QED
            BY <1>1, <1>2, <2>1, <2>2 DEF SdramInv, ProtocolOrder
    <1>5. QED
        BY <1>3, <1>4 DEF SdramInv

\* A step that stays in its state, by the command it is held by.
LEMMA HeldCounted ==
    ASSUME SdramInv, state' = state, command' = command \/ command' = "NOP", check_hits
    PROVE  SdramInv'
    <1>1. sdram_bins' = sdram_bins \cup {BinOf(command')}
        BY DEF check_hits
    <1>2. BinOf("NOP") = "command_inhibit"
        BY DEF BinOf, SdramBins
    <1>3. sdram_bins' \subseteq sdram_bins \cup {"command_inhibit"}
        BY <1>1, <1>2 DEF SdramInv, SequenceCounted
    <1>4. QED
        BY <1>1, <1>3 DEF SdramInv, SequenceCounted, ProtocolOrder

LEMMA ResetCounted ==
    ASSUME SdramInv, SdramReset, check_hits
    PROVE  SdramInv'
    <1>1. sdram_bins' = sdram_bins \cup {"command_inhibit"}
        BY DEF SdramReset, check_hits, BinOf, SdramBins
    <1>2. state' = "INIT_NOP1" /\ command' = "NOP"
        BY DEF SdramReset
    <1>3. "INIT_NOP1" \in SdramStates /\ "INIT_NOP1" \notin Accesses
        BY DEF SdramStates, Following, Accesses
    <1>4. QED
        BY <1>1, <1>2, <1>3 DEF SdramInv, SequenceCounted, ProtocolOrder, Initialising

LEMMA ClockedCounted ==
    ASSUME SdramInv, Clocked, check_hits
    PROVE  SdramInv'
    <1>1. CASE ~rst_n
        BY <1>1, ResetCounted DEF Clocked
    <1>2. CASE rst_n /\ state = "IDLE"
        <2>1. state' = FromIdle.next /\ command' = FromIdle.command
            BY <1>2 DEF Clocked, SdramEdge
        <2>2. CASE FromIdle.next = "IDLE"
            <3>1. FromIdle.command = "NOP"
                BY <2>2 DEF FromIdle, To
            <3>2. QED
                BY <1>2, <2>1, <2>2, <3>1, HeldCounted
        <2>3. CASE FromIdle.next # "IDLE"
            BY <1>2, <2>1, <2>3, IdleLeads, LeadsCounted
        <2>4. QED
            BY <2>2, <2>3
    <1>3. CASE rst_n /\ state # "IDLE" /\ state_cnt = 0
        <2>1. state' = Following[state].next /\ command' = Following[state].command
            BY <1>3 DEF Clocked, SdramEdge
        <2>2. state \in DOMAIN Following
            BY <1>3 DEF SdramInv, SequenceCounted, SdramStates
        <2>3. QED
            BY <2>1, <2>2, FollowingLeads, LeadsCounted
    <1>4. CASE rst_n /\ state # "IDLE" /\ state_cnt # 0
        <2>1. state' = state /\ command' = command
            BY <1>4 DEF Clocked, SdramEdge, To
        <2>2. QED
            BY <2>1, HeldCounted
    <1>5. QED
        BY <1>1, <1>2, <1>3, <1>4

\* The order of the memory's protocol in what async_check_hits counts, for every wait,
\* refresh interval, stimulus and reset: nothing is counted before what it needs.
THEOREM CountedInOrder == SpecSdram => []ProtocolOrder
    <1>1. InitSdram => SdramInv
        <2>1. "INIT_NOP1" \in SdramStates /\ "INIT_NOP1" \notin Accesses
            BY DEF SdramStates, Following, Accesses
        <2>2. QED
            BY <2>1 DEF InitSdram, SdramInv, SequenceCounted, ProtocolOrder, Initialising
    <1>2. SdramInv /\ UNCHANGED <<state, command, sdram_bins>> => SdramInv'
        BY DEF SdramInv, SequenceCounted, ProtocolOrder
    <1>3. SdramInv /\ [NextSdram]_sdramVars => SdramInv'
        <2>1. ASSUME SdramInv, Settle PROVE SdramInv'
            BY <2>1, ClockedCounted DEF Settle
        <2>2. ASSUME SdramInv, Served PROVE SdramInv'
            BY <2>2, ClockedCounted DEF Served
        <2>3. ASSUME SdramInv, NEW write, NEW read, NEW reset, ReceiveSdram(write, read, reset)
              PROVE  SdramInv'
            BY <2>3, <1>2 DEF ReceiveSdram, sdramDesign
        <2>4. UNCHANGED sdramVars => UNCHANGED <<state, command, sdram_bins>>
            BY DEF sdramVars, sdramDesign
        <2>5. QED
            BY <1>2, <2>1, <2>2, <2>3, <2>4 DEF NextSdram, SdramEnded
    <1>4. SdramInv => ProtocolOrder
        BY DEF SdramInv
    <1>5. QED
        BY <1>1, <1>3, <1>4, PTL DEF SpecSdram

-----------------------------------------------------------------------------
(* The SDRAM server starts one access a stimulus.                           *)

\* An access that is started leaves the server's loop at the same edge: `busy` follows
\* a cycle later.  Settling passes no idle state, as those have nothing to count.
OneAccessInv ==
    /\ sdram_pc \in {"recv", "settle", "drive", "busy", "ended"}
    /\ stimulus \in [write : BOOLEAN, read : BOOLEAN, reset : BOOLEAN]
    /\ reset_cycles \in Int
    /\ rst_n \in BOOLEAN
    /\ started \in 0..1
    /\ sdram_pc \in {"drive", "busy"} => started = 0
    /\ sdram_pc = "settle" => state_cnt # 0
    /\ state \in SdramStates
    /\ state = "IDLE" => state_cnt = 0
    /\ rst_n => reset_cycles <= 0

LEMMA FollowingStates ==
    ASSUME NEW s \in DOMAIN Following
    PROVE  /\ Following[s].next \in SdramStates
           /\ Following[s].next = "IDLE" => Following[s].count = 0
           /\ Following[s].next # "INIT_NOP1"
    BY DEF Following, To, SdramStates

LEMMA IdleStates ==
    /\ FromIdle.next \in SdramStates
    /\ FromIdle.count = 0
    /\ FromIdle.next # "INIT_NOP1"
    /\ FromIdle.command = "BACT" => FromIdle.next \in {"READ_ACT", "WRIT_ACT"}
    BY DEF FromIdle, To, SdramStates, Following

LEMMA ClockedStates ==
    ASSUME state \in SdramStates, state = "IDLE" => state_cnt = 0, Clocked
    PROVE  /\ state' \in SdramStates
           /\ state' = "IDLE" => state_cnt' = 0
           /\ Started \in 0..1
           /\ Started = 1 => rst_n /\ state = "IDLE" /\ ~busy'
    <1>1. /\ Started \in 0..1
          /\ Started = 1 => rst_n /\ state = "IDLE"
        BY DEF Started
    <1>2. CASE ~rst_n
        <2>1. state' = "INIT_NOP1"
            BY <1>2 DEF Clocked, SdramReset
        <2>2. QED
            BY <1>1, <1>2, <2>1 DEF SdramStates, Following
    <1>3. CASE rst_n /\ state = "IDLE"
        <2>1. state' = FromIdle.next /\ state_cnt' = FromIdle.count
            BY <1>3 DEF Clocked, SdramEdge
        <2>2. "IDLE" \notin Accesses
            BY DEF Accesses
        <2>3. busy' = (state \in Accesses)
            BY <1>3 DEF Clocked, SdramEdge
        <2>4. ~busy'
            BY <1>3, <2>2, <2>3
        <2>5. QED
            BY <1>1, <2>1, <2>4, IdleStates
    <1>4. CASE rst_n /\ state # "IDLE" /\ state_cnt = 0
        <2>1. state' = Following[state].next /\ state_cnt' = Following[state].count
            BY <1>4 DEF Clocked, SdramEdge
        <2>2. QED
            BY <1>1, <1>4, <2>1, FollowingStates DEF SdramStates
    <1>5. CASE rst_n /\ state # "IDLE" /\ state_cnt # 0
        <2>1. state' = state
            BY <1>5 DEF Clocked, SdramEdge, To
        <2>2. QED
            BY <1>1, <1>5, <2>1
    <1>6. QED
        BY <1>2, <1>3, <1>4, <1>5

LEMMA DrivenOnce ==
    ASSUME Driven(stimulus'), state_cnt' = 0, state' \in SdramStates,
           stimulus' \in [write : BOOLEAN, read : BOOLEAN, reset : BOOLEAN]
    PROVE  OneAccessInv'
    <1>1. sdram_pc' = "drive" /\ started' = 0
        BY DEF Driven
    <1>2. CASE stimulus'.reset
        <2>1. ~rst_n' /\ rst_n' \in BOOLEAN /\ reset_cycles' = 3
            BY <1>2 DEF Driven
        <2>2. QED
            BY <1>1, <2>1 DEF OneAccessInv
    <1>3. CASE ~stimulus'.reset
        <2>1. rst_n' \in BOOLEAN /\ reset_cycles' = -1
            BY <1>3 DEF Driven
        <2>2. QED
            BY <1>1, <2>1 DEF OneAccessInv
    <1>4. QED
        BY <1>2, <1>3

\* The server of SDRAM: its enables stay driven, and yet a stimulus starts one access.
THEOREM StartsOneAccess == SpecSdram => []OneAccess
    <1>1. InitSdram => OneAccessInv
        BY DEF InitSdram, OneAccessInv, SdramStates, Following
    <1>2. ASSUME OneAccessInv, NEW write \in BOOLEAN, NEW read \in BOOLEAN,
                 NEW reset \in BOOLEAN, ReceiveSdram(write, read, reset)
          PROVE  OneAccessInv'
        <2>1. UNCHANGED <<state, state_cnt>>
            BY <1>2 DEF ReceiveSdram, sdramDesign
        <2>2. CASE state_cnt # 0
            BY <1>2, <2>1, <2>2 DEF ReceiveSdram, OneAccessInv, sdramDriven
        <2>3. CASE state_cnt = 0
            <3>1. Driven(stimulus')
                BY <1>2, <2>3 DEF ReceiveSdram
            <3>2. /\ stimulus' \in [write : BOOLEAN, read : BOOLEAN, reset : BOOLEAN]
                  /\ state \in SdramStates
                BY <1>2 DEF ReceiveSdram, OneAccessInv
            <3>3. QED
                BY <2>1, <2>3, <3>1, <3>2, DrivenOnce
        <2>4. QED
            BY <2>2, <2>3
    <1>3. ASSUME OneAccessInv, Settle PROVE OneAccessInv'
        <2>1. /\ state' \in SdramStates
              /\ state' = "IDLE" => state_cnt' = 0
              /\ Started = 0
            <3>1. Clocked /\ state # "IDLE" /\ state \in SdramStates
                BY <1>3 DEF Settle, OneAccessInv
            <3>2. QED
                BY <3>1, ClockedStates
        <2>2. stimulus' = stimulus
            BY <1>3 DEF Settle
        <2>3. CASE state_cnt' # 0
            BY <1>3, <2>1, <2>3 DEF Settle, OneAccessInv, sdramDriven
        <2>4. CASE state_cnt' = 0
            <3>1. Driven(stimulus')
                BY <1>3, <2>2, <2>4 DEF Settle
            <3>2. stimulus' \in [write : BOOLEAN, read : BOOLEAN, reset : BOOLEAN]
                BY <1>3, <2>2 DEF OneAccessInv
            <3>3. QED
                BY <2>1, <2>4, <3>1, <3>2, DrivenOnce
        <2>5. QED
            BY <2>3, <2>4
    <1>4. ASSUME OneAccessInv, Served PROVE OneAccessInv'
        <2>1. /\ state' \in SdramStates
              /\ state' = "IDLE" => state_cnt' = 0
              /\ Started \in 0..1
              /\ Started = 1 => rst_n /\ ~busy'
            BY <1>4, ClockedStates DEF Served, OneAccessInv
        <2>2. /\ started = 0 /\ started' = Started
              /\ reset_cycles' \in Int /\ reset_cycles' <= reset_cycles
            BY <1>4, <2>1 DEF Served, OneAccessInv, Remaining
        <2>3. Started = 1 => ~Unserved
            BY <1>4, <2>1, <2>2 DEF Unserved, OneAccessInv
        <2>4. CASE Unserved
            BY <1>4, <2>1, <2>2, <2>3, <2>4 DEF Served, OneAccessInv
        <2>5. CASE ~Unserved
            <3>1. reset_cycles' <= 0
                BY <2>2, <2>5 DEF Unserved
            <3>2. /\ sdram_pc' \in {"recv", "ended"} /\ rst_n' = TRUE
                  /\ stimulus' \in [write : BOOLEAN, read : BOOLEAN, reset : BOOLEAN]
                BY <1>4, <2>5 DEF Served, OneAccessInv
            <3>3. QED
                BY <2>1, <2>2, <3>1, <3>2 DEF OneAccessInv
        <2>6. QED
            BY <2>4, <2>5
    <1>5. ASSUME OneAccessInv, UNCHANGED sdramVars PROVE OneAccessInv'
        BY <1>5 DEF sdramVars, sdramServer, sdramDriven, sdramDesign, OneAccessInv
    <1>6. OneAccessInv /\ [NextSdram]_sdramVars => OneAccessInv'
        BY <1>2, <1>3, <1>4, <1>5 DEF NextSdram, SdramEnded
    <1>7. OneAccessInv => OneAccess
        BY DEF OneAccessInv, OneAccess
    <1>8. QED
        BY <1>1, <1>6, <1>7, PTL DEF SpecSdram

-----------------------------------------------------------------------------
(* A refresh is not put off.                                                *)

IdleBudget == CYCLES_BETWEEN_REFRESH + REFRESH_WAIT + 9

\* Cycles since the last refresh, with those a state has still to count: the longest
\* way to a state is the initialisation or an access that began just before a refresh
\* was due.
Budget ==
    [INIT_NOP1   |-> INIT_WAIT,
     INIT_PRE1   |-> INIT_WAIT + 1,
     INIT_NOP1_1 |-> INIT_WAIT + 2,
     INIT_REF1   |-> INIT_WAIT + 3,
     INIT_NOP2   |-> INIT_WAIT + REFRESH_WAIT + 4,
     INIT_REF2   |-> INIT_WAIT + REFRESH_WAIT + 5,
     INIT_NOP3   |-> INIT_WAIT + 2 * REFRESH_WAIT + 6,
     INIT_LOAD   |-> INIT_WAIT + 2 * REFRESH_WAIT + 7,
     INIT_NOP4   |-> INIT_WAIT + 2 * REFRESH_WAIT + 9,
     WRIT_ACT    |-> CYCLES_BETWEEN_REFRESH,
     WRIT_NOP1   |-> CYCLES_BETWEEN_REFRESH + 2,
     WRIT_CAS    |-> CYCLES_BETWEEN_REFRESH + 3,
     WRIT_NOP2   |-> CYCLES_BETWEEN_REFRESH + 5,
     READ_ACT    |-> CYCLES_BETWEEN_REFRESH,
     READ_NOP1   |-> CYCLES_BETWEEN_REFRESH + 2,
     READ_CAS    |-> CYCLES_BETWEEN_REFRESH + 3,
     READ_NOP2   |-> CYCLES_BETWEEN_REFRESH + 5,
     READ_READ   |-> CYCLES_BETWEEN_REFRESH + 6,
     IDLE        |-> IdleBudget,
     REF_PRE     |-> IdleBudget + 1,
     REF_NOP1    |-> IdleBudget + 2,
     REF_REF     |-> IdleBudget + 3,
     REF_NOP2    |-> IdleBudget + 4 + REFRESH_WAIT]

BudgetKept ==
    /\ state \in SdramStates
    /\ state_cnt \in Nat
    /\ refresh_cnt \in Nat
    /\ state = "IDLE" => state_cnt = 0
    /\ refresh_cnt + state_cnt <= Budget[state]
    /\ refresh_cnt <= IdleBudget + 4

LEMMA BudgetTypes ==
    ASSUME NEW s \in SdramStates
    PROVE  /\ Budget[s] \in Nat
           /\ s # "REF_NOP2" => Budget[s] <= IdleBudget + 3
    BY SdramAssumption DEF SdramStates, Following, Budget, IdleBudget

\* A step of a sequence takes a cycle, and sets what its state counts.
LEMMA BudgetFollowing ==
    ASSUME NEW s \in DOMAIN Following
    PROVE  /\ Following[s].count \in Nat
           /\ s # "REF_NOP2" => Budget[s] + 1 + Following[s].count <= Budget[Following[s].next]
           /\ s = "REF_NOP2" => Following[s].next = "IDLE" /\ Following[s].count = 0
    BY SdramAssumption DEF Following, To, Budget, IdleBudget

LEMMA BudgetClocked ==
    ASSUME BudgetKept, Clocked
    PROVE  BudgetKept'
    <1> USE SdramAssumption
    <1>1. /\ state' \in SdramStates
          /\ state' = "IDLE" => state_cnt' = 0
        BY ClockedStates DEF BudgetKept
    <1>2. IdleBudget \in Nat /\ IdleBudget >= CYCLES_BETWEEN_REFRESH
        BY DEF IdleBudget
    <1>3. CASE ~rst_n
        <2>1. state' = "INIT_NOP1" /\ state_cnt' = INIT_WAIT /\ refresh_cnt' = 0
            BY <1>3 DEF Clocked, SdramReset
        <2>2. Budget["INIT_NOP1"] = INIT_WAIT
            BY DEF Budget
        <2>3. QED
            BY <1>1, <1>2, <2>1, <2>2 DEF BudgetKept
    <1>4. ASSUME rst_n
          PROVE  /\ refresh_cnt' \in Nat
                 /\ refresh_cnt' <= refresh_cnt + 1
                 /\ state = "REF_NOP2" => refresh_cnt' = 0
        BY <1>4 DEF Clocked, SdramEdge, BudgetKept
    <1>5. CASE rst_n /\ state = "IDLE"
        <2>1. state' = FromIdle.next /\ state_cnt' = 0
            BY <1>5, IdleStates DEF Clocked, SdramEdge, BudgetKept
        <2>2. Budget["IDLE"] = IdleBudget
            BY DEF Budget
        <2>3. refresh_cnt <= IdleBudget
            BY <1>2, <1>5, <2>2 DEF BudgetKept
        <2>4. refresh_cnt' <= Budget[state']
            BY <1>2, <1>4, <1>5, <2>1, <2>3 DEF FromIdle, To, Budget, BudgetKept
        <2>5. QED
            BY <1>1, <1>2, <1>4, <1>5, <2>1, <2>3, <2>4 DEF BudgetKept
    <1>6. CASE rst_n /\ state # "IDLE" /\ state_cnt = 0
        <2>1. state' = Following[state].next /\ state_cnt' = Following[state].count
            BY <1>6 DEF Clocked, SdramEdge
        <2>2. state \in DOMAIN Following
            BY <1>6 DEF BudgetKept, SdramStates
        <2>3. CASE state = "REF_NOP2"
            <3>1. state' = "IDLE" /\ state_cnt' = 0 /\ refresh_cnt' = 0
                BY <1>4, <1>6, <2>1, <2>2, <2>3, BudgetFollowing
            <3>2. Budget["IDLE"] \in Nat
                BY <1>1, <3>1, BudgetTypes
            <3>3. QED
                BY <1>1, <1>2, <3>1, <3>2 DEF BudgetKept
        <2>4. CASE state # "REF_NOP2"
            <3>1. /\ state_cnt' \in Nat
                  /\ Budget[state] + 1 + state_cnt' <= Budget[state']
                BY <2>1, <2>2, <2>4, BudgetFollowing
            <3>2. /\ Budget[state] \in Nat /\ Budget[state'] \in Nat
                  /\ Budget[state] <= IdleBudget + 3
                BY <1>1, <2>4, BudgetTypes DEF BudgetKept
            <3>3. refresh_cnt <= Budget[state] /\ refresh_cnt \in Nat
                BY <1>6 DEF BudgetKept
            <3>4. QED
                BY <1>1, <1>2, <1>4, <1>6, <3>1, <3>2, <3>3 DEF BudgetKept
        <2>5. QED
            BY <2>3, <2>4
    <1>7. CASE rst_n /\ state # "IDLE" /\ state_cnt # 0
        <2>1. state' = state /\ state_cnt' = state_cnt - 1
            BY <1>7 DEF Clocked, SdramEdge, To
        <2>2. /\ state_cnt \in Nat \ {0} /\ refresh_cnt \in Nat
              /\ refresh_cnt + state_cnt <= Budget[state]
            BY <1>7 DEF BudgetKept
        <2>3. Budget[state] \in Nat /\ (state # "REF_NOP2" => Budget[state] <= IdleBudget + 3)
            BY BudgetTypes DEF BudgetKept
        <2>4. refresh_cnt' <= IdleBudget + 4
            BY <1>2, <1>4, <1>7, <2>2, <2>3
        <2>5. QED
            BY <1>1, <1>4, <1>7, <2>1, <2>2, <2>3, <2>4 DEF BudgetKept
    <1>8. QED
        BY <1>3, <1>5, <1>6, <1>7

\* No stimulus puts a refresh off by more than what the design is doing and one access.
THEOREM RefreshesInTime == SpecSdram => []RefreshInTime
    <1>1. InitSdram => BudgetKept
        <2>1. Budget["INIT_NOP1"] = INIT_WAIT /\ IdleBudget \in Nat
            BY SdramAssumption DEF Budget, IdleBudget
        <2>2. "INIT_NOP1" \in SdramStates
            BY DEF SdramStates, Following
        <2>3. QED
            BY <2>1, <2>2, SdramAssumption DEF InitSdram, BudgetKept
    <1>2. BudgetKept /\ UNCHANGED sdramDesign => BudgetKept'
        BY DEF BudgetKept, sdramDesign
    <1>3. BudgetKept /\ [NextSdram]_sdramVars => BudgetKept'
        BY <1>2, BudgetClocked
        DEF NextSdram, Settle, Served, ReceiveSdram, SdramEnded, sdramVars
    <1>4. BudgetKept => RefreshInTime
        BY SdramAssumption DEF BudgetKept, RefreshInTime, IdleBudget
    <1>5. QED
        BY <1>1, <1>3, <1>4, PTL DEF SpecSdram

-----------------------------------------------------------------------------
(* The coverage of bursts.                                                  *)

Requests == [in_features : 1..AG_WB_BOUND, out_features : 1..AG_WB_BOUND]

\* Beat 0 and the last one are not sampled; max_high starts at 1 and duration at 0
\* after the first burst, so each is behind the beats until it has its row's end.
BurstInv ==
    /\ burst_pc \in {"recv", "skip", "sample", "ended"}
    /\ request \in Requests
    /\ bursts \in 0..2
    /\ burst_pc = "skip" => beat = 0
    /\ burst_pc = "sample" =>
          /\ beat \in 1..(request.out_features + required_pulses - 1)
          /\ duration = (IF beat < required_pulses THEN beat ELSE required_pulses) - 1
          /\ bursts > 0 =>
                max_high = IF beat <= request.out_features THEN beat
                           ELSE request.out_features + 1
    /\ burst_pc # "sample" => duration = 0
    /\ burst_pc # "sample" /\ bursts > 0 => max_high = 1
    /\ LaterBurstMeasured

LEMMA Quotient ==
    ASSUME NEW n \in Nat, NEW k \in Nat \ {0}, NEW r \in 0..(k - 1)
    PROVE  (n * k + r) \div k = n
    OBVIOUS

LEMMA CeilIs ==
    ASSUME NEW a \in Nat \ {0}, NEW b \in Nat \ {0}
    PROVE  Ceil(a, b) \in Nat \ {0}
    BY DEF Ceil

LEMMA CeilOfWhole ==
    ASSUME NEW n \in Nat \ {0}, NEW b \in Nat \ {0, 1}
    PROVE  /\ Ceil(b * n - 1, b) = n
           /\ b * n \in Nat \ {0, 1}
    <1>1. b * n - 1 + b - 1 = n * b + (b - 2)
        OBVIOUS
    <1>2. (n * b + (b - 2)) \div b = n
        BY Quotient
    <1>3. QED
        BY <1>1, <1>2 DEF Ceil

LEMMA Pulses ==
    ASSUME BurstInv
    PROVE  /\ required_pulses \in Nat \ {0, 1}
           /\ Ceil(required_pulses - 1, Features) = Ceil(request.in_features, Features)
           /\ request.out_features \in 1..AG_WB_BOUND
    <1>1. /\ request.in_features \in Nat \ {0}
          /\ request.out_features \in 1..AG_WB_BOUND
        BY BurstAssumption DEF BurstInv, Requests
    <1>2. Ceil(request.in_features, Features) \in Nat \ {0}
        BY <1>1, CeilIs, BurstAssumption
    <1>3. QED
        BY <1>1, <1>2, CeilOfWhole, BurstAssumption DEF required_pulses

\* The rows of a beat, and the beat without one.
LEMMA Rows ==
    ASSUME BurstInv, beat \in Nat
    PROVE  /\ \A row \in Int :
                 row \in valid_mask <=>
                   /\ row \in 0..(request.out_features - 1)
                   /\ row <= beat /\ beat < row + required_pulses
           /\ done <=> beat >= request.out_features + required_pulses - 1
    <1>1. /\ required_pulses \in Nat \ {0, 1} /\ request.out_features \in Nat \ {0}
        BY Pulses, BurstAssumption
    <1>2. \A row \in Int :
             row \in valid_mask <=>
               /\ row \in 0..(request.out_features - 1)
               /\ row <= beat /\ beat < row + required_pulses
        BY DEF valid_mask
    <1>3. valid_mask \subseteq Int
        BY <1>1 DEF valid_mask
    <1>4. CASE beat >= request.out_features + required_pulses - 1
        <2>1. \A row \in Int : row \notin valid_mask
            BY <1>1, <1>2, <1>4
        <2>2. QED
            BY <1>2, <1>3, <1>4, <2>1 DEF done
    <1>5. CASE ~(beat >= request.out_features + required_pulses - 1)
        <2>1. CASE beat < request.out_features
            <3>1. beat \in valid_mask
                BY <1>1, <1>2, <2>1
            <3>2. QED
                BY <1>2, <1>5, <3>1 DEF done
        <2>2. CASE beat >= request.out_features
            <3>1. request.out_features - 1 \in valid_mask
                BY <1>1, <1>2, <1>5, <2>2
            <3>2. QED
                BY <1>2, <1>5, <3>1 DEF done
        <2>3. QED
            BY <1>1, <2>1, <2>2
    <1>6. QED
        BY <1>4, <1>5

LEMMA SampleBeatInv ==
    ASSUME BurstInv, SampleBeat
    PROVE  BurstInv'
    <1> DEFINE P == required_pulses
               out == request.out_features
    <1>1. /\ P \in Nat \ {0, 1} /\ out \in Nat \ {0} /\ out < ROWS - 1
          /\ ROWS \in Nat
        BY Pulses, BurstAssumption
    <1>2. /\ burst_pc = "sample" /\ burst_pc' = "sample"
          /\ beat \in 1..(out + P - 1) /\ beat' = beat + 1
          /\ duration = (IF beat < P THEN beat ELSE P) - 1
          /\ bursts > 0 => max_high = IF beat <= out THEN beat ELSE out + 1
          /\ UNCHANGED <<request, counted, bursts>>
        BY DEF BurstInv, SampleBeat
    <1>3. /\ beat < out + P - 1
          /\ \A row \in Int : row \in valid_mask <=> row \in 0..(out - 1) /\ row <= beat
                                                      /\ beat < row + P
        BY <1>1, <1>2, Rows DEF SampleBeat
    <1> HIDE DEF P, out
    <1>4. Signal(1) <=> beat < P
        BY <1>1, <1>2, <1>3 DEF Signal
    <1>5. duration' = (IF beat' < P THEN beat' ELSE P) - 1
        <2>1. duration' = duration + IF Signal(1) THEN 1 ELSE 0
            BY DEF SampleBeat
        <2>2. QED
            BY <1>1, <1>2, <1>4, <2>1
    <1>6. bursts > 0 => max_high' = IF beat' <= out THEN beat' ELSE out + 1
        <2>1. max_high' = max_high + IF Signal(max_high) THEN 1 ELSE 0
            BY DEF SampleBeat
        <2>2. bursts > 0 => (Signal(max_high) <=> beat <= out)
            BY <1>1, <1>2, <1>3 DEF Signal
        <2>3. QED
            BY <1>1, <1>2, <2>1, <2>2
    <1>7. P' = P /\ out' = out
        BY <1>2 DEF P, out, required_pulses
    <1>8. beat' \in 1..(out + P - 1)
        BY <1>1, <1>2, <1>3
    <1>9. LaterBurstMeasured'
        BY <1>2 DEF LaterBurstMeasured
    <1>10. QED
        BY <1>2, <1>5, <1>6, <1>7, <1>8, <1>9 DEF BurstInv, P, out

LEMMA LastBeatInv ==
    ASSUME BurstInv, LastBeat
    PROVE  BurstInv'
    <1> DEFINE P == required_pulses
               out == request.out_features
    <1>1. /\ P \in Nat \ {0, 1} /\ out \in Nat \ {0}
          /\ Ceil(P - 1, Features) = Ceil(request.in_features, Features)
        BY Pulses, BurstAssumption
    <1>2. /\ beat \in 1..(out + P - 1)
          /\ duration = (IF beat < P THEN beat ELSE P) - 1
          /\ bursts > 0 => max_high = IF beat <= out THEN beat ELSE out + 1
          /\ bursts \in 0..2 /\ request \in Requests
        BY DEF BurstInv, LastBeat
    <1>3. beat >= out + P - 1
        BY <1>1, <1>2, Rows DEF LastBeat
    <1>4. /\ counted' = <<Ceil(duration, Features), Index(max_high - 1)>>
          /\ duration' = 0 /\ max_high' = 1
          /\ bursts' = IF bursts < 2 THEN bursts + 1 ELSE 2
          /\ burst_pc' \in {"recv", "ended"}
          /\ UNCHANGED <<request, beat>>
        BY DEF LastBeat, NextHigh
    <1> HIDE DEF P, out
    <1>5. duration = P - 1 /\ (bursts > 0 => max_high = out + 1)
        BY <1>1, <1>2, <1>3
    <1>6. bursts > 0 => Index(max_high - 1) = out
        BY <1>1, <1>5 DEF Index
    <1>7. bursts' \in 0..2 /\ (bursts' = 2 => bursts > 0)
        BY <1>2, <1>4
    <1>8. LaterBurstMeasured'
        BY <1>1, <1>4, <1>5, <1>6, <1>7 DEF LaterBurstMeasured, Measured, out
    <1>9. QED
        BY <1>2, <1>4, <1>7, <1>8 DEF BurstInv

\* Every burst after the first is counted under the size that was asked for, although
\* the helper samples neither its first nor its last beat and max_high runs ahead.
THEOREM BurstsMeasured == SpecBurst => []LaterBurstMeasured
    <1>1. InitBurst => BurstInv
        BY BurstAssumption DEF InitBurst, BurstInv, Requests, LaterBurstMeasured
    <1>2. ASSUME BurstInv, NEW in_features \in 0..AG_WB_BOUND,
                 NEW out_features \in 0..AG_WB_BOUND, RequestBurst(in_features, out_features)
          PROVE  BurstInv'
        <2>1. AtLeastOne(in_features) \in 1..AG_WB_BOUND
            BY BurstAssumption DEF AtLeastOne
        <2>2. AtLeastOne(out_features) \in 1..AG_WB_BOUND
            BY BurstAssumption DEF AtLeastOne
        <2>3. request' \in Requests
            BY <1>2, <2>1, <2>2 DEF RequestBurst, Requests
        <2>4. QED
            BY <1>2, <2>3 DEF RequestBurst, BurstInv, LaterBurstMeasured
    <1>3. ASSUME BurstInv, SkipBeats PROVE BurstInv'
        <2>1. beat = 0 /\ beat' = 1 /\ duration = 0 /\ UNCHANGED <<request, duration, max_high, counted, bursts>>
            BY <1>3 DEF BurstInv, SkipBeats
        <2>2. required_pulses \in Nat \ {0, 1} /\ request.out_features \in Nat \ {0}
            BY <1>3, Pulses, BurstAssumption
        <2>3. ~done
            BY <1>3, <2>1, <2>2, Rows
        <2>4. burst_pc = "skip" /\ burst_pc' = "sample"
            BY <1>3, <2>3 DEF SkipBeats, done
        <2>5. required_pulses' = required_pulses
            BY <2>1 DEF required_pulses
        <2>6. LaterBurstMeasured'
            BY <2>4 DEF LaterBurstMeasured
        <2>7. request \in Requests /\ bursts \in 0..2 /\ (bursts > 0 => max_high = 1)
            BY <1>3, <2>4 DEF BurstInv
        <2>8. QED
            BY <2>1, <2>2, <2>4, <2>5, <2>6, <2>7 DEF BurstInv
    <1>4. ASSUME BurstInv, UNCHANGED burstVars PROVE BurstInv'
        BY <1>4 DEF burstVars, BurstInv, LaterBurstMeasured, Measured, required_pulses
    <1>5. BurstInv /\ [NextBurst]_burstVars => BurstInv'
        BY <1>2, <1>3, <1>4, SampleBeatInv, LastBeatInv DEF NextBurst, BurstEnded
    <1>6. BurstInv => LaterBurstMeasured
        BY DEF BurstInv
    <1>7. QED
        BY <1>1, <1>5, <1>6, PTL DEF SpecBurst

-----------------------------------------------------------------------------
(* The fetch tag server: the inductive invariant.                          *)

\* What is needed of the types: the rest of the managers' records does not matter.
TagTypes ==
    /\ tag_pc \in {"recv", "ended", "allocated", "deallocated", "refused", "adj", "scale",
                   "message", "mess"}
    /\ tag_edge \in BOOLEAN
    /\ tag_free \in BOOLEAN
    /\ allocation \in Nodeslots \cup {NoTag}
    /\ deallocation_valid \in BOOLEAN
    /\ "state" \in DOMAIN adj
    /\ "state" \in DOMAIN scale

\* An allocation or a deallocation is driven only during its operation, which uses up
\* the edge it awaits.
DrivenInTurn ==
    /\ tag_pc = "recv" => ~tag_edge
    /\ allocation # NoTag <=> tag_pc = "allocated"
    /\ deallocation_valid => tag_pc = "deallocated"

\* The copy, and the tag from the edge an allocation waits for: a deallocation alone
\* frees it, and takes the copy back in the same operation.
CopyHeld ==
    /\ tag_pc = "allocated" /\ tag_edge => ~tag_free
    /\ tag_pc # "deallocated" /\ tag_allocated => ~tag_free

\* A request is waited for while the manager of its queue is busy.
WaitsForBusy ==
    /\ tag_pc = "adj" =>
          /\ req.opcode = "ADJACENCY_LIST"
          /\ ~tag_edge => adj.state # "IDLE"
    /\ tag_pc = "scale" =>
          /\ req.opcode = "SCALE_FACTOR"
          /\ ~tag_edge => scale.state # "IDLE"

TagInv == TagTypes /\ DrivenInTurn /\ CopyHeld /\ WaitsForBusy

-----------------------------------------------------------------------------
\* What a clock edge does to a manager changes fields of its record only.
LEMMA ManagerKeepsFields ==
    ASSUME NEW m, NEW opcode, NEW slots
    PROVE  DOMAIN ManagerNext(m, opcode, slots) = DOMAIN m
    BY DEF ManagerNext

\* An idle manager that is not asked stays idle.
LEMMA IdleUnlessAsked ==
    ASSUME NEW m, NEW opcode, NEW slots, m.state = "IDLE", ~Asked(opcode)
    PROVE  ManagerNext(m, opcode, slots).state = "IDLE"
    BY DEF ManagerNext

\* The managers after a clock edge.
LEMMA EdgeManagers ==
    ASSUME TagClockEdge, "state" \in DOMAIN adj, "state" \in DOMAIN scale
    PROVE  /\ "state" \in DOMAIN adj' /\ "state" \in DOMAIN scale'
           /\ adj.state = "IDLE" /\ ~Asked("ADJACENCY_LIST") => adj'.state = "IDLE"
           /\ scale.state = "IDLE" /\ ~Asked("SCALE_FACTOR") => scale'.state = "IDLE"
    <1>1. /\ DOMAIN scale' = DOMAIN scale
          /\ scale.state = "IDLE" /\ ~Asked("SCALE_FACTOR") => scale'.state = "IDLE"
        BY ManagerKeepsFields, IdleUnlessAsked DEF TagClockEdge
    <1>2. PICK popped :
             adj' = [ManagerNext(adj, "ADJACENCY_LIST", ADJ_QUEUE_DEPTH - adj.count)
                       EXCEPT !.count = @ - popped]
        BY DEF TagClockEdge
    <1> DEFINE next == ManagerNext(adj, "ADJACENCY_LIST", ADJ_QUEUE_DEPTH - adj.count)
    <1>3. DOMAIN next = DOMAIN adj
        BY ManagerKeepsFields
    <1>4. adj.state = "IDLE" /\ ~Asked("ADJACENCY_LIST") => next.state = "IDLE"
        BY IdleUnlessAsked
    <1> HIDE DEF next
    <1>5. adj' = [next EXCEPT !.count = next.count - popped]
        BY <1>2 DEF next
    <1>6. DOMAIN adj' = DOMAIN adj /\ adj'.state = next.state
        BY <1>3, <1>5
    <1>7. QED
        BY <1>1, <1>4, <1>6

LEMMA InitTagInv == InitTag => TagInv
    BY FetchTagAssumption
    DEF InitTag, NoFetch, TagInv, TagTypes, DrivenInTurn, CopyHeld, WaitsForBusy

LEMMA EdgeTagInv ==
    ASSUME TagInv, TagClockEdge
    PROVE  TagInv'
    <1> USE DEF TagInv
    <1>1. /\ tag_pc # "recv"
          /\ tag_edge' = TRUE
          /\ UNCHANGED <<tag_pc, tag_allocated, req, allocation, deallocation_valid>>
        BY DEF TagClockEdge, tagDriven
    <1>2. /\ tag_free' \in BOOLEAN
          /\ tag_pc # "deallocated" => (tag_free' => tag_free)
          /\ tag_pc = "allocated" => ~tag_free'
        BY DEF TagClockEdge, make_tag_free, TagTypes, DrivenInTurn
    <1>3. TagTypes'
        BY <1>1, <1>2, EdgeManagers DEF TagTypes
    <1>4. DrivenInTurn' /\ CopyHeld' /\ WaitsForBusy'
        BY <1>1, <1>2 DEF DrivenInTurn, CopyHeld, WaitsForBusy
    <1>5. QED
        BY <1>3, <1>4

LEMMA OperationTagInv ==
    ASSUME TagInv, TagOperation
    PROVE  TagInv'
    <1> USE FetchTagAssumption
        DEF TagInv, TagTypes, DrivenInTurn, CopyHeld, WaitsForBusy, tagDesign
    <1>1. ASSUME NEW nodeslot \in Nodeslots, allocate_tag(nodeslot)
          PROVE  TagInv'
        <2>1. nodeslot # NoTag
            OBVIOUS
        <2>2. /\ tag_pc' = "allocated"
              /\ tag_pc = "recv"
              /\ allocation' = nodeslot
              /\ UNCHANGED <<tag_edge, tag_allocated, req, deallocation_valid, tag_free,
                             adj, scale>>
            BY <1>1 DEF allocate_tag
        <2>3. QED
            BY <2>1, <2>2
    <1>2. CASE deallocate_tag
        BY <1>2 DEF deallocate_tag
    <1>3. CASE \E nodeslot \in Nodeslots : req_message_write(nodeslot)
        BY <1>3 DEF req_message_write
    <1>4. ASSUME NEW nodeslot, NEW count, req_write("adj", "ADJACENCY_LIST", nodeslot, count)
          PROVE  TagInv'
        BY <1>4 DEF req_write, TagReply, TagWaits, adj_waits, Fetching
    <1>5. ASSUME NEW nodeslot, NEW count, req_write("scale", "SCALE_FACTOR", nodeslot, count)
          PROVE  TagInv'
        BY <1>5 DEF req_write, TagReply, TagWaits, Fetching
    <1>6. QED
        BY <1>1, <1>2, <1>3, <1>4, <1>5 DEF TagOperation

LEMMA ResumedTagInv ==
    ASSUME TagInv, TagResumed
    PROVE  TagInv'
    <1> USE DEF TagInv, TagTypes, DrivenInTurn, CopyHeld, WaitsForBusy, tagDesign, TagReply
    <1>1. CASE Allocated
        BY <1>1 DEF Allocated
    <1>2. CASE Deallocated
        BY <1>2 DEF Deallocated
    <1>3. CASE TagRefused
        BY <1>3 DEF TagRefused, tagDriven
    <1>4. CASE TagWoken("adj")
        BY <1>4 DEF TagWoken, TagWaits, adj_waits, Fetching
    <1>5. CASE TagWoken("scale")
        BY <1>5 DEF TagWoken, TagWaits, Fetching
    <1>6. CASE MessageWoken
        BY <1>6 DEF MessageWoken
    <1>7. QED
        BY <1>1, <1>2, <1>3, <1>4, <1>5, <1>6 DEF TagResumed

LEMMA StutterTagInv ==
    ASSUME TagInv, UNCHANGED tagVars
    PROVE  TagInv'
    BY DEF tagVars, tagServer, tagDriven, tagDesign,
           TagInv, TagTypes, DrivenInTurn, CopyHeld, WaitsForBusy

LEMMA TagInvariant == SpecTag => []TagInv
    <1>1. TagInv /\ [NextTag]_tagVars => TagInv'
        BY OperationTagInv, EdgeTagInv, ResumedTagInv, StutterTagInv DEF NextTag, TagEnded
    <1>2. QED
        BY InitTagInv, <1>1, PTL DEF SpecTag

-----------------------------------------------------------------------------
\* The server's copy of the tag's state errs on one side only, whatever the design
\* refuses and whichever wires are left driven: a tag it holds for allocated
\* (self.tag_allocated) is allocated in the design.
THEOREM AllocatedIsHeld == SpecTag => []AllocatedHeld
    <1>1. TagInv => AllocatedHeld
        BY DEF TagInv, CopyHeld, AllocatedHeld
    <1>2. QED
        BY <1>1, TagInvariant, PTL

\* The loops of req_adj_write and req_scale_write wait only for a fetch that is under
\* way, so no edge in them starts one: none of the two managers leaves IDLE.
THEOREM FetchesOnlyRefused == SpecTag => OnlyRefusedFetch
    <1> DEFINE P ==
          \A m \in {"adj", "scale"} :
             tag_pc = m => /\ adj.state = "IDLE" => adj'.state = "IDLE"
                           /\ scale.state = "IDLE" => scale'.state = "IDLE"
    <1>1. ASSUME TagInv, TagClockEdge PROVE P
        <2>1. /\ "state" \in DOMAIN adj /\ "state" \in DOMAIN scale
              /\ ~tag_edge
            BY <1>1 DEF TagInv, TagTypes, TagClockEdge
        <2>2. tag_pc = "adj" => adj.state # "IDLE" /\ ~Asked("SCALE_FACTOR")
            BY <1>1, <2>1 DEF TagInv, WaitsForBusy, Asked
        <2>3. tag_pc = "scale" => scale.state # "IDLE" /\ ~Asked("ADJACENCY_LIST")
            BY <1>1, <2>1 DEF TagInv, WaitsForBusy, Asked
        <2>4. QED
            BY <1>1, <2>1, <2>2, <2>3, EdgeManagers
    <1>2. TagOperation => P
        BY DEF TagOperation, allocate_tag, deallocate_tag, req_message_write, req_write
    <1>3. TagResumed => P
        BY DEF TagResumed, Allocated, Deallocated, TagRefused, TagWoken, MessageWoken,
               tagDesign
    <1>4. UNCHANGED tagVars => P
        BY DEF tagVars, tagDesign
    <1>5. TagInv /\ [NextTag]_tagVars => [P]_tagVars
        BY <1>1, <1>2, <1>3, <1>4 DEF NextTag, TagEnded
    <1>6. QED
        BY <1>5, TagInvariant, PTL DEF SpecTag, OnlyRefusedFetch

-----------------------------------------------------------------------------
(* The FIFO and its monitors: the inductive invariant.                     *)

Pointers == 0..(2 * DEPTH - 1)

FifoTypes ==
    /\ fifo_pc \in {"recv", "wait", "ended"}
    /\ rinc \in BOOLEAN /\ winc \in BOOLEAN
    /\ rbin \in Pointers /\ wbin \in Pointers
    /\ rempty \in BOOLEAN /\ wfull \in BOOLEAN
    /\ rq_wptr \in Pointers \X Pointers
    /\ wq_rptr \in Pointers \X Pointers
    /\ fifo_bins \in [FifoBins -> Nat]

\* From the oldest to the newest: the read pointer as the writer knows it, on its way
\* to the writer, the read pointer, the write pointer as the reader knows it, on its
\* way to the reader, and the write pointer: all within DEPTH words.
InOrderAround ==
    Gap(wq_rptr[2], wq_rptr[1]) + Gap(wq_rptr[1], rbin) + Gap(rbin, rq_wptr[2])
      + Gap(rq_wptr[2], rq_wptr[1]) + Gap(rq_wptr[1], wbin) <= DEPTH

\* A side that is not stopped by its flag has a word, or room, by what it knows.
FlagsSafe ==
    /\ ~rempty => Gap(rbin, rq_wptr[2]) > 0
    /\ ~wfull => Gap(wq_rptr[2], wbin) < DEPTH

\* The monitors' copies are those of the last edge, if there has been one.
CopiesFollow ==
    /\ rptr = NoPtr => rbin = 0
    /\ rptr # NoPtr => rptr = rbin
    /\ wptr = NoPtr => wbin = 0
    /\ wptr # NoPtr => wptr = wbin
    /\ rempty_prev # NoPtr => rempty_prev = rempty
    /\ wfull_prev # NoPtr => wfull_prev = wfull

\* A lap of the writer is counted before the reader's, while it is ahead by it.
LapsCounted ==
    /\ fifo_bins["full_write_wrap"] =
         fifo_bins["full_read_wrap"] + (IF wbin < rbin THEN 1 ELSE 0)
    /\ fifo_bins["full_write_wrap"] <= MaxWraps

FifoInv == FifoTypes /\ InOrderAround /\ FlagsSafe /\ CopiesFollow /\ LapsCounted

-----------------------------------------------------------------------------
(* Pointers around the ring.                                               *)

LEMMA PlusIs ==
    ASSUME NEW a \in Pointers, NEW k \in 0..DEPTH
    PROVE  /\ Plus(a, k) = IF a + k < 2 * DEPTH THEN a + k ELSE a + k - 2 * DEPTH
           /\ Plus(a, k) \in Pointers
    BY FifoAssumption DEF Plus, Pointers

LEMMA GapType ==
    ASSUME NEW a \in Pointers, NEW b \in Pointers
    PROVE  /\ Gap(a, b) \in Nat
           /\ Gap(a, b) = 0 <=> a = b
    BY FifoAssumption DEF Gap, Pointers

\* A pointer on the way from one to the other divides the gap.
LEMMA GapsAdd ==
    ASSUME NEW a \in Pointers, NEW b \in Pointers, NEW c \in Pointers,
           Gap(a, b) + Gap(b, c) <= DEPTH
    PROVE  Gap(a, c) = Gap(a, b) + Gap(b, c)
    BY FifoAssumption DEF Gap, Pointers

\* The gap to a pointer that steps, and from it.
LEMMA GapSteps ==
    ASSUME NEW a \in Pointers, NEW b \in Pointers
    PROVE  /\ Gap(a, b) < DEPTH => Gap(a, Plus(b, 1)) = Gap(a, b) + 1
           /\ Gap(a, b) > 0 => Gap(Plus(a, 1), b) = Gap(a, b) - 1
    <1>1. /\ Plus(a, 1) = IF a + 1 < 2 * DEPTH THEN a + 1 ELSE a + 1 - 2 * DEPTH
          /\ Plus(b, 1) = IF b + 1 < 2 * DEPTH THEN b + 1 ELSE b + 1 - 2 * DEPTH
        BY PlusIs, FifoAssumption
    <1>2. QED
        BY <1>1, FifoAssumption DEF Gap, Pointers

\* A pointer DEPTH words ahead is that of a full FIFO.
LEMMA GapFull ==
    ASSUME NEW a \in Pointers, NEW b \in Pointers, b # Plus(a, DEPTH)
    PROVE  Gap(a, b) # DEPTH
    <1>1. Plus(a, DEPTH) = IF a + DEPTH < 2 * DEPTH THEN a + DEPTH ELSE a + DEPTH - 2 * DEPTH
        BY PlusIs, FifoAssumption
    <1>2. QED
        BY <1>1, FifoAssumption DEF Gap, Pointers

LEMMA PlusNone ==
    ASSUME NEW a \in Pointers
    PROVE  Plus(a, 0) = a
    BY FifoAssumption DEF Plus, Pointers

-----------------------------------------------------------------------------
LEMMA InitFifoInv == InitFifo => FifoInv
    <1> SUFFICES ASSUME InitFifo PROVE FifoInv
        OBVIOUS
    <1> USE FifoAssumption
    <1>1. 0 \in Pointers /\ Gap(0, 0) = 0
        BY DEF Pointers, Gap
    <1>2. fifo_bins \in [FifoBins -> Nat]
        BY DEF InitFifo
    <1>3. FifoTypes
        BY <1>1, <1>2 DEF InitFifo, FifoTypes
    <1>4. InOrderAround /\ FlagsSafe /\ CopiesFollow
        BY <1>1 DEF InitFifo, InOrderAround, FlagsSafe, CopiesFollow
    <1>5. fifo_bins["full_write_wrap"] = 0 /\ fifo_bins["full_read_wrap"] = 0
        BY DEF InitFifo, FifoBins
    <1>6. LapsCounted
        BY <1>5, <1>1 DEF InitFifo, LapsCounted
    <1>7. QED
        BY <1>3, <1>4, <1>6 DEF FifoInv

-----------------------------------------------------------------------------
(* An edge of the read clock, of the write clock, or of both.              *)

\* The reader steps only towards a write pointer it knows of.
LEMMA ReaderSteps ==
    ASSUME FifoInv
    PROVE  /\ rbinnext \in Pointers
           /\ rbinnext = rbin \/ (~rempty /\ rbinnext = Plus(rbin, 1))
           /\ Gap(rbin, rbinnext) + Gap(rbinnext, rq_wptr[2]) = Gap(rbin, rq_wptr[2])
           /\ rempty => rbinnext = rbin
    <1> USE FifoAssumption
    <1>1. /\ rbin \in Pointers /\ rq_wptr[2] \in Pointers
          /\ rempty \in BOOLEAN /\ rinc \in BOOLEAN
        BY DEF FifoInv, FifoTypes
    <1>2. CASE rinc /\ ~rempty
        <2>1. rbinnext = Plus(rbin, 1)
            BY <1>2 DEF rbinnext
        <2>2. rbinnext \in Pointers
            BY <1>1, <2>1, PlusIs
        <2>3. Gap(rbin, rq_wptr[2]) > 0
            BY <1>2 DEF FifoInv, FlagsSafe
        <2>4. Gap(rbinnext, rq_wptr[2]) = Gap(rbin, rq_wptr[2]) - 1
            BY <1>1, <2>1, <2>3, GapSteps
        <2>5. Gap(rbin, rbin) = 0 /\ Gap(rbin, Plus(rbin, 1)) = Gap(rbin, rbin) + 1
            BY <1>1, GapType, GapSteps
        <2>6. Gap(rbin, rq_wptr[2]) \in Nat
            BY <1>1, GapType
        <2>7. QED
            BY <1>2, <2>1, <2>2, <2>4, <2>5, <2>6
    <1>3. CASE ~(rinc /\ ~rempty)
        <2>1. rbinnext = rbin
            BY <1>1, <1>3, PlusNone DEF rbinnext
        <2>2. Gap(rbin, rbin) = 0 /\ Gap(rbin, rq_wptr[2]) \in Nat
            BY <1>1, GapType
        <2>3. QED
            BY <1>1, <2>1, <2>2
    <1>4. QED
        BY <1>2, <1>3

\* The writer steps only into room it knows of.
LEMMA WriterSteps ==
    ASSUME FifoInv
    PROVE  /\ wbinnext \in Pointers
           /\ wbinnext = wbin \/ (~wfull /\ wbinnext = Plus(wbin, 1))
           /\ Gap(wq_rptr[2], wbinnext) = Gap(wq_rptr[2], wbin) + Gap(wbin, wbinnext)
           /\ Gap(wq_rptr[2], wbinnext) <= DEPTH
           /\ wfull => wbinnext = wbin
    <1> USE FifoAssumption
    <1>1. /\ wbin \in Pointers /\ wq_rptr[2] \in Pointers
          /\ wfull \in BOOLEAN /\ winc \in BOOLEAN
        BY DEF FifoInv, FifoTypes
    <1>2. Gap(wq_rptr[2], wbin) \in Nat /\ Gap(wbin, wbin) = 0
        BY <1>1, GapType
    <1>3. CASE winc /\ ~wfull
        <2>1. wbinnext = Plus(wbin, 1)
            BY <1>3 DEF wbinnext
        <2>2. wbinnext \in Pointers
            BY <1>1, <2>1, PlusIs
        <2>3. Gap(wq_rptr[2], wbin) < DEPTH
            BY <1>3 DEF FifoInv, FlagsSafe
        <2>4. Gap(wq_rptr[2], wbinnext) = Gap(wq_rptr[2], wbin) + 1
            BY <1>1, <2>1, <2>3, GapSteps
        <2>5. Gap(wbin, wbinnext) = 1
            BY <1>1, <1>2, <2>1, GapSteps
        <2>6. QED
            BY <1>2, <1>3, <2>1, <2>2, <2>3, <2>4, <2>5
    <1>4. CASE ~(winc /\ ~wfull)
        <2>1. wbinnext = wbin
            BY <1>1, <1>4, PlusNone DEF wbinnext
        <2>2. Gap(wq_rptr[2], wbin) <= DEPTH
            <3>1. /\ wq_rptr[1] \in Pointers /\ rbin \in Pointers
                  /\ rq_wptr[1] \in Pointers /\ rq_wptr[2] \in Pointers
                BY DEF FifoInv, FifoTypes
            <3>2. InOrderAround
                BY DEF FifoInv
            <3>3. QED
                BY <1>1, <3>1, <3>2 DEF InOrderAround, Gap, Pointers
        <2>3. QED
            BY <1>1, <1>2, <2>1, <2>2
    <1>5. QED
        BY <1>3, <1>4

\* What the gaps have to be after an edge, by those before it.
LEMMA EdgeInOrder ==
    ASSUME FifoInv,
           NEW readTicks \in BOOLEAN, NEW writeTicks \in BOOLEAN,
           readTicks => ReadEdge, ~readTicks => UNCHANGED <<rbin, rempty, rq_wptr>>,
           writeTicks => WriteEdge, ~writeTicks => UNCHANGED <<wbin, wfull, wq_rptr>>
    PROVE  /\ rbin' \in Pointers /\ wbin' \in Pointers
           /\ rempty' \in BOOLEAN /\ wfull' \in BOOLEAN
           /\ rq_wptr' \in Pointers \X Pointers /\ wq_rptr' \in Pointers \X Pointers
           /\ InOrderAround' /\ FlagsSafe'
    <1> USE FifoAssumption
    <1> DEFINE q == wq_rptr[2]
               p == wq_rptr[1]
               s == rq_wptr[2]
               t == rq_wptr[1]
    <1>1. /\ q \in Pointers /\ p \in Pointers /\ rbin \in Pointers
          /\ s \in Pointers /\ t \in Pointers /\ wbin \in Pointers
          /\ rempty \in BOOLEAN /\ wfull \in BOOLEAN
          /\ rq_wptr \in Pointers \X Pointers /\ wq_rptr \in Pointers \X Pointers
        BY DEF FifoInv, FifoTypes
    <1>2. Gap(q, p) + Gap(p, rbin) + Gap(rbin, s) + Gap(s, t) + Gap(t, wbin) <= DEPTH
        BY DEF FifoInv, InOrderAround
    <1>3. /\ rbin' \in Pointers
          /\ readTicks => rbin' = rbinnext /\ rempty' = (rbinnext = s) /\ rq_wptr' = <<wbin, t>>
          /\ ~readTicks => rbin' = rbin /\ rempty' = rempty /\ rq_wptr' = rq_wptr
          /\ Gap(rbin, rbin') + Gap(rbin', s) = Gap(rbin, s)
        <2>1. CASE readTicks
            BY <2>1, ReaderSteps DEF ReadEdge, rempty_val
        <2>2. CASE ~readTicks
            BY <2>2, <1>1, GapType
        <2>3. QED
            BY <2>1, <2>2
    <1>4. /\ wbin' \in Pointers
          /\ writeTicks => wbin' = wbinnext /\ wfull' = wfull_val /\ wq_rptr' = <<rbin, p>>
          /\ ~writeTicks => wbin' = wbin /\ wfull' = wfull /\ wq_rptr' = wq_rptr
          /\ Gap(q, wbin') = Gap(q, wbin) + Gap(wbin, wbin')
          /\ Gap(q, wbin') <= DEPTH
        <2>1. CASE writeTicks
            BY <2>1, WriterSteps DEF WriteEdge
        <2>2. CASE ~writeTicks
            <3>1. Gap(q, wbin) <= DEPTH
                BY <1>1, <1>2 DEF Gap, Pointers
            <3>2. QED
                BY <2>2, <3>1, <1>1, GapType
        <2>3. QED
            BY <2>1, <2>2
    \* The seven gaps of the ring, and those that the registers take over.
    <1>5. /\ Gap(q, p) \in Nat /\ Gap(p, rbin) \in Nat /\ Gap(rbin, rbin') \in Nat
          /\ Gap(rbin', s) \in Nat /\ Gap(s, t) \in Nat /\ Gap(t, wbin) \in Nat
          /\ Gap(wbin, wbin') \in Nat
        BY <1>1, <1>3, <1>4, GapType
    <1>6. Gap(q, wbin) = Gap(q, p) + Gap(p, rbin) + Gap(rbin, s) + Gap(s, t) + Gap(t, wbin)
        BY <1>1, <1>2 DEF Gap, Pointers
    <1>7. Gap(q, p) + Gap(p, rbin) + Gap(rbin, rbin') + Gap(rbin', s) + Gap(s, t)
            + Gap(t, wbin) + Gap(wbin, wbin') <= DEPTH
        BY <1>3, <1>4, <1>5, <1>6
    <1>8. /\ Gap(p, rbin') = Gap(p, rbin) + Gap(rbin, rbin')
          /\ Gap(rbin', t) = Gap(rbin', s) + Gap(s, t)
          /\ Gap(t, wbin') = Gap(t, wbin) + Gap(wbin, wbin')
          /\ Gap(p, wbin') = Gap(q, wbin') - Gap(q, p)
        BY <1>1, <1>3, <1>4, <1>7 DEF Gap, Pointers
    <1>9. /\ readTicks => rq_wptr'[1] = wbin /\ rq_wptr'[2] = t
          /\ ~readTicks => rq_wptr'[1] = t /\ rq_wptr'[2] = s
          /\ rq_wptr' \in Pointers \X Pointers
        BY <1>1, <1>3
    <1>10. /\ writeTicks => wq_rptr'[1] = rbin /\ wq_rptr'[2] = p
           /\ ~writeTicks => wq_rptr'[1] = p /\ wq_rptr'[2] = q
           /\ wq_rptr' \in Pointers \X Pointers
        BY <1>1, <1>4
    <1> HIDE DEF q, p, s, t
    <1>11. /\ Gap(wq_rptr'[2], wq_rptr'[1]) + Gap(wq_rptr'[1], rbin')
                <= Gap(q, p) + Gap(p, rbin) + Gap(rbin, rbin')
           /\ Gap(wq_rptr'[2], wq_rptr'[1]) + Gap(wq_rptr'[1], rbin') \in Nat
        BY <1>5, <1>8, <1>10
    <1>12. /\ Gap(rbin', rq_wptr'[2]) + Gap(rq_wptr'[2], rq_wptr'[1]) + Gap(rq_wptr'[1], wbin')
                <= Gap(rbin', s) + Gap(s, t) + Gap(t, wbin) + Gap(wbin, wbin')
           /\ Gap(rbin', rq_wptr'[2]) + Gap(rq_wptr'[2], rq_wptr'[1])
                + Gap(rq_wptr'[1], wbin') \in Nat
        BY <1>5, <1>8, <1>9
    <1>13. InOrderAround'
        <2>1. /\ Gap(wq_rptr'[2], wq_rptr'[1]) \in Nat /\ Gap(wq_rptr'[1], rbin') \in Nat
              /\ Gap(rbin', rq_wptr'[2]) \in Nat /\ Gap(rq_wptr'[2], rq_wptr'[1]) \in Nat
              /\ Gap(rq_wptr'[1], wbin') \in Nat
            BY <1>5, <1>8, <1>9, <1>10
        <2>2. QED
            BY <2>1, <1>5, <1>7, <1>11, <1>12 DEF InOrderAround, Gap
    <1>14. ~rempty' => Gap(rbin', rq_wptr'[2]) > 0
        <2>1. CASE readTicks
            <3>1. ~rempty' => rbin' # s
                BY <2>1, <1>3
            <3>2. ~rempty' => Gap(rbin', s) # 0
                BY <3>1, <1>1, <1>3, GapType
            <3>3. QED
                BY <2>1, <3>2, <1>5, <1>8, <1>9
        <2>2. CASE ~readTicks
            <3>1. rbin' = rbin /\ rempty' = rempty
                BY <2>2, <1>3
            <3>2. ~rempty => Gap(rbin, s) > 0
                BY DEF FifoInv, FlagsSafe, s
            <3>3. QED
                BY <2>2, <3>1, <3>2, <1>9
        <2>3. QED
            BY <2>1, <2>2
    <1>15. ~wfull' => Gap(wq_rptr'[2], wbin') < DEPTH
        <2>1. CASE writeTicks
            <3>1. ~wfull' => wbin' # Plus(q, DEPTH)
                BY <2>1, <1>4 DEF wfull_val, q
            <3>2. ~wfull' => Gap(q, wbin') < DEPTH
                BY <3>1, <1>1, <1>4, GapFull, GapType DEF q
            <3>3. QED
                BY <2>1, <3>2, <1>4, <1>5, <1>8, <1>10, <1>1, GapType DEF q
        <2>2. CASE ~writeTicks
            <3>1. wbin' = wbin /\ wfull' = wfull
                BY <2>2, <1>4
            <3>2. ~wfull => Gap(q, wbin) < DEPTH
                BY DEF FifoInv, FlagsSafe, q
            <3>3. QED
                BY <2>2, <3>1, <3>2, <1>10
        <2>3. QED
            BY <2>1, <2>2
    <1>16. rempty' \in BOOLEAN /\ wfull' \in BOOLEAN
        BY <1>1, <1>3, <1>4 DEF wfull_val
    <1>17. QED
        BY <1>3, <1>4, <1>9, <1>10, <1>13, <1>14, <1>15, <1>16 DEF FlagsSafe
-----------------------------------------------------------------------------
(* The monitors, and the bins.                                             *)

\* The steps of Edges on the two clocks, the pointers' part of it.
LEMMA EdgesTick ==
    ASSUME NEW clocks, Edges(clocks)
    PROVE  /\ "rclk" \in clocks => ReadEdge /\ read_monitor
           /\ "rclk" \notin clocks => UNCHANGED <<rbin, rempty, rq_wptr, readMonitor>>
           /\ "wclk" \in clocks => WriteEdge /\ write_monitor
           /\ "wclk" \notin clocks => UNCHANGED <<wbin, wfull, wq_rptr, writeMonitor>>
    BY DEF Edges

LEMMA EdgesInOrder ==
    ASSUME FifoInv, NEW clocks, Edges(clocks)
    PROVE  /\ rbin' \in Pointers /\ wbin' \in Pointers
           /\ rempty' \in BOOLEAN /\ wfull' \in BOOLEAN
           /\ rq_wptr' \in Pointers \X Pointers /\ wq_rptr' \in Pointers \X Pointers
           /\ InOrderAround' /\ FlagsSafe'
    <1> DEFINE r == "rclk" \in clocks
               w == "wclk" \in clocks
    <1>1. /\ r \in BOOLEAN /\ w \in BOOLEAN
          /\ r => ReadEdge
          /\ ~r => UNCHANGED <<rbin, rempty, rq_wptr>>
          /\ w => WriteEdge
          /\ ~w => UNCHANGED <<wbin, wfull, wq_rptr>>
        BY EdgesTick
    <1> HIDE DEF r, w
    <1>2. QED
        BY <1>1, EdgeInOrder

LEMMA EdgesCopies ==
    ASSUME FifoInv, NEW clocks, Edges(clocks)
    PROVE  CopiesFollow'
    <1>1. CopiesFollow
        BY DEF FifoInv
    <1>2. /\ rptr' = NoPtr => rbin' = 0
          /\ rptr' # NoPtr => rptr' = rbin'
          /\ rempty_prev' # NoPtr => rempty_prev' = rempty'
        <2>1. rbin' \in Pointers
            BY EdgesInOrder
        <2>2. NoPtr \notin Pointers
            BY FifoAssumption DEF Pointers
        <2>3. CASE "rclk" \in clocks
            BY <2>1, <2>2, <2>3, EdgesTick DEF read_monitor
        <2>4. CASE "rclk" \notin clocks
            BY <2>4, <1>1, EdgesTick DEF readMonitor, CopiesFollow
        <2>5. QED
            BY <2>3, <2>4
    <1>3. /\ wptr' = NoPtr => wbin' = 0
          /\ wptr' # NoPtr => wptr' = wbin'
          /\ wfull_prev' # NoPtr => wfull_prev' = wfull'
        <2>1. wbin' \in Pointers
            BY EdgesInOrder
        <2>2. NoPtr \notin Pointers
            BY FifoAssumption DEF Pointers
        <2>3. CASE "wclk" \in clocks
            BY <2>1, <2>2, <2>3, EdgesTick DEF write_monitor
        <2>4. CASE "wclk" \notin clocks
            BY <2>4, <1>1, EdgesTick DEF writeMonitor, CopiesFollow
        <2>5. QED
            BY <2>3, <2>4
    <1>4. QED
        BY <1>2, <1>3 DEF CopiesFollow

\* A bin counts one if it is hit and below its bound.
LEMMA EdgesCount ==
    ASSUME FifoInv, NEW clocks, Edges(clocks), NEW bin \in FifoBins
    PROVE  LET hits == (IF "rclk" \in clocks THEN ReadHits ELSE {})
                          \cup (IF "wclk" \in clocks THEN WriteHits ELSE {}) IN
           /\ fifo_bins' \in [FifoBins -> Nat]
           /\ fifo_bins'[bin] = IF bin \in hits /\ fifo_bins[bin] < Bound(bin)
                               THEN fifo_bins[bin] + 1 ELSE fifo_bins[bin]
    <1> DEFINE hits == (IF "rclk" \in clocks THEN ReadHits ELSE {})
                          \cup (IF "wclk" \in clocks THEN WriteHits ELSE {})
    <1>1. fifo_bins' = [b \in FifoBins |->
                          IF b \in hits /\ fifo_bins[b] < Bound(b)
                          THEN fifo_bins[b] + 1 ELSE fifo_bins[b]]
        BY DEF Edges
    <1>2. \A b \in FifoBins : fifo_bins[b] \in Nat
        BY DEF FifoInv, FifoTypes
    <1> HIDE DEF hits
    <1>3. fifo_bins' \in [FifoBins -> Nat]
        BY <1>1, <1>2
    <1>4. fifo_bins'[bin] = IF bin \in hits /\ fifo_bins[bin] < Bound(bin)
                          THEN fifo_bins[bin] + 1 ELSE fifo_bins[bin]
        BY <1>1
    <1>5. QED
        BY <1>3, <1>4 DEF hits

\* A lap is counted just when the pointer goes back to 0.
LEMMA Laps ==
    ASSUME FifoInv, NEW clocks, Edges(clocks)
    PROVE  /\ fifo_bins'["full_read_wrap"] =
                fifo_bins["full_read_wrap"] + (IF rbin' < rbin THEN 1 ELSE 0)
           /\ fifo_bins'["full_write_wrap"] =
                fifo_bins["full_write_wrap"] + (IF wbin' < wbin THEN 1 ELSE 0)
    <1> USE FifoAssumption
    <1>1. /\ rbin \in Pointers /\ wbin \in Pointers
          /\ rbin' \in Pointers /\ wbin' \in Pointers
          /\ fifo_bins["full_read_wrap"] \in Nat /\ fifo_bins["full_write_wrap"] \in Nat
        <2>1. "full_read_wrap" \in FifoBins /\ "full_write_wrap" \in FifoBins
            BY DEF FifoBins
        <2>2. QED
            BY <2>1, EdgesInOrder DEF FifoInv, FifoTypes
    <1>2. /\ fifo_bins["full_write_wrap"] < MaxWraps
          /\ fifo_bins["full_read_wrap"] <= fifo_bins["full_write_wrap"]
        BY <1>1 DEF FifoInv, LapsCounted, Edges
    <1>3. /\ fifo_bins["full_read_wrap"] < Bound("full_read_wrap")
          /\ fifo_bins["full_write_wrap"] < Bound("full_write_wrap")
        BY <1>1, <1>2 DEF Bound
    <1>4. "full_read_wrap" \in ReadHits <=> Wrapped(rbin', rptr)
        BY DEF ReadHits, FifoBins
    <1>5. "full_write_wrap" \in WriteHits <=> Wrapped(wbin', wptr)
        BY DEF WriteHits, FifoBins
    <1>6. "full_read_wrap" \notin WriteHits /\ "full_write_wrap" \notin ReadHits
        BY DEF WriteHits, ReadHits
    <1>7. CopiesFollow
        BY DEF FifoInv
    <1>8. /\ "rclk" \notin clocks => rbin' = rbin
          /\ "rclk" \in clocks => rbin' = rbin \/ rbin' = Plus(rbin, 1)
        BY EdgesTick, ReaderSteps DEF ReadEdge
    <1>9. /\ "wclk" \notin clocks => wbin' = wbin
          /\ "wclk" \in clocks => wbin' = wbin \/ wbin' = Plus(wbin, 1)
        BY EdgesTick, WriterSteps DEF WriteEdge
    <1>10. "rclk" \in clocks => (Wrapped(rbin', rptr) <=> rbin' < rbin)
        BY <1>1, <1>7, <1>8, PlusIs DEF Wrapped, CopiesFollow, Pointers
    <1>11. "wclk" \in clocks => (Wrapped(wbin', wptr) <=> wbin' < wbin)
        BY <1>1, <1>7, <1>9, PlusIs DEF Wrapped, CopiesFollow, Pointers
    <1>12. /\ "rclk" \notin clocks => ~(rbin' < rbin)
           /\ "wclk" \notin clocks => ~(wbin' < wbin)
        BY <1>1, <1>8, <1>9 DEF Pointers
    <1>13. "full_read_wrap" \in FifoBins /\ "full_write_wrap" \in FifoBins
        BY DEF FifoBins
    <1>14. fifo_bins'["full_read_wrap"] =
             fifo_bins["full_read_wrap"] + (IF rbin' < rbin THEN 1 ELSE 0)
        BY <1>1, <1>3, <1>4, <1>6, <1>10, <1>12, <1>13, EdgesCount
    <1>15. fifo_bins'["full_write_wrap"] =
             fifo_bins["full_write_wrap"] + (IF wbin' < wbin THEN 1 ELSE 0)
        BY <1>1, <1>3, <1>5, <1>6, <1>11, <1>12, <1>13, EdgesCount
    <1>16. QED
        BY <1>14, <1>15

-----------------------------------------------------------------------------
(* The writer is ahead of the reader, by one lap at most.                  *)

LEMMA RingAhead ==
    ASSUME NEW q \in Pointers, NEW p \in Pointers, NEW r \in Pointers,
           NEW s \in Pointers, NEW t \in Pointers, NEW w \in Pointers,
           Gap(q, p) + Gap(p, r) + Gap(r, s) + Gap(s, t) + Gap(t, w) <= DEPTH
    PROVE  Gap(r, w) <= DEPTH
    <1>1. /\ Gap(q, p) \in Nat /\ Gap(p, r) \in Nat /\ Gap(r, s) \in Nat
          /\ Gap(s, t) \in Nat /\ Gap(t, w) \in Nat
        BY GapType
    <1>2. Gap(r, s) + Gap(s, t) + Gap(t, w) <= DEPTH
        BY <1>1, FifoAssumption
    <1>3. Gap(r, t) = Gap(r, s) + Gap(s, t)
        BY <1>1, <1>2, GapsAdd, FifoAssumption
    <1>4. QED
        BY <1>1, <1>2, <1>3, GapsAdd, FifoAssumption

LEMMA Ahead == FifoInv => WithinDepth
    <1> SUFFICES ASSUME FifoInv PROVE WithinDepth
        OBVIOUS
    <1>1. /\ wq_rptr[2] \in Pointers /\ wq_rptr[1] \in Pointers /\ rbin \in Pointers
          /\ rq_wptr[2] \in Pointers /\ rq_wptr[1] \in Pointers /\ wbin \in Pointers
        BY DEF FifoInv, FifoTypes
    <1>2. QED
        BY <1>1, RingAhead DEF FifoInv, InOrderAround, WithinDepth

LEMMA AheadAfterEdges ==
    ASSUME FifoInv, NEW clocks, Edges(clocks)
    PROVE  WithinDepth'
    <1>1. /\ rbin' \in Pointers /\ wbin' \in Pointers /\ InOrderAround'
          /\ rq_wptr' \in Pointers \X Pointers /\ wq_rptr' \in Pointers \X Pointers
        BY EdgesInOrder
    <1>2. /\ wq_rptr'[2] \in Pointers /\ wq_rptr'[1] \in Pointers
          /\ rq_wptr'[2] \in Pointers /\ rq_wptr'[1] \in Pointers
        BY <1>1
    <1>3. QED
        BY <1>1, <1>2, RingAhead DEF InOrderAround, WithinDepth

\* Who passes 0 in a step of both, and who is ahead by a lap after it.
LEMMA LapAhead ==
    ASSUME NEW r \in Pointers, NEW w \in Pointers, NEW r1 \in Pointers, NEW w1 \in Pointers,
           r1 = r \/ r1 = Plus(r, 1), w1 = w \/ w1 = Plus(w, 1),
           Gap(r, w) <= DEPTH, Gap(r1, w1) <= DEPTH
    PROVE  (IF w < r THEN 1 ELSE 0) + (IF w1 < w THEN 1 ELSE 0) =
           (IF w1 < r1 THEN 1 ELSE 0) + (IF r1 < r THEN 1 ELSE 0)
    <1>1. /\ r1 = r \/ r1 = IF r + 1 < 2 * DEPTH THEN r + 1 ELSE r + 1 - 2 * DEPTH
          /\ w1 = w \/ w1 = IF w + 1 < 2 * DEPTH THEN w + 1 ELSE w + 1 - 2 * DEPTH
        BY PlusIs, FifoAssumption
    <1>2. CASE r1 = r
        BY <1>1, <1>2, FifoAssumption DEF Gap, Pointers
    <1>3. CASE r1 # r /\ w1 = w
        BY <1>1, <1>3, FifoAssumption DEF Gap, Pointers
    <1>4. CASE r1 # r /\ w1 # w
        BY <1>1, <1>4, FifoAssumption DEF Gap, Pointers
    <1>5. QED
        BY <1>2, <1>3, <1>4

LEMMA EdgesLaps ==
    ASSUME FifoInv, NEW clocks, Edges(clocks)
    PROVE  LapsCounted'
    <1> DEFINE W == fifo_bins["full_write_wrap"]
               R == fifo_bins["full_read_wrap"]
    <1>1. /\ rbin \in Pointers /\ wbin \in Pointers
          /\ rbin' \in Pointers /\ wbin' \in Pointers
          /\ W \in Nat /\ R \in Nat
        <2>1. "full_read_wrap" \in FifoBins /\ "full_write_wrap" \in FifoBins
            BY DEF FifoBins
        <2>2. QED
            BY <2>1, EdgesInOrder DEF FifoInv, FifoTypes
    <1>2. /\ rbin' = rbin \/ rbin' = Plus(rbin, 1)
          /\ wbin' = wbin \/ wbin' = Plus(wbin, 1)
        BY EdgesTick, ReaderSteps, WriterSteps DEF ReadEdge, WriteEdge
    <1>3. Gap(rbin, wbin) <= DEPTH /\ Gap(rbin', wbin') <= DEPTH
        BY Ahead, AheadAfterEdges DEF WithinDepth
    <1>4. (IF wbin < rbin THEN 1 ELSE 0) + (IF wbin' < wbin THEN 1 ELSE 0) =
          (IF wbin' < rbin' THEN 1 ELSE 0) + (IF rbin' < rbin THEN 1 ELSE 0)
        BY <1>1, <1>2, <1>3, LapAhead
    <1>5. W = R + (IF wbin < rbin THEN 1 ELSE 0) /\ W < MaxWraps
        BY DEF FifoInv, LapsCounted, Edges
    <1>6. /\ R' = R + (IF rbin' < rbin THEN 1 ELSE 0)
          /\ W' = W + (IF wbin' < wbin THEN 1 ELSE 0)
        BY Laps
    <1> HIDE DEF W, R
    <1>7. W' = R' + (IF wbin' < rbin' THEN 1 ELSE 0) /\ W' <= MaxWraps
        BY <1>1, <1>4, <1>5, <1>6, FifoAssumption
    <1>8. QED
        BY <1>7 DEF LapsCounted, W, R

-----------------------------------------------------------------------------
LEMMA EdgesInv ==
    ASSUME FifoInv, NEW clocks, Edges(clocks)
    PROVE  FifoInv'
    <1>1. "full" \in FifoBins
        BY DEF FifoBins
    <1>2. fifo_bins' \in [FifoBins -> Nat]
        BY <1>1, EdgesCount
    <1>3. /\ fifo_pc' \in {"recv", "wait", "ended"}
          /\ rinc' \in BOOLEAN /\ winc' \in BOOLEAN
        BY DEF FifoInv, FifoTypes, Edges
    <1>4. FifoTypes'
        BY <1>2, <1>3, EdgesInOrder DEF FifoTypes
    <1>5. QED
        BY <1>4, EdgesInOrder, EdgesCopies, EdgesLaps DEF FifoInv

\* Nothing else changes the design, the monitors or the bins.
LEMMA OthersInv ==
    ASSUME FifoInv,
           \/ \E read, write \in BOOLEAN : Drive(read, write)
           \/ FifoReply
           \/ UNCHANGED fifoVars
    PROVE  FifoInv'
    <1>1. UNCHANGED <<fifoDesign, readMonitor, writeMonitor, fifo_bins>>
        BY DEF Drive, FifoReply, fifoVars
    <1>2. /\ fifo_pc' \in {"recv", "wait", "ended"}
          /\ rinc' \in BOOLEAN /\ winc' \in BOOLEAN
        BY DEF FifoInv, FifoTypes, Drive, FifoReply, fifoVars
    <1>3. FifoTypes'
        BY <1>1, <1>2 DEF FifoInv, FifoTypes, fifoDesign
    <1>4. InOrderAround' /\ FlagsSafe'
        BY <1>1 DEF FifoInv, InOrderAround, FlagsSafe, fifoDesign, Gap
    <1>5. CopiesFollow' /\ LapsCounted'
        BY <1>1 DEF FifoInv, CopiesFollow, LapsCounted, fifoDesign, readMonitor, writeMonitor
    <1>6. QED
        BY <1>3, <1>4, <1>5 DEF FifoInv

LEMMA FifoInvariant == SpecFifo => []FifoInv
    <1>1. FifoInv /\ [NextFifo]_fifoVars => FifoInv'
        BY EdgesInv, OthersInv DEF NextFifo, FifoEnded
    <1>2. QED
        BY InitFifoInv, <1>1, PTL DEF SpecFifo

-----------------------------------------------------------------------------
\* No word is lost or read twice (rptr_empty, wptr_full): in any interleaving of the
\* two clocks the writer is between 0 and DEPTH words ahead of the reader, though each
\* side knows the other's pointer two edges late.
THEOREM NoWordLost == SpecFifo => []WithinDepth
    BY FifoInvariant, Ahead, PTL

\* full_read_wrap and full_write_wrap of read_monitor and write_monitor: the reader's
\* laps are counted after the writer's, and at most one behind.
THEOREM LapsInOrder == SpecFifo => []WrapsInOrder
    <1>1. FifoInv => WrapsInOrder
        <2>1. "full_read_wrap" \in FifoBins /\ "full_write_wrap" \in FifoBins
            BY DEF FifoBins
        <2>2. QED
            BY <2>1 DEF FifoInv, FifoTypes, LapsCounted, WrapsInOrder
    <1>2. QED
        BY <1>1, FifoInvariant, PTL

\* Once a monitor has saved its flag, the bin of a refusal is hit at each refusal.
LEMMA NoRefusalMissed ==
    ASSUME FifoInv, NEW clocks, Edges(clocks)
    PROVE  /\ "rclk" \in clocks /\ rinc /\ rempty /\ rempty_prev # NoPtr =>
                   fifo_bins'["underflow"] > 0
           /\ "wclk" \in clocks /\ winc /\ wfull /\ wfull_prev # NoPtr =>
                   fifo_bins'["overflow"] > 0
    <1>1. /\ "underflow" \in FifoBins /\ "overflow" \in FifoBins
          /\ fifo_bins["underflow"] \in Nat /\ fifo_bins["overflow"] \in Nat
        BY DEF FifoInv, FifoTypes, FifoBins
    <1>2. Bound("underflow") = 1 /\ Bound("overflow") = 1
        BY DEF Bound
    <1>3. ASSUME "rclk" \in clocks, rinc, rempty, rempty_prev # NoPtr
          PROVE  fifo_bins'["underflow"] > 0
        <2>1. "underflow" \in ReadHits
            BY <1>1, <1>3 DEF FifoInv, CopiesFollow, ReadHits, Refused
        <2>2. QED
            BY <1>1, <1>2, <1>3, <2>1, EdgesCount
    <1>4. ASSUME "wclk" \in clocks, winc, wfull, wfull_prev # NoPtr
          PROVE  fifo_bins'["overflow"] > 0
        <2>1. "overflow" \in WriteHits
            BY <1>1, <1>4 DEF FifoInv, CopiesFollow, WriteHits, Refused
        <2>2. QED
            BY <1>1, <1>2, <1>4, <2>1, EdgesCount
    <1>5. QED
        BY <1>3, <1>4

\* underflow and overflow of the two monitors: each is counted on an edge at which the
\* design refuses, as the flag saved at the last edge is the one that still holds, and
\* once a flag is saved no refusal is missed.
THEOREM RefusalsAreCounted == SpecFifo => RefusalsCounted
    <1> DEFINE P ==
          /\ fifo_bins'["underflow"] > fifo_bins["underflow"] => rinc /\ rbin' = rbin
          /\ fifo_bins'["overflow"] > fifo_bins["overflow"] => winc /\ wbin' = wbin
          /\ \A clocks \in SUBSET {"rclk", "wclk"} : Edges(clocks) =>
               /\ "rclk" \in clocks /\ rinc /\ rempty /\ rempty_prev # NoPtr =>
                       fifo_bins'["underflow"] > 0
               /\ "wclk" \in clocks /\ winc /\ wfull /\ wfull_prev # NoPtr =>
                       fifo_bins'["overflow"] > 0
    <1>1. ASSUME FifoInv, NEW clocks, Edges(clocks) PROVE P
        <2>1. /\ "underflow" \in FifoBins /\ "overflow" \in FifoBins
              /\ fifo_bins["underflow"] \in Nat /\ fifo_bins["overflow"] \in Nat
            BY <1>1 DEF FifoInv, FifoTypes, FifoBins
        <2>2. "underflow" \notin WriteHits /\ "overflow" \notin ReadHits
            BY DEF WriteHits, ReadHits
        <2>3. TRUE # NoPtr /\ CopiesFollow
            BY <1>1, FifoAssumption DEF FifoInv
        <2>4. fifo_bins'["underflow"] > fifo_bins["underflow"] =>
                "rclk" \in clocks /\ "underflow" \in ReadHits
            BY <1>1, <2>1, <2>2, EdgesCount
        <2>5. fifo_bins'["overflow"] > fifo_bins["overflow"] =>
                "wclk" \in clocks /\ "overflow" \in WriteHits
            BY <1>1, <2>1, <2>2, EdgesCount
        <2>6. "underflow" \in ReadHits => rinc /\ rempty
            BY <2>3 DEF ReadHits, Refused, CopiesFollow
        <2>7. "overflow" \in WriteHits => winc /\ wfull
            BY <2>3 DEF WriteHits, Refused, CopiesFollow
        <2>8. "rclk" \in clocks /\ rempty => rbin' = rbin
            BY <1>1, EdgesTick, ReaderSteps DEF ReadEdge
        <2>9. "wclk" \in clocks /\ wfull => wbin' = wbin
            BY <1>1, EdgesTick, WriterSteps DEF WriteEdge
        <2>10. QED
            BY <2>4, <2>5, <2>6, <2>7, <2>8, <2>9, NoRefusalMissed, <1>1
    <1>2. ASSUME FifoInv, UNCHANGED fifo_bins PROVE P
        <2>1. /\ fifo_bins["underflow"] \in Nat /\ fifo_bins["overflow"] \in Nat
            BY <1>2 DEF FifoInv, FifoTypes, FifoBins
        <2>2. QED
            BY <1>2, <2>1, NoRefusalMissed
    <1>3. FifoInv /\ [NextFifo]_fifoVars => [P]_fifoVars
        BY <1>1, <1>2 DEF NextFifo, Drive, FifoReply, FifoEnded, fifoVars
    <1>4. QED
        BY <1>3, FifoInvariant, PTL DEF SpecFifo, RefusalsCounted

-----------------------------------------------------------------------------
(* The servers side by side.                                                *)

\* A simulation is, for each server, one of that server: its own steps and those in
\* which another design is simulated and it stays as it is.
LEMMA EachServer ==
    Spec => SpecTag /\ SpecFifo /\ SpecSdram /\ SpecBurst /\ SpecDecoder /\ SpecMips
    <1>1. Init => InitTag /\ InitFifo /\ InitSdram /\ InitBurst /\ InitDecoder /\ InitMips
        BY DEF Init
    <1>2. [Next]_serversVars => [NextTag]_tagVars
        BY DEF Next, serversVars, FetchTagServer, FifoServer, Sdram, WeightBank, Decoder, Mips
    <1>3. [Next]_serversVars => [NextFifo]_fifoVars
        BY DEF Next, serversVars, FetchTagServer, FifoServer, Sdram, WeightBank, Decoder, Mips
    <1>4. [Next]_serversVars => [NextSdram]_sdramVars
        BY DEF Next, serversVars, FetchTagServer, FifoServer, Sdram, WeightBank, Decoder, Mips
    <1>5. [Next]_serversVars => [NextBurst]_burstVars
        BY DEF Next, serversVars, FetchTagServer, FifoServer, Sdram, WeightBank, Decoder, Mips
    <1>6. [Next]_serversVars => [NextDecoder]_decoderVars
        BY DEF Next, serversVars, FetchTagServer, FifoServer, Sdram, WeightBank, Decoder, Mips
    <1>7. [Next]_serversVars => [NextMips]_mipsVars
        BY DEF Next, serversVars, FetchTagServer, FifoServer, Sdram, WeightBank, Decoder, Mips
    <1>8. QED
        BY <1>1, <1>2, <1>3, <1>4, <1>5, <1>6, <1>7, PTL
        DEF Spec, SpecTag, SpecFifo, SpecSdram, SpecBurst, SpecDecoder, SpecMips

\* What a run of Servers checks of the six simulations, for every value of the constants:
\* none of them is disturbed by what the others are.
THEOREM ServersKeep ==
    Spec => /\ [](AllocatedHeld /\ WrapsInOrder /\ WithinDepth /\ ProtocolOrder)
            /\ [](RefreshInTime /\ OneAccess /\ LaterBurstMeasured /\ SeenIsDone)
            /\ [](SampledAtMost /\ BufferKept)
            /\ OnlyRefusedFetch
            /\ RefusalsCounted
    BY EachServer, AllocatedIsHeld, FetchesOnlyRefused, NoWordLost, LapsInOrder,
       RefusalsAreCounted, CountedInOrder, StartsOneAccess, RefreshesInTime,
       BurstsMeasured, NothingCredited, SampledOnlySoOften, InsnsKept, PTL
    DEF OnlyRefusedFetch, RefusalsCounted
=============================================================================
