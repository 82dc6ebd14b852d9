----------------------- MODULE InstructionFeedProofs -----------------------
(***************************************************************************)
(* Theorems about InstructionFeed: for every set of words, length of the   *)
(* buffer, patience and core.                                              *)
(***************************************************************************)
EXTENDS InstructionFeed, TLAPS

-----------------------------------------------------------------------------
(* The inductive invariant.                                                *)

\* The length of the buffer, by what the controller is about to do: an
\* instruction is given up by the wait, by a reset for the pc and by the sample,
\* and no two of them follow below Keep.
Lengths ==
    /\ ctrl \in {"recv", "next", "ended"} => Len(instr_buffer) <= Keep
    /\ ctrl = "wait" => Len(instr_buffer) = Keep + 1
    /\ ctrl = "sample" => Len(instr_buffer) >= Keep
    /\ ctrl = "reset" /\ stuck = "pc" => Len(instr_buffer) >= Keep
    /\ ctrl = "reset" /\ stuck = "buffer" => Len(instr_buffer) = Keep

\* The counters are below their limits but where they are about to be reset.
Counters ==
    /\ ctrl = "wait" => i <= Patience
    /\ pc_unchanged <= Spins \/ (ctrl = "reset" /\ stuck = "pc")

\* A core in reset reports nothing retired.
Cleared == ctrl = "reset" /\ resetting < ResetEdges - 1 => ~valid

IInv ==
    /\ TypeOK
    /\ Lengths
    /\ Counters
    /\ Cleared
    /\ CountsHead
    /\ NeverStarved

-----------------------------------------------------------------------------
(* Sequences.                                                              *)

LEMMA TailType ==
    ASSUME NEW S, NEW s \in Seq(S), s # << >>
    PROVE  /\ Tail(s) \in Seq(S)
           /\ Len(Tail(s)) = Len(s) - 1
           /\ Len(s) \in Nat \ {0}
           /\ Head(s) \in S
    OBVIOUS

LEMMA EmptyType ==
    ASSUME NEW S
    PROVE  << >> \in Seq(S)
    OBVIOUS

LEMMA ConcatType ==
    ASSUME NEW S, NEW s \in Seq(S), NEW t \in Seq(S)
    PROVE  s \o t \in Seq(S)
    OBVIOUS

LEMMA NonEmpty ==
    ASSUME NEW S, NEW s \in Seq(S), Len(s) > 0
    PROVE  s # << >>
    OBVIOUS

-----------------------------------------------------------------------------
LEMMA InitIInv == Init => IInv
    <1> SUFFICES ASSUME Init PROVE IInv
        OBVIOUS
    <1> USE InstructionFeedAssumption
    <1>0. /\ updates \in Seq(Words)
          /\ instr_buffer \in Seq(Words)
          /\ fetched \in Seq(Words \cup {Zero})
        BY EmptyType DEF Init
    <1>1. TypeOK
        <2>1. retired \in (Words \cup {Zero, None}) \X (Words \cup {Zero, None})
            BY DEF Init
        <2>2. Len(instr_buffer) <= Keep + 1
            BY DEF Init
        <2>3. prevous_pc \in -1..PcCount /\ rvfi_pc \in 0..PcCount
            BY DEF Init
        <2>4. /\ valid \in BOOLEAN
              /\ insn \in Words \cup {Zero, None}
              /\ last_insn \in Words \cup {Zero, None}
              /\ rdata \in Words \cup {Zero}
            BY DEF Init
        <2>5. i \in 0..(Patience + 1) /\ pc_unchanged \in 0..(Spins + 1)
            BY DEF Init
        <2>6. resetting \in 0..ResetEdges /\ turns \subseteq {"mem", "ctrl"}
            BY DEF Init, ResetEdges
        <2>7. /\ ctrl = "recv" /\ stuck = "pc" /\ mem \in {"idle", "granted"}
              /\ finish = FALSE /\ rvalid = FALSE /\ filled = FALSE
            BY DEF Init
        <2>8. QED
            BY <1>0, <2>1, <2>2, <2>3, <2>4, <2>5, <2>6, <2>7 DEF TypeOK
    <1>2. Lengths /\ Counters /\ Cleared /\ CountsHead /\ NeverStarved
        BY DEF Init, Lengths, Counters, Cleared, CountsHead, NeverStarved
    <1>3. QED
        BY <1>1, <1>2 DEF IInv

LEMMA ReceiveIInv ==
    ASSUME IInv, NEW instructions \in Requests, NEW last \in BOOLEAN,
           Receive(instructions, last)
    PROVE  IInv'
    <1> USE InstructionFeedAssumption
    <1>1. instructions \in Seq(Words)
        BY DEF Requests
    <1>2. TypeOK'
        BY <1>1 DEF IInv, TypeOK, Receive, memVars, coreVars, monVars
    <1>3. (Lengths /\ Counters /\ Cleared /\ CountsHead /\ NeverStarved)'
        BY DEF IInv, TypeOK, Receive, Lengths, Counters, Cleared, CountsHead,
               NeverStarved, memVars, coreVars, monVars
    <1>4. QED
        BY <1>2, <1>3 DEF IInv

LEMMA AppendIInv ==
    ASSUME IInv, AppendInstruction
    PROVE  IInv'
    <1> USE InstructionFeedAssumption
    <1>1. /\ updates' \in Seq(Words)
          /\ instr_buffer' \in Seq(Words)
          /\ Len(instr_buffer') = Len(instr_buffer) + 1
        BY TailType DEF IInv, TypeOK, AppendInstruction
    <1>2. Len(instr_buffer) <= Keep /\ Len(instr_buffer) \in Nat
        BY DEF IInv, TypeOK, Lengths, AppendInstruction
    <1>3. TypeOK'
        BY <1>1, <1>2 DEF IInv, TypeOK, AppendInstruction, memVars, coreVars, monVars
    <1>4. (Lengths /\ Counters /\ Cleared /\ CountsHead)'
        BY <1>1 DEF IInv, TypeOK, AppendInstruction, Lengths, Counters, Cleared,
                    CountsHead, memVars, coreVars, monVars
    <1>5. NeverStarved'
        BY <1>1, <1>2 DEF IInv, TypeOK, AppendInstruction, NeverStarved
    <1>6. QED
        BY <1>3, <1>4, <1>5 DEF IInv

LEMMA ReplyIInv ==
    ASSUME IInv, Reply
    PROVE  IInv'
    <1>1. TypeOK'
        BY DEF IInv, TypeOK, Reply, memVars, coreVars, monVars
    <1>2. (Lengths /\ Counters /\ Cleared /\ CountsHead /\ NeverStarved)'
        BY DEF IInv, Reply, Lengths, Counters, Cleared, CountsHead, NeverStarved,
               memVars, coreVars, monVars
    <1>3. QED
        BY <1>1, <1>2 DEF IInv

LEMMA ShortenIInv ==
    ASSUME IInv, Shorten
    PROVE  IInv'
    <1> USE InstructionFeedAssumption
    <1>0. Len(instr_buffer) \in Nat
        BY DEF IInv, TypeOK
    <1>1. TypeOK'
        BY DEF IInv, TypeOK, Shorten, memVars, coreVars, monVars
    <1>2. (Lengths /\ Counters /\ Cleared /\ NeverStarved)'
        BY <1>0 DEF IInv, TypeOK, Shorten, TooLong, Lengths, Counters, Cleared,
                    NeverStarved, memVars, coreVars, monVars
    <1>3. CountsHead'
        BY DEF Shorten, CountsHead, Matches, memVars, coreVars
    <1>4. QED
        BY <1>1, <1>2, <1>3 DEF IInv

LEMMA WakeIInv ==
    ASSUME IInv, Wake
    PROVE  IInv'
    <1> USE InstructionFeedAssumption
    <1>1. /\ Len(instr_buffer) = Keep + 1
          /\ instr_buffer # << >>
          /\ instr_buffer \in Seq(Words)
        BY NonEmpty DEF IInv, TypeOK, Lengths, Wake
    <1>2. /\ Tail(instr_buffer) \in Seq(Words)
          /\ Len(Tail(instr_buffer)) = Keep
        BY <1>1, TailType
    <1>3. i' \in 0..(Patience + 1)
        BY DEF IInv, TypeOK, Counters, Wake, Waited
    <1>4. CASE Waited > Patience
        <2>1. /\ ctrl' = "reset" /\ resetting' = 4 /\ stuck' = "buffer"
              /\ instr_buffer' = Tail(instr_buffer)
            BY <1>4 DEF Wake, do_reset, ResetEdges
        <2>2. TypeOK'
            BY <2>1, <1>2, <1>3 DEF IInv, TypeOK, Wake, ResetEdges, memVars, coreVars,
                   monVars
        <2>3. (Lengths /\ Cleared /\ CountsHead /\ NeverStarved)'
            BY <2>1, <1>2 DEF Lengths, Cleared, CountsHead, NeverStarved, ResetEdges
        <2>4. Counters'
            <3>1. pc_unchanged <= Spins
                BY DEF IInv, Wake, Counters
            <3>2. pc_unchanged' = pc_unchanged
                BY DEF Wake
            <3>3. QED
                BY <2>1, <3>1, <3>2 DEF Counters
        <2>5. QED
            BY <2>2, <2>3, <2>4 DEF IInv
    <1>5. CASE ~(Waited > Patience)
        <2>1. /\ ctrl' \in {"sample", "wait"}
              /\ ctrl' = "sample" => Matches
              /\ UNCHANGED <<resetting, stuck, instr_buffer>>
            BY <1>5 DEF Wake
        <2>2. i' <= Patience
            BY <1>5 DEF IInv, TypeOK, Wake, Waited
        <2>3. TypeOK'
            BY <2>1, <1>3 DEF IInv, TypeOK, Wake, memVars, coreVars, monVars
        <2>4. (Lengths /\ Counters /\ Cleared /\ NeverStarved)'
            BY <2>1, <2>2, <1>1 DEF IInv, TypeOK, Wake, Lengths, Counters, Cleared,
                   NeverStarved, memVars, coreVars, monVars
        <2>5. CountsHead'
            BY <2>1 DEF Wake, CountsHead, Matches, coreVars
        <2>6. QED
            BY <2>3, <2>4, <2>5 DEF IInv
    <1>6. QED
        BY <1>4, <1>5

LEMMA ResetDoneIInv ==
    ASSUME IInv, ResetDone
    PROVE  IInv'
    <1> USE InstructionFeedAssumption
    <1>1. CASE stuck = "buffer"
        <2>1. TypeOK'
            BY <1>1 DEF IInv, TypeOK, ResetDone, memVars, coreVars, monVars
        <2>2. (Lengths /\ Counters /\ Cleared /\ NeverStarved)'
            BY <1>1 DEF IInv, TypeOK, ResetDone, Lengths, Counters, Cleared,
                        NeverStarved, memVars, coreVars, monVars
        <2>3. ~valid'
            BY DEF IInv, ResetDone, Cleared, ResetEdges, coreVars
        <2>4. QED
            BY <2>1, <2>2, <2>3 DEF IInv, CountsHead
    <1>2. CASE stuck = "pc"
        <2>1. /\ Len(instr_buffer) \in Keep..(Keep + 1)
              /\ instr_buffer # << >>
              /\ instr_buffer \in Seq(Words)
            BY <1>2, NonEmpty DEF IInv, TypeOK, Lengths, ResetDone
        <2>2. /\ Tail(instr_buffer) \in Seq(Words)
              /\ Len(Tail(instr_buffer)) \in (Keep - 1)..Keep
            BY <2>1, TailType
        <2>3. TypeOK'
            <3>1. prevous_pc' \in -1..PcCount
                BY <1>2 DEF ResetDone
            <3>2. Len(instr_buffer') <= Keep + 1 /\ instr_buffer' \in Seq(Words)
                BY <1>2, <2>2 DEF ResetDone
            <3>3. pc_unchanged' \in 0..(Spins + 1)
                BY <1>2 DEF ResetDone
            <3>4. QED
                BY <1>2, <3>1, <3>2, <3>3
                   DEF IInv, TypeOK, ResetDone, memVars, coreVars, monVars
        <2>4. (Lengths /\ Counters /\ Cleared /\ CountsHead /\ NeverStarved)'
            BY <1>2, <2>2 DEF IInv, TypeOK, ResetDone, Lengths, Counters, Cleared,
                   CountsHead, NeverStarved, memVars, coreVars, monVars
        <2>5. QED
            BY <2>3, <2>4 DEF IInv
    <1>3. QED
        BY <1>1, <1>2 DEF IInv, TypeOK

LEMMA SampleIInv ==
    ASSUME IInv, Sample
    PROVE  IInv'
    <1> USE InstructionFeedAssumption, InstructionMonitorAssumption
    <1>1. /\ Len(instr_buffer) \in Keep..(Keep + 1)
          /\ instr_buffer # << >>
          /\ instr_buffer \in Seq(Words)
        BY NonEmpty DEF IInv, TypeOK, Lengths, Sample
    <1>2. /\ Rest(instr_buffer) \in Seq(Words)
          /\ Len(Rest(instr_buffer)) \in (Keep - 1)..Keep
        BY <1>1, TailType DEF Rest
    <1>3. last_insn' \in Words \cup {Zero, None}
        BY DEF IInv, TypeOK, Sample, sample_insn_coverage
    <1>4. pc_unchanged <= Spins
        BY DEF IInv, Counters, Sample
    <1>5. CASE prevous_pc # rvfi_pc
        <2>1. TypeOK'
            BY <1>2, <1>3, <1>5 DEF IInv, TypeOK, Sample, memVars, coreVars
        <2>2. (Lengths /\ Counters /\ Cleared /\ CountsHead /\ NeverStarved)'
            BY <1>2, <1>4, <1>5 DEF IInv, TypeOK, Sample, Lengths, Counters, Cleared,
                   CountsHead, NeverStarved, memVars, coreVars
        <2>3. QED
            BY <2>1, <2>2 DEF IInv
    <1>6. CASE prevous_pc = rvfi_pc
        <2>1. TypeOK'
            BY <1>1, <1>3, <1>4, <1>6 DEF IInv, TypeOK, Sample, do_reset, ResetEdges,
                   memVars, coreVars
        <2>2. (Lengths /\ Counters /\ Cleared /\ CountsHead /\ NeverStarved)'
            BY <1>1, <1>4, <1>6 DEF IInv, TypeOK, Sample, do_reset, ResetEdges, Lengths,
                   Counters, Cleared, CountsHead, NeverStarved, memVars, coreVars
        <2>3. QED
            BY <2>1, <2>2 DEF IInv
    <1>7. QED
        BY <1>5, <1>6

LEMMA CoreRunsType ==
    ASSUME TypeOK, CoreRuns
    PROVE  /\ fetched' \in Seq(Words \cup {Zero})
           /\ valid' \in BOOLEAN
           /\ insn' \in Words \cup {Zero, None}
           /\ rvfi_pc' \in 0..PcCount
           /\ retired' \in (Words \cup {Zero, None}) \X (Words \cup {Zero, None})
    <1> USE InstructionFeedAssumption
    <1> DEFINE Fetched == Words \cup {Zero}
    <1>1. fetched \in Seq(Fetched) /\ rdata \in Fetched
        BY DEF TypeOK
    <1>2. PICK arrived \in {<< >>, IF rvalid THEN <<rdata>> ELSE << >>} :
            \/ /\ fetched' = fetched \o arrived
               /\ valid' = FALSE
               /\ UNCHANGED <<insn, rvfi_pc, retired>>
            \/ /\ fetched # << >>
               /\ fetched' \in {Tail(fetched) \o arrived, << >>}
               /\ valid' = TRUE
               /\ insn' = Head(fetched)
               /\ rvfi_pc' \in Pcs
               /\ retired' = <<retired[2], Head(fetched)>>
        BY DEF CoreRuns
    <1>3. arrived \in Seq(Fetched)
        <2>1. <<rdata>> \in Seq(Fetched)
            BY <1>1
        <2>2. QED
            BY <1>2, <2>1, EmptyType
    <1>4. CASE fetched' = fetched \o arrived /\ valid' = FALSE
               /\ UNCHANGED <<insn, rvfi_pc, retired>>
        <2>1. fetched' \in Seq(Fetched)
            BY <1>1, <1>3, <1>4, ConcatType
        <2>2. rvfi_pc' \in 0..PcCount
            BY <1>4 DEF TypeOK
        <2>3. QED
            BY <1>4, <2>1, <2>2 DEF TypeOK
    <1>5. CASE /\ fetched # << >>
               /\ fetched' \in {Tail(fetched) \o arrived, << >>}
               /\ valid' = TRUE
               /\ insn' = Head(fetched)
               /\ rvfi_pc' \in Pcs
               /\ retired' = <<retired[2], Head(fetched)>>
        <2>1. Head(fetched) \in Fetched /\ Tail(fetched) \in Seq(Fetched)
            BY <1>1, <1>5, TailType
        <2>2. fetched' \in Seq(Fetched)
            <3>1. Tail(fetched) \o arrived \in Seq(Fetched)
                BY <1>3, <2>1, ConcatType
            <3>2. << >> \in Seq(Fetched)
                BY EmptyType
            <3>3. QED
                BY <1>5, <3>1, <3>2
        <2>3. QED
            BY <1>5, <2>1, <2>2 DEF TypeOK, Pcs
    <1>6. QED
        BY <1>2, <1>4, <1>5

LEMMA ClockEdgeIInv ==
    ASSUME IInv, ClockEdge
    PROVE  IInv'
    <1> USE InstructionFeedAssumption, InstructionMonitorAssumption
    <1>1. /\ fetched' \in Seq(Words \cup {Zero})
          /\ valid' \in BOOLEAN
          /\ insn' \in Words \cup {Zero, None}
          /\ rvfi_pc' \in 0..PcCount
          /\ retired' \in (Words \cup {Zero, None}) \X (Words \cup {Zero, None})
        <2>1. CASE CoreRuns
            BY <2>1, CoreRunsType DEF IInv
        <2>2. CASE CoreReset
            <3>1. fetched' \in Seq(Words \cup {Zero})
                BY <2>2, EmptyType DEF CoreReset
            <3>2. retired' \in (Words \cup {Zero, None}) \X (Words \cup {Zero, None})
                BY <2>2 DEF CoreReset
            <3>3. rvfi_pc' \in 0..PcCount
                BY <2>2 DEF CoreReset
            <3>4. valid' \in BOOLEAN /\ insn' \in Words \cup {Zero, None}
                BY <2>2 DEF CoreReset
            <3>5. QED
                BY <3>1, <3>2, <3>3, <3>4
        <2>3. QED
            BY <2>1, <2>2 DEF ClockEdge
    <1>2. TypeOK'
        BY <1>1 DEF IInv, TypeOK, ClockEdge, ResetEdges, memVars
    <1>3. (Lengths /\ Counters /\ CountsHead /\ NeverStarved)'
        BY DEF IInv, ClockEdge, Lengths, Counters, CountsHead, NeverStarved, memVars
    <1>4. Cleared'
        BY DEF IInv, TypeOK, ClockEdge, Cleared, CoreReset, ResetEdges
    <1>5. QED
        BY <1>2, <1>3, <1>4 DEF IInv

LEMMA RunMemIInv ==
    ASSUME IInv, RunMem
    PROVE  IInv'
    <1> USE InstructionFeedAssumption
    <1>1. instr_buffer # << >> => Head(instr_buffer) \in Words
        BY TailType DEF IInv, TypeOK
    <1>2. TypeOK'
        BY <1>1 DEF IInv, TypeOK, RunMem, ctrlVars, coreVars, monVars
    <1>3. (Lengths /\ Counters /\ Cleared /\ CountsHead /\ NeverStarved)'
        BY DEF IInv, RunMem, Lengths, Counters, Cleared, CountsHead, Matches,
               NeverStarved, ctrlVars, coreVars, monVars
    <1>4. QED
        BY <1>2, <1>3 DEF IInv

-----------------------------------------------------------------------------
LEMMA StepIInv == IInv /\ [Next]_vars => IInv'
    <1> SUFFICES ASSUME IInv, [Next]_vars PROVE IInv'
        OBVIOUS
    <1>1. ASSUME NEW instructions \in Requests, NEW last \in BOOLEAN,
                 Receive(instructions, last)
          PROVE  IInv'
        BY <1>1, ReceiveIInv
    <1>2. CASE Control
        BY <1>2, AppendIInv, ReplyIInv, ShortenIInv, WakeIInv, ResetDoneIInv, SampleIInv
           DEF Control
    <1>3. CASE ClockEdge
        BY <1>3, ClockEdgeIInv
    <1>4. CASE RunMem
        BY <1>4, RunMemIInv
    <1>5. CASE UNCHANGED vars
        BY <1>5 DEF vars, ctrlVars, memVars, coreVars, monVars, IInv, TypeOK, Lengths,
               Counters, Cleared, CountsHead, Matches, NeverStarved
    <1>6. QED
        BY <1>1, <1>2, <1>3, <1>4, <1>5 DEF Next

LEMMA Invariance == Spec => []IInv
    BY InitIInv, StepIInv, PTL DEF Spec

\* Every variable keeps its type: the buffer never exceeds its limit by more than
\* the instruction just appended, and no wait or spin goes past its limit.
THEOREM TypeCorrect == Spec => []TypeOK
    <1>1. IInv => TypeOK
        BY DEF IInv
    <1>2. QED
        BY Invariance, <1>1, PTL

\* Coverage is counted only for the first instruction of the buffer, whatever the
\* core prefetches and in whichever order the coroutines run.
THEOREM HeadCounted == Spec => []CountsHead
    <1>1. IInv => CountsHead
        BY DEF IInv
    <1>2. QED
        BY Invariance, <1>1, PTL

\* Once full, the buffer keeps at least Keep - 1 instructions, though an
\* instruction can be given up for two reasons in one turn.
THEOREM BufferKept == Spec => []NeverStarved
    <1>1. IInv => NeverStarved
        BY DEF IInv
    <1>2. QED
        BY Invariance, <1>1, PTL
=============================================================================
