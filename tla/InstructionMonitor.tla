------------------------- MODULE InstructionMonitor -------------------------
(***************************************************************************)
(* The coverage monitor of the Ibex server (ibex_cpu/                      *)
(* instruction_monitor.py).  A sample looks at the instruction the core    *)
(* has just retired; its counters only grow, so a sample is described by   *)
(* the pair of instructions it crosses, if any.                            *)
(***************************************************************************)
CONSTANTS
    Words,      \* instruction words of the stimuli
    Typed,      \* those Encoding.typed knows
    Listed,     \* those of them that instructions.py lists
    None

ASSUME InstructionMonitorAssumption ==
    /\ Listed \subseteq Typed
    /\ Typed \subseteq Words
    /\ None \notin Words

VARIABLES
    valid, insn,    \* rvfi_valid and rvfi_insn of the core
    last_insn,      \* the instruction of the last sample
    crossed         \* history: the pair crossed by a sample of this clock cycle

\* The early return for an instruction that is not listed leaves last_insn alone.
sample_insn_coverage ==
    IF ~valid
    THEN last_insn' = None /\ crossed' = None
    ELSE IF insn \in Typed \ Listed
    THEN UNCHANGED <<last_insn, crossed>>
    ELSE /\ last_insn' = insn
         /\ crossed' = IF insn \in Typed /\ last_insn \in Typed
                       THEN <<last_insn, insn>> ELSE crossed
=============================================================================
