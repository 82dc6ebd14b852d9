---------------------------- MODULE CoveragePlans ----------------------------
(***************************************************************************)
(* The coverage plans of the designs (global_shared_types.py,              *)
(* GlobalCoverageDatabase, and the shared_types.py of the CPUs) and the    *)
(* bins that the prompt templates describe                                 *)
(* (prompt_generators/prompt_generator_template_*.py,                      *)
(* _load_coverage_difference_prompts_dict).                                *)
(*                                                                         *)
(* A plan is a function from families of bins to their numbers of bins:    *)
(* the names of the bins of a family differ in a number or an instruction. *)
(***************************************************************************)
EXTENDS Integers, FiniteSetsExt

AG_WB_BOUND == 64

\* Signed strides of five bits, registers, and operations with the same plan.
Strides == 32
Registers32 == 32
AluOps10 == 10
MemOps3 == 3

-----------------------------------------------------------------------------
(* The plan of each type of database.                                       *)

plan_SDRAMCD == [misc |-> 7]

plan_AFCD == [misc |-> 10]

plan_AG_FTCD == [misc |-> 10]

plan_AG_WBCD ==
    [out |-> AG_WB_BOUND,
     combined_features |-> AG_WB_BOUND * (AG_WB_BOUND \div 16),
     in |-> AG_WB_BOUND \div 16]

\* A stride with itself is no double stride.
plan_SD ==
    [single |-> Strides, double |-> Strides * (Strides - 1), misc |-> 10]

\* Loads and stores are named by the first letter of their operation.
plan_ID ==
    [alu_ops |-> AluOps10, alu_imm_ops |-> AluOps10, illegal_instruction |-> 1,
     load_ops |-> MemOps3, store_ops |-> MemOps3,
     read_reg_a |-> Registers32, read_reg_b |-> Registers32,
     write_reg |-> Registers32,
     alu_ops_x_reg |-> AluOps10 * 3 * Registers32,
     alu_imm_ops_x_reg |-> AluOps10 * 2 * Registers32,
     load_ops_x_reg |-> MemOps3 * 2 * Registers32,
     store_ops_x_reg |-> MemOps3 * 2 * Registers32]

\* Of an ALU instruction, a store and a jump: what is seen of it, and the
\* instructions whose result the next one reads.
plan_IC ==
    [alu |-> AluOps10 * 4, stores |-> MemOps3 * 3, jumps |-> 4,
     alu_raw_hazard |-> AluOps10 * (AluOps10 + 1),
     store_raw_hazard |-> MemOps3 * (AluOps10 + 1)]

\* The monitor of the MIPS CPU fills ibex_cpu's type of database with its own
\* instructions, whose jumps write no register.
plan_MC == [plan_IC EXCEPT !.jumps = 3]

-----------------------------------------------------------------------------
(* The families that the template of a design describes.                    *)

described_SDRAM == DOMAIN plan_SDRAMCD

described_AF == DOMAIN plan_AFCD

described_FT == DOMAIN plan_AG_FTCD

described_WB == {"in", "out", "combined_features"}

described_SD == {"single", "double", "misc"}

\* Operations, registers and the pairs of them, some in no plan.
described_ID ==
    {"alu_ops", "alu_imm_ops", "load_ops", "store_ops", "read_reg_a", "read_reg_b",
     "write_reg", "alu_ops_x_reg", "alu_imm_ops_x_reg", "load_ops_x_reg",
     "store_ops_x_reg"}

described_IC == {"alu", "stores", "jumps", "alu_raw_hazard", "store_raw_hazard"}

described_MC == {"alu", "stores", "jumps", "alu_raw_hazard", "store_raw_hazard"}

-----------------------------------------------------------------------------
\* get_coverage_plan, by the design whose server replied.
get_coverage_plan ==
    [SDRAM |-> plan_SDRAMCD, AF |-> plan_AFCD, FT |-> plan_AG_FTCD,
     WB |-> plan_AG_WBCD, SD |-> plan_SD, ID |-> plan_ID, IC |-> plan_IC,
     MC |-> plan_MC]

Designs == DOMAIN get_coverage_plan

difference_prompts ==
    [SDRAM |-> described_SDRAM, AF |-> described_AF, FT |-> described_FT,
     WB |-> described_WB, SD |-> described_SD, ID |-> described_ID,
     IC |-> described_IC, MC |-> described_MC]

SizeOf(plan, families) == MapThenSumSet(LAMBDA f : plan[f], families)

Bins == [d \in Designs |-> SizeOf(get_coverage_plan[d], DOMAIN get_coverage_plan[d])]

\* Bins of the plan for which the template has no words.
Undescribed ==
    [d \in Designs |->
        SizeOf(get_coverage_plan[d],
               DOMAIN get_coverage_plan[d] \ difference_prompts[d])]
=============================================================================
