----------------------------- MODULE StrideTypes -----------------------------
(***************************************************************************)
(* What the stride detector and its testbench agree on                     *)
(* (stride_detector/shared_types.py).                                      *)
(***************************************************************************)
EXTENDS Integers

CONSTANTS
    Half,       \* strides range over -Half..Half-1: 2^(MAX_STRIDE_WIDTH-1), 16
    ValueCount  \* 2^32: values range over 0..ValueCount-1

ASSUME StrideTypesAssumption ==
    /\ Half \in Nat \ {0}
    /\ ValueCount \in Nat \ {0}

NUM_STRIDES == 2 * Half
STRIDE_MIN == -Half
STRIDE_MAX == Half - 1
Values == 0..(ValueCount - 1)

overflow(stride) == stride < STRIDE_MIN \/ stride > STRIDE_MAX
=============================================================================
