-------------------------- MODULE MCStrideTestbench --------------------------
(***************************************************************************)
(* A small instance of StrideTestbench: two strides in range, which may    *)
(* alternate, and one out of range with the same low bits as one of them.  *)
(***************************************************************************)
EXTENDS StrideTestbench

Steps == {-1, 0, 1}
=============================================================================
