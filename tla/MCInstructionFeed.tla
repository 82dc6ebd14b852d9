-------------------------- MODULE MCInstructionFeed --------------------------
(***************************************************************************)
(* A small instance of InstructionFeed: a word that counts, one that       *)
(* instructions.py does not list, and one that is no instruction.          *)
(***************************************************************************)
EXTENDS InstructionFeed

CONSTANTS add, fence, junk

AllWords == {add, fence, junk}
TypedWords == {add, fence}
ListedWords == {add}
=============================================================================
