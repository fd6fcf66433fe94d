-------------------------------- MODULE MCAlu --------------------------------
(***************************************************************************)
(* The ALU of module AluMachine with the bitwise operators of Bitwise.     *)
(***************************************************************************)
EXTENDS AluMachine, Bitwise

MCAnd(a, b) == a & b
MCOr(a, b)  == a | b
MCXor(a, b) == a ^^ b

=============================================================================
