---------------------------- MODULE MCRegisters ----------------------------
(* A small instance of Registers: two suppliers, two products and an operator *)
(* of one site, and a supplier of another one.                                *)
EXTENDS Registers, TLC

CONSTANTS kitchen, bar, s3

Where == [x \in Row |-> IF x = s3 THEN bar ELSE kitchen]

Symmetry == Permutations(Request)

=============================================================================
