---------------------------- MODULE MCReception ----------------------------
(* Small instances of Reception.                                              *)
EXTENDS Reception, TLC

Symmetry == Permutations(Request)

TwoDegrees == 1..2

=============================================================================
