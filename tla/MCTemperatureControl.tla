------------------------ MODULE MCTemperatureControl ------------------------
(* TemperatureControl for TLC.                                              *)
EXTENDS TemperatureControl, TLC

Symmetry == Permutations(Request)

AroundZero == -1 .. 1

=============================================================================
