-------------------------- MODULE MCNonConformity --------------------------
(* NonConformity for TLC: the requests are interchangeable, and so are the  *)
(* operators and the managers.                                              *)
EXTENDS NonConformity, TLC

Symmetry == Permutations(Request) \cup Permutations(Manager)

=============================================================================
