------------------------------ MODULE MCTenant ------------------------------
(* Small instances of Tenant.  Sites a and b are those of org; c is that of   *)
(* chain, which may open d and e.                                             *)
EXTENDS Tenant, TLC

CONSTANTS org, chain, a, b, c, d, e, timeclock, cleaning

Owners == [s \in Site |-> IF s \in {a, b} THEN org ELSE chain]

Symmetry == Permutations(Request)

=============================================================================
