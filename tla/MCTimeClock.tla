---------------------------- MODULE MCTimeClock ----------------------------
(* Small instances of TimeClock.  The requests bound the clock: each one      *)
(* advances it at most twice.                                                 *)
EXTENDS TimeClock, TLC

Symmetry == Permutations(Request)

=============================================================================
