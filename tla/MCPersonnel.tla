---------------------------- MODULE MCPersonnel ----------------------------
(* A small instance of Personnel: two organisations with a site each, which   *)
(* Mo both manages.  Ana is a cook on the first.                              *)
EXTENDS Personnel, TLC

CONSTANTS mo, ana, ben, s1, s2, manager, cook

OneSiteEach == [s \in Site |-> s]

Hired == {<<mo, s1, manager>>, <<mo, s2, manager>>, <<ana, s1, cook>>}

Symmetry == Permutations(Request)

=============================================================================
