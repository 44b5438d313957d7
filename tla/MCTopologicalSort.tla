------------------------- MODULE MCTopologicalSort -------------------------
EXTENDS TopologicalSort, TLC

(* Tickets differ in nothing but their ids.                                *)
Symmetry == Permutations(Tickets)
=============================================================================
