------------------------------ MODULE MCOutbox ------------------------------
EXTENDS Outbox, TLC

(* Capsules differ in nothing but their names.  For the runs without a     *)
(* liveness property.                                                      *)
Symmetry == Permutations(Capsules)
=============================================================================
