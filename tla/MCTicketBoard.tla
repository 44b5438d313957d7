-------------------------- MODULE MCTicketBoard --------------------------
(* Finite instances of TicketBoard: servers and agents are interchangeable *)
(* in every definition, so both are symmetry sets.                         *)
EXTENDS TicketBoard, TLC

Symmetry == Permutations(Servers) \cup Permutations(Agents)
=============================================================================
