---------------------------- MODULE Dependencies ----------------------------
(***************************************************************************)
(* The dependency graph of the sprint board, as the adds                   *)
(* (TicketDag) and the sort (TopologicalSort) see it.  A row <<t, u>> says *)
(* t depends on u.                                                         *)
(***************************************************************************)
EXTENDS Naturals, Sequences, FiniteSets

CONSTANT Tickets

ASSUME TicketsAssumption == IsFiniteSet(Tickets)

(* No ticket blocks itself, directly or through others: every non-empty    *)
(* set of tickets has a member that no row of the set blocks.              *)
Acyclic(E) ==
  \A S \in (SUBSET Tickets) \ {{}} : \E t \in S : \A u \in S : <<t, u>> \notin E

(* The rows of a query, and the keys of a map, come in any order.          *)
Orders(S) ==
  {q \in [1 .. Cardinality(S) -> S] : {q[i] : i \in DOMAIN q} = S}
=============================================================================
