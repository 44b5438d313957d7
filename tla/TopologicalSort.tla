-------------------------- MODULE TopologicalSort --------------------------
(***************************************************************************)
(* Store.TopologicalSort (sprintboard/dag.go:116-171): Kahn's algorithm on *)
(* what two queries returned, the tickets of a sprint and then the         *)
(* dependency rows whose ticket is in the sprint.  The queries are not in  *)
(* a transaction: a ticket may be created or deleted between them.         *)
(*                                                                         *)
(* Every graph over Tickets is an input.  Go's map iteration and the row   *)
(* order are arbitrary.                                                    *)
(***************************************************************************)
EXTENDS Dependencies

VARIABLES
  graph,     \* ticket_dependencies
  listed,    \* the sprint's tickets when ListTickets ran
  later,     \* the sprint's tickets when the rows were read
  inDegree, queue, sorted

inputs == <<graph, listed, later>>
sortVars == <<inputs, inDegree, queue, sorted>>

Rows == {r \in graph : r[1] \in later}
Blockers(t) == {r[2] : r \in {q \in Rows : q[1] = t}}
Waiting(u) == {r[1] : r \in {q \in Rows : q[2] = u}}

Degrees == [t \in listed \cup {r[1] : r \in Rows} |-> Cardinality(Blockers(t))]

SortTypeOK ==
  /\ DOMAIN inDegree = DOMAIN Degrees
  /\ \A t \in DOMAIN inDegree : inDegree[t] \in 0 .. Cardinality(Tickets) - 1
  /\ queue \in Seq(DOMAIN inDegree)
  /\ sorted \in Seq(DOMAIN inDegree)

SortInit ==
  /\ graph \in SUBSET {e \in Tickets \X Tickets : e[1] # e[2]}
  /\ listed \in SUBSET Tickets
  /\ later \in {listed} \cup {listed \cup {t} : t \in Tickets} \cup {listed \ {t} : t \in Tickets}
  /\ inDegree = Degrees
  /\ queue \in Orders({t \in DOMAIN Degrees : Degrees[t] = 0})
  /\ sorted = <<>>

(* One turn of the loop.  A blocker that is not a key has no turn, so what *)
(* waits for it keeps its degree.                                          *)
FreedAtOne(degrees, node) == {t \in Waiting(node) : degrees[t] <= 1}
Freed(degrees, node) == {t \in Waiting(node) : degrees[t] = 0}

Turn ==
  /\ queue # <<>>
  /\ LET node == Head(queue)
     IN /\ sorted' = Append(sorted, node)
        /\ inDegree' = [t \in DOMAIN inDegree |->
                          IF t \in Waiting(node) THEN inDegree[t] - 1 ELSE inDegree[t]]
        /\ \E freed \in Orders(Freed(inDegree', node)) : queue' = Tail(queue) \o freed
  /\ UNCHANGED inputs

SortSpec == SortInit /\ [][Turn]_sortVars

(* The check after the loop.                                               *)
Finished == queue = <<>>
NothingSorted == Finished /\ sorted = <<>> /\ listed # {}
CycleReported == Finished /\ Len(sorted) # Cardinality(listed)

-----------------------------------------------------------------------------
(* A ticket comes after all of its blockers and only once ("dependency-    *)
(* first"), also on input that two queries saw differently.                *)
DependencyFirst ==
  \A i \in DOMAIN sorted :
    /\ Blockers(sorted[i]) \subseteq {sorted[j] : j \in 1 .. i - 1}
    /\ \A j \in DOMAIN sorted : sorted[j] = sorted[i] => i = j

(* What is sorted is typed, ordered and without repetition, and so are the *)
(* locals that the loop works on.                                          *)
SortInv == SortTypeOK /\ DependencyFirst

(* When the two queries agree, "cycle detected" (dag.go:168) is reported   *)
(* exactly when the rows have a cycle or a dependency leaves the sprint    *)
(* (its blocker is in another sprint or was deleted); else every ticket is *)
(* sorted.                                                                 *)
ReportIsExact ==
  Finished /\ listed = later =>
    (CycleReported <=> ~Acyclic(Rows) \/ \E r \in Rows : r[2] \notin listed)
=============================================================================
