----------------------------- MODULE TicketDag -----------------------------
(***************************************************************************)
(* ticket_dependencies of the sprint board (sprintboard/dag.go): several   *)
(* sprintboard-mcp processes add and remove dependencies in one SQLite     *)
(* database.  AddDependency searches for a path back with one query per    *)
(* ticket it visits and then inserts, all outside any transaction.         *)
(*                                                                         *)
(* A dependency is a pair <<ticket_id, depends_on>>.  The tickets named    *)
(* need not exist (the foreign keys are not enforced by default), so their *)
(* rows play no part here.                                                 *)
(***************************************************************************)
EXTENDS Dependencies

CONSTANTS
  Servers,
  QueriesFail   \* may a query of the search fail

VARIABLES
  deps,     \* the rows of ticket_dependencies
  pc,       \* what each server is doing
  adding,   \* the dependency it is to add
  stack,    \* recursion of dfsHasPath: tickets to visit, next one first
  visited,  \* its visited map
  misled    \* servers during whose search a query failed or another inserted

vars == <<deps, pc, adding, stack, visited, misled>>

Pairs == Tickets \X Tickets
NoSearch == <<>>

TypeOK ==
  /\ deps \subseteq {p \in Pairs : p[1] # p[2]}
  /\ pc \in [Servers -> {"idle", "search", "insert"}]
  /\ adding \in [Servers -> Pairs \cup {NoSearch}]
  /\ stack \in [Servers -> Seq(Tickets)]
  /\ visited \in [Servers -> SUBSET Tickets]
  /\ \A s \in Servers :
       IF pc[s] = "idle"
       THEN adding[s] = NoSearch /\ stack[s] = <<>> /\ visited[s] = {}
       ELSE adding[s] \in Pairs /\ adding[s][1] # adding[s][2]
  /\ misled \subseteq {s \in Servers : pc[s] # "idle"}

Init ==
  /\ deps = {}
  /\ pc = [s \in Servers |-> "idle"]
  /\ adding = [s \in Servers |-> NoSearch]
  /\ stack = [s \in Servers |-> <<>>]
  /\ visited = [s \in Servers |-> {}]
  /\ misled = {}

BlockersOf(t) == {u \in Tickets : <<t, u>> \in deps}

(* Every call makes a map of its own.                                      *)
FreshMap(s) == {}

Return(s) ==
  /\ pc' = [pc EXCEPT ![s] = "idle"]
  /\ adding' = [adding EXCEPT ![s] = NoSearch]
  /\ stack' = [stack EXCEPT ![s] = <<>>]
  /\ visited' = [visited EXCEPT ![s] = FreshMap(s)]

(* AddDependency: a ticket that depends on itself is refused at once.      *)
AddBegin(s, t, u) ==
  /\ pc[s] = "idle"
  /\ t # u
  /\ pc' = [pc EXCEPT ![s] = "search"]
  /\ adding' = [adding EXCEPT ![s] = <<t, u>>]
  /\ stack' = [stack EXCEPT ![s] = <<u>>]
  /\ UNCHANGED <<deps, visited, misled>>

(* One call of dfsHasPath: the target itself, a ticket seen before, or a   *)
(* query for the blockers, which are visited in the order of the rows.     *)
ReachesDirectly(s) == Head(stack[s]) = adding[s][1] /\ Cardinality(visited[s]) <= 1
Reaches(s) == Head(stack[s]) = adding[s][1]

ToVisitEvenIfSeen(s) == BlockersOf(Head(stack[s]))
ToVisit(s) == IF Head(stack[s]) \in visited[s] THEN {} ELSE BlockersOf(Head(stack[s]))

Refuse(s) ==
  /\ pc[s] = "search"
  /\ stack[s] # <<>> /\ Reaches(s)
  /\ Return(s)
  /\ misled' = misled \ {s}
  /\ UNCHANGED deps

Visit(s) ==
  /\ pc[s] = "search"
  /\ stack[s] # <<>> /\ ~Reaches(s)
  /\ visited' = [visited EXCEPT ![s] = @ \cup {Head(stack[s])}]
  /\ \E rows \in Orders(ToVisit(s)) : stack' = [stack EXCEPT ![s] = rows \o Tail(@)]
  /\ UNCHANGED <<deps, pc, adding, misled>>

(* A query that fails ends its branch as if it led nowhere.                *)
QueryFails(s) ==
  /\ QueriesFail
  /\ pc[s] = "search"
  /\ stack[s] # <<>> /\ ~Reaches(s)
  /\ visited' = [visited EXCEPT ![s] = @ \cup {Head(stack[s])}]
  /\ stack' = [stack EXCEPT ![s] = Tail(@)]
  /\ misled' = misled \cup {s}
  /\ UNCHANGED <<deps, pc, adding>>

NoPathFound(s) ==
  /\ pc[s] = "search"
  /\ stack[s] = <<>>
  /\ pc' = [pc EXCEPT ![s] = "insert"]
  /\ UNCHANGED <<deps, adding, stack, visited, misled>>

(* INSERT OR IGNORE.                                                       *)
Insert(s) ==
  /\ pc[s] = "insert"
  /\ deps' = deps \cup {adding[s]}
  /\ misled' = {r \in Servers \ {s} : pc[r] # "idle"}
  /\ Return(s)

RemoveDependency(s, t, u) ==
  /\ pc[s] = "idle"
  /\ <<t, u>> \in deps
  /\ deps' = deps \ {<<t, u>>}
  /\ UNCHANGED <<pc, adding, stack, visited, misled>>

-----------------------------------------------------------------------------
Search(s) == Refuse(s) \/ Visit(s) \/ QueryFails(s) \/ NoPathFound(s) \/ Insert(s)

Next ==
  \E s \in Servers :
    \/ Search(s)
    \/ \E t, u \in Tickets : AddBegin(s, t, u) \/ RemoveDependency(s, t, u)

(* A server at work on a call goes on with it.                             *)
Spec == Init /\ [][Next]_vars
FairSpec == Spec /\ \A s \in Servers : WF_vars(Search(s))

-----------------------------------------------------------------------------
(* An AddDependency whose queries succeed, and during which no other       *)
(* server inserts, keeps an acyclic graph acyclic, whatever was removed    *)
(* meanwhile: a path that is there at the insert was there for the whole   *)
(* search (wouldCreateCycle).                                              *)
SerialAddsKeepAcyclic ==
  [][\A s \in Servers :
       pc[s] = "insert" /\ pc'[s] = "idle" /\ s \notin misled /\ Acyclic(deps) =>
         Acyclic(deps')]_vars

(* The search ends although other servers change the graph under it and    *)
(* may have closed a cycle: each ticket is queried at most once.           *)
SearchEnds == \A s \in Servers : pc[s] = "search" ~> pc[s] = "idle"
=============================================================================
