-------------------------- MODULE TicketDagProofs --------------------------
(***************************************************************************)
(* Proofs about the dependency graph, for any servers and any finite set   *)
(* of tickets: TypeOK of TicketDag, that serial adds keep the graph        *)
(* acyclic, and that TopologicalSort sorts it and reports its cycles.      *)
(*                                                                         *)
(* The invariant behind the adds says what a search knows while nothing    *)
(* misled it: it started at the blocker, it has not visited the ticket,    *)
(* and every blocker of a visited ticket is visited or on the stack.  So   *)
(* when the stack is empty the visited tickets are closed under deps, hold *)
(* the blocker and not the ticket, and the new row closes no cycle.        *)
(*                                                                         *)
(* The one behind the sort says that a key's degree counts its blockers    *)
(* that have had no turn, and that the keys of degree 0 are those queued   *)
(* or sorted (KahnInv).                                                    *)
(***************************************************************************)
EXTENDS TicketDag, TopologicalSort, NaturalLemmas

ElementsOf(q) == {q[i] : i \in DOMAIN q}
Seen(s) == visited[s] \cup ElementsOf(stack[s])

Sound(s) ==
  /\ adding[s][2] \in Seen(s)
  /\ adding[s][1] \notin visited[s]
  /\ \A t \in visited[s] : BlockersOf(t) \subseteq Seen(s)
  /\ pc[s] = "insert" => stack[s] = <<>>

SearchSound == \A s \in Servers : pc[s] # "idle" /\ s \notin misled => Sound(s)

DagInv == TypeOK /\ SearchSound

-----------------------------------------------------------------------------
(* The rows of a query, in whatever order, are the blockers.               *)
LEMMA OrderOfRows ==
  ASSUME NEW S \in SUBSET Tickets, NEW rows \in Orders(S)
  PROVE  rows \in Seq(Tickets) /\ ElementsOf(rows) = S
<1>1. Cardinality(S) \in Nat
  BY TicketsAssumption, FS_Subset, FS_CardinalityType
<1> QED
  BY <1>1 DEF Orders, ElementsOf

LEMMA BlockersAreTickets == \A t : BlockersOf(t) \in SUBSET Tickets
BY DEF BlockersOf

(* Replacing the head of the stack by rows.                                *)
LEMMA Pushed ==
  ASSUME NEW q \in Seq(Tickets), q # <<>>, NEW rows \in Seq(Tickets)
  PROVE  /\ rows \o Tail(q) \in Seq(Tickets)
         /\ Head(q) \in Tickets
         /\ ElementsOf(rows) \subseteq ElementsOf(rows \o Tail(q))
         /\ ElementsOf(q) \subseteq {Head(q)} \cup ElementsOf(rows \o Tail(q))
<1> DEFINE r == rows \o Tail(q)
<1>1. r \in Seq(Tickets) /\ Head(q) \in Tickets
  OBVIOUS
<1>2. ElementsOf(rows) \subseteq ElementsOf(r)
  <2>1. \A i \in DOMAIN rows : i \in DOMAIN r /\ r[i] = rows[i]
    OBVIOUS
  <2> QED
    BY <2>1 DEF ElementsOf
<1>3. ElementsOf(q) \subseteq {Head(q)} \cup ElementsOf(r)
  <2>1. ASSUME NEW i \in DOMAIN q, i # 1
        PROVE  \E j \in DOMAIN r : r[j] = q[i]
    <3>1. i - 1 + Len(rows) \in DOMAIN r /\ r[i - 1 + Len(rows)] = q[i]
      BY <2>1
    <3> QED
      BY <3>1
  <2>2. Head(q) = q[1]
    OBVIOUS
  <2> QED
    BY <2>1, <2>2 DEF ElementsOf
<1> QED
  BY <1>1, <1>2, <1>3

-----------------------------------------------------------------------------
LEMMA InitTyped == Init => TypeOK
BY DEF Init, TypeOK

LEMMA ReturnTyped ==
  ASSUME TypeOK, NEW s \in Servers, Return(s), deps' \in SUBSET {p \in Pairs : p[1] # p[2]},
         misled' \subseteq {r \in Servers : pc'[r] # "idle"}
  PROVE  TypeOK'
BY DEF TypeOK, Return, FreshMap

(* A ticket is taken off the stack and rows put in its place.              *)
LEMMA VisitTyped ==
  ASSUME TypeOK, NEW s \in Servers, pc[s] = "search", stack[s] # <<>>,
         NEW rows \in Seq(Tickets),
         visited' = [visited EXCEPT ![s] = @ \cup {Head(stack[s])}],
         stack' = [stack EXCEPT ![s] = rows \o Tail(@)],
         misled' \in {misled, misled \cup {s}},
         UNCHANGED <<deps, pc, adding>>
  PROVE  TypeOK'
<1>1. stack[s] \in Seq(Tickets)
  BY DEF TypeOK
<1>2. rows \o Tail(stack[s]) \in Seq(Tickets) /\ Head(stack[s]) \in Tickets
  BY <1>1, Pushed
<1>3. stack' \in [Servers -> Seq(Tickets)]
  BY <1>2 DEF TypeOK
<1>4. visited' \in [Servers -> SUBSET Tickets]
  BY <1>2 DEF TypeOK
<1>5. misled' \subseteq {r \in Servers : pc'[r] # "idle"}
  BY DEF TypeOK
<1>6. \A r \in Servers : pc'[r] = "idle" => stack'[r] = stack[r] /\ visited'[r] = visited[r]
  BY DEF TypeOK
<1> QED
  BY <1>3, <1>4, <1>5, <1>6 DEF TypeOK

LEMMA NextTyped == TypeOK /\ [Next]_vars => TypeOK'
<1> SUFFICES ASSUME TypeOK, [Next]_vars PROVE TypeOK'
  OBVIOUS
<1>1. ASSUME NEW s \in Servers, NEW t \in Tickets, NEW u \in Tickets, AddBegin(s, t, u)
      PROVE  TypeOK'
  <2>1. stack' \in [Servers -> Seq(Tickets)]
    BY <1>1 DEF AddBegin, TypeOK
  <2>2. adding' \in [Servers -> Pairs \cup {NoSearch}]
    BY <1>1 DEF AddBegin, TypeOK, Pairs
  <2>3. adding'[s][1] = t /\ adding'[s][2] = u /\ adding'[s] \in Pairs
    BY <1>1 DEF AddBegin, TypeOK, Pairs
  <2> QED
    BY <1>1, <2>1, <2>2, <2>3 DEF AddBegin, TypeOK
<1>2. ASSUME NEW s \in Servers, Refuse(s) PROVE TypeOK'
  <2>1. misled' \subseteq {r \in Servers : pc'[r] # "idle"}
    BY <1>2 DEF Refuse, Return, TypeOK
  <2> QED
    BY <1>2, <2>1, ReturnTyped DEF Refuse, TypeOK
<1>3. ASSUME NEW s \in Servers, Visit(s) PROVE TypeOK'
  <2>1. ToVisit(s) \in SUBSET Tickets
    BY BlockersAreTickets DEF ToVisit
  <2>2. PICK rows \in Orders(ToVisit(s)) : stack' = [stack EXCEPT ![s] = rows \o Tail(@)]
    BY <1>3 DEF Visit
  <2>3. rows \in Seq(Tickets)
    BY <2>1, <2>2, OrderOfRows
  <2> QED
    BY <1>3, <2>2, <2>3, VisitTyped DEF Visit
<1>4. ASSUME NEW s \in Servers, QueryFails(s) PROVE TypeOK'
  <2>1. << >> \in Seq(Tickets) /\ stack[s] \in Seq(Tickets)
    BY DEF TypeOK
  <2>2. << >> \o Tail(stack[s]) = Tail(stack[s])
    BY <1>4, <2>1 DEF QueryFails
  <2>3. stack' = [stack EXCEPT ![s] = << >> \o Tail(@)]
    BY <1>4, <2>2 DEF QueryFails
  <2> QED
    BY <1>4, <2>1, <2>3, VisitTyped DEF QueryFails
<1>5. ASSUME NEW s \in Servers, NoPathFound(s) PROVE TypeOK'
  BY <1>5 DEF NoPathFound, TypeOK
<1>6. ASSUME NEW s \in Servers, Insert(s) PROVE TypeOK'
  <2>1. adding[s] \in Pairs /\ adding[s][1] # adding[s][2]
    BY <1>6 DEF Insert, TypeOK
  <2>2. misled' \subseteq {r \in Servers : pc'[r] # "idle"}
    BY <1>6 DEF Insert, Return, TypeOK
  <2>3. deps' \in SUBSET {p \in Pairs : p[1] # p[2]}
    BY <1>6, <2>1 DEF Insert, TypeOK
  <2> QED
    BY <1>6, <2>2, <2>3, ReturnTyped DEF Insert
<1>7. ASSUME NEW s \in Servers, NEW t \in Tickets, NEW u \in Tickets,
             RemoveDependency(s, t, u)
      PROVE  TypeOK'
  BY <1>7 DEF RemoveDependency, TypeOK
<1>8. CASE UNCHANGED vars
  BY <1>8 DEF vars, TypeOK
<1> QED
  BY <1>1, <1>2, <1>3, <1>4, <1>5, <1>6, <1>7, <1>8 DEF Next, Search

(* TypeOK always holds: whatever the calls, servers and query failures,    *)
(* the locals of a search stay what they should be, and no row makes a     *)
(* ticket depend on itself.                                                *)
THEOREM DagTyping == Spec => []TypeOK
<1> QED
  BY InitTyped, NextTyped, PTL DEF Spec

-----------------------------------------------------------------------------
LEMMA InitSound == Init => SearchSound
BY DEF Init, SearchSound

(* A search that does not move stays sound when rows are only removed.     *)
LEMMA SoundKept ==
  ASSUME NEW s \in Servers, Sound(s), deps' \subseteq deps,
         pc'[s] = pc[s], adding'[s] = adding[s], stack'[s] = stack[s], visited'[s] = visited[s]
  PROVE  Sound(s)'
<1>1. Seen(s)' = Seen(s)
  BY DEF Seen, ElementsOf
<1>2. \A t : BlockersOf(t)' \subseteq BlockersOf(t)
  BY DEF BlockersOf
<1> QED
  BY <1>1, <1>2 DEF Sound

LEMMA VisitSound ==
  ASSUME TypeOK, NEW s \in Servers, Sound(s), Visit(s)
  PROVE  Sound(s)'
<1> DEFINE h == Head(stack[s])
<1>1. PICK rows \in Orders(ToVisit(s)) : stack' = [stack EXCEPT ![s] = rows \o Tail(@)]
  BY DEF Visit
<1>2. rows \in Seq(Tickets) /\ ElementsOf(rows) = ToVisit(s)
  <2>1. ToVisit(s) \in SUBSET Tickets
    BY BlockersAreTickets DEF ToVisit
  <2> QED
    BY <1>1, <2>1, OrderOfRows
<1>3. stack[s] \in Seq(Tickets) /\ stack[s] # << >>
  BY DEF TypeOK, Visit
<1>4. stack'[s] = rows \o Tail(stack[s]) /\ visited'[s] = visited[s] \cup {h}
  BY <1>1 DEF Visit, TypeOK
<1>5. /\ ElementsOf(rows) \subseteq ElementsOf(stack'[s])
      /\ ElementsOf(stack[s]) \subseteq {h} \cup ElementsOf(stack'[s])
  BY <1>2, <1>3, <1>4, Pushed
<1>6. Seen(s) \subseteq Seen(s)'
  BY <1>4, <1>5 DEF Seen, ElementsOf
<1>7. adding'[s] = adding[s] /\ pc'[s] = "search" /\ deps' = deps /\ h # adding[s][1]
  BY DEF Visit, Reaches
<1>8. \A t : BlockersOf(t)' = BlockersOf(t)
  BY <1>7 DEF BlockersOf
<1>9. BlockersOf(h) \subseteq Seen(s)'
  <2>1. CASE h \in visited[s]
    BY <2>1, <1>6 DEF Sound
  <2>2. CASE h \notin visited[s]
    <3>1. ElementsOf(rows) = BlockersOf(h)
      BY <2>2, <1>2 DEF ToVisit
    <3> QED
      BY <3>1, <1>5 DEF Seen, ElementsOf
  <2> QED
    BY <2>1, <2>2
<1> QED
  BY <1>4, <1>6, <1>7, <1>8, <1>9 DEF Sound

LEMMA NextSound == DagInv /\ [Next]_vars => SearchSound'
<1> SUFFICES ASSUME DagInv, [Next]_vars,
                    NEW r \in Servers, pc'[r] # "idle", r \notin misled'
             PROVE  Sound(r)'
  BY DEF SearchSound
<1> USE DEF DagInv
<1>1. ASSUME NEW s \in Servers, NEW t \in Tickets, NEW u \in Tickets, AddBegin(s, t, u)
      PROVE  Sound(r)'
  <2>1. CASE r = s
    <3>1. stack'[r] = <<u>> /\ adding'[r] = <<t, u>> /\ visited'[r] = {} /\ pc'[r] = "search"
      BY <1>1, <2>1 DEF AddBegin, TypeOK
    <3>2. ElementsOf(stack'[r]) = {u}
      BY <3>1 DEF ElementsOf
    <3>3. u \in Seen(r)'
      BY <3>1, <3>2 DEF Seen, ElementsOf
    <3> QED
      BY <3>1, <3>3 DEF Sound
  <2>2. CASE r # s
    BY <1>1, <2>2, SoundKept DEF AddBegin, TypeOK, SearchSound
  <2> QED
    BY <2>1, <2>2
<1>2. ASSUME NEW s \in Servers, Refuse(s) PROVE Sound(r)'
  <2>1. r # s
    BY <1>2 DEF Refuse, Return, TypeOK
  <2> QED
    BY <1>2, <2>1, SoundKept DEF Refuse, Return, TypeOK, SearchSound
<1>3. ASSUME NEW s \in Servers, Visit(s) PROVE Sound(r)'
  <2>1. CASE r = s
    BY <1>3, <2>1, VisitSound DEF Visit, SearchSound
  <2>2. CASE r # s
    BY <1>3, <2>2, SoundKept DEF Visit, TypeOK, SearchSound
  <2> QED
    BY <2>1, <2>2
<1>4. ASSUME NEW s \in Servers, QueryFails(s) PROVE Sound(r)'
  BY <1>4, SoundKept DEF QueryFails, TypeOK, SearchSound
<1>5. ASSUME NEW s \in Servers, NoPathFound(s) PROVE Sound(r)'
  <2>1. CASE r = s
    <3>1. pc[r] # "idle" /\ r \notin misled /\ stack[r] = << >>
      BY <1>5, <2>1 DEF NoPathFound
    <3>2. Sound(r)
      BY <3>1 DEF SearchSound
    <3>3. Seen(r)' = Seen(r) /\ \A t : BlockersOf(t)' = BlockersOf(t)
      BY <1>5 DEF NoPathFound, Seen, ElementsOf, BlockersOf
    <3> QED
      BY <1>5, <3>1, <3>2, <3>3 DEF NoPathFound, Sound
  <2>2. CASE r # s
    BY <1>5, <2>2, SoundKept DEF NoPathFound, TypeOK, SearchSound
  <2> QED
    BY <2>1, <2>2
<1>6. ASSUME NEW s \in Servers, Insert(s) PROVE Sound(r)'
  <2>1. r # s
    BY <1>6 DEF Insert, Return, TypeOK
  <2>2. pc[r] # "idle"
    BY <1>6, <2>1 DEF Insert, Return, TypeOK
  <2> QED
    BY <1>6, <2>1, <2>2 DEF Insert
<1>7. ASSUME NEW s \in Servers, NEW t \in Tickets, NEW u \in Tickets,
             RemoveDependency(s, t, u)
      PROVE  Sound(r)'
  BY <1>7, SoundKept DEF RemoveDependency, TypeOK, SearchSound
<1>8. CASE UNCHANGED vars
  BY <1>8, SoundKept DEF vars, SearchSound
<1> QED
  BY <1>1, <1>2, <1>3, <1>4, <1>5, <1>6, <1>7, <1>8 DEF Next, Search

LEMMA Invariance == Spec => []DagInv
<1>1. Init => DagInv
  BY InitTyped, InitSound DEF DagInv
<1>2. DagInv /\ [Next]_vars => DagInv'
  BY NextTyped, NextSound DEF DagInv
<1> QED
  BY <1>1, <1>2, PTL DEF Spec

-----------------------------------------------------------------------------
(* A row from a ticket outside a closed set of tickets to a ticket inside  *)
(* it closes no cycle.                                                     *)
LEMMA RowOutOfClosedSet ==
  ASSUME NEW E, NEW C, NEW a \in Tickets, NEW b \in Tickets,
         Acyclic(E), a \notin C, b \in C,
         \A t \in C, u \in Tickets : <<t, u>> \in E => u \in C
  PROVE  Acyclic(E \cup {<<a, b>>})
<1> SUFFICES ASSUME NEW S \in (SUBSET Tickets) \ {{}}
             PROVE  \E t \in S : \A u \in S : <<t, u>> \notin E \cup {<<a, b>>}
  BY DEF Acyclic
<1>1. CASE S \cap C # {}
  <2>1. S \cap C \in (SUBSET Tickets) \ {{}}
    BY <1>1
  <2>2. PICK t \in S \cap C : \A u \in S \cap C : <<t, u>> \notin E
    BY <2>1 DEF Acyclic
  <2>3. \A u \in S : <<t, u>> \notin E
    BY <2>2
  <2> QED
    BY <2>2, <2>3
<1>2. CASE S \cap C = {}
  <2>1. PICK t \in S : \A u \in S : <<t, u>> \notin E
    BY DEF Acyclic
  <2>2. b \notin S
    BY <1>2
  <2> QED
    BY <2>1, <2>2
<1> QED
  BY <1>1, <1>2

(* SerialAddsKeepAcyclic: an AddDependency with no other insert and no     *)
(* failed query during its search never closes a cycle, for any graph.     *)
THEOREM SerialAddsAreSafe == Spec => SerialAddsKeepAcyclic
<1> DEFINE Serial(s) ==
      pc[s] = "insert" /\ pc'[s] = "idle" /\ s \notin misled /\ Acyclic(deps) =>
        Acyclic(deps')
<1>1. ASSUME DagInv, [Next]_vars, NEW s \in Servers PROVE Serial(s)
  <2> SUFFICES ASSUME pc[s] = "insert", pc'[s] = "idle", s \notin misled,
                      Acyclic(deps)
               PROVE  Acyclic(deps')
    OBVIOUS
  <2>1. Insert(s)
    <3>1. ASSUME NEW r \in Servers, r # s, Search(r) PROVE pc'[s] = pc[s]
      BY <1>1, <3>1 DEF Search, Refuse, Visit, QueryFails, NoPathFound, Insert, Return,
                        DagInv, TypeOK
    <3>2. ASSUME NEW r \in Servers, NEW t \in Tickets, NEW u \in Tickets,
                 AddBegin(r, t, u) \/ RemoveDependency(r, t, u)
          PROVE  pc'[s] # "idle"
      BY <1>1, <3>2 DEF AddBegin, RemoveDependency, DagInv, TypeOK
    <3>3. ~(UNCHANGED vars)
      BY DEF vars
    <3>4. Search(s)
      BY <1>1, <3>1, <3>2, <3>3 DEF Next
    <3> QED
      BY <3>4 DEF Search, Refuse, Visit, QueryFails, NoPathFound
  <2>2. Sound(s) /\ stack[s] = << >> /\ adding[s] \in Pairs
    BY <1>1 DEF DagInv, SearchSound, Sound, TypeOK
  <2>3. Seen(s) = visited[s]
    BY <2>2 DEF Seen, ElementsOf
  <2>4. \A t \in visited[s], u \in Tickets : <<t, u>> \in deps => u \in visited[s]
    BY <2>2, <2>3 DEF Sound, BlockersOf
  <2>5. PICK a \in Tickets, b \in Tickets : adding[s] = <<a, b>>
    BY <2>2 DEF Pairs
  <2>6. a \notin visited[s] /\ b \in visited[s]
    BY <2>2, <2>3, <2>5 DEF Sound
  <2>7. deps' = deps \cup {<<a, b>>}
    BY <2>1, <2>5 DEF Insert
  <2> QED
    BY <2>4, <2>6, <2>7, RowOutOfClosedSet
<1>2. DagInv /\ [Next]_vars => \A s \in Servers : Serial(s)
  BY <1>1
<1> QED
  BY <1>2, Invariance, PTL DEF Spec, SerialAddsKeepAcyclic

-----------------------------------------------------------------------------
(* TopologicalSort.  A turn of the loop takes a ticket whose blockers are  *)
(* all sorted.  Why they are: the degree of a ticket is always the number  *)
(* of its blockers that are not sorted yet, the tickets whose degree is    *)
(* zero are those that are sorted or queued, and none is there twice.      *)
Once(q) == \A i, j \in DOMAIN q : q[i] = q[j] => i = j

Keys == listed \cup {r[1] : r \in Rows}
Sorted == ElementsOf(sorted)
Queued == ElementsOf(queue)

SortInputs ==
  /\ graph \subseteq {e \in Tickets \X Tickets : e[1] # e[2]}
  /\ listed \subseteq Tickets

DegreesLeft == \A t \in Keys : inDegree[t] = Cardinality(Blockers(t) \ Sorted)

FreeAreOut == \A t \in Keys : inDegree[t] = 0 <=> t \in Sorted \cup Queued

EachOnce == Once(queue) /\ Once(sorted) /\ Sorted \cap Queued = {}

KahnInv ==
  SortInputs /\ SortTypeOK /\ DegreesLeft /\ FreeAreOut /\ EachOnce /\ DependencyFirst

(* Sequences without repetition.                                           *)
LEMMA OrderIsOnce ==
  ASSUME NEW S, IsFiniteSet(S), NEW q \in Orders(S)
  PROVE  q \in Seq(S) /\ ElementsOf(q) = S /\ Once(q)
<1>1. Cardinality(S) \in Nat
  BY FS_CardinalityType
<1>2. /\ q \in [1 .. Cardinality(S) -> S] /\ DOMAIN q = 1 .. Cardinality(S)
      /\ ElementsOf(q) = S
  BY DEF Orders, ElementsOf
<1>3. IsFiniteSet(1 .. Cardinality(S)) /\ Cardinality(1 .. Cardinality(S)) = Cardinality(S)
  BY <1>1, FS_Interval
<1>4. q \in Surjection(1 .. Cardinality(S), S)
  BY <1>2 DEF Surjection, ElementsOf
<1>5. q \in Injection(1 .. Cardinality(S), S)
  BY <1>3, <1>4, FS_SurjSameCardinalityImpliesInj
<1>6. q \in Seq(S)
  BY <1>1, <1>2
<1>7. Once(q)
  <2>1. \A a, b \in 1 .. Cardinality(S) : q[a] = q[b] => a = b
    BY <1>5 DEF Injection, IsInjective
  <2> QED
    BY <1>2, <2>1 DEF Once
<1> QED
  BY <1>2, <1>6, <1>7

LEMMA OnceCounts ==
  ASSUME NEW T, NEW q \in Seq(T), Once(q)
  PROVE  Cardinality(ElementsOf(q)) = Len(q)
<1>1. Len(q) \in Nat /\ DOMAIN q = 1 .. Len(q)
  OBVIOUS
<1>2. IsFiniteSet(1 .. Len(q)) /\ Cardinality(1 .. Len(q)) = Len(q)
  BY <1>1, FS_Interval
<1>3. q \in [1 .. Len(q) -> ElementsOf(q)]
  BY <1>1 DEF ElementsOf
<1>4. q \in Bijection(1 .. Len(q), ElementsOf(q))
  <2>1. q \in Injection(1 .. Len(q), ElementsOf(q))
    BY <1>1, <1>3 DEF Injection, IsInjective, Once
  <2>2. \A t \in ElementsOf(q) : \E i \in 1 .. Len(q) : q[i] = t
    BY <1>1 DEF ElementsOf
  <2> QED
    BY <1>3, <2>1, <2>2 DEF Bijection, Surjection
<1> QED
  BY <1>2, <1>4, FS_Bijection DEF ExistsBijection

LEMMA TailOnce ==
  ASSUME NEW T, NEW q \in Seq(T), q # <<>>, Once(q)
  PROVE  /\ Tail(q) \in Seq(T) /\ Once(Tail(q))
         /\ Head(q) \in ElementsOf(q) /\ Head(q) \in T
         /\ ElementsOf(Tail(q)) = ElementsOf(q) \ {Head(q)}
<1>1. /\ Tail(q) \in Seq(T) /\ DOMAIN Tail(q) = 1 .. Len(q) - 1 /\ DOMAIN q = 1 .. Len(q)
      /\ Len(q) \in Nat \ {0} /\ Head(q) = q[1] /\ q[1] \in T
      /\ \A i \in 1 .. Len(q) - 1 : Tail(q)[i] = q[i + 1]
  OBVIOUS
<1>2. Once(Tail(q))
  <2> SUFFICES ASSUME NEW i \in 1 .. Len(q) - 1, NEW j \in 1 .. Len(q) - 1, Tail(q)[i] = Tail(q)[j]
               PROVE  i = j
    BY <1>1 DEF Once
  <2>1. i + 1 \in DOMAIN q /\ j + 1 \in DOMAIN q /\ q[i + 1] = q[j + 1]
    BY <1>1
  <2>2. i + 1 = j + 1
    BY <2>1 DEF Once
  <2> QED
    BY <2>2
<1>3. ElementsOf(Tail(q)) \subseteq ElementsOf(q) \ {Head(q)}
  <2> SUFFICES ASSUME NEW i \in 1 .. Len(q) - 1
               PROVE  Tail(q)[i] \in ElementsOf(q) /\ Tail(q)[i] # Head(q)
    BY <1>1 DEF ElementsOf
  <2>1. i + 1 \in DOMAIN q /\ Tail(q)[i] = q[i + 1] /\ 1 \in DOMAIN q /\ i + 1 # 1
    BY <1>1
  <2> QED
    BY <1>1, <2>1 DEF Once, ElementsOf
<1>4. ElementsOf(q) \ {Head(q)} \subseteq ElementsOf(Tail(q))
  <2> SUFFICES ASSUME NEW i \in DOMAIN q, q[i] # Head(q) PROVE q[i] \in ElementsOf(Tail(q))
    BY DEF ElementsOf
  <2>1. i # 1
    BY <1>1
  <2>2. i - 1 \in 1 .. Len(q) - 1 /\ (i - 1) + 1 = i
    BY <1>1, <2>1
  <2>3. Tail(q)[i - 1] = q[i]
    BY <1>1, <2>2
  <2> QED
    BY <1>1, <2>2, <2>3 DEF ElementsOf
<1>5. Head(q) \in ElementsOf(q)
  <2>1. 1 \in DOMAIN q /\ q[1] = Head(q)
    BY <1>1
  <2> QED
    BY <2>1 DEF ElementsOf
<1>6. ElementsOf(Tail(q)) = ElementsOf(q) \ {Head(q)}
  BY <1>3, <1>4
<1> QED
  BY <1>1, <1>2, <1>5, <1>6

LEMMA JoinOnce ==
  ASSUME NEW T, NEW q \in Seq(T), NEW r \in Seq(T), Once(q), Once(r),
         ElementsOf(q) \cap ElementsOf(r) = {}
  PROVE  /\ q \o r \in Seq(T) /\ Once(q \o r)
         /\ ElementsOf(q \o r) = ElementsOf(q) \cup ElementsOf(r)
<1> DEFINE w == q \o r
<1>1. /\ w \in Seq(T) /\ Len(w) = Len(q) + Len(r) /\ Len(q) \in Nat /\ Len(r) \in Nat
      /\ DOMAIN w = 1 .. Len(w) /\ DOMAIN q = 1 .. Len(q) /\ DOMAIN r = 1 .. Len(r)
      /\ \A i \in 1 .. Len(q) : w[i] = q[i]
      /\ \A i \in 1 .. Len(r) : w[Len(q) + i] = r[i]
  OBVIOUS
<1> HIDE DEF w
<1>2. ASSUME NEW i \in DOMAIN w
      PROVE  \/ i \in DOMAIN q /\ w[i] = q[i] /\ w[i] \in ElementsOf(q)
             \/ /\ i - Len(q) \in DOMAIN r /\ w[i] = r[i - Len(q)]
                /\ w[i] \in ElementsOf(r) /\ i \notin DOMAIN q
  <2>1. CASE i <= Len(q)
    <3>1. i \in DOMAIN q /\ w[i] = q[i]
      BY <1>1, <2>1
    <3> QED
      BY <3>1 DEF ElementsOf
  <2>2. CASE i > Len(q)
    <3>1. i - Len(q) \in 1 .. Len(r) /\ Len(q) + (i - Len(q)) = i /\ i \notin DOMAIN q
      BY <1>1, <2>2
    <3>2. i - Len(q) \in DOMAIN r /\ w[i] = r[i - Len(q)]
      BY <1>1, <3>1
    <3> QED
      BY <3>1, <3>2 DEF ElementsOf
  <2> QED
    BY <1>1, <2>1, <2>2
<1>3. Once(w)
  <2> SUFFICES ASSUME NEW i \in DOMAIN w, NEW j \in DOMAIN w, w[i] = w[j] PROVE i = j
    BY DEF Once
  <2>1. CASE i \in DOMAIN q /\ j \in DOMAIN q
    BY <1>1, <2>1 DEF Once
  <2>2. CASE i \notin DOMAIN q /\ j \notin DOMAIN q
    <3>1. /\ i - Len(q) \in DOMAIN r /\ j - Len(q) \in DOMAIN r
          /\ r[i - Len(q)] = r[j - Len(q)]
      BY <1>2, <2>2
    <3>2. i - Len(q) = j - Len(q)
      BY <3>1 DEF Once
    <3> QED
      BY <1>1, <3>2
  <2>3. CASE ~(i \in DOMAIN q <=> j \in DOMAIN q)
    BY <1>2, <2>3
  <2> QED
    BY <2>1, <2>2, <2>3
<1>4. ElementsOf(w) \subseteq ElementsOf(q) \cup ElementsOf(r)
  BY <1>2 DEF ElementsOf
<1>5. ElementsOf(q) \cup ElementsOf(r) \subseteq ElementsOf(w)
  <2>1. ASSUME NEW i \in DOMAIN q PROVE q[i] \in ElementsOf(w)
    <3>1. i \in DOMAIN w /\ w[i] = q[i]
      BY <1>1
    <3> QED
      BY <3>1 DEF ElementsOf
  <2>2. ASSUME NEW i \in DOMAIN r PROVE r[i] \in ElementsOf(w)
    <3>1. Len(q) + i \in DOMAIN w /\ w[Len(q) + i] = r[i]
      BY <1>1
    <3> QED
      BY <3>1 DEF ElementsOf
  <2> QED
    BY <2>1, <2>2 DEF ElementsOf
<1> QED
  BY <1>1, <1>3, <1>4, <1>5 DEF w

-----------------------------------------------------------------------------
(* The rows of the sprint.                                                 *)
LEMMA RowsOfSprint ==
  ASSUME SortInputs
  PROVE  /\ Keys \subseteq Tickets
         /\ \A t : Blockers(t) \subseteq Tickets \ {t}
         /\ \A t : IsFiniteSet(Blockers(t) \ Sorted)
         /\ \A t, u : t \in Waiting(u) <=> u \in Blockers(t)
         /\ \A t, u : <<t, u>> \in Rows => u \in Blockers(t)
         /\ \A t, u : u \in Blockers(t) => <<t, u>> \in Rows /\ t \in Keys
<1>1. \A r \in Rows : /\ r = <<r[1], r[2]>> /\ r[1] \in Tickets /\ r[2] \in Tickets
                      /\ r[1] # r[2] /\ r[1] \in Keys
  BY DEF SortInputs, Rows, Keys
<1>2. Keys \subseteq Tickets
  BY <1>1 DEF Keys, SortInputs
<1>3. \A t, u : u \in Blockers(t) <=> <<t, u>> \in Rows
  BY <1>1 DEF Blockers
<1>4. \A t, u : t \in Waiting(u) <=> <<t, u>> \in Rows
  BY <1>1 DEF Waiting
<1>5. \A t : Blockers(t) \subseteq Tickets \ {t}
  BY <1>1 DEF Blockers
<1>6. \A t : Blockers(t) \ Sorted \in SUBSET Tickets
  BY <1>5
<1>7. \A t : IsFiniteSet(Blockers(t) \ Sorted)
  BY <1>6, TicketsAssumption, FS_Subset
<1>8. \A t, u : <<t, u>> \in Rows => t \in Keys
  BY DEF Keys
<1> QED
  BY <1>2, <1>3, <1>4, <1>5, <1>7, <1>8

(* A ticket does not block itself, so that its degree is less than the     *)
(* number of tickets.                                                      *)
LEMMA DegreeBound ==
  ASSUME NEW t \in Tickets, NEW B, B \subseteq Tickets \ {t}
  PROVE  Cardinality(B) \in 0 .. Cardinality(Tickets) - 1
<1>1. IsFiniteSet(Tickets \ {t}) /\ Cardinality(Tickets \ {t}) = Cardinality(Tickets) - 1
  BY TicketsAssumption, FS_RemoveElement
<1>2. B \in SUBSET (Tickets \ {t})
  OBVIOUS
<1>3. IsFiniteSet(B) /\ Cardinality(B) <= Cardinality(Tickets \ {t})
  BY <1>1, <1>2, FS_Subset
<1>4. Cardinality(B) \in Nat /\ Cardinality(Tickets \ {t}) \in Nat /\ Cardinality(Tickets) \in Nat
  BY <1>1, <1>3, TicketsAssumption, FS_CardinalityType
<1> QED
  BY <1>1, <1>3, <1>4

LEMMA DegreesTyped ==
  ASSUME SortInputs, DegreesLeft, NEW t \in Keys
  PROVE  inDegree[t] \in 0 .. Cardinality(Tickets) - 1
<1>1. t \in Tickets /\ Blockers(t) \ Sorted \subseteq Tickets \ {t}
  BY RowsOfSprint
<1> QED
  BY <1>1, DegreeBound DEF DegreesLeft

LEMMA SortInitKahn == SortInit => KahnInv
<1> SUFFICES ASSUME SortInit PROVE KahnInv
  OBVIOUS
<1>1. SortInputs
  BY DEF SortInit, SortInputs
<1>2. Sorted = {}
  BY DEF SortInit, Sorted, ElementsOf
<1>3. DOMAIN Degrees = Keys /\ \A t \in Keys : Degrees[t] = Cardinality(Blockers(t))
  BY DEF Degrees, Keys
<1>4. inDegree = Degrees /\ sorted = <<>>
  BY DEF SortInit
<1>5. DegreesLeft
  <2>1. \A t : Blockers(t) \ {} = Blockers(t)
    OBVIOUS
  <2> QED
    BY <1>2, <1>3, <1>4, <2>1 DEF DegreesLeft
<1> DEFINE Z == {t \in Keys : inDegree[t] = 0}
<1>6. queue \in Orders(Z)
  BY <1>3, <1>4 DEF SortInit
<1>7. IsFiniteSet(Z)
  <2>1. Z \in SUBSET Tickets
    BY <1>1, RowsOfSprint
  <2> HIDE DEF Z
  <2> QED
    BY <2>1, TicketsAssumption, FS_Subset
<1>8. queue \in Seq(Z) /\ Queued = Z /\ Once(queue)
  <2> HIDE DEF Z
  <2> QED
    BY <1>6, <1>7, OrderIsOnce DEF Queued
<1>9. SortTypeOK
  <2>1. \A t \in Keys : inDegree[t] \in 0 .. Cardinality(Tickets) - 1
    BY <1>1, <1>5, DegreesTyped
  <2>2. queue \in Seq(Keys) /\ sorted \in Seq(Keys)
    BY <1>4, <1>8
  <2> QED
    BY <1>3, <1>4, <2>1, <2>2 DEF SortTypeOK
<1>10. FreeAreOut /\ EachOnce /\ DependencyFirst
  BY <1>2, <1>4, <1>8 DEF FreeAreOut, EachOnce, Once, DependencyFirst
<1> QED
  BY <1>1, <1>5, <1>9, <1>10 DEF KahnInv

LEMMA TurnKahn == ASSUME KahnInv, Turn PROVE KahnInv'
<1> DEFINE node == Head(queue)
           F == Freed(inDegree', node)
<1>1. /\ SortInputs /\ DegreesLeft /\ FreeAreOut /\ EachOnce /\ DependencyFirst
      /\ DOMAIN inDegree = Keys /\ queue \in Seq(Keys) /\ sorted \in Seq(Keys)
      /\ queue # <<>>
  BY DEF KahnInv, SortTypeOK, Turn, Degrees, Keys
<1>2. /\ sorted' = Append(sorted, node)
      /\ inDegree' = [t \in Keys |-> IF t \in Waiting(node) THEN inDegree[t] - 1 ELSE inDegree[t]]
      /\ UNCHANGED <<graph, listed, later>>
  BY <1>1 DEF Turn, inputs
<1>3. PICK freed \in Orders(F) : queue' = Tail(queue) \o freed
  BY DEF Turn
<1>4. Keys' = Keys /\ SortInputs' /\ Rows' = Rows /\ \A t : Blockers(t)' = Blockers(t)
  BY <1>1, <1>2 DEF Keys, SortInputs, Rows, Blockers
<1>5. \A t, u : t \in Waiting(u) <=> u \in Blockers(t)
  BY <1>1, RowsOfSprint
<1>6. \A t : IsFiniteSet(Blockers(t) \ Sorted)
  BY <1>1, RowsOfSprint
<1>7. /\ Tail(queue) \in Seq(Keys) /\ Once(Tail(queue)) /\ node \in Queued /\ node \in Keys
      /\ ElementsOf(Tail(queue)) = Queued \ {node}
  BY <1>1, TailOnce DEF EachOnce, Queued
<1>8. node \notin Sorted /\ Blockers(node) \subseteq Sorted
  <2>1. inDegree[node] = 0 /\ node \notin Sorted
    BY <1>1, <1>7 DEF FreeAreOut, EachOnce
  <2>2. Blockers(node) \ Sorted = {}
    BY <1>1, <1>6, <1>7, <2>1, FS_EmptySet DEF DegreesLeft
  <2> QED
    BY <2>1, <2>2
<1> HIDE DEF node
<1>9. /\ Sorted' = Sorted \cup {node} /\ Once(sorted') /\ sorted' \in Seq(Keys)
  <2> DEFINE one == <<node>>
  <2>1. one \in Seq(Keys) /\ Once(one) /\ ElementsOf(one) = {node}
    BY <1>7 DEF Once, ElementsOf
  <2>2. sorted' = sorted \o one
    BY <1>1, <1>2
  <2> HIDE DEF one
  <2> QED
    BY <1>1, <1>8, <2>1, <2>2, JoinOnce DEF Sorted, EachOnce
<1>10. ASSUME NEW t \in Keys
       PROVE  /\ inDegree'[t] = Cardinality(Blockers(t) \ Sorted')
              /\ t \in Waiting(node) => inDegree[t] # 0
              /\ t \notin Waiting(node) => inDegree'[t] = inDegree[t]
  <2> DEFINE B == Blockers(t) \ Sorted
  <2>1. IsFiniteSet(B) /\ inDegree[t] = Cardinality(B)
    BY <1>1, <1>6 DEF DegreesLeft
  <2>2. Blockers(t) \ Sorted' = B \ {node}
    BY <1>9
  <2>3. t \in Waiting(node) <=> node \in B
    BY <1>5, <1>8
  <2> HIDE DEF B
  <2>4. Cardinality(B \ {node}) = IF node \in B THEN Cardinality(B) - 1 ELSE Cardinality(B)
    BY <2>1, FS_RemoveElement
  <2>5. node \in B => Cardinality(B) # 0
    BY <2>1, FS_EmptySet
  <2> QED
    BY <1>2, <2>1, <2>2, <2>3, <2>4, <2>5
<1>11. DegreesLeft'
  BY <1>4, <1>10 DEF DegreesLeft
<1>12. /\ F \subseteq Keys /\ F \cap (Sorted \cup Queued) = {}
       /\ \A t \in Keys : t \in F <=> t \in Waiting(node) /\ inDegree'[t] = 0
  <2>1. Waiting(node) \subseteq Keys
    BY <1>1, <1>5, RowsOfSprint
  <2> QED
    BY <1>1, <1>10, <2>1 DEF Freed, FreeAreOut
<1>13. /\ freed \in Seq(F) /\ ElementsOf(freed) = F /\ Once(freed)
  <2>1. IsFiniteSet(F)
    <3>1. F \in SUBSET Tickets
      BY <1>1, <1>12, RowsOfSprint
    <3> HIDE DEF F
    <3> QED
      BY <3>1, TicketsAssumption, FS_Subset
  <2> HIDE DEF F
  <2> QED
    BY <2>1, OrderIsOnce
<1> HIDE DEF F
<1>14. /\ queue' \in Seq(Keys) /\ Once(queue') /\ Queued' = (Queued \ {node}) \cup F
  <2>1. freed \in Seq(Keys)
    BY <1>12, <1>13
  <2>2. ElementsOf(Tail(queue)) \cap ElementsOf(freed) = {}
    BY <1>7, <1>12, <1>13
  <2> QED
    <3> DEFINE rest == Tail(queue)
    <3>1. /\ rest \in Seq(Keys) /\ Once(rest) /\ ElementsOf(rest) = Queued \ {node}
          /\ queue' = rest \o freed /\ ElementsOf(rest) \cap ElementsOf(freed) = {}
      BY <1>3, <1>7, <2>2
    <3> HIDE DEF rest
    <3>2. /\ rest \o freed \in Seq(Keys) /\ Once(rest \o freed)
          /\ ElementsOf(rest \o freed) = ElementsOf(rest) \cup ElementsOf(freed)
      BY <1>13, <2>1, <3>1, JoinOnce
    <3>3. Queued' = ElementsOf(queue')
      BY DEF Queued, ElementsOf
    <3> QED
      BY <1>13, <3>1, <3>2, <3>3
<1>15. EachOnce'
  BY <1>1, <1>9, <1>12, <1>14, <1>7 DEF EachOnce
<1>16. FreeAreOut'
  <2> SUFFICES ASSUME NEW t \in Keys PROVE inDegree'[t] = 0 <=> t \in Sorted' \cup Queued'
    BY <1>4 DEF FreeAreOut
  <2>1. t \in Sorted' \cup Queued' <=> t \in Sorted \cup Queued \/ t \in F
    BY <1>7, <1>9, <1>14
  <2>2. inDegree[t] = 0 <=> t \in Sorted \cup Queued
    BY <1>1 DEF FreeAreOut
  <2> QED
    BY <1>10, <1>12, <2>1, <2>2
<1>17. DependencyFirst'
  <2>1. /\ Len(sorted) \in Nat /\ DOMAIN sorted = 1 .. Len(sorted)
        /\ DOMAIN sorted' = 1 .. Len(sorted) + 1
        /\ \A i \in 1 .. Len(sorted) : sorted'[i] = sorted[i]
        /\ sorted'[Len(sorted) + 1] = node
    BY <1>1, <1>2
  <2>2. ASSUME NEW i \in DOMAIN sorted'
        PROVE  Blockers(sorted'[i]) \subseteq {sorted'[j] : j \in 1 .. i - 1}
    <3>1. CASE i \in DOMAIN sorted
      <4>1. Blockers(sorted[i]) \subseteq {sorted[j] : j \in 1 .. i - 1}
        BY <1>1, <3>1 DEF DependencyFirst
      <4>2. \A j \in 1 .. i - 1 : sorted[j] = sorted'[j]
        BY <2>1, <3>1
      <4>3. sorted'[i] = sorted[i]
        BY <2>1, <3>1
      <4> QED
        BY <4>1, <4>2, <4>3
    <3>2. CASE i = Len(sorted) + 1
      <4>1. i - 1 = Len(sorted) /\ \A j \in 1 .. Len(sorted) : sorted[j] = sorted'[j]
        BY <2>1, <3>2
      <4>2. Sorted \subseteq {sorted'[j] : j \in 1 .. Len(sorted)}
        BY <2>1, <4>1 DEF Sorted, ElementsOf
      <4> QED
        BY <1>8, <2>1, <3>2, <4>1, <4>2
    <3> QED
      BY <2>1, <3>1, <3>2
  <2> QED
    BY <1>4, <1>9, <2>2 DEF DependencyFirst, Once
<1>18. SortTypeOK'
  <2>1. \A t \in Keys : inDegree'[t] \in 0 .. Cardinality(Tickets) - 1
    <3> SUFFICES ASSUME NEW t \in Keys
                 PROVE  Cardinality(Blockers(t) \ Sorted') \in 0 .. Cardinality(Tickets) - 1
      BY <1>10
    <3>1. t \in Tickets /\ Blockers(t) \ Sorted' \subseteq Tickets \ {t}
      BY <1>1, RowsOfSprint
    <3> QED
      BY <3>1, DegreeBound
  <2>2. DOMAIN inDegree' = Keys /\ DOMAIN Degrees' = Keys
    BY <1>2, <1>4 DEF Degrees, Keys
  <2> QED
    BY <1>9, <1>14, <2>1, <2>2 DEF SortTypeOK
<1> QED
  BY <1>4, <1>11, <1>15, <1>16, <1>17, <1>18 DEF KahnInv

LEMMA SortInvariance == SortSpec => []KahnInv
<1>1. KahnInv /\ [Turn]_sortVars => KahnInv'
  <2>1. ASSUME KahnInv, UNCHANGED sortVars PROVE KahnInv'
    <3>1. UNCHANGED <<graph, listed, later, inDegree, queue, sorted>>
      BY <2>1 DEF sortVars, inputs
    <3>2. /\ Rows' = Rows /\ Keys' = Keys /\ Sorted' = Sorted /\ Queued' = Queued
          /\ \A t : Blockers(t)' = Blockers(t)
      BY <3>1 DEF Rows, Keys, Sorted, Queued, ElementsOf, Blockers
    <3>3. SortInputs' /\ EachOnce'
      BY <2>1, <3>1, <3>2 DEF KahnInv, SortInputs, EachOnce, Once
    <3>4. DegreesLeft' /\ FreeAreOut'
      BY <2>1, <3>1, <3>2 DEF KahnInv, DegreesLeft, FreeAreOut
    <3>5. DependencyFirst'
      BY <2>1, <3>1, <3>2 DEF KahnInv, DependencyFirst
    <3>6. DOMAIN Degrees = Keys /\ DOMAIN Degrees' = Keys
      BY <3>2 DEF Degrees, Keys
    <3>7. SortTypeOK'
      BY <2>1, <3>1, <3>6 DEF KahnInv, SortTypeOK
    <3> QED
      BY <3>3, <3>4, <3>5, <3>7 DEF KahnInv
  <2> QED
    BY <2>1, TurnKahn
<1> QED
  BY <1>1, SortInitKahn, PTL DEF SortSpec

(* Whatever the graph, the sprint and the orders of rows and map keys, and *)
(* whatever was created or deleted between the two queries: each sorted    *)
(* ticket comes once and after all its blockers, and no degree is negative.*)
THEOREM SortInvHolds == SortSpec => []SortInv
<1>1. KahnInv => SortInv
  BY DEF KahnInv, SortInv
<1> QED
  BY <1>1, SortInvariance, PTL

-----------------------------------------------------------------------------
(* What is sorted in dependency order has no cycle: of the members of a    *)
(* set the one sorted first waits for none of the others.                  *)
LEMMA OrderedIsAcyclic ==
  ASSUME KahnInv, Keys \subseteq Sorted
  PROVE  Acyclic(Rows)
<1> SUFFICES ASSUME NEW S \in (SUBSET Tickets) \ {{}}
             PROVE  \E t \in S : \A u \in S : <<t, u>> \notin Rows
  BY DEF Acyclic
<1>1. SortInputs /\ DependencyFirst /\ sorted \in Seq(Keys)
  BY DEF KahnInv, SortTypeOK, Degrees, Keys
<1>2. \A t, u : <<t, u>> \in Rows => u \in Blockers(t) /\ t \in Sorted
  BY <1>1, RowsOfSprint
<1>3. CASE S \cap Sorted = {}
  <2>0. S # {}
    OBVIOUS
  <2>1. PICK t \in S : t \notin Sorted
    BY <1>3, <2>0
  <2> QED
    BY <1>2, <2>1
<1>4. CASE S \cap Sorted # {}
  <2> DEFINE U == {i \in DOMAIN sorted : sorted[i] \in S}
  <2>1. U \in SUBSET Nat /\ U # {}
    BY <1>1, <1>4 DEF Sorted, ElementsOf
  <2>2. PICK i \in U : \A k \in U : i <= k
    <3> HIDE DEF U
    <3> QED
      BY <2>1, LeastNatural
  <2>3. ASSUME NEW u \in S, <<sorted[i], u>> \in Rows PROVE FALSE
    <3>1. u \in Blockers(sorted[i])
      BY <1>2, <2>3
    <3>2. PICK j \in 1 .. i - 1 : u = sorted[j]
      BY <1>1, <2>2, <3>1 DEF DependencyFirst
    <3>3. j \in DOMAIN sorted /\ j \in Nat /\ i \in Nat /\ ~ (i <= j)
      BY <1>1, <2>2
    <3>4. j \in U
      BY <3>2, <3>3
    <3> QED
      BY <2>2, <3>3, <3>4
  <2> QED
    BY <2>2, <2>3
<1> QED
  BY <1>3, <1>4

(* A ticket that is left over when the queue is empty waits for another    *)
(* that is left over, or for one outside the sprint.                       *)
LEMMA LeftOverWaits ==
  ASSUME KahnInv, Finished, listed = later, ~ (listed \subseteq Sorted)
  PROVE  ~Acyclic(Rows) \/ \E r \in Rows : r[2] \notin listed
<1> DEFINE R == listed \ Sorted
<1> SUFFICES ASSUME Acyclic(Rows), \A r \in Rows : r[2] \in listed PROVE FALSE
  OBVIOUS
<1>1. SortInputs /\ DegreesLeft /\ FreeAreOut /\ listed \subseteq Keys
  BY DEF KahnInv, Keys
<1>2. R \in (SUBSET Tickets) \ {{}}
  <2>1. PICK t \in listed : t \notin Sorted
    OBVIOUS
  <2>2. listed \subseteq Tickets
    BY <1>1 DEF SortInputs
  <2>3. R # {}
    BY <2>1
  <2>4. R \in SUBSET Tickets
    BY <2>2
  <2> QED
    BY <2>3, <2>4
<1>3. PICK t \in R : \A u \in R : <<t, u>> \notin Rows
  <2> HIDE DEF R
  <2> QED
    BY <1>2 DEF Acyclic
<1>4. inDegree[t] # 0
  <2>1. Queued = {}
    BY DEF Finished, Queued, ElementsOf
  <2> QED
    BY <1>1, <2>1 DEF FreeAreOut
<1>5. Blockers(t) \ Sorted # {}
  BY <1>1, <1>4, FS_EmptySet DEF DegreesLeft
<1>6. PICK u : u \in Blockers(t) /\ u \notin Sorted
  BY <1>5
<1>7. <<t, u>> \in Rows
  BY <1>1, <1>6, RowsOfSprint
<1>8. u \in R
  BY <1>6, <1>7
<1> QED
  BY <1>3, <1>7, <1>8

(* The count tells whether every ticket was sorted.                        *)
LEMMA CountIsExact ==
  ASSUME KahnInv, listed = later
  PROVE  Len(sorted) # Cardinality(listed) <=> ~ (listed \subseteq Sorted)
<1>1. Keys = listed
  BY DEF Keys, Rows
<1>2. sorted \in Seq(listed) /\ Once(sorted) /\ listed \in SUBSET Tickets
  BY <1>1 DEF KahnInv, SortTypeOK, Degrees, Keys, EachOnce, SortInputs
<1>3. Len(sorted) = Cardinality(Sorted)
  BY <1>2, OnceCounts DEF Sorted
<1>4. Sorted \in SUBSET listed
  BY <1>2 DEF Sorted, ElementsOf
<1>5. IsFiniteSet(listed)
  BY <1>2, TicketsAssumption, FS_Subset
<1>6. Cardinality(listed) = Cardinality(Sorted) => listed = Sorted
  BY <1>4, <1>5, FS_Subset
<1>7. listed \subseteq Sorted => listed = Sorted
  BY <1>4
<1> QED
  BY <1>3, <1>6, <1>7

(* The count at the end reports a cycle exactly when the rows have one or  *)
(* a dependency leaves the sprint, for graphs of any size.                 *)
THEOREM ReportIsExactHolds == SortSpec => []ReportIsExact
<1>1. ASSUME KahnInv PROVE ReportIsExact
  <2> SUFFICES ASSUME Finished, listed = later
               PROVE  CycleReported <=> ~Acyclic(Rows) \/ \E r \in Rows : r[2] \notin listed
    BY DEF ReportIsExact
  <2>1. CycleReported <=> ~ (listed \subseteq Sorted)
    BY <1>1, CountIsExact DEF CycleReported
  <2>2. CASE listed \subseteq Sorted
    <3>1. Keys = listed
      BY DEF Keys, Rows
    <3>2. Acyclic(Rows)
      BY <1>1, <2>2, <3>1, OrderedIsAcyclic
    <3>3. ASSUME NEW r \in Rows PROVE r[2] \in listed
      <4>1. SortInputs /\ DependencyFirst /\ sorted \in Seq(listed)
        BY <1>1, <3>1 DEF KahnInv, SortTypeOK, Degrees, Keys
      <4>2. r = <<r[1], r[2]>> /\ r[1] \in listed
        BY <4>1 DEF SortInputs, Rows
      <4>3. r[2] \in Blockers(r[1]) /\ r[1] \in Sorted
        BY <2>2, <4>1, <4>2, RowsOfSprint
      <4>4. PICK i \in DOMAIN sorted : r[1] = sorted[i]
        BY <4>3 DEF Sorted, ElementsOf
      <4>5. PICK j \in 1 .. i - 1 : r[2] = sorted[j]
        BY <4>1, <4>3, <4>4 DEF DependencyFirst
      <4>6. j \in DOMAIN sorted
        BY <4>1
      <4> QED
        BY <4>1, <4>5, <4>6
    <3> QED
      BY <2>1, <2>2, <3>2, <3>3
  <2>3. CASE ~ (listed \subseteq Sorted)
    BY <1>1, <2>1, <2>3, LeftOverWaits
  <2> QED
    BY <2>2, <2>3
<1>2. KahnInv => ReportIsExact
  BY <1>1
<1> QED
  BY <1>2, SortInvariance, PTL
=============================================================================
