-------------------------- MODULE SupervisorProofs --------------------------
(***************************************************************************)
(* That Runs exclude one another and end only when they should, and what   *)
(* the delays between restarts are, for any services, callers and exits.   *)
(*                                                                         *)
(* The flag is raised exactly while one Run is between its start and its   *)
(* end, loops belong to that Run, and a service's loop goes only with the  *)
(* context.  A delay is that of the restarts it comes after.               *)
(***************************************************************************)
EXTENDS Supervisor, NaturalLemmas

Typed ==
  /\ registered \subseteq Services
  /\ pc \in [Runners -> {"idle", "run", "leave", "returned", "refused"}]
  /\ cancelled \in [Runners -> BOOLEAN]
  /\ mine \in [Runners -> SUBSET Services]
  /\ loop \in [Runners -> [Services -> {"off", "check", "up", "failed", "finished", "backoff"}]]

Inside(r) == pc[r] \in {"run", "leave"}

FlagHeld == \A r \in Runners : Inside(r) => running = TRUE

AloneInside == \A q, r \in Runners : Inside(q) /\ Inside(r) => q = r

(* The loops of a Run that is not cancelled are all there.                 *)
LoopsStay ==
  \A r \in Runners : pc[r] = "run" /\ ~cancelled[r] => \A s \in mine[r] : loop[r][s] # "off"

IInv ==
  /\ Typed /\ FlagHeld /\ AloneInside
  /\ NothingLeftBehind /\ LoopsStay /\ RunsUntilCancelled

LEMMA InitIInv == Init => IInv
  BY DEF Init, IInv, Typed, FlagHeld, AloneInside, Inside, NothingLeftBehind, LoopsStay,
         RunsUntilCancelled

LEMMA RunKeeps == ASSUME IInv, NEW r \in Runners, Run(r) PROVE IInv'
<1> USE DEF IInv
<1>1. CASE running
  <2>1. /\ pc' = [pc EXCEPT ![r] = "refused"] /\ pc[r] = "idle"
        /\ UNCHANGED <<registered, running, cancelled, mine, loop>>
    BY <1>1 DEF Run
  <2> QED
    BY <2>1 DEF Typed, FlagHeld, AloneInside, Inside, NothingLeftBehind, LoopsStay,
                RunsUntilCancelled
<1>2. CASE ~running
  <2>1. /\ pc' = [pc EXCEPT ![r] = "run"] /\ pc[r] = "idle" /\ running' = TRUE
        /\ mine' = [mine EXCEPT ![r] = registered]
        /\ loop' = [loop EXCEPT ![r] =
                      [s \in Services |-> IF s \in registered THEN "check" ELSE "off"]]
        /\ UNCHANGED <<registered, cancelled>>
    BY <1>2 DEF Run
  <2>2. Typed'
    BY <2>1 DEF Typed
  <2>3. \A q \in Runners : ~Inside(q)
    BY <1>2 DEF FlagHeld
  <2>4. FlagHeld' /\ AloneInside'
    BY <2>1, <2>3 DEF Typed, FlagHeld, AloneInside, Inside
  <2>5. NothingLeftBehind'
    BY <2>1 DEF Typed, NothingLeftBehind
  <2>6. LoopsStay'
    BY <2>1, <2>3 DEF Typed, LoopsStay, Inside
  <2>7. RunsUntilCancelled'
    BY <2>1 DEF Typed, RunsUntilCancelled
  <2> QED
    BY <2>2, <2>4, <2>5, <2>6, <2>7
<1> QED
  BY <1>1, <1>2

(* Wait returns only when every loop is gone, and they stay until the      *)
(* context is cancelled.                                                   *)
LEMMA WaitKeeps == ASSUME IInv, NEW r \in Runners, WaitReturns(r) PROVE IInv'
<1> USE DEF IInv
<1>1. /\ pc' = [pc EXCEPT ![r] = "leave"] /\ pc[r] = "run"
      /\ \A s \in Services : loop[r][s] = "off"
      /\ UNCHANGED <<registered, running, cancelled, mine, loop>>
  BY DEF WaitReturns, GroupDone
<1>2. cancelled[r] \/ mine[r] = {}
  BY <1>1 DEF LoopsStay, Typed
<1>3. RunsUntilCancelled'
  BY <1>1, <1>2 DEF Typed, RunsUntilCancelled
<1> QED
  BY <1>1, <1>3 DEF Typed, FlagHeld, AloneInside, Inside, NothingLeftBehind, LoopsStay

LEMMA LeaveKeeps == ASSUME IInv, NEW r \in Runners, Leave(r) PROVE IInv'
<1> USE DEF IInv
<1>1. /\ pc' = [pc EXCEPT ![r] = "returned"] /\ pc[r] = "leave" /\ running' = FALSE
      /\ UNCHANGED <<registered, cancelled, mine, loop>>
  BY DEF Leave
<1>2. \A q \in Runners : Inside(q) => q = r
  BY <1>1 DEF AloneInside, Inside
<1> QED
  BY <1>1, <1>2 DEF Typed, FlagHeld, AloneInside, Inside, NothingLeftBehind, LoopsStay,
                    RunsUntilCancelled

LEMMA CallerKeeps ==
  ASSUME IInv, NEW r \in Runners, CallAgain(r) \/ Cancel(r) \/ ProbeEnds(r) PROVE IInv'
<1> USE DEF IInv
<1>1. CASE CallAgain(r)
  BY <1>1 DEF CallAgain, Typed, FlagHeld, AloneInside, Inside, NothingLeftBehind, LoopsStay,
              RunsUntilCancelled
<1>2. CASE Cancel(r)
  BY <1>2 DEF Cancel, Typed, FlagHeld, AloneInside, Inside, NothingLeftBehind, LoopsStay,
              RunsUntilCancelled
<1>3. CASE ProbeEnds(r)
  BY <1>3 DEF ProbeEnds, Typed, FlagHeld, AloneInside, Inside, NothingLeftBehind, LoopsStay,
              RunsUntilCancelled
<1> QED
  BY <1>1, <1>2, <1>3

(* A loop's move: it stays in its Run, and goes only under a cancelled     *)
(* context.                                                                *)
LEMMA LoopKeeps ==
  ASSUME IInv, NEW r \in Runners, NEW s \in Services,
         NEW from \in {"check", "up", "failed", "finished", "backoff"},
         NEW to \in {"off", "check", "up", "failed", "finished", "backoff"},
         At(r, s, from, to), to = "off" => cancelled[r]
  PROVE  IInv'
<1> USE DEF IInv
<1>1. /\ loop[r][s] = from /\ loop' = [loop EXCEPT ![r][s] = to]
      /\ UNCHANGED <<registered, running, pc, cancelled, mine>>
  BY DEF At
<1>2. pc[r] = "run"
  BY <1>1 DEF NothingLeftBehind
<1>3. Typed'
  BY <1>1 DEF Typed
<1>4. NothingLeftBehind'
  BY <1>1, <1>2 DEF Typed, NothingLeftBehind
<1>5. LoopsStay'
  BY <1>1 DEF Typed, LoopsStay
<1> QED
  BY <1>1, <1>3, <1>4, <1>5 DEF FlagHeld, AloneInside, Inside, RunsUntilCancelled

LEMMA LoopMoves ==
  ASSUME IInv, NEW r \in Runners, NEW s \in Services, LoopStep(r, s) \/ Exit(r, s)
  PROVE  IInv'
<1>1. CASE Start(r, s)
  <2>1. CASE cancelled[r]
    <3>1. At(r, s, "check", "off")
      BY <1>1, <2>1 DEF Start
    <3> QED
      BY <2>1, <3>1, LoopKeeps
  <2>2. CASE ~cancelled[r]
    <3>1. At(r, s, "check", "up")
      BY <1>1, <2>2 DEF Start
    <3> QED
      BY <3>1, LoopKeeps
  <2> QED
    BY <2>1, <2>2
<1>2. CASE Schedule(r, s)
  <2>1. loop[r][s] \in {"failed", "finished"} /\ At(r, s, loop[r][s], "backoff")
    BY <1>2 DEF Schedule, Returned
  <2> QED
    BY <2>1, LoopKeeps
<1>3. CASE Wake(r, s)
  <2>1. At(r, s, "backoff", "check")
    BY <1>3 DEF Wake
  <2> QED
    BY <2>1, LoopKeeps
<1>4. CASE SeeCancel(r, s)
  <2>1. /\ cancelled[r] /\ loop[r][s] \in {"failed", "finished", "backoff"}
        /\ At(r, s, loop[r][s], "off")
    BY <1>4 DEF SeeCancel
  <2> QED
    BY <2>1, LoopKeeps
<1>5. CASE Exit(r, s)
  <2>1. At(r, s, "up", "failed") \/ At(r, s, "up", "finished")
    BY <1>5 DEF Exit
  <2> QED
    BY <2>1, LoopKeeps
<1> QED
  BY <1>1, <1>2, <1>3, <1>4, <1>5 DEF LoopStep

LEMMA StepKeeps == IInv /\ [Next]_vars => IInv'
<1> SUFFICES ASSUME IInv, [Next]_vars PROVE IInv'
  OBVIOUS
<1>1. ASSUME NEW s \in Services, Register(s) PROVE IInv'
  BY <1>1 DEF Register, IInv, Typed, FlagHeld, AloneInside, Inside, NothingLeftBehind,
              LoopsStay, RunsUntilCancelled
<1>2. ASSUME NEW r \in Runners,
             Run(r) \/ ProbeEnds(r) \/ WaitReturns(r) \/ Leave(r) \/ CallAgain(r) \/ Cancel(r)
      PROVE  IInv'
  BY <1>2, RunKeeps, WaitKeeps, LeaveKeeps, CallerKeeps
<1>3. ASSUME NEW r \in Runners, NEW s \in Services, LoopStep(r, s) \/ Exit(r, s) PROVE IInv'
  BY <1>3, LoopMoves
<1>4. CASE UNCHANGED vars
  BY <1>4 DEF vars, IInv, Typed, FlagHeld, AloneInside, Inside, NothingLeftBehind,
              LoopsStay, RunsUntilCancelled
<1> QED
  BY <1>1, <1>2, <1>3, <1>4 DEF Next

LEMMA AlwaysIInv == Spec => []IInv
  BY InitIInv, StepKeeps, PTL DEF Spec

(* No service is run by two Runs at the same time.                         *)
THEOREM ServicesRunOnce == Spec => []OneLifeAtATime
<1>1. IInv => OneLifeAtATime
  BY DEF IInv, AloneInside, Inside, NothingLeftBehind, OneLifeAtATime
<1> QED
  BY <1>1, AlwaysIInv, PTL

-----------------------------------------------------------------------------
(* computeBackoff.  The delays are a recursion over the ones there are.    *)
Delays == 1 .. MaxDelay
Doubled == [d \in Delays |-> Capped(2 * d)]

LEMMA BackoffRecurs == IsRecursion(Backoff, Delays, 1, Doubled)
<1>1. 1 \in Delays /\ Doubled \in [Delays -> Delays]
  BY DEF Delays, Doubled, Capped, MaxDelay
<1>2. PICK g : IsRecursion(g, Delays, 1, Doubled)
  BY <1>1, RecursionExists
<1>3. /\ g \in [Nat -> Delays] /\ g[0] = 1
      /\ \A n \in Nat \ {0} : g[n] = Doubled[g[n - 1]]
  BY <1>2 DEF IsRecursion
<1> DEFINE Recurs(f) == f = [n \in Nat |-> IF n = 0 THEN 1 ELSE Capped(2 * f[n - 1])]
<1>4. Recurs(g)
  <2>1. \A n \in Nat \ {0} : g[n - 1] \in Delays
    BY <1>3
  <2> QED
    BY <1>3, <2>1 DEF Doubled
<1>5. Recurs(Backoff)
  BY <1>4 DEF Backoff
<1>6. DOMAIN Backoff = Nat /\ Backoff[0] = 1
  BY <1>5
<1>7. ASSUME NEW n \in Nat \ {0} PROVE Backoff[n] = Capped(2 * Backoff[n - 1])
  <2> HIDE DEF Backoff
  <2> QED
    BY <1>5
<1>8. ASSUME NEW n \in Nat \ {0}, Backoff[n - 1] \in Delays
      PROVE  Backoff[n] \in Delays /\ Backoff[n] = Doubled[Backoff[n - 1]]
  BY <1>7, <1>8 DEF Delays, Doubled, Capped, MaxDelay
<1> DEFINE U == {n \in Nat : Backoff[n] \notin Delays}
<1>9. U = {}
  <2> SUFFICES ASSUME U # {} PROVE FALSE
    OBVIOUS
  <2>1. PICK m \in U : \A k \in U : m <= k
    <3>1. U \in SUBSET Nat
      OBVIOUS
    <3> HIDE DEF U
    <3> QED
      BY <3>1, LeastNatural
  <2>2. m \in Nat \ {0}
    BY <1>1, <1>6
  <2>3. m - 1 \in Nat /\ m - 1 \notin U
    BY <2>1, <2>2
  <2> QED
    BY <1>8, <2>2, <2>3
<1>10. \A n \in Nat : Backoff[n] \in Delays
  BY <1>9
<1>11. \A n \in Nat \ {0} : n - 1 \in Nat
  OBVIOUS
<1>12. Backoff = [n \in Nat |-> Backoff[n]]
  <2> HIDE DEF Backoff
  <2> QED
    BY <1>5
<1> HIDE DEF Recurs
<1>13. Backoff \in [Nat -> Delays]
  BY <1>10, <1>12
<1> QED
  BY <1>6, <1>8, <1>10, <1>11, <1>13 DEF IsRecursion

(* The first delay is a second, each next one twice the last up to         *)
(* MaxDelay, and none is longer.                                           *)
LEMMA DelaysAre ==
  /\ Backoff[0] = 1
  /\ \A n \in Nat : Backoff[n] \in 1 .. MaxDelay
  /\ \A n \in Nat \ {0} :
       Backoff[n] = IF 2 * Backoff[n - 1] > MaxDelay THEN MaxDelay ELSE 2 * Backoff[n - 1]
<1>1. /\ Backoff \in [Nat -> Delays] /\ Backoff[0] = 1
      /\ \A n \in Nat \ {0} : Backoff[n] = Doubled[Backoff[n - 1]]
  BY BackoffRecurs DEF IsRecursion
<1>2. ASSUME NEW n \in Nat \ {0}
      PROVE  Backoff[n] = IF 2 * Backoff[n - 1] > MaxDelay THEN MaxDelay ELSE 2 * Backoff[n - 1]
  <2>1. n - 1 \in Nat
    OBVIOUS
  <2>2. Backoff[n] = Doubled[Backoff[n - 1]] /\ Backoff[n - 1] \in Delays
    BY <1>1, <2>1
  <2> QED
    BY <2>2 DEF Doubled, Delays, Capped, MaxDelay
<1> QED
  BY <1>1, <1>2 DEF Delays

-----------------------------------------------------------------------------
(* restarts and delay say the same: a service that was put off k times in  *)
(* a row waited last for the k-th of the delays.                           *)
DelayFollows ==
  \A s \in Services : delay[s] = IF restarts[s] = 0 THEN 0 ELSE Backoff[restarts[s] - 1]

DelayInv == TypeOK /\ DelayFollows

LEMMA InitDelayInv == Init => DelayInv
<1> SUFFICES ASSUME Init PROVE DelayInv
  OBVIOUS
<1>1. 0 \in 0..MaxExits /\ 0 \in 0..MaxDelay
  BY SupervisorAssumption DEF MaxDelay
<1>2. restarts \in [Services -> Nat] /\ delay \in [Services -> 0..MaxDelay] /\ DelayFollows
  <2> HIDE DEF Backoff
  <2> QED
    BY <1>1 DEF Init, DelayFollows
<1>3. lasted \in [Services -> BOOLEAN] /\ running \in BOOLEAN
  BY DEF Init
<1> QED
  BY <1>1, <1>2, <1>3 DEF Init, DelayInv, TypeOK

(* What a Run and its caller do leaves what is known of the services.      *)
LEMMA CallerDelay ==
  ASSUME DelayInv, NEW r \in Runners,
         Run(r) \/ ProbeEnds(r) \/ WaitReturns(r) \/ Leave(r) \/ CallAgain(r) \/ Cancel(r)
  PROVE  DelayInv'
<1>1. UNCHANGED <<lasted, restarts, delay, exits>>
  BY DEF Run, ProbeEnds, WaitReturns, Leave, CallAgain, Cancel, health
<1>2. /\ registered' \subseteq Services /\ running' \in BOOLEAN
      /\ mine' \in [Runners -> SUBSET registered']
      /\ probe' \in [Runners -> {"off", "up"}]
      /\ cancelled' \in [Runners -> BOOLEAN]
      /\ pc' \in [Runners -> {"idle", "run", "leave", "returned", "refused"}]
      /\ loop' \in [Runners -> [Services -> {"off", "check", "up", "failed", "finished", "backoff"}]]
  <2>1. CASE Run(r)
    <3>1. /\ running \in BOOLEAN /\ probe \in [Runners -> {"off", "up"}]
          /\ mine \in [Runners -> SUBSET registered] /\ registered \subseteq Services
      BY DEF DelayInv, TypeOK
    <3>2. running' \in BOOLEAN
      BY <2>1, <3>1 DEF Run
    <3>3. probe' \in [Runners -> {"off", "up"}]
      BY <2>1, <3>1 DEF Run
    <3>4. mine' \in [Runners -> SUBSET registered]
      BY <2>1, <3>1 DEF Run
    <3>5. loop' \in [Runners -> [Services -> {"off", "check", "up", "failed", "finished", "backoff"}]]
      <4> DEFINE fresh == [s \in Services |-> IF s \in registered THEN "check" ELSE "off"]
      <4>1. loop' \in {loop, [loop EXCEPT ![r] = fresh]}
        BY <2>1 DEF Run
      <4>2. fresh \in [Services -> {"off", "check", "up", "failed", "finished", "backoff"}]
        OBVIOUS
      <4> HIDE DEF fresh
      <4> QED
        BY <4>1, <4>2 DEF DelayInv, TypeOK
    <3>6. pc' \in [Runners -> {"idle", "run", "leave", "returned", "refused"}]
      <4>1. pc' \in {[pc EXCEPT ![r] = "run"], [pc EXCEPT ![r] = "refused"]}
        BY <2>1 DEF Run
      <4> QED
        BY <4>1 DEF DelayInv, TypeOK
    <3> QED
      BY <2>1, <3>1, <3>2, <3>3, <3>4, <3>5, <3>6 DEF Run, DelayInv, TypeOK
  <2>2. CASE ProbeEnds(r)
    BY <2>2 DEF ProbeEnds, DelayInv, TypeOK
  <2>3. CASE WaitReturns(r)
    BY <2>3 DEF WaitReturns, DelayInv, TypeOK
  <2>4. CASE Leave(r)
    BY <2>4 DEF Leave, DelayInv, TypeOK
  <2>5. CASE CallAgain(r)
    BY <2>5 DEF CallAgain, DelayInv, TypeOK
  <2>6. CASE Cancel(r)
    BY <2>6 DEF Cancel, DelayInv, TypeOK
  <2> QED
    BY <2>1, <2>2, <2>3, <2>4, <2>5, <2>6
<1> QED
  BY <1>1, <1>2 DEF DelayInv, TypeOK, DelayFollows

LEMMA LoopTyped ==
  ASSUME DelayInv, NEW r \in Runners, NEW s \in Services,
         NEW from, NEW to \in {"off", "check", "up", "failed", "finished", "backoff"},
         At(r, s, from, to),
         lasted' \in [Services -> BOOLEAN], restarts' \in [Services -> Nat],
         delay' \in [Services -> 0..MaxDelay], exits' \in 0..MaxExits, DelayFollows'
  PROVE  DelayInv'
  BY DEF At, DelayInv, TypeOK

(* The delay of a service is set from its counter as the counter grows.    *)
LEMMA ScheduleSets ==
  ASSUME DelayInv, NEW r \in Runners, NEW s \in Services, Schedule(r, s)
  PROVE  \E long \in BOOLEAN :
           /\ restarts' = [restarts EXCEPT ![s] = Counted(s, long) + 1]
           /\ delay' = [delay EXCEPT ![s] = Backoff[Counted(s, long)]]
           /\ Counted(s, long) \in Nat
           /\ restarts'[s] = Counted(s, long) + 1 /\ delay'[s] = Backoff[Counted(s, long)]
           /\ lasted' \in [Services -> BOOLEAN] /\ lasted'[s] = long
           /\ At(r, s, loop[r][s], "backoff") /\ UNCHANGED exits
<1> HIDE DEF Backoff
<1>1. PICK long \in BOOLEAN :
        /\ lasted' = [lasted EXCEPT ![s] = long]
        /\ restarts' = [restarts EXCEPT ![s] = Counted(s, long) + 1]
        /\ delay' = [delay EXCEPT ![s] = Backoff[Counted(s, long)]]
  BY DEF Schedule
<1>2. Counted(s, long) \in Nat
  BY DEF Counted, DelayInv, TypeOK
<1>3. lasted \in [Services -> BOOLEAN]
  BY DEF DelayInv, TypeOK
<1>4. lasted' \in [Services -> BOOLEAN] /\ lasted'[s] = long
  BY <1>1, <1>3, Zenon
<1>5. restarts'[s] = Counted(s, long) + 1 /\ delay'[s] = Backoff[Counted(s, long)]
  BY <1>1, <1>2 DEF DelayInv, TypeOK
<1>6. At(r, s, loop[r][s], "backoff") /\ UNCHANGED exits
  BY DEF Schedule
<1> QED
  BY <1>1, <1>2, <1>4, <1>5, <1>6, Zenon

LEMMA ScheduleDelay ==
  ASSUME DelayInv, NEW r \in Runners, NEW s \in Services, Schedule(r, s)
  PROVE  DelayInv'
<1>0. PICK long \in BOOLEAN :
        /\ restarts' = [restarts EXCEPT ![s] = Counted(s, long) + 1]
        /\ delay' = [delay EXCEPT ![s] = Backoff[Counted(s, long)]]
        /\ Counted(s, long) \in Nat
        /\ restarts'[s] = Counted(s, long) + 1 /\ delay'[s] = Backoff[Counted(s, long)]
        /\ lasted' \in [Services -> BOOLEAN] /\ lasted'[s] = long
        /\ At(r, s, loop[r][s], "backoff") /\ UNCHANGED exits
  <2> HIDE DEF Backoff
  <2> QED
    BY ScheduleSets
<1> DEFINE k == Counted(s, long)
<1>1. /\ restarts' = [restarts EXCEPT ![s] = k + 1] /\ delay' = [delay EXCEPT ![s] = Backoff[k]]
      /\ k \in Nat /\ restarts'[s] = k + 1 /\ delay'[s] = Backoff[k]
      /\ At(r, s, loop[r][s], "backoff") /\ UNCHANGED exits
      /\ lasted' \in [Services -> BOOLEAN]
  BY <1>0
<1>2. Backoff[k] \in 0..MaxDelay
  BY <1>1, DelaysAre DEF MaxDelay
<1>3. restarts' \in [Services -> Nat] /\ delay' \in [Services -> 0..MaxDelay]
  <2> HIDE DEF k, Backoff
  <2> QED
    BY <1>1, <1>2 DEF DelayInv, TypeOK
<1>4. DelayFollows'
  <2> SUFFICES ASSUME NEW q \in Services
               PROVE  delay'[q] = IF restarts'[q] = 0 THEN 0 ELSE Backoff[restarts'[q] - 1]
    BY DEF DelayFollows
  <2> HIDE DEF k, Backoff
  <2>1. CASE q = s
    <3>1. restarts'[q] # 0 /\ restarts'[q] - 1 = k
      BY <1>1, <2>1
    <3> QED
      BY <1>1, <2>1, <3>1
  <2>2. CASE q # s
    <3>1. restarts'[q] = restarts[q] /\ delay'[q] = delay[q]
      BY <1>1, <2>2 DEF DelayInv, TypeOK
    <3> QED
      BY <3>1 DEF DelayInv, DelayFollows
  <2> QED
    BY <2>1, <2>2
<1> QED
  BY <1>1, <1>3, <1>4, LoopTyped DEF DelayInv, TypeOK

LEMMA LoopDelay ==
  ASSUME DelayInv, NEW r \in Runners, NEW s \in Services, LoopStep(r, s) \/ Exit(r, s)
  PROVE  DelayInv'
<1>0. ASSUME UNCHANGED health
      PROVE  /\ lasted' \in [Services -> BOOLEAN] /\ restarts' \in [Services -> Nat]
             /\ delay' \in [Services -> 0..MaxDelay] /\ exits' \in 0..MaxExits
             /\ DelayFollows'
  BY <1>0 DEF health, DelayInv, TypeOK, DelayFollows
<1>1. CASE Start(r, s) \/ Wake(r, s) \/ SeeCancel(r, s)
  <2>1. UNCHANGED health
    BY <1>1 DEF Start, Wake, SeeCancel
  <2>2. \E to \in {"off", "check", "up", "failed", "finished", "backoff"} :
          At(r, s, loop[r][s], to)
    <3>1. CASE Start(r, s)
      <4>1. (IF cancelled[r] THEN "off" ELSE "up") \in {"off", "check", "up", "failed", "finished", "backoff"}
        OBVIOUS
      <4> QED
        BY <3>1, <4>1 DEF Start, At
    <3>2. CASE Wake(r, s)
      BY <3>2 DEF Wake, At
    <3>3. CASE SeeCancel(r, s)
      BY <3>3 DEF SeeCancel
    <3> QED
      BY <1>1, <3>1, <3>2, <3>3
  <2> QED
    BY <1>0, <2>1, <2>2, LoopTyped
<1>2. CASE Schedule(r, s)
  BY <1>2, ScheduleDelay
<1>3. CASE Exit(r, s)
  <2>1. PICK result \in {"failed", "finished"} : At(r, s, "up", result)
    BY <1>3 DEF Exit
  <2>2. exits' \in 0..MaxExits
    BY <1>3, SupervisorAssumption DEF Exit, DelayInv, TypeOK
  <2>3. UNCHANGED <<lasted, restarts, delay>>
    BY <1>3 DEF Exit
  <2>4. DelayFollows'
    BY <2>3 DEF DelayInv, DelayFollows
  <2>5. /\ lasted' \in [Services -> BOOLEAN] /\ restarts' \in [Services -> Nat]
        /\ delay' \in [Services -> 0..MaxDelay]
    BY <2>3 DEF DelayInv, TypeOK
  <2>6. result \in {"off", "check", "up", "failed", "finished", "backoff"}
    OBVIOUS
  <2> QED
    BY <2>1, <2>2, <2>4, <2>5, <2>6, LoopTyped
<1> QED
  BY <1>1, <1>2, <1>3 DEF LoopStep

LEMMA StepDelayInv == DelayInv /\ [Next]_vars => DelayInv'
<1> SUFFICES ASSUME DelayInv, [Next]_vars PROVE DelayInv'
  OBVIOUS
<1>1. ASSUME NEW s \in Services, Register(s) PROVE DelayInv'
  BY <1>1 DEF Register, health, DelayInv, TypeOK, DelayFollows
<1>2. CASE UNCHANGED vars
  BY <1>2 DEF vars, health, DelayInv, TypeOK, DelayFollows
<1> QED
  BY <1>1, <1>2, CallerDelay, LoopDelay DEF Next

LEMMA AlwaysDelayInv == Spec => []DelayInv
  BY InitDelayInv, StepDelayInv, PTL DEF Spec

(* Every variable keeps its type; a Run supervises only services that are  *)
(* registered, and no delay is longer than MaxDelay.                       *)
THEOREM SupervisorTypeCorrect == Spec => []TypeOK
<1>1. DelayInv => TypeOK
  BY DEF DelayInv
<1> QED
  BY <1>1, AlwaysDelayInv, PTL

-----------------------------------------------------------------------------
(* The probe of a Run starts with it, and Wait waits for it.               *)
LEMMA ProbeStays ==
  ASSUME TypeOK, ProbeGone, [Next]_vars PROVE ProbeGone'
<1>1. probe \in [Runners -> {"off", "up"}] /\ pc \in [Runners ->
        {"idle", "run", "leave", "returned", "refused"}]
  BY DEF TypeOK
<1>2. ASSUME NEW r \in Runners, Run(r) PROVE ProbeGone'
  <2>1. CASE running
    BY <1>1, <1>2, <2>1 DEF Run, ProbeGone
  <2>2. CASE ~running
    <3>1. /\ pc[r] = "idle" /\ pc' = [pc EXCEPT ![r] = "run"]
          /\ probe' \in {[probe EXCEPT ![r] = "up"], probe}
      BY <1>2, <2>2 DEF Run
    <3> QED
      BY <1>1, <3>1 DEF ProbeGone
  <2> QED
    BY <2>1, <2>2
<1>3. ASSUME NEW r \in Runners, ProbeEnds(r) PROVE ProbeGone'
  BY <1>1, <1>3 DEF ProbeEnds, ProbeGone
<1>4. ASSUME NEW r \in Runners, WaitReturns(r) PROVE ProbeGone'
  BY <1>1, <1>4 DEF WaitReturns, GroupDone, ProbeGone
<1>5. ASSUME NEW r \in Runners, Leave(r) \/ CallAgain(r) PROVE ProbeGone'
  BY <1>1, <1>5 DEF Leave, CallAgain, ProbeGone
<1>6. ASSUME UNCHANGED <<probe, pc>> PROVE ProbeGone'
  BY <1>6 DEF ProbeGone
<1>7. ASSUME NEW r \in Runners, NEW s \in Services, LoopStep(r, s) \/ Exit(r, s)
      PROVE  UNCHANGED <<probe, pc>>
  BY <1>7 DEF LoopStep, Start, Schedule, Wake, SeeCancel, Exit, At
<1>8. ASSUME NEW r \in Runners, Cancel(r) PROVE UNCHANGED <<probe, pc>>
  BY <1>8 DEF Cancel
<1>9. ASSUME NEW s \in Services, Register(s) PROVE UNCHANGED <<probe, pc>>
  BY <1>9 DEF Register
<1>10. UNCHANGED vars => UNCHANGED <<probe, pc>>
  BY DEF vars
<1> QED
  BY <1>2, <1>3, <1>4, <1>5, <1>6, <1>7, <1>8, <1>9, <1>10 DEF Next

(* A Run with services ends only when its context is cancelled, and then   *)
(* leaves no goroutine behind, of a service or of the probe.               *)
THEOREM ReturnsClean == Spec => []EndsWholeWhenTold
<1>1. Init => ProbeGone
  BY DEF Init, ProbeGone
<1>2. IInv /\ ProbeGone => EndsWholeWhenTold
  BY DEF IInv, EndsWholeWhenTold
<1> QED
  BY <1>1, <1>2, ProbeStays, SupervisorTypeCorrect, AlwaysIInv, PTL DEF Spec

-----------------------------------------------------------------------------
(* Only Schedule puts a loop into its delay.                               *)
LEMMA OnlyScheduleDelays ==
  ASSUME DelayInv, [Next]_vars, NEW r \in Runners, NEW s \in Services,
         loop[r][s] \in {"failed", "finished"}, loop'[r][s] = "backoff"
  PROVE  Schedule(r, s)
<1> DEFINE Sch == Schedule(r, s)
<1> SUFFICES ASSUME ~Sch PROVE FALSE
  OBVIOUS
<1> HIDE DEF Sch
<1>1. loop \in [Runners -> [Services -> {"off", "check", "up", "failed", "finished", "backoff"}]]
  BY DEF DelayInv, TypeOK
<1>2. ASSUME NEW q \in Runners, NEW p \in Services, NEW from, NEW to, At(q, p, from, to)
      PROVE  q = r /\ p = s /\ from \in {"failed", "finished"} /\ to = "backoff"
  BY <1>1, <1>2 DEF At
<1>3. ASSUME NEW q \in Runners, NEW p \in Services, LoopStep(q, p) \/ Exit(q, p) PROVE FALSE
  <2>1. CASE Start(q, p)
    <3>1. At(q, p, "check", IF cancelled[q] THEN "off" ELSE "up")
      BY <2>1 DEF Start
    <3> QED
      BY <1>2, <3>1
  <2>2. CASE Wake(q, p)
    <3>1. At(q, p, "backoff", "check")
      BY <2>2 DEF Wake
    <3> QED
      BY <1>2, <3>1
  <2>3. CASE SeeCancel(q, p)
    <3>1. At(q, p, loop[q][p], "off")
      BY <2>3 DEF SeeCancel
    <3> QED
      BY <1>2, <3>1
  <2>4. CASE Exit(q, p)
    <3>1. At(q, p, "up", "failed") \/ At(q, p, "up", "finished")
      BY <2>4 DEF Exit
    <3> QED
      BY <1>2, <3>1
  <2>5. CASE Schedule(q, p)
    <3>1. At(q, p, loop[q][p], "backoff")
      BY <2>5 DEF Schedule
    <3>2. q = r /\ p = s
      BY <1>2, <3>1
    <3> QED
      BY <2>5, <3>2 DEF Sch
  <2> QED
    BY <1>3, <2>1, <2>2, <2>3, <2>4, <2>5 DEF LoopStep
<1>4. ASSUME NEW q \in Runners, Run(q) PROVE FALSE
  <2>1. loop' = loop \/ loop' = [loop EXCEPT ![q] =
                           [p \in Services |-> IF p \in registered THEN "check" ELSE "off"]]
    BY <1>4 DEF Run
  <2>2. CASE loop' = loop
    BY <2>2
  <2>3. CASE loop' = [loop EXCEPT ![q] =
                        [p \in Services |-> IF p \in registered THEN "check" ELSE "off"]]
    <3>1. q = r => loop'[r][s] \in {"check", "off"}
      BY <1>1, <2>3
    <3>2. q # r => loop'[r] = loop[r]
      BY <1>1, <2>3
    <3> QED
      BY <3>1, <3>2
  <2> QED
    BY <2>1, <2>2, <2>3
<1>5. ASSUME UNCHANGED loop PROVE FALSE
  BY <1>5
<1> QED
  BY <1>3, <1>4, <1>5 DEF Next, Register, ProbeEnds, WaitReturns, Leave, CallAgain, Cancel, vars

(* A service that keeps returning waits a second and then twice as long    *)
(* each time up to MaxDelay, whichever Run restarts it; a life of five     *)
(* minutes starts it from a second again.                                  *)
THEOREM DelayDoublesHolds == Spec => DelayDoubles
<1> DEFINE Follows(r, s) ==
      loop[r][s] \in {"failed", "finished"} /\ loop'[r][s] = "backoff" =>
        delay'[s] = IF lasted'[s] \/ delay[s] = 0 THEN 1
                    ELSE IF 2 * delay[s] > MaxDelay THEN MaxDelay ELSE 2 * delay[s]
<1>1. ASSUME DelayInv, [Next]_vars, NEW r \in Runners, NEW s \in Services PROVE Follows(r, s)
  <2> SUFFICES ASSUME loop[r][s] \in {"failed", "finished"}, loop'[r][s] = "backoff"
               PROVE  delay'[s] = IF lasted'[s] \/ delay[s] = 0 THEN 1
                                  ELSE IF 2 * delay[s] > MaxDelay THEN MaxDelay ELSE 2 * delay[s]
    OBVIOUS
  <2>1. Schedule(r, s)
    BY <1>1, OnlyScheduleDelays
  <2>2. PICK long \in BOOLEAN : delay'[s] = Backoff[Counted(s, long)] /\ lasted'[s] = long
    <3> HIDE DEF Backoff
    <3> QED
      BY <1>1, <2>1, ScheduleSets
  <2>3. restarts[s] \in Nat /\ delay[s] = IF restarts[s] = 0 THEN 0 ELSE Backoff[restarts[s] - 1]
    <3> HIDE DEF Backoff
    <3> QED
      BY <1>1 DEF DelayInv, TypeOK, DelayFollows
  <2> HIDE DEF Backoff
  <2>4. CASE long \/ restarts[s] = 0
    <3>1. Counted(s, long) = 0 /\ (lasted'[s] \/ delay[s] = 0)
      BY <2>2, <2>3, <2>4 DEF Counted
    <3> QED
      BY <2>2, <3>1, DelaysAre
  <2>5. CASE ~long /\ restarts[s] # 0
    <3>1. /\ Counted(s, long) = restarts[s] /\ restarts[s] \in Nat \ {0}
          /\ restarts[s] - 1 \in Nat /\ delay[s] = Backoff[restarts[s] - 1]
      BY <2>3, <2>5 DEF Counted
    <3>2. /\ delay'[s] = IF 2 * delay[s] > MaxDelay THEN MaxDelay ELSE 2 * delay[s]
          /\ delay[s] \in 1 .. MaxDelay
      BY <2>2, <3>1, DelaysAre
    <3>3. delay[s] # 0
      BY <3>2 DEF MaxDelay
    <3> QED
      BY <2>2, <2>5, <3>2, <3>3
  <2> QED
    BY <2>4, <2>5
<1>2. DelayInv /\ [Next]_vars => \A r \in Runners, s \in Services : Follows(r, s)
  BY <1>1
<1> QED
  BY <1>2, AlwaysDelayInv, PTL DEF Spec, DelayDoubles
=============================================================================
