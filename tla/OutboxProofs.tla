---------------------------- MODULE OutboxProofs ----------------------------
(***************************************************************************)
(* The outbox for any capsules, batch sizes, ceilings, breaker settings    *)
(* and numbers of faults.                                                  *)
(*                                                                         *)
(*  - Budget: BudgetInv says in which places of the code the ledger is     *)
(*    known to be below the ceiling (between the gate and the next charge) *)
(*    and in which it is known to be behind the bill (between a push that  *)
(*    succeeded and its charge), and what of the bill the ledger lacks.    *)
(*  - Breaker: every method leaves a breaker; a half-open one has let one  *)
(*    caller through (ProbeInv), and its hold time is that of its trips    *)
(*    (HoldInv).                                                           *)
(*  - File: what ReadBytes returns and what stays true of a file that      *)
(*    grows.                                                               *)
(*  - Writers and flusher: FileInv (a capsule has one head in the file and *)
(*    the file ends in what the write under way has put there) and         *)
(*    FlushInv (what begins before the flusher's offset, or before the     *)
(*    cursor, has been posted).  The cursor property itself is not         *)
(*    inductive: a line that is still being written may be read, decoded   *)
(*    and passed, so that FlushInv speaks of lines that have begun.        *)
(*  - Torn lines: a torn line at the end of the file is a short write      *)
(*    whose cost is still to come (TornInv).                               *)
(*  - Order: every step is a step of the DeliveryQueue, or leaves its      *)
(*    variables as they are.                                               *)
(*  - Quota drainer: the same argument with both backends.                 *)
(***************************************************************************)
EXTENDS Outbox, QuotaDrain, CircuitBreaker, NaturalLemmas, SequenceTheorems

BelowCeiling == ledger < Ceiling
BehindBill == ledger < spend

BudgetInv ==
  /\ DOMAIN flush = {"pc", "offset", "processed", "line", "limited"}
  /\ ledger \in Nat /\ ledger <= Ceiling
  /\ spend \in Nat /\ spend <= MaxSpend
  /\ ledger <= spend
  /\ Budgeted /\ flush.pc \in {"read", "push"} => BelowCeiling
  /\ Budgeted /\ flush.pc \in {"truncate", "write"} /\ ~flush.limited =>
       BelowCeiling /\ BehindBill
  /\ flush.pc = "charge" => Budgeted /\ BelowCeiling /\ BehindBill

-----------------------------------------------------------------------------
LEMMA MinOfTwo ==
  ASSUME NEW a \in Nat, NEW b \in Nat
  PROVE  Min({a, b}) = IF a <= b THEN a ELSE b
BY DEF Min

(* The bill never shrinks, and a push that is billed grows it up to the    *)
(* bound.                                                                  *)
LEMMA PostedBills ==
  ASSUME BudgetInv, Posted
  PROVE  spend' \in Nat /\ spend' <= MaxSpend /\ spend <= spend'
         /\ (BelowCeiling => ledger < spend')
<1>1. spend' = IF spend + 1 <= MaxSpend THEN spend + 1 ELSE MaxSpend
  BY MinOfTwo, OutboxAssumption DEF Posted, BudgetInv
<1> QED
  BY <1>1, OutboxAssumption DEF BudgetInv, BelowCeiling

LEMMA IdleKeeps ==
  ASSUME BudgetInv, flush' = Idle, ledger' = ledger,
         spend' \in Nat, spend' <= MaxSpend, spend <= spend'
  PROVE  BudgetInv'
<1>1. /\ flush'.pc = "idle"
      /\ DOMAIN flush' = {"pc", "offset", "processed", "line", "limited"}
  BY DEF Idle
<1>2. ledger <= spend'
  BY OutboxAssumption DEF BudgetInv
<1> QED
  BY <1>1, <1>2 DEF BudgetInv

LEMMA InitBudget == Init => BudgetInv
BY OutboxAssumption DEF Init, Idle, BudgetInv, BelowCeiling, BehindBill

LEMMA NextBudget == BudgetInv /\ [Next]_vars => BudgetInv'
<1> SUFFICES ASSUME BudgetInv, [Next]_vars PROVE BudgetInv'
  OBVIOUS
<1> DEFINE Unbilled == UNCHANGED <<ledger, spend>>
<1> DEFINE fields == {"pc", "offset", "processed", "line", "limited"}
<1>0. DOMAIN Idle = fields /\ Idle.pc = "idle"
  BY DEF Idle
<1>1. ASSUME UNCHANGED <<flush, ledger, spend>> PROVE BudgetInv'
  BY <1>1 DEF BudgetInv, BelowCeiling, BehindBill
<1>2. CASE Write \/ Tick \/ UNCHANGED vars
  BY <1>1, <1>2 DEF Write, AppendBegin, AppendFinish, AppendFails, Tick, vars, upstreamVars
<1>3. CASE FlushBegin
  <2>1. CASE Admitted /\ UnderCeiling
    <3>1. flush' = [Idle EXCEPT !.pc = "read", !.offset = cursor]
      BY <1>3, <2>1 DEF FlushBegin
    <3>2. flush'.pc = "read" /\ DOMAIN flush' = fields
      BY <1>0, <3>1 DEF Idle
    <3>3. Unbilled /\ (Budgeted => BelowCeiling)
      BY <1>3, <2>1 DEF FlushBegin, UnderCeiling, BelowCeiling, upstreamVars
    <3> QED
      BY <3>2, <3>3 DEF BudgetInv, BelowCeiling
  <2>2. CASE ~(Admitted /\ UnderCeiling)
    <3>1. flush' = Idle /\ Unbilled
      BY <1>3, <2>2 DEF FlushBegin, upstreamVars
    <3> QED
      BY <3>1, IdleKeeps DEF BudgetInv
  <2> QED
    BY <2>1, <2>2
<1>4. CASE FlushRead
  <2>1. Unbilled /\ flush.pc = "read" /\ flush' = NextLine
    BY <1>4 DEF FlushRead, upstreamVars
  <2>2. CASE flush' = Idle
    BY <2>1, <2>2, IdleKeeps DEF BudgetInv
  <2>3. CASE flush' # Idle
    <3>1. \/ \E line : flush' = [flush EXCEPT !.pc = "push", !.line = line]
          \/ \E n : flush' = [flush EXCEPT !.offset = n]
      BY <2>1, <2>3 DEF NextLine
    <3>2. flush'.pc \in {"read", "push"} /\ DOMAIN flush' = fields
      BY <2>1, <3>1 DEF BudgetInv
    <3> QED
      BY <2>1, <3>2 DEF BudgetInv, BelowCeiling
  <2> QED
    BY <2>2, <2>3
<1>5. CASE PushSucceeds
  <2>1. /\ ledger' = ledger /\ flush.pc = "push" /\ Posted
        /\ flush'.pc = "truncate" /\ DOMAIN flush' = fields
    BY <1>5 DEF PushSucceeds, BudgetInv
  <2>2. /\ spend' \in Nat /\ spend' <= MaxSpend /\ spend <= spend'
        /\ BelowCeiling => ledger < spend'
    BY <2>1, PostedBills
  <2>3. ledger <= spend'
    BY <2>2 DEF BudgetInv
  <2> QED
    BY <2>1, <2>2, <2>3 DEF BudgetInv, BelowCeiling, BehindBill
<1>6. CASE PushRateLimited
  <2>1. /\ Unbilled
        /\ flush'.pc = "truncate" /\ flush'.limited = TRUE /\ DOMAIN flush' = fields
    BY <1>6 DEF PushRateLimited, upstreamVars, BudgetInv
  <2> QED
    BY <2>1 DEF BudgetInv
<1>7. CASE PushFails
  <2>1. spend' \in Nat /\ spend' <= MaxSpend /\ spend <= spend'
    BY <1>7, PostedBills DEF PushFails, upstreamVars, BudgetInv
  <2> QED
    BY <1>7, <2>1, IdleKeeps DEF PushFails, AfterError
<1>8. CASE TruncateCursor
  <2>1. /\ Unbilled /\ flush.pc = "truncate"
        /\ flush'.pc = "write" /\ flush'.limited = flush.limited /\ DOMAIN flush' = fields
    BY <1>8 DEF TruncateCursor, upstreamVars, BudgetInv
  <2> QED
    BY <2>1 DEF BudgetInv, BelowCeiling, BehindBill
<1>9. CASE WriteCursor
  <2>1. Unbilled /\ flush.pc = "write"
    BY <1>9 DEF WriteCursor, upstreamVars
  <2>2. CASE MustCharge
    <3>1. flush'.pc = "charge" /\ DOMAIN flush' = fields
      BY <1>9, <2>2 DEF WriteCursor, BudgetInv
    <3> QED
      BY <2>1, <2>2, <3>1 DEF MustCharge, BudgetInv, BelowCeiling, BehindBill
  <2>3. CASE ~MustCharge /\ Budgeted
    <3>1. flush' = Idle
      BY <1>9, <2>3 DEF WriteCursor, MustCharge, EndOfTurn
    <3> QED
      BY <2>1, <3>1, IdleKeeps DEF BudgetInv
  <2>4. CASE ~Budgeted
    <3>1. flush' = EndOfTurn
      BY <1>9, <2>4 DEF WriteCursor, MustCharge
    <3>2. flush'.pc \in {"idle", "read"} /\ DOMAIN flush' = fields
      BY <1>0, <3>1 DEF EndOfTurn, Idle
    <3> QED
      BY <2>1, <2>4, <3>2 DEF BudgetInv
  <2> QED
    BY <2>2, <2>3, <2>4
<1>10. CASE Charge
  <2>1. /\ spend' = spend /\ ledger' = ledger + 1
        /\ Budgeted /\ ledger < Ceiling /\ ledger < spend
    BY <1>10 DEF Charge, upstreamVars, BudgetInv, BelowCeiling, BehindBill
  <2>2. /\ flush'.pc \in {"idle", "read"} /\ DOMAIN flush' = fields
        /\ ledger' >= Ceiling => flush'.pc = "idle"
    BY <1>0, <1>10 DEF Charge, EndOfTurn, Exhausted, Idle
  <2>3. ledger' \in Nat /\ ledger' <= Ceiling /\ ledger' <= spend'
        /\ (flush'.pc = "read" => ledger' < Ceiling)
    BY <2>1, <2>2, OutboxAssumption DEF BudgetInv
  <2> QED
    BY <2>1, <2>2, <2>3 DEF BudgetInv, BelowCeiling
<1>11. CASE SaveFails \/ Crash
  BY <1>11, IdleKeeps DEF SaveFails, Crash, upstreamVars, BudgetInv
<1> QED
  BY <1>2, <1>3, <1>4, <1>5, <1>6, <1>7, <1>8, <1>9, <1>10, <1>11
     DEF Next, FlushStep, PushAnswered

LEMMA BudgetInvariance == Spec => []BudgetInv
BY InitBudget, NextBudget, PTL DEF Spec

(* LedgerIsLowerBound: the spend ledger is a lower bound on the bill at    *)
(* every moment, whatever saves fail and wherever the flusher dies.        *)
THEOREM LedgerIsLowerBoundHolds == Spec => []LedgerIsLowerBound
<1>1. BudgetInv => LedgerIsLowerBound
  BY DEF BudgetInv, LedgerIsLowerBound
<1> QED
  BY <1>1, BudgetInvariance, PTL

(* What the ledger lacks of the bill: the capsule on its way to the        *)
(* ledger, and one for each fault and each lost answer.                    *)
Owed == flush.pc \in {"truncate", "write", "charge"} /\ ~flush.limited
OnItsWay == IF Owed THEN 1 ELSE 0

BillInv ==
  /\ BudgetInv
  /\ faults \in Nat
  /\ unanswered \in Nat /\ unanswered <= MaxSpend
  /\ flush.limited \in BOOLEAN
  /\ flush.pc \in {"read", "push", "charge"} => ~flush.limited
  /\ Budgeted => spend <= ledger + faults + unanswered + OnItsWay

LEMMA OneMore ==
  ASSUME BudgetInv, Posted
  PROVE  spend' <= spend + 1
<1>1. spend' = IF spend + 1 <= MaxSpend THEN spend + 1 ELSE MaxSpend
  BY MinOfTwo, OutboxAssumption DEF Posted, BudgetInv
<1> QED
  BY <1>1, OutboxAssumption DEF BudgetInv

(* A step of the flush that bills and charges nothing.                     *)
LEMMA NothingBilled ==
  ASSUME BillInv, BudgetInv', UNCHANGED <<ledger, spend, unanswered, faults>>,
         flush'.limited \in BOOLEAN,
         flush'.pc \in {"read", "push", "charge"} => ~flush'.limited,
         Budgeted => OnItsWay' = OnItsWay
  PROVE  BillInv'
BY DEF BillInv

LEMMA InitBill == Init => BillInv
<1> SUFFICES ASSUME Init PROVE BillInv
  OBVIOUS
<1>1. flush.pc = "idle" /\ flush.limited = FALSE
  BY DEF Init, Idle
<1>2. faults = 0 /\ unanswered = 0 /\ spend = 0 /\ ledger = 0
  BY DEF Init
<1>3. OnItsWay = 0
  BY <1>1 DEF OnItsWay, Owed
<1>4. MaxSpend \in Nat /\ BudgetInv
  BY InitBudget, OutboxAssumption
<1>5. Budgeted => spend <= ledger + faults + unanswered + OnItsWay
  BY <1>2, <1>3
<1>6. faults \in Nat /\ unanswered \in Nat /\ unanswered <= MaxSpend
  BY <1>2, <1>4
<1>7. flush.limited \in BOOLEAN /\ ~flush.limited
  BY <1>1
<1> QED
  BY <1>4, <1>5, <1>6, <1>7, Zenon DEF BillInv

LEMMA BillStep == BillInv /\ [Next]_vars => BillInv'
<1> SUFFICES ASSUME BillInv, [Next]_vars PROVE BillInv'
  OBVIOUS
<1> DEFINE Same == UNCHANGED <<ledger, spend, unanswered, faults>>
<1>b. BudgetInv'
  BY NextBudget DEF BillInv
<1>0. /\ BudgetInv /\ ledger \in Nat /\ spend \in Nat /\ spend <= MaxSpend
      /\ faults \in Nat /\ unanswered \in Nat /\ unanswered <= MaxSpend
      /\ flush.limited \in BOOLEAN /\ MaxSpend \in Nat
      /\ DOMAIN flush = {"pc", "offset", "processed", "line", "limited"}
      /\ Budgeted => spend <= ledger + faults + unanswered + OnItsWay
  BY OutboxAssumption DEF BillInv, BudgetInv
<1>i. Idle.pc = "idle" /\ Idle.limited = FALSE
  BY DEF Idle
<1>e. EndOfTurn.pc \in {"idle", "read"} /\ EndOfTurn.limited = FALSE
  BY DEF EndOfTurn, Idle
<1>w. /\ ~Owed => OnItsWay = 0
      /\ Owed => OnItsWay = 1
      /\ ~Owed' => OnItsWay' = 0
      /\ Owed' => OnItsWay' = 1
  BY DEF OnItsWay
<1>1. CASE Write \/ Tick \/ UNCHANGED vars
  <2>1. Same /\ flush' = flush
    BY <1>1 DEF Write, AppendBegin, AppendFinish, AppendFails, Tick, vars, upstreamVars
  <2>2. OnItsWay' = OnItsWay
    BY <2>1 DEF OnItsWay, Owed
  <2> QED
    BY <1>b, <2>1, <2>2, NothingBilled DEF BillInv
<1>2. CASE FlushBegin \/ FlushRead
  <2>1. Same /\ flush.pc \in {"idle", "read"}
    BY <1>2 DEF FlushBegin, FlushRead, upstreamVars
  <2>2. flush'.pc \in {"idle", "read", "push"} /\ flush'.limited = FALSE
    <3>1. CASE FlushBegin
      BY <1>i, <3>1 DEF FlushBegin, Idle
    <3>2. CASE FlushRead
      <4>1. /\ flush.pc = "read" /\ flush.limited = FALSE
            /\ \/ flush' = Idle
               \/ \E line : flush' = [flush EXCEPT !.pc = "push", !.line = line]
               \/ \E n : flush' = [flush EXCEPT !.offset = n]
        BY <3>2 DEF FlushRead, NextLine, BillInv
      <4> QED
        BY <1>0, <1>i, <4>1
    <3> QED
      BY <1>2, <3>1, <3>2
  <2>3. ~Owed /\ ~Owed'
    BY <2>1, <2>2 DEF Owed
  <2> QED
    BY <1>b, <1>w, <2>1, <2>2, <2>3, NothingBilled
<1>3. CASE PushSucceeds
  <2>1. /\ UNCHANGED <<ledger, unanswered, faults>> /\ Posted /\ flush.pc = "push"
        /\ flush' = [flush EXCEPT !.pc = "truncate", !.processed = @ + 1]
    BY <1>3 DEF PushSucceeds
  <2>2. flush'.pc = "truncate" /\ flush'.limited = FALSE /\ ~Owed /\ Owed'
    BY <1>0, <2>1 DEF Owed, BillInv
  <2>3. spend' <= spend + 1 /\ spend' \in Nat
    BY <1>0, <2>1, PostedBills, OneMore
  <2>4. Budgeted => spend' <= ledger + faults + unanswered + 1
    BY <1>0, <1>w, <2>2, <2>3
  <2> QED
    BY <1>0, <1>b, <1>w, <2>1, <2>2, <2>4 DEF BillInv
<1>4. CASE PushRateLimited
  <2>1. /\ Same /\ flush.pc = "push"
        /\ flush'.pc = "truncate" /\ flush'.limited = TRUE
    BY <1>0, <1>4 DEF PushRateLimited, upstreamVars
  <2>2. ~Owed /\ ~Owed'
    BY <2>1 DEF Owed
  <2> QED
    BY <1>b, <1>w, <2>1, <2>2, NothingBilled
<1>5. CASE PushFails
  <2>1. /\ UNCHANGED <<ledger, faults>> /\ flush.pc = "push" /\ flush' = Idle
        /\ \/ Posted /\ unanswered' = Min({unanswered + 1, MaxSpend})
           \/ UNCHANGED <<spend, unanswered>>
    BY <1>5 DEF PushFails, AfterError, upstreamVars
  <2>2. ~Owed /\ ~Owed'
    BY <1>i, <2>1 DEF Owed
  <2>3. CASE UNCHANGED <<spend, unanswered>>
    BY <1>b, <1>i, <1>w, <2>1, <2>2, <2>3, NothingBilled
  <2>4. CASE Posted /\ unanswered' = Min({unanswered + 1, MaxSpend})
    <3>1. unanswered' = IF unanswered + 1 <= MaxSpend THEN unanswered + 1 ELSE MaxSpend
      BY <1>0, <2>4, MinOfTwo
    <3>2. spend' <= spend + 1 /\ spend' \in Nat /\ spend' <= MaxSpend
      BY <1>0, <2>4, PostedBills, OneMore
    <3>3. unanswered' \in Nat /\ unanswered' <= MaxSpend
      BY <1>0, <3>1
    <3>4. Budgeted => spend' <= ledger' + faults' + unanswered' + OnItsWay'
      <4> SUFFICES ASSUME Budgeted
                   PROVE  spend' <= ledger' + faults' + unanswered' + OnItsWay'
        OBVIOUS
      <4>1. /\ OnItsWay' = 0 /\ ledger' = ledger /\ faults' = faults
            /\ spend <= ledger + faults + unanswered + 0
        BY <1>0, <1>w, <2>1, <2>2
      <4>2. CASE unanswered + 1 <= MaxSpend
        BY <1>0, <3>1, <3>2, <4>1, <4>2
      <4>3. CASE ~(unanswered + 1 <= MaxSpend)
        BY <1>0, <3>1, <3>2, <4>1, <4>3
      <4> QED
        BY <4>2, <4>3
    <3> QED
      BY <1>0, <1>b, <1>i, <2>1, <3>3, <3>4 DEF BillInv
  <2> QED
    BY <2>1, <2>3, <2>4
<1>6. CASE TruncateCursor
  <2>1. /\ Same /\ flush.pc = "truncate"
        /\ flush'.pc = "write" /\ flush'.limited = flush.limited
    BY <1>0, <1>6 DEF TruncateCursor, upstreamVars
  <2>2. Owed' = Owed
    BY <2>1 DEF Owed
  <2> QED
    BY <1>0, <1>b, <1>w, <2>1, <2>2, NothingBilled
<1>7. CASE WriteCursor
  <2>1. Same /\ flush.pc = "write"
    BY <1>7 DEF WriteCursor, upstreamVars
  <2>2. CASE MustCharge
    <3>1. flush'.pc = "charge" /\ flush'.limited = flush.limited
      BY <1>0, <1>7, <2>2 DEF WriteCursor
    <3>2. ~flush.limited /\ Owed /\ Owed'
      BY <2>1, <2>2, <3>1 DEF MustCharge, Owed
    <3> QED
      BY <1>0, <1>b, <1>w, <2>1, <3>1, <3>2, NothingBilled
  <2>3. CASE ~MustCharge
    <3>1. flush' = EndOfTurn
      BY <1>7, <2>3 DEF WriteCursor
    <3>2. Budgeted => ~Owed /\ ~Owed'
      BY <1>e, <2>3, <3>1 DEF MustCharge, Owed
    <3> QED
      BY <1>b, <1>e, <1>w, <2>1, <3>1, <3>2, NothingBilled
  <2> QED
    BY <2>2, <2>3
<1>8. CASE Charge
  <2>1. /\ UNCHANGED <<spend, unanswered, faults>> /\ ledger' = ledger + 1
        /\ flush.pc = "charge" /\ flush' \in {Idle, EndOfTurn}
    BY <1>8 DEF Charge, upstreamVars
  <2>2. flush'.pc \in {"idle", "read"} /\ flush'.limited = FALSE
    BY <1>e, <1>i, <2>1
  <2>3. Owed /\ ~Owed'
    BY <2>1, <2>2 DEF Owed, BillInv
  <2>4. Budgeted => spend' <= ledger' + faults' + unanswered' + OnItsWay'
    BY <1>0, <1>w, <2>1, <2>3
  <2> QED
    BY <1>0, <1>b, <2>1, <2>2, <2>4 DEF BillInv
<1>9. CASE SaveFails \/ Crash
  <2>1. /\ UNCHANGED <<ledger, spend, unanswered>> /\ faults' = faults + 1
        /\ flush' = Idle
    BY <1>9 DEF SaveFails, Crash, upstreamVars
  <2>2. ~Owed'
    BY <1>i, <2>1 DEF Owed
  <2>3. OnItsWay \in 0 .. 1
    BY <1>w
  <2>4. Budgeted => spend' <= ledger' + faults' + unanswered' + OnItsWay'
    <3>1. OnItsWay' = 0
      BY <1>w, <2>2
    <3> QED
      BY <1>0, <2>1, <2>3, <3>1
  <2>5. faults' \in Nat /\ unanswered' \in Nat /\ unanswered' <= MaxSpend
    BY <1>0, <2>1
  <2>6. flush'.limited \in BOOLEAN /\ ~flush'.limited
    BY <1>i, <2>1
  <2> QED
    BY <1>b, <2>4, <2>5, <2>6, Zenon DEF BillInv
<1> QED
  BY <1>1, <1>2, <1>3, <1>4, <1>5, <1>6, <1>7, <1>8, <1>9
     DEF Next, FlushStep, PushAnswered

(* BillWithinBudget: past the ceiling the bill grows by the capsules whose *)
(* charge a crash or a failed save has prevented, and by those whose       *)
(* answer was lost, for any ceiling and any number of either.              *)
THEOREM BillWithinBudgetHolds == Spec => []BillWithinBudget
<1>1. BillInv => BillWithinBudget
  <2> SUFFICES ASSUME BillInv, Budgeted PROVE spend <= Ceiling + faults + unanswered
    BY DEF BillWithinBudget
  <2>1. /\ ledger \in Nat /\ ledger <= Ceiling /\ spend \in Nat
        /\ faults \in Nat /\ unanswered \in Nat /\ Ceiling \in Nat
        /\ spend <= ledger + faults + unanswered + OnItsWay
    BY OutboxAssumption DEF BillInv, BudgetInv
  <2>2. CASE Owed
    <3>1. ledger < Ceiling
      BY <2>2 DEF Owed, BillInv, BudgetInv, BelowCeiling
    <3>2. OnItsWay = 1
      BY <2>2 DEF OnItsWay
    <3> QED
      BY <2>1, <3>1, <3>2
  <2>3. CASE ~Owed
    <3>1. OnItsWay = 0
      BY <2>3 DEF OnItsWay
    <3> QED
      BY <2>1, <3>1
  <2> QED
    BY <2>2, <2>3
<1> QED
  BY <1>1, InitBill, BillStep, PTL DEF Spec

-----------------------------------------------------------------------------
(* The hold times: BackoffAfter is the function that its recursion says,   *)
(* and its values are between 1 and MaxBackoff.                            *)
HoldTimes == 1 .. MaxBackoff
Doubled == [x \in HoldTimes |-> IF 2 * x > MaxBackoff THEN MaxBackoff ELSE 2 * x]

LEMMA BackoffRecurs == IsRecursion(BackoffAfter, HoldTimes, BaseBackoff, Doubled)
<1>1. BaseBackoff \in HoldTimes /\ Doubled \in [HoldTimes -> HoldTimes]
  BY BackoffAssumption DEF HoldTimes, Doubled
<1>2. PICK g : IsRecursion(g, HoldTimes, BaseBackoff, Doubled)
  BY <1>1, RecursionExists
<1>3. /\ g \in [Nat -> HoldTimes] /\ g[0] = BaseBackoff
      /\ \A n \in Nat \ {0} : g[n] = Doubled[g[n - 1]]
  BY <1>2 DEF IsRecursion
<1> DEFINE Recurs(f) ==
      f = [i \in Nat |->
             IF i = 0 THEN BaseBackoff
             ELSE IF 2 * f[i - 1] > MaxBackoff THEN MaxBackoff ELSE 2 * f[i - 1]]
<1>4. Recurs(g)
  <2>1. \A i \in Nat \ {0} : g[i - 1] \in HoldTimes
    BY <1>3
  <2> QED
    BY <1>3, <2>1 DEF Doubled
<1>5. Recurs(BackoffAfter)
  BY <1>4 DEF BackoffAfter
<1>6. DOMAIN BackoffAfter = Nat /\ BackoffAfter[0] = BaseBackoff
  BY <1>5
<1>7. ASSUME NEW i \in Nat \ {0}
      PROVE  BackoffAfter[i] = IF 2 * BackoffAfter[i - 1] > MaxBackoff THEN MaxBackoff
                               ELSE 2 * BackoffAfter[i - 1]
  <2> HIDE DEF BackoffAfter
  <2> QED
    BY <1>5
<1>8. ASSUME NEW i \in Nat \ {0}, BackoffAfter[i - 1] \in HoldTimes
      PROVE  BackoffAfter[i] \in HoldTimes /\ BackoffAfter[i] = Doubled[BackoffAfter[i - 1]]
  BY <1>7, <1>8, BackoffAssumption DEF HoldTimes, Doubled
<1> DEFINE U == {i \in Nat : BackoffAfter[i] \notin HoldTimes}
<1>9. U = {}
  <2> SUFFICES ASSUME U # {} PROVE FALSE
    OBVIOUS
  <2>1. PICK m \in U : \A k \in U : m <= k
    <3>1. U \in SUBSET Nat
      OBVIOUS
    <3> HIDE DEF U
    <3> QED
      BY <3>1, LeastNatural
  <2>2. m \in Nat \ {0}
    BY <1>1, <1>6
  <2>3. m - 1 \in Nat /\ m - 1 \notin U
    BY <2>1, <2>2
  <2> QED
    BY <1>8, <2>2, <2>3
<1>10. \A i \in Nat : BackoffAfter[i] \in HoldTimes
  BY <1>9
<1>11. \A i \in Nat \ {0} : i - 1 \in Nat
  OBVIOUS
<1>12. BackoffAfter = [i \in Nat |-> BackoffAfter[i]]
  <2> HIDE DEF BackoffAfter
  <2> QED
    BY <1>5
<1> HIDE DEF Recurs
<1>13. BackoffAfter \in [Nat -> HoldTimes]
  BY <1>10, <1>12
<1> QED
  BY <1>6, <1>8, <1>10, <1>11, <1>13 DEF IsRecursion

LEMMA HoldTimesAre ==
  /\ BackoffAfter[0] = BaseBackoff
  /\ \A i \in Nat : BackoffAfter[i] \in 1 .. MaxBackoff
  /\ \A i \in Nat : BackoffAfter[i + 1] = MaxBackoff \/ BackoffAfter[i + 1] > BackoffAfter[i]
<1>1. /\ BackoffAfter \in [Nat -> HoldTimes]
      /\ BackoffAfter[0] = BaseBackoff
      /\ \A n \in Nat \ {0} : BackoffAfter[n] = Doubled[BackoffAfter[n - 1]]
  BY BackoffRecurs DEF IsRecursion
<1>2. ASSUME NEW i \in Nat
      PROVE  BackoffAfter[i + 1] = MaxBackoff \/ BackoffAfter[i + 1] > BackoffAfter[i]
  <2>1. i + 1 \in Nat \ {0} /\ (i + 1) - 1 = i
    OBVIOUS
  <2>2. BackoffAfter[i + 1] = Doubled[BackoffAfter[i]]
    BY <1>1, <2>1
  <2>3. BackoffAfter[i] \in HoldTimes
    BY <1>1
  <2> QED
    BY <2>2, <2>3, BackoffAssumption DEF Doubled, HoldTimes
<1> QED
  BY <1>1, <1>2 DEF HoldTimes

-----------------------------------------------------------------------------
(* Every method of a breaker leaves a breaker.                             *)
LEMMA OpenedIsBreaker ==
  ASSUME NEW b \in Breakers, NEW t \in 0 .. TripCap
  PROVE  /\ Opened(b, t) \in Breakers
         /\ Opened(b, t).state = "open" /\ Opened(b, t).tripIndex = t
         /\ Opened(b, t).backoff = BackoffAfter[t]
<1>1. BackoffAfter[t] \in 0 .. MaxBackoff
  BY HoldTimesAre, BackoffAssumption
<1>2. 0 \in 0 .. TripThreshold - 1 /\ 0 \in 0 .. MaxBackoff /\ "open" \in BreakerStates
  BY BackoffAssumption DEF BreakerStates
<1> HIDE DEF BackoffAfter
<1> QED
  BY <1>1, <1>2 DEF Opened, Breakers

LEMMA BreakerMethods ==
  ASSUME NEW b \in Breakers
  PROVE  /\ AfterAllow(b) \in Breakers /\ AfterSuccess(b) \in Breakers
         /\ AfterFailure(b) \in Breakers /\ AfterTick(b) \in Breakers
<1>0. 0 \in 0 .. TripThreshold - 1 /\ 0 \in 0 .. MaxBackoff /\ 0 \in 0 .. TripCap
  BY BackoffAssumption
<1>1. AfterAllow(b) \in Breakers
  BY DEF AfterAllow, Breakers, BreakerStates
<1>2. AfterSuccess(b) \in Breakers
  BY <1>0 DEF AfterSuccess, Breakers, BreakerStates
<1>3. AfterTick(b) \in Breakers
  <2>1. CASE b.state = "open" /\ ~WindowOver(b)
    <3>1. b.sinceOpen + 1 \in 0 .. MaxBackoff
      BY <2>1, BackoffAssumption DEF WindowOver, Breakers
    <3> QED
      BY <2>1, <3>1 DEF AfterTick, Breakers
  <2> QED
    BY <2>1 DEF AfterTick
<1>4. AfterFailure(b) \in Breakers
  <2>1. CASE b.state = "closed" /\ ~Trips(b)
    <3>1. b.consecFails + 1 \in 0 .. TripThreshold - 1
      BY <2>1, BackoffAssumption DEF Trips, Breakers
    <3>2. AfterFailure(b) = [b EXCEPT !.consecFails = @ + 1]
      BY <2>1 DEF AfterFailure
    <3> QED
      BY <3>1, <3>2 DEF Breakers
  <2>2. CASE b.state = "closed" /\ Trips(b)
    <3>1. AfterFailure(b) = Opened(b, b.tripIndex) /\ b.tripIndex \in 0 .. TripCap
      BY <2>2 DEF AfterFailure, Breakers
    <3> QED
      BY <3>1, OpenedIsBreaker
  <2>3. CASE b.state = "half_open"
    <3>1. AfterFailure(b) = Opened(b, IF b.tripIndex < TripCap THEN b.tripIndex + 1 ELSE TripCap)
      BY <2>3 DEF AfterFailure
    <3>2. (IF b.tripIndex < TripCap THEN b.tripIndex + 1 ELSE TripCap) \in 0 .. TripCap
      BY BackoffAssumption DEF Breakers
    <3> QED
      BY <3>1, <3>2, OpenedIsBreaker
  <2>4. CASE b.state = "open"
    BY <2>4 DEF AfterFailure
  <2> QED
    BY <2>1, <2>2, <2>3, <2>4 DEF Breakers, BreakerStates
<1> QED
  BY <1>1, <1>2, <1>3, <1>4

LEMMA NewIsBreaker == NewBreaker \in Breakers
BY BackoffAssumption DEF NewBreaker, Breakers, BreakerStates

-----------------------------------------------------------------------------
(* A breaker's hold time is that of its trips, except while it is closed   *)
(* and counts no trips.                                                    *)
HoldInv ==
  /\ shared \in Breakers
  /\ IF shared.state = "closed" THEN shared.tripIndex = 0
     ELSE shared.backoff = BackoffAfter[shared.tripIndex]

LEMMA HoldInit == SharedInit => HoldInv
BY NewIsBreaker DEF SharedInit, HoldInv, NewBreaker

LEMMA HoldStep ==
  ASSUME HoldInv, [SharedNext]_sharedVars
  PROVE  /\ HoldInv'
         /\ shared'.state = "open" /\ shared.state # "open" =>
              \/ /\ shared.state = "closed" /\ shared'.backoff = BackoffAfter[0]
              \/ /\ shared.state = "half_open" /\ shared.tripIndex < TripCap
                 /\ shared'.backoff = BackoffAfter[shared.tripIndex + 1]
              \/ /\ shared.state = "half_open" /\ shared'.backoff = BackoffAfter[TripCap]
<1>0. shared \in Breakers
  BY DEF HoldInv
<1>1. /\ AfterAllow(shared) \in Breakers /\ AfterSuccess(shared) \in Breakers
      /\ AfterFailure(shared) \in Breakers /\ AfterTick(shared) \in Breakers
  BY <1>0, BreakerMethods
<1> HIDE DEF BackoffAfter
<1>2. CASE shared' = shared
  BY <1>2 DEF HoldInv
<1>3. CASE shared' = AfterTick(shared)
  <2>1. /\ shared'.state = shared.state /\ shared'.tripIndex = shared.tripIndex
        /\ shared'.backoff = shared.backoff
    BY <1>0, <1>3 DEF AfterTick, Breakers
  <2> QED
    BY <1>1, <1>3, <2>1 DEF HoldInv
<1>4. CASE shared' = AfterAllow(shared) /\ Allows(shared)
  <2>1. /\ shared'.tripIndex = shared.tripIndex /\ shared'.backoff = shared.backoff
        /\ IF shared.state = "closed" THEN shared'.state = "closed"
           ELSE shared'.state = "half_open"
    BY <1>0, <1>4 DEF AfterAllow, Breakers
  <2> QED
    BY <1>1, <1>4, <2>1 DEF HoldInv
<1>5. CASE shared' = AfterSuccess(shared)
  <2>1. shared'.state = "closed"
        /\ (shared.state # "closed" => shared'.tripIndex = 0)
        /\ (shared.state = "closed" => shared'.tripIndex = shared.tripIndex)
    BY <1>0, <1>5 DEF AfterSuccess, Breakers
  <2> QED
    BY <1>1, <1>5, <2>1 DEF HoldInv
<1>6. CASE shared' = AfterFailure(shared)
  <2>1. CASE shared.state = "closed" /\ ~Trips(shared)
    <3>1. shared'.state = "closed" /\ shared'.tripIndex = shared.tripIndex
      BY <1>0, <1>6, <2>1 DEF AfterFailure, Breakers
    <3> QED
      BY <1>1, <1>6, <2>1, <3>1 DEF HoldInv
  <2>2. CASE shared.state = "closed" /\ Trips(shared)
    <3>1. shared' = Opened(shared, 0)
      BY <1>6, <2>2 DEF AfterFailure, HoldInv
    <3>2. 0 \in 0 .. TripCap
      BY BackoffAssumption
    <3> QED
      BY <1>0, <2>2, <3>1, <3>2, OpenedIsBreaker DEF HoldInv
  <2>3. CASE shared.state = "half_open"
    <3>1. CASE shared.tripIndex < TripCap
      <4>1. shared' = Opened(shared, shared.tripIndex + 1)
        BY <1>6, <2>3, <3>1 DEF AfterFailure
      <4>2. shared.tripIndex + 1 \in 0 .. TripCap
        BY <1>0, <3>1, BackoffAssumption DEF Breakers
      <4> QED
        BY <1>0, <2>3, <3>1, <4>1, <4>2, OpenedIsBreaker DEF HoldInv
    <3>2. CASE ~(shared.tripIndex < TripCap)
      <4>1. shared' = Opened(shared, TripCap)
        BY <1>6, <2>3, <3>2 DEF AfterFailure
      <4>2. TripCap \in 0 .. TripCap
        BY BackoffAssumption
      <4> QED
        BY <1>0, <2>3, <4>1, <4>2, OpenedIsBreaker DEF HoldInv
    <3> QED
      BY <3>1, <3>2
  <2>4. CASE shared.state = "open"
    BY <1>2, <1>6, <2>4 DEF AfterFailure
  <2> QED
    BY <1>0, <2>1, <2>2, <2>3, <2>4 DEF Breakers, BreakerStates
<1> QED
  BY <1>2, <1>3, <1>4, <1>5, <1>6
     DEF SharedNext, TimePasses, Allow, RecordSuccess, RecordFailure, Leave, Report, sharedVars

(* BackoffDeepens: for any configuration of the breaker, each trip of a    *)
(* probe holds it open longer than the trip before, up to MaxBackoff.      *)
THEOREM BackoffDeepensHolds == SharedSpec => BackoffDeepens
<1>1. ASSUME HoldInv, [SharedNext]_sharedVars
      PROVE  [shared'.state = "open" /\ shared.state # "open" =>
                /\ shared'.backoff <= MaxBackoff
                /\ shared.state = "closed" => shared'.backoff = BaseBackoff
                /\ shared.state = "half_open" =>
                     shared'.backoff > shared.backoff \/ shared'.backoff = MaxBackoff]_sharedVars
  <2> SUFFICES ASSUME shared'.state = "open", shared.state # "open"
               PROVE  /\ shared'.backoff <= MaxBackoff
                      /\ shared.state = "closed" => shared'.backoff = BaseBackoff
                      /\ shared.state = "half_open" =>
                           shared'.backoff > shared.backoff \/ shared'.backoff = MaxBackoff
    OBVIOUS
  <2>1. \/ /\ shared.state = "closed" /\ shared'.backoff = BackoffAfter[0]
        \/ /\ shared.state = "half_open" /\ shared.tripIndex < TripCap
           /\ shared'.backoff = BackoffAfter[shared.tripIndex + 1]
        \/ /\ shared.state = "half_open" /\ shared'.backoff = BackoffAfter[TripCap]
    BY <1>1, HoldStep
  <2>2. HoldInv'
    BY <1>1, HoldStep
  <2> HIDE DEF BackoffAfter
  <2>3. shared'.backoff \in 0 .. MaxBackoff /\ shared.tripIndex \in Nat
    BY <1>1, <2>2, BackoffAssumption DEF HoldInv, Breakers
  <2>4. shared.state = "half_open" => shared.backoff = BackoffAfter[shared.tripIndex]
    BY <1>1 DEF HoldInv
  <2> QED
    BY <2>1, <2>3, <2>4, HoldTimesAre, BackoffAssumption
<1> QED
  BY <1>1, HoldInit, HoldStep, PTL DEF SharedSpec, BackoffDeepens

-----------------------------------------------------------------------------
(* OneProbe is not inductive: that the first caller of an episode is the   *)
(* only one needs that no probe is left over from before, which ProbeInv   *)
(* adds.                                                                   *)
ProbeInv ==
  /\ shared.state \in BreakerStates
  /\ DOMAIN shared = {"state", "consecFails", "tripIndex", "backoff", "sinceOpen", "probeIssued"}
  /\ IF shared.state = "half_open"
     THEN shared.probeIssued = TRUE /\ \E c \in Callers : probes = {c}
     ELSE probes = {}

LEMMA InitProbe == SharedInit => ProbeInv
BY DEF SharedInit, NewBreaker, ProbeInv, BreakerStates

LEMMA AllowKeeps == ASSUME ProbeInv, NEW c \in Callers, Allow(c) PROVE ProbeInv'
<1>1. CASE shared.state = "closed"
  BY <1>1 DEF Allow, AfterAllow, ProbeInv
<1>2. CASE shared.state = "open"
  <2>1. shared' = [shared EXCEPT !.state = "half_open", !.probeIssued = TRUE]
    BY <1>2 DEF Allow, AfterAllow
  <2>2. probes' = {c}
    BY <1>2, <2>1 DEF Allow, ProbeInv
  <2> QED
    BY <2>1, <2>2 DEF ProbeInv, BreakerStates
<1>3. CASE shared.state = "half_open"
  BY <1>3 DEF Allow, Allows, ProbeInv
<1> QED
  BY <1>1, <1>2, <1>3 DEF ProbeInv, BreakerStates

(* A report leaves the breaker closed or open, never half-open.           *)
LEMMA SuccessCloses ==
  ASSUME ProbeInv PROVE AfterSuccess(shared).state = "closed"
                        /\ DOMAIN AfterSuccess(shared) = DOMAIN shared
BY DEF AfterSuccess, ProbeInv, BreakerStates

LEMMA FailureDecides ==
  ASSUME ProbeInv PROVE AfterFailure(shared).state \in {"closed", "open"}
                        /\ DOMAIN AfterFailure(shared) = DOMAIN shared
<1>1. CASE shared.state = "closed" /\ ~Trips(shared)
  BY <1>1 DEF AfterFailure, ProbeInv
<1>2. CASE shared.state = "closed" /\ Trips(shared)
  BY <1>2 DEF AfterFailure, Opened, ProbeInv
<1>3. CASE shared.state = "half_open"
  BY <1>3 DEF AfterFailure, Opened, ProbeInv
<1>4. CASE shared.state = "open"
  BY <1>4 DEF AfterFailure, ProbeInv
<1> QED
  BY <1>1, <1>2, <1>3, <1>4 DEF ProbeInv, BreakerStates

LEMMA NextProbe == ProbeInv /\ [SharedNext]_sharedVars => ProbeInv'
<1> SUFFICES ASSUME ProbeInv, [SharedNext]_sharedVars PROVE ProbeInv'
  OBVIOUS
<1>1. CASE TimePasses
  <2>1. shared'.state = shared.state /\ DOMAIN shared' = DOMAIN shared
        /\ shared'.probeIssued = shared.probeIssued
    BY <1>1 DEF TimePasses, AfterTick, ProbeInv
  <2> QED
    BY <1>1, <2>1 DEF TimePasses, ProbeInv
<1>2. ASSUME NEW c \in Callers, Allow(c) PROVE ProbeInv'
  BY <1>2, AllowKeeps
<1>3. ASSUME NEW c \in Callers, RecordSuccess(c) PROVE ProbeInv'
  BY <1>3, SuccessCloses DEF RecordSuccess, Report, ProbeInv, BreakerStates
<1>4. ASSUME NEW c \in Callers, RecordFailure(c) PROVE ProbeInv'
  BY <1>4, FailureDecides DEF RecordFailure, Report, ProbeInv, BreakerStates
<1>5. ASSUME NEW c \in Callers, Leave(c) PROVE ProbeInv'
  BY <1>5 DEF Leave, ProbeInv
<1>6. CASE UNCHANGED sharedVars
  BY <1>6 DEF sharedVars, ProbeInv
<1> QED
  BY <1>1, <1>2, <1>3, <1>4, <1>5, <1>6 DEF SharedNext

(* OneProbe: however late the callers report, and whether they report or   *)
(* leave, a half-open breaker has let one of them through.                 *)
THEOREM OneProbeHolds == SharedSpec => []OneProbe
<1>1. ProbeInv => OneProbe
  BY FS_Singleton DEF ProbeInv, OneProbe
<1> QED
  BY <1>1, InitProbe, NextProbe, PTL DEF SharedSpec

-----------------------------------------------------------------------------
(* The cells of the file.                                                  *)
HeadOf(c) == [of |-> c, part |-> "head"]
TailOf(c) == [of |-> c, part |-> "tail"]

LEMMA CellsDiffer ==
  ASSUME NEW c \in Capsules, NEW d \in Capsules
  PROVE  /\ HeadOf(c) # Newline /\ TailOf(c) # Newline /\ HeadOf(c) # TailOf(d)
         /\ HeadOf(c) = HeadOf(d) => c = d
         /\ HeadOf(c) \in Cells /\ TailOf(c) \in Cells /\ Newline \in Cells
<1>1. HeadOf(c).part = "head" /\ TailOf(c).part = "tail" /\ Newline.part = "newline"
      /\ HeadOf(c).of = c /\ HeadOf(d).of = d /\ TailOf(d).part = "tail"
  BY DEF HeadOf, TailOf, Newline
<1>2. HeadOf(c) \in Cells /\ TailOf(c) \in Cells /\ Newline \in Cells
  BY DEF HeadOf, TailOf, Cells
<1> QED
  BY <1>1, <1>2

LEMMA Lines ==
  ASSUME NEW c \in Capsules
  PROVE  /\ Text(c) \in Seq(Cells) /\ Len(Text(c)) = 2
         /\ Text(c)[1] = HeadOf(c) /\ Text(c)[2] = TailOf(c)
         /\ LineOf(c) \in Seq(Cells) /\ Len(LineOf(c)) = 3
         /\ LineOf(c)[1] = HeadOf(c) /\ LineOf(c)[2] = TailOf(c) /\ LineOf(c)[3] = Newline
<1>1. HeadOf(c) \in Cells /\ TailOf(c) \in Cells /\ Newline \in Cells
  BY CellsDiffer
<1>2. Text(c) = <<HeadOf(c), TailOf(c)>>
  BY DEF Text, HeadOf, TailOf
<1> HIDE DEF Text, LineOf, Newline
<1>3. LineOf(c) = Append(<<HeadOf(c), TailOf(c)>>, Newline)
  BY <1>2 DEF LineOf
<1> QED
  BY <1>1, <1>2, <1>3

LEMMA FirstOfLine ==
  ASSUME NEW c \in Capsules, NEW line \in {Text(c), LineOf(c)}
  PROVE  line[1].of = c
<1>1. line[1] = HeadOf(c)
  BY Lines
<1>2. HeadOf(c).of = c
  BY DEF HeadOf
<1> QED
  BY <1>1, <1>2

(* What Decode makes of a line.                                            *)
LEMMA DecodedLine ==
  ASSUME NEW line, Decode(line) # NoCapsule
  PROVE  Decode(line) \in Capsules /\ line \in {Text(Decode(line)), LineOf(Decode(line))}
<1>1. PICK c \in Capsules : line \in {Text(c), LineOf(c)}
  BY DEF Decode
<1>2. line[1].of = c
  BY <1>1, FirstOfLine
<1>3. Decode(line) = c
  BY <1>1, <1>2 DEF Decode
<1> QED
  BY <1>1, <1>3

LEMMA DecodesLine ==
  ASSUME NEW c \in Capsules, NEW line, line \in {Text(c), LineOf(c)}
  PROVE  Decode(line) = c
<1>1. line[1].of = c
  BY FirstOfLine
<1> QED
  BY <1>1 DEF Decode

-----------------------------------------------------------------------------
(* Where a line ends.                                                      *)
IsLineEnd(f, o, e) ==
  /\ e \in o .. Len(f)
  /\ o < Len(f) => o < e
  /\ \A i \in o + 1 .. e - 1 : f[i] # Newline
  /\ e < Len(f) => f[e] = Newline

LEMMA LeastOfLine ==
  ASSUME NEW U \in SUBSET Nat, U # {}
  PROVE  Min(U) \in U /\ \A k \in U : Min(U) <= k
<1>1. \E m \in U : \A k \in U : m <= k
  BY LeastNatural
<1> QED
  BY <1>1 DEF Min

LEMMA LineEnds ==
  ASSUME NEW f \in Seq(Cells), NEW o \in 0 .. Len(f)
  PROVE  IsLineEnd(f, o, LineEnd(f, o))
<1> DEFINE U == {i \in o + 1 .. Len(f) : f[i] = Newline} \cup {Len(f)}
           e == LineEnd(f, o)
<1>0. Len(f) \in Nat /\ o \in Nat
  BY LenProperties
<1>1. U \in SUBSET Nat /\ U # {} /\ U \subseteq o .. Len(f)
  BY <1>0
<1>2. e = Min(U)
  BY DEF LineEnd
<1>3. e \in U /\ \A k \in U : e <= k
  <2> HIDE DEF U, e
  <2> QED
    BY <1>1, <1>2, LeastOfLine
<1>4. e \in o .. Len(f) /\ (o < Len(f) => o < e) /\ (e < Len(f) => f[e] = Newline)
  BY <1>0, <1>1, <1>3
<1>5. ASSUME NEW i \in o + 1 .. e - 1, f[i] = Newline PROVE FALSE
  <2> HIDE DEF e
  <2>1. i \in U /\ i < e
    BY <1>0, <1>4, <1>5
  <2> QED
    BY <1>3, <1>0, <1>4, <2>1
<1> QED
  BY <1>4, <1>5 DEF IsLineEnd

LEMMA LineEndUnique ==
  ASSUME NEW f \in Seq(Cells), NEW o \in 0 .. Len(f), NEW d, NEW e,
         IsLineEnd(f, o, d), IsLineEnd(f, o, e)
  PROVE  d = e
<1>0. Len(f) \in Nat /\ o \in Nat
  BY LenProperties
<1>1. d \in o .. Len(f) /\ e \in o .. Len(f)
  BY DEF IsLineEnd
<1>2. ASSUME NEW i \in o .. Len(f), NEW j \in o .. Len(f), IsLineEnd(f, o, i), IsLineEnd(f, o, j),
             i < j
      PROVE  FALSE
  <2>1. i < Len(f) /\ o < i /\ f[i] = Newline /\ i \in o + 1 .. j - 1
    BY <1>0, <1>2 DEF IsLineEnd
  <2> QED
    BY <1>2, <2>1 DEF IsLineEnd
<1> QED
  BY <1>0, <1>1, <1>2

(* The cells from an offset to some cell of the line that is there.        *)
Segment(f, o, line) ==
  /\ o \in Nat /\ line \in Seq(Cells) /\ o + Len(line) <= Len(f)
  /\ \A i \in 1 .. Len(line) : line[i] = f[o + i]
  /\ \A i \in 1 .. Len(line) - 1 : line[i] # Newline

LEMMA ReadIsSegment ==
  ASSUME NEW f \in Seq(Cells), NEW o \in 0 .. Len(f)
  PROVE  /\ Segment(f, o, ReadLine(f, o))
         /\ Len(ReadLine(f, o)) = LineEnd(f, o) - o
<1> DEFINE e == LineEnd(f, o)
           line == ReadLine(f, o)
<1>0. Len(f) \in Nat /\ o \in Nat
  BY LenProperties
<1>1. /\ e \in o .. Len(f) /\ \A i \in o + 1 .. e - 1 : f[i] # Newline
  BY LineEnds DEF IsLineEnd
<1>2. line = SubSeq(f, o + 1, e)
  BY DEF ReadLine
<1>3. /\ line \in Seq(Cells) /\ Len(line) = e - o
      /\ \A i \in 1 .. e - o : line[i] = f[o + i]
  <2> HIDE DEF e, line
  <2>1. o + 1 \in 1 .. Len(f) + 1 /\ e \in o .. Len(f)
    BY <1>0, <1>1
  <2>2. /\ SubSeq(f, o + 1, e) \in Seq(Cells)
        /\ Len(SubSeq(f, o + 1, e)) = e - o
        /\ \A i \in 1 .. e - o : SubSeq(f, o + 1, e)[i] = f[o + i]
    BY <1>0, <2>1
  <2> QED
    BY <1>2, <2>2
<1>4. ASSUME NEW i \in 1 .. Len(line) - 1 PROVE line[i] # Newline
  <2> HIDE DEF e, line
  <2>1. o + i \in o + 1 .. e - 1 /\ i \in 1 .. e - o
    BY <1>0, <1>1, <1>3
  <2> QED
    BY <1>1, <1>3, <2>1
<1> HIDE DEF e, line
<1> QED
  BY <1>0, <1>1, <1>3, <1>4 DEF Segment, e, line

(* A capsule's line in the file, cell by cell.                             *)
LEMMA StartsAtCells ==
  ASSUME NEW f \in Seq(Cells), NEW c \in Capsules, NEW o
  PROVE  StartsAt(f, c, o) <=>
           /\ o \in LineStarts(f) /\ o + 3 <= Len(f)
           /\ f[o + 1] = HeadOf(c) /\ f[o + 2] = TailOf(c) /\ f[o + 3] = Newline
<1> SUFFICES ASSUME o \in LineStarts(f)
             PROVE  ReadLine(f, o) = LineOf(c) <=>
                      /\ o + 3 <= Len(f)
                      /\ f[o + 1] = HeadOf(c) /\ f[o + 2] = TailOf(c) /\ f[o + 3] = Newline
  BY DEF StartsAt
<1>0. Len(f) \in Nat /\ o \in 0 .. Len(f)
  BY LenProperties DEF LineStarts
<1> DEFINE line == ReadLine(f, o)
<1>1. /\ line \in Seq(Cells) /\ o + Len(line) <= Len(f)
      /\ \A i \in 1 .. Len(line) : line[i] = f[o + i]
      /\ \A i \in 1 .. Len(line) - 1 : line[i] # Newline
      /\ Len(line) = LineEnd(f, o) - o
  BY <1>0, ReadIsSegment DEF Segment
<1>2. ASSUME line = LineOf(c)
      PROVE  /\ o + 3 <= Len(f)
             /\ f[o + 1] = HeadOf(c) /\ f[o + 2] = TailOf(c) /\ f[o + 3] = Newline
  BY <1>1, <1>2, Lines
<1>3. ASSUME o + 3 <= Len(f), f[o + 1] = HeadOf(c), f[o + 2] = TailOf(c), f[o + 3] = Newline
      PROVE  line = LineOf(c)
  <2>1. \A i \in o + 1 .. o + 2 : f[i] # Newline
    BY <1>0, <1>3, CellsDiffer
  <2>2. IsLineEnd(f, o, o + 3)
    BY <1>0, <1>3, <2>1 DEF IsLineEnd
  <2>3. LineEnd(f, o) = o + 3
    BY <1>0, <2>2, LineEnds, LineEndUnique
  <2>4. Len(line) = 3
    BY <1>0, <1>1, <2>3
  <2> HIDE DEF line
  <2>5. line[1] = HeadOf(c) /\ line[2] = TailOf(c) /\ line[3] = Newline
    <3>1. 1 \in 1 .. Len(line) /\ 2 \in 1 .. Len(line) /\ 3 \in 1 .. Len(line)
      BY <2>4
    <3>2. line[1] = f[o + 1] /\ line[2] = f[o + 2] /\ line[3] = f[o + 3]
      BY <1>1, <3>1
    <3> QED
      BY <1>3, <3>2
  <2>6. /\ LineOf(c) \in Seq(Cells) /\ Len(LineOf(c)) = 3
        /\ \A i \in 1 .. 3 : line[i] = LineOf(c)[i]
    BY <2>5, Lines
  <2> QED
    BY <1>1, <2>4, <2>6, SeqEqual
<1> QED
  BY <1>2, <1>3

LEMMA Grown ==
  ASSUME NEW f \in Seq(Cells), NEW x \in Seq(Cells)
  PROVE  /\ f \o x \in Seq(Cells) /\ Len(f \o x) = Len(f) + Len(x)
         /\ \A i \in 1 .. Len(f) : (f \o x)[i] = f[i]
         /\ \A i \in 1 .. Len(x) : (f \o x)[Len(f) + i] = x[i]
         /\ LineStarts(f) \subseteq LineStarts(f \o x)
         /\ \A o \in LineStarts(f \o x) : o <= Len(f) => o \in LineStarts(f)
<1>0. Len(f) \in Nat /\ Len(x) \in Nat
  BY LenProperties
<1>1. /\ f \o x \in Seq(Cells) /\ Len(f \o x) = Len(f) + Len(x)
      /\ \A i \in 1 .. Len(f) : (f \o x)[i] = f[i]
      /\ \A i \in 1 .. Len(x) : (f \o x)[Len(f) + i] = x[i]
  BY <1>0, ConcatProperties
<1>2. DOMAIN f = 1 .. Len(f) /\ DOMAIN (f \o x) = 1 .. Len(f) + Len(x)
  BY <1>1, LenProperties
<1> QED
  BY <1>0, <1>1, <1>2 DEF LineStarts

LEMMA SegmentGrown ==
  ASSUME NEW f \in Seq(Cells), NEW x \in Seq(Cells), NEW o, NEW line, Segment(f, o, line)
  PROVE  Segment(f \o x, o, line)
<1>0. Len(f) \in Nat /\ Len(x) \in Nat /\ Len(line) \in Nat
  BY LenProperties DEF Segment
<1>1. /\ Len(f \o x) = Len(f) + Len(x)
      /\ \A i \in 1 .. Len(f) : (f \o x)[i] = f[i]
  BY Grown
<1>2. \A i \in 1 .. Len(line) : o + i \in 1 .. Len(f)
  BY <1>0 DEF Segment
<1> QED
  BY <1>0, <1>1, <1>2 DEF Segment

(* A line that stands in the file stays where it is.                       *)
LEMMA StartsAtGrown ==
  ASSUME NEW f \in Seq(Cells), NEW x \in Seq(Cells), NEW c \in Capsules, NEW o
  PROVE  /\ StartsAt(f, c, o) => StartsAt(f \o x, c, o)
         /\ StartsAt(f \o x, c, o) /\ o + 3 <= Len(f) => StartsAt(f, c, o)
<1>0. Len(f) \in Nat /\ Len(x) \in Nat
  BY LenProperties
<1>1. /\ f \o x \in Seq(Cells) /\ Len(f \o x) = Len(f) + Len(x)
      /\ \A i \in 1 .. Len(f) : (f \o x)[i] = f[i]
      /\ LineStarts(f) \subseteq LineStarts(f \o x)
      /\ \A p \in LineStarts(f \o x) : p <= Len(f) => p \in LineStarts(f)
  BY Grown
<1>2. StartsAt(f, c, o) <=>
        /\ o \in LineStarts(f) /\ o + 3 <= Len(f)
        /\ f[o + 1] = HeadOf(c) /\ f[o + 2] = TailOf(c) /\ f[o + 3] = Newline
  BY StartsAtCells
<1>3. StartsAt(f \o x, c, o) <=>
        /\ o \in LineStarts(f \o x) /\ o + 3 <= Len(f \o x)
        /\ (f \o x)[o + 1] = HeadOf(c) /\ (f \o x)[o + 2] = TailOf(c)
        /\ (f \o x)[o + 3] = Newline
  BY <1>1, StartsAtCells
<1>4. \A p \in LineStarts(f \o x) : p \in Nat
  BY <1>0, <1>1 DEF LineStarts
<1>5. ASSUME NEW p \in LineStarts(f \o x), p + 3 <= Len(f)
      PROVE  /\ p \in LineStarts(f) /\ p + 3 <= Len(f \o x)
             /\ (f \o x)[p + 1] = f[p + 1] /\ (f \o x)[p + 2] = f[p + 2]
             /\ (f \o x)[p + 3] = f[p + 3]
  <2>1. p \in Nat
    BY <1>4
  <2>2. p + 1 \in 1 .. Len(f) /\ p + 2 \in 1 .. Len(f) /\ p + 3 \in 1 .. Len(f)
    BY <1>0, <1>5, <2>1
  <2>3. p \in LineStarts(f)
    BY <1>0, <1>1, <1>5, <2>1
  <2> QED
    BY <1>0, <1>1, <1>5, <2>1, <2>2, <2>3
<1> QED
  BY <1>1, <1>2, <1>3, <1>5

-----------------------------------------------------------------------------
(* What can be seen of the line at o is what a capsule's line begins with. *)
Begins(f, c, o) ==
  /\ o + 1 <= Len(f) /\ f[o + 1] = HeadOf(c)
  /\ o + 2 <= Len(f) => f[o + 2] = TailOf(c)
  /\ o + 3 <= Len(f) => f[o + 3] = Newline

(* The capsules whose lines begin before p are all in D, those included    *)
(* whose lines are not finished yet.                                       *)
Covered(f, p, D) ==
  \A o \in LineStarts(f), c \in Capsules : o < p /\ Begins(f, c, o) => c \in D

LEMMA CoveredNone == ASSUME NEW f \in Seq(Cells), NEW D PROVE Covered(f, 0, D)
<1>1. \A o \in LineStarts(f) : o \in Nat
  BY LenProperties DEF LineStarts
<1> QED
  BY <1>1 DEF Covered

LEMMA CoveredGrown ==
  ASSUME NEW f \in Seq(Cells), NEW x \in Seq(Cells), NEW D, NEW p \in 0 .. Len(f),
         Covered(f, p, D)
  PROVE  Covered(f \o x, p, D)
<1> SUFFICES ASSUME NEW o \in LineStarts(f \o x), NEW c \in Capsules, o < p,
                    Begins(f \o x, c, o)
             PROVE  c \in D
  BY DEF Covered
<1>0. Len(f) \in Nat /\ Len(x) \in Nat
  BY LenProperties
<1>1. /\ f \o x \in Seq(Cells) /\ Len(f \o x) = Len(f) + Len(x)
      /\ \A i \in 1 .. Len(f) : (f \o x)[i] = f[i]
      /\ \A q \in LineStarts(f \o x) : q <= Len(f) => q \in LineStarts(f)
  BY Grown
<1>2. o \in Nat /\ o < Len(f)
  BY <1>0, <1>1 DEF LineStarts
<1>3. o \in LineStarts(f)
  BY <1>0, <1>1, <1>2
<1>4. /\ (f \o x)[o + 1] = f[o + 1]
      /\ o + 2 <= Len(f) => (f \o x)[o + 2] = f[o + 2]
      /\ o + 3 <= Len(f) => (f \o x)[o + 3] = f[o + 3]
  BY <1>0, <1>1, <1>2
<1>5. Begins(f, c, o)
  BY <1>0, <1>1, <1>2, <1>4 DEF Begins
<1> QED
  BY <1>3, <1>5 DEF Covered

LEMMA CoveredMore ==
  ASSUME NEW f, NEW p, NEW D, NEW E, D \subseteq E, Covered(f, p, D)
  PROVE  Covered(f, p, E)
BY DEF Covered

(* Past a line that was posted, or that is finished and no capsule's.      *)
LEMMA CoveredPast ==
  ASSUME NEW f \in Seq(Cells), NEW o, NEW line \in Seq(Cells), NEW D,
         Segment(f, o, line), line # <<>>,
         Covered(f, o, D),
         \/ Decode(line) # NoCapsule /\ Decode(line) \in D
         \/ Decode(line) = NoCapsule /\ Terminated(line)
  PROVE  Covered(f, o + Len(line), D)
<1> SUFFICES ASSUME NEW q \in LineStarts(f), NEW c \in Capsules, q < o + Len(line),
                    Begins(f, c, q)
             PROVE  c \in D
  BY DEF Covered
<1>0. /\ Len(f) \in Nat /\ o \in Nat /\ line \in Seq(Cells)
      /\ Len(line) \in Nat /\ Len(line) >= 1 /\ o + Len(line) <= Len(f)
  BY LenProperties, EmptySeq DEF Segment
<1> DEFINE n == Len(line)
<1>1. /\ \A i \in 1 .. n : line[i] = f[o + i]
      /\ \A i \in 1 .. n - 1 : line[i] # Newline
  BY DEF Segment
<1>6. n \in Nat /\ n >= 1
  BY <1>0
<1>2. q \in Nat
  BY <1>0 DEF LineStarts
<1>3. CASE q < o
  BY <1>3 DEF Covered
<1>4. CASE q > o
  <2>1. f[q] = Newline
    BY <1>0, <1>4 DEF LineStarts
  <2>2. q - o \in 1 .. Len(line) - 1 /\ q - o \in 1 .. Len(line) /\ o + (q - o) = q
    BY <1>0, <1>2, <1>4
  <2> QED
    BY <1>1, <2>1, <2>2
<1>5. CASE q = o
  <2>1. line[1] = HeadOf(c)
    BY <1>0, <1>1, <1>5 DEF Begins
  <2>2. CASE Decode(line) # NoCapsule /\ Decode(line) \in D
    <3>1. PICK d \in Capsules : d \in D /\ line \in {Text(d), LineOf(d)}
      BY <2>2, DecodedLine
    <3>2. line[1] = HeadOf(d)
      BY <3>1, Lines
    <3> QED
      BY <2>1, <3>1, <3>2, CellsDiffer
  <2>3. CASE Decode(line) = NoCapsule /\ Terminated(line)
    <3>1. line[Len(line)] = Newline
      BY <2>3 DEF Terminated
    <3>2. n > 1
      <4>1. ASSUME n = 1 PROVE FALSE
        BY <2>1, <3>1, <4>1, CellsDiffer
      <4> HIDE DEF n
      <4> QED
        BY <1>6, <4>1
    <3>3. line[2] = TailOf(c)
      <4>1. 2 \in 1 .. Len(line) /\ o + 2 <= Len(f)
        BY <1>0, <3>2
      <4>2. line[2] = f[o + 2]
        BY <1>1, <4>1
      <4> QED
        BY <1>5, <4>1, <4>2 DEF Begins
    <3>4. n > 2
      <4>1. ASSUME n = 2 PROVE FALSE
        BY <3>1, <3>3, <4>1, CellsDiffer
      <4> HIDE DEF n
      <4> QED
        BY <1>6, <3>2, <4>1
    <3>5. line[3] = Newline
      <4>1. 3 \in 1 .. Len(line) /\ o + 3 <= Len(f)
        BY <1>0, <3>2, <3>4
      <4>2. line[3] = f[o + 3]
        BY <1>1, <4>1
      <4> QED
        BY <1>5, <4>1, <4>2 DEF Begins
    <3>6. n = 3
      <4>1. ASSUME n > 3 PROVE FALSE
        <5>1. 3 \in 1 .. n - 1
          BY <1>6, <4>1
        <5> QED
          BY <1>1, <3>5, <5>1
      <4> HIDE DEF n
      <4> QED
        BY <1>6, <3>4, <4>1
    <3>7. line = LineOf(c)
      <4>1. \A i \in 1 .. 3 : line[i] = LineOf(c)[i]
        BY <2>1, <3>3, <3>5, Lines
      <4> QED
        BY <1>0, <3>6, <4>1, Lines, SeqEqual
    <3>8. Decode(line) = c
      BY <3>7, DecodesLine
    <3> QED
      BY <2>3, <3>8, NoCapsuleAssumption
  <2> QED
    BY <2>2, <2>3
<1> QED
  BY <1>0, <1>2, <1>3, <1>4, <1>5

LEMMA CoveredStart ==
  ASSUME NEW f \in Seq(Cells), NEW c \in Capsules, NEW o, NEW p, NEW D,
         Covered(f, p, D), StartsAt(f, c, o), o < p
  PROVE  c \in D
<1>1. /\ o \in LineStarts(f) /\ o + 3 <= Len(f)
      /\ f[o + 1] = HeadOf(c) /\ f[o + 2] = TailOf(c) /\ f[o + 3] = Newline
  BY StartsAtCells
<1>2. o \in Nat /\ Len(f) \in Nat
  BY <1>1, LenProperties DEF LineStarts
<1>3. Begins(f, c, o)
  BY <1>1, <1>2 DEF Begins
<1> QED
  BY <1>1, <1>3 DEF Covered

-----------------------------------------------------------------------------
(* Where the writers are: the cells of a capsule that was never handed to  *)
(* Append are nowhere in the file, a capsule's head is there at most once, *)
(* and the file ends in what the write under way has put there.            *)
TailIs(f, c, n) ==
  /\ n \in 0 .. 2 /\ n <= Len(f)
  /\ n >= 1 => f[Len(f) - n + 1] = HeadOf(c)
  /\ n = 2 => f[Len(f)] = TailOf(c)

HeadsOnce(f) ==
  \A i \in DOMAIN f, j \in DOMAIN f : f[i] = f[j] /\ f[i].part = "head" => i = j

FileInv ==
  /\ file \in Seq(Cells)
  /\ tried \subseteq Capsules /\ acked \subseteq tried /\ IsFiniteSet(tried)
  /\ HeadsOnce(file)
  /\ \A i \in DOMAIN file : file[i].of \in tried \cup {NoCapsule}
  /\ \/ appending = NoCapsule /\ written = 0
     \/ /\ appending \in tried \ acked
        /\ TailIs(file, appending, written)
        /\ written = 0 => \A i \in DOMAIN file : file[i] # HeadOf(appending)

-----------------------------------------------------------------------------
(* Where the flusher is: its line is what the file has at its offset, and  *)
(* what begins before its offset, or before the cursor, has been posted.   *)
Places == {"idle", "read", "push", "truncate", "write", "charge"}
Flushes ==
  [pc : Places, offset : Nat, processed : 0 .. BatchSize, line : Seq(Cells), limited : BOOLEAN]

LineHeld(f, D, r) ==
  /\ r \in Flushes
  /\ Segment(f, r.offset, r.line)
  /\ Covered(f, r.offset, D)
  /\ r.pc \in {"idle", "read"} => r.line = <<>>
  /\ r.pc \notin {"idle", "read"} => Decode(r.line) # NoCapsule
  /\ r.pc \in {"read", "push", "charge"} => ~r.limited
  /\ r.pc = "push" => r.processed < BatchSize
  /\ r.pc \in {"truncate", "write", "charge"} /\ ~r.limited => Decode(r.line) \in D

FlushInv ==
  /\ LineHeld(file, delivered, flush)
  /\ cursor \in 0 .. Len(file) /\ Covered(file, cursor, delivered)
  /\ delivered \subseteq tried
  /\ breaker \in Breakers /\ faults \in 0 .. MaxFaults /\ torn \in 0 .. MaxTorn

(* What a reader that stops before the line under way has to have found.   *)
Clean == Len(file) - written \in LineStarts(file)

TornInv ==
  Cardinality({c \in acked : ~Readable(file, c)}) + (IF Clean THEN 0 ELSE 1) <= torn

EarlyPost ==
  appending \in delivered => \A c \in Capsules : Readable(file, c) => c \in delivered

-----------------------------------------------------------------------------
(* The cells of a part of a line.                                          *)
LEMMA LinePart ==
  ASSUME NEW c \in Capsules, NEW a \in 1 .. 3, NEW b \in 0 .. 3, a <= b + 1
  PROVE  /\ SubSeq(LineOf(c), a, b) \in Seq(Cells)
         /\ Len(SubSeq(LineOf(c), a, b)) = b - a + 1
         /\ \A i \in 1 .. b - a + 1 : SubSeq(LineOf(c), a, b)[i] = LineOf(c)[a + i - 1]
<1>1. LineOf(c) \in Seq(Cells) /\ Len(LineOf(c)) = 3
  BY Lines
<1> DEFINE line == LineOf(c)
<1> HIDE DEF line
<1>2. line \in Seq(Cells) /\ a \in 1 .. Len(line) + 1 /\ b \in a - 1 .. Len(line)
  BY <1>1 DEF line
<1>3. /\ SubSeq(line, a, b) \in Seq(Cells)
      /\ Len(SubSeq(line, a, b)) = b - a + 1
      /\ \A i \in 1 .. b - a + 1 : SubSeq(line, a, b)[i] = line[a + i - 1]
  BY <1>2
<1> QED
  BY <1>3 DEF line

(* A cell of a capsule's line belongs to that capsule, or is the newline;  *)
(* the only head is the first.                                             *)
LEMMA LineCells ==
  ASSUME NEW c \in Capsules, NEW k \in 1 .. 3
  PROVE  /\ LineOf(c)[k].of \in {c, NoCapsule}
         /\ LineOf(c)[k].part = "head" => k = 1
         /\ LineOf(c)[k] \in Cells
<1>1. /\ HeadOf(c).of = c /\ TailOf(c).of = c /\ Newline.of = NoCapsule
      /\ HeadOf(c).part = "head" /\ TailOf(c).part = "tail" /\ Newline.part = "newline"
  BY DEF HeadOf, TailOf, Newline
<1>2. LineOf(c)[1] = HeadOf(c) /\ LineOf(c)[2] = TailOf(c) /\ LineOf(c)[3] = Newline
  BY Lines
<1>3. k = 1 \/ k = 2 \/ k = 3
  OBVIOUS
<1> HIDE DEF LineOf
<1> QED
  BY <1>1, <1>2, <1>3, CellsDiffer

(* The file grows by the cells a .. b of c's line, its head among them     *)
(* only when the file does not have it yet.                                *)
LEMMA PartAppended ==
  ASSUME FileInv, NEW c \in Capsules, NEW a \in 1 .. 3, NEW b \in 0 .. 3, a <= b + 1,
         a = 1 => \A i \in DOMAIN file : file[i] # HeadOf(c),
         file' = file \o SubSeq(LineOf(c), a, b),
         tried \cup {c} \subseteq tried'
  PROVE  /\ file' \in Seq(Cells)
         /\ Len(file') = Len(file) + (b - a + 1)
         /\ HeadsOnce(file')
         /\ \A i \in DOMAIN file' : file'[i].of \in tried' \cup {NoCapsule}
         /\ \A i \in 1 .. Len(file) : file'[i] = file[i]
         /\ \A i \in 1 .. b - a + 1 : file'[Len(file) + i] = LineOf(c)[a + i - 1]
<1> DEFINE x == SubSeq(LineOf(c), a, b)
           n == Len(file)
<1>1. /\ x \in Seq(Cells) /\ Len(x) = b - a + 1
      /\ \A i \in 1 .. b - a + 1 : x[i] = LineOf(c)[a + i - 1]
  BY LinePart
<1>2. file \in Seq(Cells) /\ n \in Nat /\ DOMAIN file = 1 .. n
  BY LenProperties DEF FileInv
<1> HIDE DEF x
<1>3. /\ file' \in Seq(Cells) /\ Len(file') = n + (b - a + 1)
      /\ \A i \in 1 .. n : file'[i] = file[i]
      /\ \A i \in 1 .. b - a + 1 : file'[n + i] = x[i]
  <2>1. file' = file \o x
    BY DEF x
  <2> QED
    BY <1>1, <1>2, <2>1, Grown
<1>4. \A i \in 1 .. b - a + 1 : file'[n + i] = LineOf(c)[a + i - 1] /\ a + i - 1 \in 1 .. 3
  BY <1>1, <1>3
<1>5. DOMAIN file' = 1 .. n + (b - a + 1)
  BY <1>3, LenProperties
<1> HIDE DEF n, LineOf
<1>6. ASSUME NEW i \in DOMAIN file'
      PROVE  \/ i \in 1 .. n /\ file'[i] = file[i]
             \/ /\ i = n + (i - n) /\ i - n \in 1 .. b - a + 1
                /\ file'[i] = LineOf(c)[a + (i - n) - 1] /\ a + (i - n) - 1 \in 1 .. 3
  <2>1. CASE i <= n
    BY <1>2, <1>3, <1>5, <2>1
  <2>2. CASE i > n
    <3>1. i - n \in 1 .. b - a + 1 /\ i = n + (i - n)
      BY <1>2, <1>5, <2>2
    <3> QED
      BY <1>4, <3>1
  <2> QED
    BY <1>2, <1>5, <2>1, <2>2
<1>7. ASSUME NEW i \in DOMAIN file' PROVE file'[i].of \in tried' \cup {NoCapsule}
  <2>1. \A k \in 1 .. 3 : LineOf(c)[k].of \in {c, NoCapsule}
    BY LineCells
  <2>2. (file'[i] = file[i] /\ i \in DOMAIN file) \/ file'[i].of \in {c, NoCapsule}
    BY <1>2, <1>6, <2>1
  <2>3. \A k \in DOMAIN file : file[k].of \in tried \cup {NoCapsule}
    BY DEF FileInv
  <2> QED
    BY <2>2, <2>3
<1>8. ASSUME NEW i \in DOMAIN file', NEW j \in DOMAIN file', file'[i] = file'[j],
             file'[i].part = "head"
      PROVE  i = j
  <2>1. CASE i \in 1 .. n /\ file'[i] = file[i]
    <3>1. CASE j \in 1 .. n /\ file'[j] = file[j]
      BY <1>2, <1>8, <2>1, <3>1 DEF FileInv, HeadsOnce
    <3>2. CASE /\ j - n \in 1 .. b - a + 1
               /\ file'[j] = LineOf(c)[a + (j - n) - 1] /\ a + (j - n) - 1 \in 1 .. 3
      <4>1. a + (j - n) - 1 = 1
        BY <1>8, <3>2, LineCells
      <4>2. a = 1
        <5>1. j \in Int /\ j - n >= 1
          BY <1>2, <1>5, <3>2
        <5> QED
          BY <1>2, <4>1, <5>1
      <4>3. file[i] = HeadOf(c)
        BY <1>8, <2>1, <3>2, <4>1, Lines
      <4> QED
        BY <1>2, <2>1, <4>2, <4>3
    <3> QED
      BY <1>6, <3>1, <3>2
  <2>2. CASE /\ i = n + (i - n) /\ i - n \in 1 .. b - a + 1
             /\ file'[i] = LineOf(c)[a + (i - n) - 1] /\ a + (i - n) - 1 \in 1 .. 3
    <3>0. a + (i - n) - 1 = 1
      BY <1>8, <2>2, LineCells
    <3>1. CASE j \in 1 .. n /\ file'[j] = file[j]
      <4>1. a = 1
        <5>1. i \in Int /\ i - n >= 1
          BY <1>2, <1>5, <2>2
        <5> QED
          BY <1>2, <3>0, <5>1
      <4>2. file[j] = HeadOf(c)
        BY <1>8, <2>2, <3>0, <3>1, Lines
      <4> QED
        BY <1>2, <3>1, <4>1, <4>2
    <3>2. CASE /\ j = n + (j - n) /\ j - n \in 1 .. b - a + 1
               /\ file'[j] = LineOf(c)[a + (j - n) - 1] /\ a + (j - n) - 1 \in 1 .. 3
      <4>1. a + (j - n) - 1 = 1
        BY <1>8, <3>2, LineCells
      <4>2. i \in Int /\ j \in Int
        BY <1>2, <1>5
      <4> QED
        BY <1>2, <3>0, <4>1, <4>2
    <3> QED
      BY <1>6, <3>1, <3>2
  <2> QED
    BY <1>6, <2>1, <2>2
<1> QED
  BY <1>3, <1>4, <1>7, <1>8 DEF HeadsOnce, n

LEMMA FileInit == Init => FileInv
<1>1. <<>> \in Seq(Cells) /\ DOMAIN <<>> = {} /\ IsFiniteSet({})
  BY EmptySeq, FS_EmptySet
<1> QED
  BY <1>1 DEF Init, FileInv, HeadsOnce

LEMMA FileKept == FileInv /\ UNCHANGED writerVars => FileInv'
BY DEF FileInv, HeadsOnce, TailIs, writerVars, fileVars

LEMMA BeginKeepsFile ==
  ASSUME FileInv, NEW c \in Capsules, AppendBegin(c)
  PROVE  FileInv'
<1>1. PICK n \in 0 .. 2 : file' = file \o SubSeq(LineOf(c), 1, n) /\ written' = n
  BY DEF AppendBegin
<1>2. /\ appending' = c /\ tried' = tried \cup {c} /\ acked' = acked
      /\ c \notin tried /\ acked \subseteq tried /\ tried \subseteq Capsules
  BY DEF AppendBegin, FileInv
<1>3. \A i \in DOMAIN file : file[i] # HeadOf(c)
  <2>1. HeadOf(c).of = c /\ c # NoCapsule
    BY NoCapsuleAssumption DEF HeadOf
  <2> QED
    BY <1>2, <2>1 DEF FileInv
<1>4. /\ file' \in Seq(Cells)
      /\ Len(file') = Len(file) + n
      /\ HeadsOnce(file')
      /\ \A i \in DOMAIN file' : file'[i].of \in tried' \cup {NoCapsule}
      /\ \A i \in 1 .. Len(file) : file'[i] = file[i]
      /\ \A i \in 1 .. n : file'[Len(file) + i] = LineOf(c)[i]
  <2>1. n - 1 + 1 = n /\ \A i \in 1 .. n : 1 + i - 1 = i
    OBVIOUS
  <2>2. /\ 1 \in 1 .. 3 /\ n \in 0 .. 3 /\ 1 <= n + 1
        /\ 1 = 1 => \A i \in DOMAIN file : file[i] # HeadOf(c)
        /\ file' = file \o SubSeq(LineOf(c), 1, n)
        /\ tried \cup {c} \subseteq tried'
    BY <1>1, <1>2, <1>3
  <2> HIDE DEF LineOf
  <2>3. /\ file' \in Seq(Cells)
        /\ Len(file') = Len(file) + (n - 1 + 1)
        /\ HeadsOnce(file')
        /\ \A i \in DOMAIN file' : file'[i].of \in tried' \cup {NoCapsule}
        /\ \A i \in 1 .. Len(file) : file'[i] = file[i]
        /\ \A i \in 1 .. n - 1 + 1 : file'[Len(file) + i] = LineOf(c)[1 + i - 1]
    BY <2>2, PartAppended
  <2> QED
    BY <2>1, <2>3
<1>5. Len(file) \in Nat /\ DOMAIN file = 1 .. Len(file) /\ DOMAIN file' = 1 .. Len(file')
  BY <1>4, LenProperties DEF FileInv
<1>6. TailIs(file', c, n)
  <2>1. n >= 1 => file'[Len(file) + 1] = HeadOf(c)
    BY <1>4, Lines
  <2>2. n = 2 => file'[Len(file) + 2] = TailOf(c)
    BY <1>4, Lines
  <2> QED
    BY <1>4, <1>5, <2>1, <2>2 DEF TailIs
<1>7. n = 0 => \A i \in DOMAIN file' : file'[i] # HeadOf(c)
  BY <1>3, <1>4, <1>5
<1>8. IsFiniteSet(tried')
  BY <1>2, FS_AddElement DEF FileInv
<1> QED
  BY <1>1, <1>2, <1>4, <1>6, <1>7, <1>8 DEF FileInv

LEMMA FinishKeepsFile ==
  ASSUME FileInv, AppendFinish
  PROVE  /\ FileInv' /\ appending \in Capsules /\ appending \in tried /\ appending \notin acked
         /\ written \in 0 .. 2 /\ written <= Len(file)
         /\ Len(file') = Len(file) - written + 3
         /\ \A i \in 1 .. Len(file) : file'[i] = file[i]
         /\ \A i \in 1 .. 3 : file'[Len(file) - written + i] = LineOf(appending)[i]
<1>1. /\ file' = file \o SubSeq(LineOf(appending), written + 1, 3)
      /\ acked' = acked \cup {appending} /\ appending' = NoCapsule /\ written' = 0
      /\ tried' = tried /\ appending # NoCapsule
  BY DEF AppendFinish
<1>2. /\ appending \in tried \ acked /\ appending \in Capsules
      /\ TailIs(file, appending, written)
      /\ written = 0 => \A i \in DOMAIN file : file[i] # HeadOf(appending)
  BY <1>1 DEF FileInv
<1>3. written \in 0 .. 2 /\ written <= Len(file) /\ Len(file) \in Nat
  BY <1>2, LenProperties DEF FileInv, TailIs
<1>4. /\ file' \in Seq(Cells)
      /\ Len(file') = Len(file) + (3 - (written + 1) + 1)
      /\ HeadsOnce(file')
      /\ \A i \in DOMAIN file' : file'[i].of \in tried' \cup {NoCapsule}
      /\ \A i \in 1 .. Len(file) : file'[i] = file[i]
      /\ \A i \in 1 .. 3 - (written + 1) + 1 :
           file'[Len(file) + i] = LineOf(appending)[(written + 1) + i - 1]
  <2>1. /\ written + 1 \in 1 .. 3 /\ 3 \in 0 .. 3 /\ written + 1 <= 3 + 1
        /\ tried \cup {appending} \subseteq tried'
        /\ written + 1 = 1 => \A i \in DOMAIN file : file[i] # HeadOf(appending)
    BY <1>1, <1>2, <1>3
  <2> HIDE DEF LineOf
  <2> QED
    BY <1>1, <1>2, <2>1, PartAppended
<1>5. Len(file') = Len(file) - written + 3
  BY <1>3, <1>4
<1>6. ASSUME NEW i \in 1 .. 3 PROVE file'[Len(file) - written + i] = LineOf(appending)[i]
  <2>1. CASE i > written
    <3>1. /\ i - written \in 1 .. 3 - (written + 1) + 1
          /\ Len(file) + (i - written) = Len(file) - written + i
          /\ (written + 1) + (i - written) - 1 = i
      BY <1>3, <2>1
    <3>2. file'[Len(file) + (i - written)] = LineOf(appending)[(written + 1) + (i - written) - 1]
      BY <1>4, <3>1
    <3> QED
      BY <3>1, <3>2
  <2>2. CASE i <= written
    <3>1. Len(file) - written + i \in 1 .. Len(file)
      BY <1>3, <2>2
    <3>2. file'[Len(file) - written + i] = file[Len(file) - written + i]
      BY <1>4, <3>1
    <3>3. CASE i = 1
      <4>1. Len(file) - written + 1 = Len(file) - written + i /\ written >= 1
        BY <1>3, <2>2, <3>3
      <4> QED
        BY <1>2, <3>2, <3>3, <4>1, Lines DEF TailIs
    <3>4. CASE i = 2
      <4>1. written = 2 /\ Len(file) - written + i = Len(file)
        BY <1>3, <2>2, <3>4
      <4> QED
        BY <1>2, <3>2, <3>4, <4>1, Lines DEF TailIs
    <3> QED
      BY <1>3, <2>2, <3>3, <3>4
  <2> QED
    BY <1>3, <2>1, <2>2
<1>7. FileInv'
  <2>1. acked' \subseteq tried' /\ tried' \subseteq Capsules /\ IsFiniteSet(tried')
    BY <1>1, <1>2 DEF FileInv
  <2> QED
    BY <1>1, <1>4, <2>1 DEF FileInv
<1> QED
  BY <1>2, <1>3, <1>4, <1>5, <1>6, <1>7

LEMMA FailKeepsFile == FileInv /\ AppendFails => FileInv'
BY DEF FileInv, AppendFails, HeadsOnce

LEMMA FileStep == FileInv /\ [Next]_vars => FileInv'
<1>1. ASSUME FileInv, FlushBegin \/ FlushStep \/ SaveFails \/ Crash \/ Tick \/ UNCHANGED vars
      PROVE  FileInv'
  <2>1. UNCHANGED writerVars
    BY <1>1 DEF FlushBegin, FlushStep, FlushRead, PushAnswered, PushSucceeds, PushRateLimited,
                PushFails, TruncateCursor, WriteCursor, Charge, SaveFails, Crash, Tick, vars
  <2> QED
    BY <1>1, <2>1, FileKept
<1> QED
  BY <1>1, BeginKeepsFile, FinishKeepsFile, FailKeepsFile DEF Next, Write

-----------------------------------------------------------------------------
ReadAt(o, p) ==
  [pc |-> "read", offset |-> o, processed |-> p, line |-> <<>>, limited |-> FALSE]

LEMMA NothingHeld ==
  ASSUME NEW f \in Seq(Cells), NEW o \in 0 .. Len(f)
  PROVE  Segment(f, o, <<>>) /\ Len(<<>>) = 0
<1>1. Len(f) \in Nat /\ <<>> \in Seq(Cells) /\ Len(<<>>) = 0
  BY LenProperties, EmptySeq
<1> QED
  BY <1>1 DEF Segment

LEMMA HeldIdle ==
  ASSUME NEW f \in Seq(Cells), NEW D
  PROVE  LineHeld(f, D, Idle)
<1>1. 0 \in 0 .. Len(f) /\ <<>> \in Seq(Cells) /\ 0 \in 0 .. BatchSize
  BY LenProperties, EmptySeq, OutboxAssumption
<1>2. Segment(f, 0, <<>>) /\ Covered(f, 0, D)
  BY <1>1, NothingHeld, CoveredNone
<1>3. Idle \in Flushes
  BY <1>1 DEF Idle, Flushes, Places
<1> QED
  BY <1>2, <1>3 DEF Idle, LineHeld

LEMMA HeldRead ==
  ASSUME NEW f \in Seq(Cells), NEW D, NEW o \in 0 .. Len(f), NEW p \in 0 .. BatchSize,
         Covered(f, o, D)
  PROVE  LineHeld(f, D, ReadAt(o, p))
<1>1. o \in Nat /\ <<>> \in Seq(Cells)
  BY LenProperties, EmptySeq
<1>2. Segment(f, o, <<>>)
  BY NothingHeld
<1>3. ReadAt(o, p) \in Flushes
  BY <1>1 DEF ReadAt, Flushes, Places
<1> QED
  BY <1>2, <1>3 DEF ReadAt, LineHeld

LEMMA HeldGrown ==
  ASSUME NEW f \in Seq(Cells), NEW x \in Seq(Cells), NEW D, NEW r, LineHeld(f, D, r)
  PROVE  LineHeld(f \o x, D, r)
<1>1. Segment(f \o x, r.offset, r.line)
  BY SegmentGrown DEF LineHeld
<1>2. r.offset \in 0 .. Len(f)
  BY LenProperties DEF LineHeld, Segment
<1>3. Covered(f \o x, r.offset, D)
  BY <1>2, CoveredGrown DEF LineHeld
<1> QED
  BY <1>1, <1>3 DEF LineHeld

LEMMA HeldMore ==
  ASSUME NEW f, NEW D, NEW E, D \subseteq E, NEW r, LineHeld(f, D, r)
  PROVE  LineHeld(f, E, r)
BY CoveredMore DEF LineHeld

(* A capsule's line is not empty, and its capsule was handed to Append.    *)
LEMMA HeldLine ==
  ASSUME NEW f \in Seq(Cells), NEW D, NEW r, LineHeld(f, D, r), Decode(r.line) # NoCapsule
  PROVE  /\ r.line # <<>> /\ Decode(r.line) \in Capsules
         /\ r.offset + 1 \in DOMAIN f /\ f[r.offset + 1] = HeadOf(Decode(r.line))
         /\ r.offset + Len(r.line) \in 0 .. Len(f)
<1> DEFINE c == Decode(r.line)
<1>1. c \in Capsules /\ r.line \in {Text(c), LineOf(c)}
  BY DecodedLine
<1>2. Len(r.line) \in {2, 3} /\ r.line[1] = HeadOf(c)
  BY <1>1, Lines
<1>3. /\ r.offset \in Nat /\ r.offset + Len(r.line) <= Len(f) /\ Len(f) \in Nat
      /\ \A i \in 1 .. Len(r.line) : r.line[i] = f[r.offset + i]
  BY LenProperties DEF LineHeld, Segment
<1> HIDE DEF c
<1>4. 1 \in 1 .. Len(r.line)
  BY <1>2
<1>5. f[r.offset + 1] = HeadOf(c)
  BY <1>2, <1>3, <1>4
<1>6. r.offset + 1 \in DOMAIN f /\ r.offset + Len(r.line) \in 0 .. Len(f)
  BY <1>2, <1>3, LenProperties
<1>7. r.line # <<>>
  <2>1. Len(<<>>) = 0
    BY EmptySeq
  <2> QED
    BY <1>2, <2>1
<1> QED
  BY <1>1, <1>5, <1>6, <1>7 DEF c

LEMMA HeldPast ==
  ASSUME NEW f \in Seq(Cells), NEW D, NEW r, LineHeld(f, D, r),
         r.pc \in {"truncate", "write", "charge"}, ~r.limited
  PROVE  /\ r.offset + Len(r.line) \in 0 .. Len(f)
         /\ Covered(f, r.offset + Len(r.line), D)
<1>1. Decode(r.line) # NoCapsule /\ Decode(r.line) \in D
  BY DEF LineHeld
<1>2. r.line # <<>> /\ r.offset + Len(r.line) \in 0 .. Len(f)
  BY <1>1, HeldLine
<1>3. /\ Segment(f, r.offset, r.line) /\ Covered(f, r.offset, D) /\ r.line \in Seq(Cells)
      /\ r.offset \in Nat
  BY DEF LineHeld, Segment
<1> QED
  BY <1>1, <1>2, <1>3, CoveredPast

LEMMA HeldEndOfTurn ==
  ASSUME file \in Seq(Cells), NEW D, LineHeld(file, D, flush), flush.pc \in {"write", "charge"}
  PROVE  LineHeld(file, D, EndOfTurn)
<1>1. CASE flush.limited \/ ~Terminated(flush.line)
  BY <1>1, HeldIdle DEF EndOfTurn
<1>2. CASE ~(flush.limited \/ ~Terminated(flush.line))
  <2>1. PastLine \in 0 .. Len(file) /\ Covered(file, PastLine, D)
    BY <1>2, HeldPast DEF PastLine
  <2>2. flush.processed \in 0 .. BatchSize
    BY DEF LineHeld, Flushes
  <2>3. EndOfTurn = ReadAt(PastLine, flush.processed)
    BY <1>2 DEF EndOfTurn, Idle, ReadAt
  <2> QED
    BY <2>1, <2>2, <2>3, HeldRead
<1> QED
  BY <1>1, <1>2

-----------------------------------------------------------------------------
LEMMA FlushInit == Init => FlushInv
<1> SUFFICES ASSUME Init PROVE FlushInv
  OBVIOUS
<1>1. file \in Seq(Cells) /\ Len(file) = 0
  BY EmptySeq DEF Init
<1>2. LineHeld(file, delivered, flush)
  BY <1>1, HeldIdle DEF Init
<1>3. cursor \in 0 .. Len(file) /\ Covered(file, cursor, delivered)
  <2>1. cursor = 0 /\ 0 \in 0 .. Len(file)
    BY <1>1 DEF Init
  <2> QED
    BY <1>1, <2>1, CoveredNone
<1> QED
  BY <1>2, <1>3, NewIsBreaker, OutboxAssumption, MaxTornAssumption DEF Init, FlushInv

(* The file grows.                                                         *)
LEMMA FlushGrows ==
  ASSUME FileInv, FlushInv, NEW x \in Seq(Cells), file' = file \o x,
         tried \subseteq tried', torn' \in 0 .. MaxTorn,
         UNCHANGED <<cursor, breaker, flush, delivered, faults>>
  PROVE  FlushInv'
<1>1. file \in Seq(Cells)
  BY DEF FileInv
<1>2. LineHeld(file', delivered, flush)
  BY <1>1, HeldGrown DEF FlushInv
<1>3. cursor \in 0 .. Len(file) /\ Covered(file', cursor, delivered)
  BY <1>1, CoveredGrown DEF FlushInv
<1>4. cursor \in 0 .. Len(file')
  <2>1. Len(file') = Len(file) + Len(x) /\ Len(file) \in Nat /\ Len(x) \in Nat
    BY <1>1, Grown, LenProperties
  <2> QED
    BY <1>3, <2>1
<1> QED
  BY <1>2, <1>3, <1>4 DEF FlushInv

LEMMA WriteKeepsFlush ==
  ASSUME FileInv, FlushInv, Write
  PROVE  FlushInv'
<1>1. CASE AppendFails
  <2>1. /\ LineHeld(file', delivered', flush') /\ cursor' \in 0 .. Len(file')
        /\ Covered(file', cursor', delivered')
    BY <1>1 DEF AppendFails, upstreamVars, FlushInv
  <2>2. torn' \in 0 .. MaxTorn
    BY <1>1, MaxTornAssumption DEF AppendFails, FlushInv
  <2> QED
    BY <1>1, <2>1, <2>2 DEF AppendFails, upstreamVars, FlushInv
<1>2. CASE AppendFinish
  <2>1. appending \in Capsules /\ written \in 0 .. 2
    BY <1>2, FinishKeepsFile
  <2>2. SubSeq(LineOf(appending), written + 1, 3) \in Seq(Cells)
    <3>1. written + 1 \in 1 .. 3 /\ 3 \in 0 .. 3 /\ written + 1 <= 3 + 1
      BY <2>1
    <3> QED
      BY <2>1, <3>1, LinePart
  <2>3. /\ file' = file \o SubSeq(LineOf(appending), written + 1, 3)
        /\ tried \subseteq tried' /\ torn' \in 0 .. MaxTorn
        /\ UNCHANGED <<cursor, breaker, flush, delivered, faults>>
    BY <1>2 DEF AppendFinish, upstreamVars, FlushInv
  <2> QED
    BY <2>2, <2>3, FlushGrows
<1>3. ASSUME NEW c \in Capsules, AppendBegin(c) PROVE FlushInv'
  <2>1. PICK n \in 0 .. 2 : file' = file \o SubSeq(LineOf(c), 1, n)
    BY <1>3 DEF AppendBegin
  <2>2. SubSeq(LineOf(c), 1, n) \in Seq(Cells)
    <3>1. 1 \in 1 .. 3 /\ n \in 0 .. 3 /\ 1 <= n + 1
      BY <2>1
    <3> QED
      BY <3>1, LinePart
  <2>3. /\ tried \subseteq tried' /\ torn' \in 0 .. MaxTorn
        /\ UNCHANGED <<cursor, breaker, flush, delivered, faults>>
    BY <1>3 DEF AppendBegin, upstreamVars, FlushInv
  <2> QED
    BY <2>1, <2>2, <2>3, FlushGrows
<1> QED
  BY <1>1, <1>2, <1>3 DEF Write

(* What is left to show of a step that leaves the file alone.              *)
LEMMA FlushMoves ==
  ASSUME FileInv, FlushInv, UNCHANGED writerVars,
         delivered \subseteq delivered', delivered' \subseteq tried,
         LineHeld(file, delivered', flush'),
         cursor' \in 0 .. Len(file), Covered(file, cursor', delivered'),
         breaker' \in Breakers, faults' \in 0 .. MaxFaults
  PROVE  FlushInv'
<1>1. file' = file /\ tried' = tried /\ torn' = torn
  BY DEF writerVars, fileVars
<1> QED
  BY <1>1 DEF FlushInv

LEMMA FlushMovesOn ==
  ASSUME FileInv, FlushInv, UNCHANGED writerVars, cursor' = cursor,
         delivered \subseteq delivered', delivered' \subseteq tried,
         LineHeld(file, delivered', flush'),
         breaker' \in Breakers, faults' \in 0 .. MaxFaults
  PROVE  FlushInv'
<1>1. cursor' \in 0 .. Len(file) /\ Covered(file, cursor', delivered')
  BY CoveredMore DEF FlushInv
<1> QED
  BY <1>1, FlushMoves

(* FlushRead: the next line is held, is passed over, or ends the flush.    *)
LEMMA ReadHeld ==
  ASSUME FileInv, FlushInv, flush.pc = "read"
  PROVE  LineHeld(file, delivered, NextLine)
<1> DEFINE line == ReadLine(file, flush.offset)
<1>1. /\ file \in Seq(Cells) /\ LineHeld(file, delivered, flush) /\ flush \in Flushes
      /\ flush.line = <<>> /\ ~flush.limited
      /\ Covered(file, flush.offset, delivered)
      /\ flush.offset \in 0 .. Len(file) /\ flush.offset \in Nat
      /\ flush.processed \in 0 .. BatchSize
  <2>1. flush.offset \in 0 .. Len(file)
    BY LenProperties DEF FileInv, FlushInv, LineHeld, Segment
  <2> QED
    BY <2>1 DEF FileInv, FlushInv, LineHeld, Flushes
<1>2. /\ Segment(file, flush.offset, line) /\ line \in Seq(Cells)
      /\ Len(line) = LineEnd(file, flush.offset) - flush.offset
  BY <1>1, ReadIsSegment DEF Segment
<1> HIDE DEF line
<1>3. CASE BatchDone \/ AtEnd
  BY <1>1, <1>3, HeldIdle DEF NextLine
<1>4. CASE ~BatchDone /\ ~AtEnd /\ Decode(line) # NoCapsule
  <2>1. NextLine = [flush EXCEPT !.pc = "push", !.line = line]
    BY <1>4 DEF NextLine, line
  <2>2. flush.processed < BatchSize
    BY <1>1, <1>4, OutboxAssumption DEF BatchDone
  <2> DEFINE r == [flush EXCEPT !.pc = "push", !.line = line]
  <2>3. r \in Flushes /\ r.pc = "push" /\ r.line = line /\ r.offset = flush.offset
        /\ r.limited = flush.limited /\ r.processed = flush.processed
    BY <1>1, <1>2 DEF Flushes, Places
  <2> HIDE DEF r
  <2>4. LineHeld(file, delivered, r)
    BY <1>1, <1>2, <1>4, <2>2, <2>3 DEF LineHeld
  <2> QED
    BY <2>1, <2>4 DEF r
<1>5. CASE ~BatchDone /\ ~AtEnd /\ Decode(line) = NoCapsule
  <2>1. CASE ~PassOver(line)
    <3>1. NextLine = Idle
      BY <1>5, <2>1 DEF NextLine, line
    <3> QED
      BY <1>1, <3>1, HeldIdle
  <2>2. CASE PassOver(line)
    <3>1. NextLine = [flush EXCEPT !.offset = @ + Len(line)]
      BY <1>5, <2>2 DEF NextLine, line
    <3>2. NextLine = ReadAt(flush.offset + Len(line), flush.processed)
      BY <1>1, <3>1 DEF ReadAt, Flushes
    <3>3. Terminated(line) /\ line # <<>>
      BY <2>2 DEF PassOver, Terminated
    <3>4. Covered(file, flush.offset + Len(line), delivered)
      BY <1>1, <1>2, <1>5, <3>3, CoveredPast
    <3>5. flush.offset + Len(line) \in 0 .. Len(file)
      BY <1>1, <1>2, LenProperties DEF Segment
    <3> QED
      BY <1>1, <3>2, <3>4, <3>5, HeldRead
  <2> QED
    BY <2>1, <2>2
<1> QED
  BY <1>3, <1>4, <1>5

(* The capsule that is pushed was handed to Append.                        *)
LEMMA PushedWasTried ==
  ASSUME FileInv, FlushInv, flush.pc = "push", Posted
  PROVE  delivered \subseteq delivered' /\ delivered' \subseteq tried
         /\ delivered' = delivered \cup {Decode(flush.line)}
<1>1. Decode(flush.line) # NoCapsule
  BY DEF FlushInv, LineHeld
<1>2. /\ flush.offset + 1 \in DOMAIN file
      /\ file[flush.offset + 1] = HeadOf(Decode(flush.line))
  BY <1>1, HeldLine DEF FileInv, FlushInv
<1>3. file[flush.offset + 1].of = Decode(flush.line)
  BY <1>2 DEF HeadOf
<1>4. Decode(flush.line) \in tried
  BY <1>1, <1>2, <1>3 DEF FileInv
<1> QED
  BY <1>4 DEF Posted, FlushInv

LEMMA FlushStepKeeps ==
  ASSUME FileInv, FlushInv, [Next]_vars
  PROVE  FlushInv'
<1>0. /\ file \in Seq(Cells) /\ LineHeld(file, delivered, flush) /\ flush \in Flushes
      /\ delivered \subseteq tried /\ breaker \in Breakers /\ faults \in 0 .. MaxFaults
  BY DEF FileInv, FlushInv, LineHeld
<1>i. LineHeld(file, delivered, Idle)
  BY <1>0, HeldIdle
<1>b. /\ AfterAllow(breaker) \in Breakers /\ AfterSuccess(breaker) \in Breakers
      /\ AfterFailure(breaker) \in Breakers /\ AfterTick(breaker) \in Breakers
  BY <1>0, BreakerMethods
<1>1. CASE Write
  BY <1>1, WriteKeepsFlush
<1>2. CASE FlushBegin
  <2>1. LineHeld(file, delivered, flush')
    <3>1. CASE Admitted /\ UnderCeiling
      <4>1. flush' = ReadAt(cursor, 0)
        BY <1>2, <3>1 DEF FlushBegin, Idle, ReadAt
      <4>2. 0 \in 0 .. BatchSize /\ cursor \in 0 .. Len(file) /\ Covered(file, cursor, delivered)
        BY OutboxAssumption DEF FlushInv
      <4> QED
        BY <1>0, <4>1, <4>2, HeldRead
    <3>2. CASE ~(Admitted /\ UnderCeiling)
      BY <1>2, <1>i, <3>2 DEF FlushBegin
    <3> QED
      BY <3>1, <3>2
  <2>2. breaker' \in Breakers
    BY <1>0, <1>2, <1>b DEF FlushBegin
  <2> QED
    BY <1>0, <1>2, <2>1, <2>2, FlushMovesOn DEF FlushBegin, upstreamVars
<1>3. CASE FlushRead
  <2>1. LineHeld(file, delivered, flush')
    BY <1>3, ReadHeld DEF FlushRead
  <2> QED
    BY <1>0, <1>3, <2>1, FlushMovesOn DEF FlushRead, upstreamVars
<1>4. CASE PushSucceeds
  <2>1. /\ flush.pc = "push" /\ delivered \subseteq delivered' /\ delivered' \subseteq tried
        /\ Decode(flush.line) \in delivered'
    BY <1>4, PushedWasTried DEF PushSucceeds
  <2>2. flush' = [flush EXCEPT !.pc = "truncate", !.processed = @ + 1]
    BY <1>4 DEF PushSucceeds
  <2>3. flush.processed + 1 \in 0 .. BatchSize
    BY <1>0, <2>1, OutboxAssumption DEF LineHeld, Flushes
  <2>4. /\ flush' \in Flushes /\ flush'.pc = "truncate" /\ flush'.line = flush.line
        /\ flush'.offset = flush.offset /\ flush'.limited = flush.limited
    BY <1>0, <2>2, <2>3 DEF Flushes, Places
  <2>5. LineHeld(file, delivered', flush)
    BY <1>0, <2>1, HeldMore
  <2>6. LineHeld(file, delivered', flush')
    BY <2>1, <2>4, <2>5 DEF LineHeld
  <2>7. breaker' \in Breakers
    BY <1>0, <1>4, <1>b DEF PushSucceeds
  <2> QED
    BY <1>0, <1>4, <2>1, <2>6, <2>7, FlushMovesOn DEF PushSucceeds
<1>5. CASE PushRateLimited
  <2>1. flush' = [flush EXCEPT !.pc = "truncate", !.limited = TRUE] /\ flush.pc = "push"
    BY <1>5 DEF PushRateLimited
  <2>2. /\ flush' \in Flushes /\ flush'.pc = "truncate" /\ flush'.line = flush.line
        /\ flush'.offset = flush.offset /\ flush'.limited = TRUE
    BY <1>0, <2>1 DEF Flushes, Places
  <2>3. LineHeld(file, delivered, flush')
    BY <1>0, <2>1, <2>2 DEF LineHeld
  <2>4. breaker' \in Breakers
    BY <1>0, <1>5, <1>b DEF PushRateLimited
  <2> QED
    BY <1>0, <1>5, <2>3, <2>4, FlushMovesOn DEF PushRateLimited, upstreamVars
<1>6. CASE PushFails
  <2>1. delivered \subseteq delivered' /\ delivered' \subseteq tried
    BY <1>0, <1>6, PushedWasTried DEF PushFails, upstreamVars
  <2>2. LineHeld(file, delivered', flush')
    BY <1>0, <1>6, HeldIdle DEF PushFails, AfterError
  <2> QED
    BY <1>0, <1>6, <2>1, <2>2, FlushMovesOn DEF PushFails
<1>7. CASE TruncateCursor
  <2>1. flush' = [flush EXCEPT !.pc = "write"] /\ flush.pc = "truncate" /\ cursor' = 0
    BY <1>7 DEF TruncateCursor
  <2>2. /\ flush' \in Flushes /\ flush'.pc = "write" /\ flush'.line = flush.line
        /\ flush'.offset = flush.offset /\ flush'.limited = flush.limited
    BY <1>0, <2>1 DEF Flushes, Places
  <2>3. LineHeld(file, delivered, flush')
    BY <1>0, <2>1, <2>2 DEF LineHeld
  <2>4. cursor' \in 0 .. Len(file) /\ Covered(file, cursor', delivered)
    BY <1>0, <2>1, CoveredNone, LenProperties
  <2> QED
    BY <1>0, <1>7, <2>3, <2>4, FlushMoves DEF TruncateCursor, upstreamVars
<1>8. CASE WriteCursor
  <2>1. flush.pc = "write" /\ cursor' = SavedOffset
    BY <1>8 DEF WriteCursor
  <2>2. cursor' \in 0 .. Len(file) /\ Covered(file, cursor', delivered)
    <3>1. CASE flush.limited
      BY <1>0, <2>1, <3>1, LenProperties DEF SavedOffset, LineHeld, Segment
    <3>2. CASE ~flush.limited
      BY <1>0, <2>1, <3>2, HeldPast DEF SavedOffset, PastLine
    <3> QED
      BY <3>1, <3>2
  <2>3. LineHeld(file, delivered, flush')
    <3>1. CASE MustCharge
      <4>1. flush' = [flush EXCEPT !.pc = "charge"] /\ ~flush.limited
        BY <1>8, <3>1 DEF WriteCursor, MustCharge
      <4>2. /\ flush' \in Flushes /\ flush'.pc = "charge" /\ flush'.line = flush.line
            /\ flush'.offset = flush.offset /\ flush'.limited = flush.limited
        BY <1>0, <4>1 DEF Flushes, Places
      <4> QED
        BY <1>0, <2>1, <4>1, <4>2 DEF LineHeld
    <3>2. CASE ~MustCharge
      BY <1>0, <1>8, <2>1, <3>2, HeldEndOfTurn DEF WriteCursor
    <3> QED
      BY <3>1, <3>2
  <2> QED
    BY <1>0, <1>8, <2>2, <2>3, FlushMoves DEF WriteCursor, upstreamVars
<1>9. CASE Charge
  <2>1. LineHeld(file, delivered, flush')
    BY <1>0, <1>9, <1>i, HeldEndOfTurn DEF Charge
  <2> QED
    BY <1>0, <1>9, <2>1, FlushMovesOn DEF Charge, upstreamVars
<1>10. CASE SaveFails \/ Crash
  <2>1. flush' = Idle /\ faults' \in 0 .. MaxFaults
    BY <1>0, <1>10, OutboxAssumption DEF SaveFails, Crash
  <2>2. breaker' \in Breakers
    BY <1>0, <1>10, NewIsBreaker DEF SaveFails, Crash
  <2> QED
    BY <1>0, <1>10, <1>i, <2>1, <2>2, FlushMovesOn DEF SaveFails, Crash, upstreamVars
<1>11. CASE Tick
  BY <1>0, <1>11, <1>b, FlushMovesOn DEF Tick, upstreamVars
<1>12. CASE UNCHANGED vars
  BY <1>12 DEF vars, writerVars, fileVars, upstreamVars, FlushInv
<1> QED
  BY <1>1, <1>2, <1>3, <1>4, <1>5, <1>6, <1>7, <1>8, <1>9, <1>10, <1>11, <1>12
     DEF Next, FlushStep, PushAnswered

-----------------------------------------------------------------------------
OutboxInv == BillInv /\ FileInv /\ FlushInv

LEMMA OutboxInvariance == Spec => []OutboxInv
<1>1. Init => OutboxInv
  BY InitBill, FileInit, FlushInit DEF OutboxInv
<1>2. OutboxInv /\ [Next]_vars => OutboxInv'
  BY BillStep, FileStep, FlushStepKeeps DEF OutboxInv
<1> QED
  BY <1>1, <1>2, PTL DEF Spec

(* TypeOK: the flusher's cursor, place and locals stay within the file,    *)
(* the batch and the budget, and what it has posted was handed to Append.  *)
THEOREM OutboxTypeCorrect == Spec => []TypeOK
<1>1. ASSUME OutboxInv PROVE TypeOK
  <2>1. /\ file \in Seq(Cells) /\ appending \in Capsules \cup {NoCapsule} /\ written \in 0 .. 2
        /\ acked \subseteq tried /\ tried \subseteq Capsules
    BY <1>1 DEF OutboxInv, FileInv, TailIs
  <2>2. /\ cursor \in 0 .. Len(file) /\ breaker \in Breakers
        /\ delivered \subseteq tried /\ torn \in 0 .. MaxTorn /\ faults \in 0 .. MaxFaults
        /\ LineHeld(file, delivered, flush) /\ flush \in Flushes
    BY <1>1 DEF OutboxInv, FlushInv, LineHeld
  <2>3. ledger \in 0 .. Ceiling /\ spend \in 0 .. MaxSpend /\ unanswered \in 0 .. MaxSpend
    BY <1>1, OutboxAssumption DEF OutboxInv, BillInv, BudgetInv
  <2>4. /\ flush.pc \in {"idle", "read", "push", "truncate", "write", "charge"}
        /\ flush.processed \in 0 .. BatchSize /\ flush.limited \in BOOLEAN
    BY <2>2 DEF Flushes, Places
  <2>5. flush.offset + Len(flush.line) \in 0 .. Len(file)
    BY <2>1, <2>2, LenProperties DEF LineHeld, Segment
  <2>6. flush.pc = "push" => Decode(flush.line) \in Capsules
    BY <2>2, DecodedLine DEF LineHeld
  <2> QED
    BY <2>1, <2>2, <2>3, <2>4, <2>5, <2>6 DEF TypeOK
<1> QED
  BY <1>1, OutboxInvariance, PTL

(* CursorCoversPosted: whatever is written, cut short, read half-way or    *)
(* saved badly, the cursor passes no capsule that was not posted.          *)
THEOREM CursorCoversPostedHolds == Spec => []CursorCoversPosted
<1>1. ASSUME OutboxInv PROVE CursorCoversPosted
  <2> SUFFICES ASSUME NEW c \in Capsules, Readable(file, c), Place(file, c) < cursor
               PROVE  c \in delivered
    BY DEF CursorCoversPosted
  <2>1. StartsAt(file, c, Place(file, c))
    BY DEF Readable, Place
  <2>2. file \in Seq(Cells) /\ Covered(file, cursor, delivered)
    BY <1>1 DEF OutboxInv, FileInv, FlushInv
  <2> QED
    BY <2>1, <2>2, CoveredStart
<1> QED
  BY <1>1, OutboxInvariance, PTL

-----------------------------------------------------------------------------
(* What a torn line costs.                                                 *)
Lost(f, A) == {c \in A : ~Readable(f, c)}

LEMMA ReadableGrown ==
  ASSUME NEW f \in Seq(Cells), NEW x \in Seq(Cells), NEW c \in Capsules, Readable(f, c)
  PROVE  Readable(f \o x, c)
<1>1. PICK o \in LineStarts(f) : StartsAt(f, c, o)
  BY DEF Readable
<1>2. StartsAt(f \o x, c, o)
  BY <1>1, StartsAtGrown
<1> QED
  BY <1>2 DEF Readable, StartsAt

LEMMA FewerLost ==
  ASSUME NEW A, NEW B, A \subseteq B, IsFiniteSet(B)
  PROVE  Cardinality(A) \in Nat /\ Cardinality(B) \in Nat /\ Cardinality(A) <= Cardinality(B)
BY FS_Subset, FS_CardinalityType

(* The step that ends an Append: the line is the capsule's own when the    *)
(* write began at the start of a line, and is lost in a torn one if not.   *)
LEMMA FinishReadable ==
  ASSUME FileInv, AppendFinish
  PROVE  /\ Len(file') \in LineStarts(file')
         /\ Clean <=> Len(file) - written \in LineStarts(file')
         /\ Clean => StartsAt(file', appending, Len(file) - written)
<1> DEFINE s == Len(file) - written
<1>1. /\ FileInv' /\ appending \in Capsules
      /\ written \in 0 .. 2 /\ written <= Len(file)
      /\ Len(file') = s + 3
      /\ \A i \in 1 .. Len(file) : file'[i] = file[i]
      /\ \A i \in 1 .. 3 : file'[s + i] = LineOf(appending)[i]
  BY FinishKeepsFile
<1>2. /\ file \in Seq(Cells) /\ file' \in Seq(Cells) /\ Len(file) \in Nat
      /\ DOMAIN file = 1 .. Len(file) /\ DOMAIN file' = 1 .. Len(file')
  BY <1>1, LenProperties DEF FileInv
<1>3. s \in 0 .. Len(file) /\ s \in Nat
  BY <1>1, <1>2
<1>4. file'[s + 1] = HeadOf(appending) /\ file'[s + 2] = TailOf(appending)
      /\ file'[s + 3] = Newline
  BY <1>1, Lines
<1>5. Len(file') \in LineStarts(file')
  BY <1>1, <1>2, <1>3, <1>4 DEF LineStarts
<1>6. s \in LineStarts(file) <=> s \in LineStarts(file')
  <2>1. s \in DOMAIN file <=> s \in DOMAIN file'
    BY <1>1, <1>2, <1>3
  <2>2. s \in DOMAIN file => file'[s] = file[s]
    BY <1>1, <1>2
  <2> QED
    BY <2>1, <2>2 DEF LineStarts
<1>7. s \in LineStarts(file') => StartsAt(file', appending, s)
  BY <1>1, <1>2, <1>3, <1>4, StartsAtCells
<1> QED
  BY <1>5, <1>6, <1>7 DEF Clean

LEMMA TornStep ==
  ASSUME FileInv, FlushInv, TornInv, [Next]_vars
  PROVE  TornInv'
<1> DEFINE lost == Lost(file, acked)
<1>0. /\ file \in Seq(Cells) /\ Len(file) \in Nat
      /\ tried \subseteq Capsules /\ acked \subseteq tried
      /\ IsFiniteSet(tried) /\ IsFiniteSet(acked) /\ IsFiniteSet(lost)
  BY LenProperties, FS_Subset DEF FileInv, Lost
<1>c. Cardinality(lost) \in Nat /\ torn \in Nat
  BY <1>0, FS_CardinalityType, MaxTornAssumption DEF FlushInv
<1>t. Cardinality(lost) + (IF Clean THEN 0 ELSE 1) <= torn
  BY DEF TornInv, Lost
<1>s. ASSUME Cardinality(Lost(file', acked')) + (IF Clean' THEN 0 ELSE 1) <= torn'
      PROVE  TornInv'
  BY <1>s DEF TornInv, Lost
<1>1. CASE UNCHANGED writerVars
  BY <1>1 DEF writerVars, fileVars, TornInv, Clean
<1>2. ASSUME NEW c \in Capsules, AppendBegin(c) PROVE TornInv'
  <2>1. PICK n \in 0 .. 2 : file' = file \o SubSeq(LineOf(c), 1, n) /\ written' = n
    BY <1>2 DEF AppendBegin
  <2>2. acked' = acked /\ torn' = torn /\ appending = NoCapsule
    BY <1>2 DEF AppendBegin
  <2>3. written = 0
    BY <2>2, NoCapsuleAssumption DEF FileInv
  <2> DEFINE x == SubSeq(LineOf(c), 1, n)
  <2>4. x \in Seq(Cells) /\ Len(x) = n
    <3>1. 1 \in 1 .. 3 /\ n \in 0 .. 3 /\ 1 <= n + 1 /\ n - 1 + 1 = n
      BY <2>1
    <3> QED
      BY <3>1, LinePart
  <2>5. file' = file \o x
    BY <2>1
  <2> HIDE DEF x
  <2>6. /\ Len(file') = Len(file) + n
        /\ LineStarts(file) \subseteq LineStarts(file')
    BY <1>0, <2>4, <2>5, Grown
  <2>7. Clean => Clean'
    <3>1. Len(file') - written' = Len(file) - written
      BY <1>0, <2>1, <2>3, <2>6
    <3> QED
      BY <2>6, <3>1 DEF Clean
  <2>8. Lost(file', acked') \subseteq lost
    BY <1>0, <2>2, <2>4, <2>5, ReadableGrown DEF Lost
  <2>9. Cardinality(Lost(file', acked')) \in Nat
        /\ Cardinality(Lost(file', acked')) <= Cardinality(lost)
    BY <1>0, <2>8, FewerLost
  <2> QED
    BY <1>c, <1>t, <1>s, <2>2, <2>7, <2>9
<1>3. CASE AppendFinish
  <2>1. appending \in Capsules /\ written \in 0 .. 2
    BY <1>3, FinishKeepsFile
  <2>2. /\ Len(file') \in LineStarts(file')
        /\ Clean => StartsAt(file', appending, Len(file) - written)
    BY <1>3, FinishReadable
  <2>3. /\ acked' = acked \cup {appending} /\ torn' = torn /\ written' = 0
    BY <1>3 DEF AppendFinish
  <2> DEFINE x == SubSeq(LineOf(appending), written + 1, 3)
  <2>4. x \in Seq(Cells)
    <3>1. written + 1 \in 1 .. 3 /\ 3 \in 0 .. 3 /\ written + 1 <= 3 + 1
      BY <2>1
    <3> QED
      BY <2>1, <3>1, LinePart
  <2>5. file' = file \o x
    BY <1>3 DEF AppendFinish
  <2> HIDE DEF x
  <2>6. Clean'
    <3>1. Len(file') - written' = Len(file')
      BY <1>0, <2>3, <2>4, <2>5, Grown, LenProperties
    <3> QED
      BY <2>2, <3>1 DEF Clean
  <2>7. Lost(file', acked') \subseteq lost \cup {appending}
    BY <1>0, <2>3, <2>4, <2>5, ReadableGrown DEF Lost
  <2>8. CASE Clean
    <3>1. Readable(file', appending)
      BY <2>2, <2>8 DEF Readable, StartsAt
    <3>2. Lost(file', acked') \subseteq lost
      BY <2>7, <3>1 DEF Lost
    <3>3. Cardinality(Lost(file', acked')) \in Nat
          /\ Cardinality(Lost(file', acked')) <= Cardinality(lost)
      BY <1>0, <3>2, FewerLost
    <3> QED
      BY <1>c, <1>t, <1>s, <2>3, <2>6, <2>8, <3>3
  <2>9. CASE ~Clean
    <3>1. IsFiniteSet(lost \cup {appending})
          /\ Cardinality(lost \cup {appending}) <= Cardinality(lost) + 1
      <4> HIDE DEF lost
      <4>1. IsFiniteSet(lost)
        BY <1>0
      <4>2. /\ IsFiniteSet(lost \cup {appending})
            /\ Cardinality(lost \cup {appending}) =
                 IF appending \in lost THEN Cardinality(lost) ELSE Cardinality(lost) + 1
        BY <4>1, FS_AddElement
      <4> QED
        BY <1>c, <4>2
    <3>2. Cardinality(Lost(file', acked')) \in Nat
          /\ Cardinality(lost \cup {appending}) \in Nat
          /\ Cardinality(Lost(file', acked')) <= Cardinality(lost \cup {appending})
      BY <2>7, <3>1, FewerLost
    <3> QED
      BY <1>c, <1>t, <1>s, <2>3, <2>6, <2>9, <3>1, <3>2
  <2> QED
    BY <2>8, <2>9
<1>4. CASE AppendFails
  <2>1. Lost(file', acked') = lost /\ torn' = torn + 1
    BY <1>4 DEF AppendFails
  <2> QED
    BY <1>c, <1>t, <1>s, <2>1
<1>5. CASE FlushBegin \/ FlushStep \/ SaveFails \/ Crash \/ Tick \/ UNCHANGED vars
  BY <1>1, <1>5 DEF FlushBegin, FlushStep, FlushRead, PushAnswered, PushSucceeds, PushRateLimited,
     PushFails, TruncateCursor, WriteCursor, Charge, SaveFails, Crash, Tick, vars
<1> QED
  BY <1>2, <1>3, <1>4, <1>5 DEF Next, Write

LEMMA TornInit == Init => TornInv
<1> SUFFICES ASSUME Init PROVE TornInv
  OBVIOUS
<1>1. {c \in acked : ~Readable(file, c)} = {} /\ Len(file) - written = 0 /\ torn = 0
  BY EmptySeq DEF Init
<1>2. Clean
  BY <1>1 DEF Clean, LineStarts
<1> QED
  BY <1>1, <1>2, FS_EmptySet DEF TornInv

(* TornLineCostsOne: of the capsules that Append accepted, each short      *)
(* write makes at most one unreadable.                                     *)
THEOREM TornLineCostsOneHolds == Spec => []TornLineCostsOne
<1>1. ASSUME OutboxInv /\ TornInv PROVE TornLineCostsOne
  <2>1. IsFiniteSet(Lost(file, acked)) /\ torn \in Nat
    BY <1>1, FS_Subset, MaxTornAssumption DEF OutboxInv, FileInv, FlushInv, Lost
  <2>2. Cardinality(Lost(file, acked)) \in Nat
    BY <2>1, FS_CardinalityType
  <2> QED
    BY <1>1, <2>1, <2>2 DEF TornInv, TornLineCostsOne, Lost
<1>2. OutboxInv /\ TornInv /\ [Next]_vars => TornInv'
  BY TornStep DEF OutboxInv
<1> QED
  BY <1>1, <1>2, TornInit, OutboxInvariance, PTL DEF Spec

-----------------------------------------------------------------------------
(* The k-th smallest element of a bounded set of naturals.                 *)
UpTo(T, n) == {p \in T : p <= n}
Bounded(T, b) == b \in Nat /\ \A p \in T : p \in 0 .. b

LEMMA BoundedIsFinite ==
  ASSUME NEW T, NEW b, Bounded(T, b)
  PROVE  IsFiniteSet(T) /\ Cardinality(T) \in Nat /\ \A p \in T : p \in Nat
<1>1. IsFiniteSet(0 .. b)
  BY FS_Interval DEF Bounded
<1>2. T \subseteq 0 .. b /\ b \in Nat
  BY DEF Bounded
<1>3. IsFiniteSet(T)
  BY <1>1, <1>2, FS_Subset
<1>4. \A p \in T : p \in Nat
  BY <1>2
<1> QED
  BY <1>3, <1>4, FS_CardinalityType

LEMMA RankGrows ==
  ASSUME NEW T, NEW b, Bounded(T, b), NEW o \in Nat, NEW q \in Nat, o <= q
  PROVE  /\ Cardinality(UpTo(T, o)) \in Nat /\ Cardinality(UpTo(T, q)) \in Nat
         /\ Cardinality(UpTo(T, o)) <= Cardinality(UpTo(T, q))
         /\ o < q /\ q \in T => Cardinality(UpTo(T, o)) < Cardinality(UpTo(T, q))
         /\ Cardinality(UpTo(T, q)) <= Cardinality(T)
<1>b. IsFiniteSet(T) /\ Cardinality(T) \in Nat /\ \A p \in T : p \in Nat
  BY BoundedIsFinite
<1>1. UpTo(T, o) \subseteq UpTo(T, q) /\ UpTo(T, q) \subseteq T
  BY <1>b DEF UpTo
<1>2. IsFiniteSet(UpTo(T, q)) /\ IsFiniteSet(UpTo(T, o))
  BY <1>b, <1>1, FS_Subset
<1>3. ASSUME o < q, q \in T PROVE UpTo(T, o) # UpTo(T, q)
  <2>1. q \in UpTo(T, q) /\ q \notin UpTo(T, o)
    BY <1>b, <1>3 DEF UpTo
  <2> QED
    BY <1>b, <2>1
<1>4. /\ Cardinality(UpTo(T, q)) <= Cardinality(T)
      /\ Cardinality(UpTo(T, o)) <= Cardinality(UpTo(T, q))
  BY <1>b, <1>1, <1>2, FS_Subset
<1>5. o < q /\ q \in T => Cardinality(UpTo(T, o)) < Cardinality(UpTo(T, q))
  <2> SUFFICES ASSUME o < q, q \in T
               PROVE  Cardinality(UpTo(T, o)) < Cardinality(UpTo(T, q))
    OBVIOUS
  <2>1. UpTo(T, o) # UpTo(T, q)
    BY <1>3
  <2> DEFINE A == UpTo(T, o)
             B == UpTo(T, q)
  <2> HIDE DEF A, B
  <2>2. IsFiniteSet(B) /\ A \in SUBSET B /\ A # B
    BY <1>1, <1>2, <2>1 DEF A, B
  <2>3. /\ Cardinality(A) <= Cardinality(B)
        /\ Cardinality(A) = Cardinality(B) => A = B
    BY <2>2, FS_Subset
  <2>4. Cardinality(A) \in Nat /\ Cardinality(B) \in Nat
    BY <1>2, FS_CardinalityType DEF A, B
  <2>5. Cardinality(A) < Cardinality(B)
    BY <2>2, <2>3, <2>4
  <2> QED
    BY <2>5 DEF A, B
<1> QED
  BY <1>b, <1>2, <1>4, <1>5, FS_CardinalityType

LEMMA RankExists ==
  ASSUME NEW T, NEW b, Bounded(T, b), NEW k \in 1 .. Cardinality(T)
  PROVE  \E o \in T : Cardinality(UpTo(T, o)) = k
<1>b. IsFiniteSet(T) /\ Cardinality(T) \in Nat /\ \A p \in T : p \in Nat
  BY BoundedIsFinite
<1> DEFINE U == {n \in Nat : Cardinality(UpTo(T, n)) >= k}
<1>0. Cardinality(T) \in Nat /\ k \in Nat /\ k >= 1
  BY <1>b, FS_CardinalityType
<1>1. U # {}
  <2>1. UpTo(T, b) = T /\ b \in Nat
    BY <1>b DEF UpTo, Bounded
  <2> QED
    BY <1>b, <1>0, <2>1
<1>2. PICK n \in U : \A m \in U : n <= m
  <2>1. U \in SUBSET Nat
    OBVIOUS
  <2> HIDE DEF U
  <2> QED
    BY <1>b, <1>1, <2>1, LeastNatural
<1>3. n \in Nat /\ Cardinality(UpTo(T, n)) >= k
  BY <1>b, <1>2
<1> DEFINE below == {p \in T : p < n}
<1>4. IsFiniteSet(below) /\ Cardinality(below) \in Nat /\ Cardinality(below) < k
  <2>1. CASE n = 0
    <3>1. below = {}
      BY <1>b, <2>1
    <3> QED
      BY <1>b, <1>0, <3>1, FS_EmptySet
  <2>2. CASE n # 0
    <3>1. n - 1 \in Nat /\ n - 1 \notin U
      BY <1>b, <1>2, <2>2
    <3>2. below = UpTo(T, n - 1)
      BY <1>b, <1>3, <3>1 DEF UpTo
    <3>3. Cardinality(UpTo(T, n - 1)) \in Nat
      BY <1>b, <3>1, RankGrows
    <3>4. IsFiniteSet(below)
      BY <1>b, FS_Subset
    <3> QED
      BY <1>b, <1>0, <3>1, <3>2, <3>3, <3>4
  <2> QED
    BY <1>b, <2>1, <2>2
<1>5. n \in T
  <2>1. CASE n \notin T
    <3>1. UpTo(T, n) = below
      BY <1>b, <1>3, <2>1 DEF UpTo
    <3> QED
      BY <1>b, <1>0, <1>3, <1>4, <3>1
  <2> QED
    BY <1>b, <2>1
<1>6. UpTo(T, n) = below \cup {n} /\ n \notin below
  <2>1. \A p \in T : p <= n <=> p < n \/ p = n
    BY <1>b, <1>3
  <2>2. ~ (n < n)
    BY <1>3
  <2> QED
    BY <1>5, <2>1, <2>2 DEF UpTo
<1> HIDE DEF below
<1>7. Cardinality(UpTo(T, n)) = Cardinality(below) + 1
  BY <1>b, <1>4, <1>6, FS_AddElement
<1>8. Cardinality(UpTo(T, n)) = k
  BY <1>b, <1>0, <1>3, <1>4, <1>7
<1> QED
  BY <1>b, <1>5, <1>8

LEMMA NthIs ==
  ASSUME NEW T, NEW b, Bounded(T, b), NEW k \in 1 .. Cardinality(T)
  PROVE  NthOf(T, k) \in T /\ Cardinality(UpTo(T, NthOf(T, k))) = k
<1>b. IsFiniteSet(T) /\ Cardinality(T) \in Nat /\ \A p \in T : p \in Nat
  BY BoundedIsFinite
<1>1. \E o \in T : Cardinality({p \in T : p <= o}) = k
  BY <1>b, RankExists DEF UpTo
<1> QED
  BY <1>b, <1>1 DEF NthOf, UpTo

LEMMA NthOfRank ==
  ASSUME NEW T, NEW b, Bounded(T, b), NEW o \in T
  PROVE  /\ Cardinality(UpTo(T, o)) \in 1 .. Cardinality(T)
         /\ NthOf(T, Cardinality(UpTo(T, o))) = o
<1>b. IsFiniteSet(T) /\ Cardinality(T) \in Nat /\ \A p \in T : p \in Nat
  BY BoundedIsFinite
<1> DEFINE k == Cardinality(UpTo(T, o))
<1>0. o \in Nat /\ Cardinality(T) \in Nat
  BY <1>b, BoundedIsFinite
<1>1. k \in Nat /\ k <= Cardinality(T)
  BY <1>b, <1>0, RankGrows
<1>2. k # 0
  <2>1. IsFiniteSet(UpTo(T, o)) /\ o \in UpTo(T, o)
    BY <1>b, <1>0, FS_Subset DEF UpTo
  <2> QED
    BY <1>b, <2>1, FS_EmptySet
<1>3. k \in 1 .. Cardinality(T)
  BY <1>b, <1>0, <1>1, <1>2
<1> DEFINE q == NthOf(T, k)
<1>4. q \in T /\ Cardinality(UpTo(T, q)) = k /\ q \in Nat
  BY <1>b, <1>3, NthIs
<1> HIDE DEF q
<1>5. ~ (q < o)
  <2>1. ASSUME q < o PROVE Cardinality(UpTo(T, q)) < Cardinality(UpTo(T, o))
    BY <1>b, <1>0, <1>4, <2>1, RankGrows
  <2> QED
    BY <1>b, <1>1, <1>4, <2>1
<1>6. ~ (o < q)
  <2>1. ASSUME o < q PROVE Cardinality(UpTo(T, o)) < Cardinality(UpTo(T, q))
    BY <1>b, <1>0, <1>4, <2>1, RankGrows
  <2> QED
    BY <1>b, <1>1, <1>4, <2>1
<1>7. q = o
  BY <1>b, <1>0, <1>4, <1>5, <1>6
<1> QED
  BY <1>b, <1>3, <1>7 DEF q

(* A larger element becomes the last, and moves no other.                  *)
LEMMA NthAdded ==
  ASSUME NEW T, NEW s \in Nat, Bounded(T, s), s \notin T
  PROVE  /\ Bounded(T \cup {s}, s)
         /\ Cardinality(T \cup {s}) = Cardinality(T) + 1
         /\ NthOf(T \cup {s}, Cardinality(T) + 1) = s
         /\ \A k \in 1 .. Cardinality(T) : NthOf(T \cup {s}, k) = NthOf(T, k)
<1>b. IsFiniteSet(T) /\ Cardinality(T) \in Nat /\ \A p \in T : p \in Nat
  BY BoundedIsFinite
<1> DEFINE R == T \cup {s}
<1>1. s \in Nat /\ \A p \in T : p < s
  BY <1>b DEF Bounded
<1>2. Bounded(R, s) /\ Cardinality(R) = Cardinality(T) + 1
  BY <1>b, <1>1, FS_AddElement DEF Bounded
<1>3. UpTo(R, s) = R /\ s \in R
  BY <1>b, <1>1 DEF UpTo
<1>4. \A o \in T : UpTo(R, o) = UpTo(T, o) /\ o \in R
  BY <1>b, <1>1 DEF UpTo
<1> HIDE DEF R
<1>5. NthOf(R, Cardinality(T) + 1) = s
  BY <1>b, <1>2, <1>3, NthOfRank
<1>6. ASSUME NEW k \in 1 .. Cardinality(T) PROVE NthOf(R, k) = NthOf(T, k)
  <2>1. NthOf(T, k) \in T /\ Cardinality(UpTo(T, NthOf(T, k))) = k
    BY <1>b, NthIs
  <2>2. NthOf(R, Cardinality(UpTo(R, NthOf(T, k)))) = NthOf(T, k)
    BY <1>b, <1>2, <1>4, <2>1, NthOfRank
  <2> QED
    BY <1>b, <1>4, <2>1, <2>2
<1> QED
  BY <1>b, <1>2, <1>5, <1>6 DEF R

-----------------------------------------------------------------------------
(* The capsules on finished lines, in file order.                          *)
LEMMA StartsAre ==
  ASSUME NEW f \in Seq(Cells)
  PROVE  /\ Bounded(CapsuleStarts(f), Len(f))
         /\ \A o \in CapsuleStarts(f) : /\ f[o + 1].of \in Capsules
                                        /\ StartsAt(f, f[o + 1].of, o)
         /\ \A o : \A c \in Capsules :
              StartsAt(f, c, o) => o \in CapsuleStarts(f) /\ f[o + 1].of = c
<1>1. Len(f) \in Nat /\ \A o \in LineStarts(f) : o \in 0 .. Len(f)
  BY LenProperties DEF LineStarts
<1>2. Bounded(CapsuleStarts(f), Len(f))
  BY <1>1 DEF Bounded, CapsuleStarts
<1>3. ASSUME NEW o \in CapsuleStarts(f)
      PROVE  f[o + 1].of \in Capsules /\ StartsAt(f, f[o + 1].of, o)
  <2> DEFINE c == f[o + 1].of
             line == ReadLine(f, o)
  <2>1. o \in 0 .. Len(f) /\ o < Len(f) /\ line = LineOf(c) /\ StartsAt(f, c, o)
    BY <1>1 DEF CapsuleStarts, StartsAt
  <2>2. f[o + 1] \in Cells
    <3>1. o + 1 \in 1 .. Len(f)
      BY <1>1, <2>1
    <3> QED
      BY <3>1, ElementOfSeq
  <2>3. CASE f[o + 1] = Newline
    <3>1. /\ line \in Seq(Cells) /\ \A i \in 1 .. Len(line) : line[i] = f[o + i]
      BY <2>1, ReadIsSegment DEF Segment
    <3>2. LineOf(c) = Append(<<HeadOf(c), TailOf(c)>>, Newline)
      BY DEF LineOf, Text, HeadOf, TailOf
    <3>3. Len(LineOf(c)) = 3 /\ LineOf(c)[1] = HeadOf(c)
      <4> HIDE DEF c
      <4> QED
        BY <3>2
    <3>4. 1 \in 1 .. Len(line)
      BY <2>1, <3>3
    <3>5. f[o + 1] = HeadOf(c)
      BY <2>1, <3>1, <3>3, <3>4
    <3>6. HeadOf(c).part = "head" /\ Newline.part = "newline"
      BY DEF HeadOf, Newline
    <3> QED
      BY <2>3, <3>5, <3>6
  <2>4. CASE f[o + 1] \in [of : Capsules, part : {"head", "tail"}]
    BY <2>1, <2>4
  <2> QED
    BY <2>2, <2>3, <2>4 DEF Cells
<1>4. ASSUME NEW o, NEW c \in Capsules, StartsAt(f, c, o)
      PROVE  o \in CapsuleStarts(f) /\ f[o + 1].of = c
  <2>1. o \in LineStarts(f) /\ o + 3 <= Len(f) /\ f[o + 1] = HeadOf(c)
    BY <1>4, StartsAtCells
  <2>2. f[o + 1].of = c
    BY <2>1 DEF HeadOf
  <2>3. o < Len(f)
    BY <1>1, <2>1
  <2> QED
    BY <1>4, <2>1, <2>2, <2>3 DEF CapsuleStarts
<1> QED
  BY <1>2, <1>3, <1>4

LEMMA LogIs ==
  ASSUME NEW f \in Seq(Cells)
  PROVE  /\ ReadableCapsules(f) \in Seq(Capsules)
         /\ Len(ReadableCapsules(f)) = Cardinality(CapsuleStarts(f))
         /\ Cardinality(CapsuleStarts(f)) \in Nat
         /\ \A k \in 1 .. Cardinality(CapsuleStarts(f)) :
              /\ ReadableCapsules(f)[k] = f[NthOf(CapsuleStarts(f), k) + 1].of
              /\ ReadableCapsules(f)[k] \in Capsules
              /\ StartsAt(f, ReadableCapsules(f)[k], NthOf(CapsuleStarts(f), k))
<1> DEFINE T == CapsuleStarts(f)
           n == Cardinality(T)
           log == ReadableCapsules(f)
<1>1. /\ Bounded(T, Len(f))
      /\ \A o \in T : f[o + 1].of \in Capsules /\ StartsAt(f, f[o + 1].of, o)
  BY StartsAre
<1>2. n \in Nat
  BY <1>1, BoundedIsFinite
<1>3. \A k \in 1 .. n : NthOf(T, k) \in T
  BY <1>1, NthIs
<1>4. log = [k \in 1 .. n |-> f[NthOf(T, k) + 1].of]
  BY DEF ReadableCapsules
<1> HIDE DEF T, n, log
<1>5. \A k \in 1 .. n : /\ log[k] = f[NthOf(T, k) + 1].of /\ log[k] \in Capsules
                        /\ StartsAt(f, log[k], NthOf(T, k))
  BY <1>1, <1>3, <1>4
<1>6. log \in Seq(Capsules) /\ Len(log) = n
  BY <1>2, <1>4, <1>5
<1> QED
  BY <1>2, <1>5, <1>6 DEF T, n, log

LEMMA LogSame ==
  ASSUME NEW f \in Seq(Cells), NEW g \in Seq(Cells),
         \A o : \A c \in Capsules : StartsAt(g, c, o) <=> StartsAt(f, c, o)
  PROVE  ReadableCapsules(g) = ReadableCapsules(f)
<1>a. ASSUME NEW o \in CapsuleStarts(g) PROVE o \in CapsuleStarts(f)
  <2>1. g[o + 1].of \in Capsules /\ StartsAt(g, g[o + 1].of, o)
    BY StartsAre
  <2>2. StartsAt(f, g[o + 1].of, o)
    BY <2>1
  <2> QED
    BY <2>1, <2>2, StartsAre
<1>b. ASSUME NEW o \in CapsuleStarts(f)
      PROVE  o \in CapsuleStarts(g) /\ g[o + 1].of = f[o + 1].of
  <2>1. f[o + 1].of \in Capsules /\ StartsAt(f, f[o + 1].of, o)
    BY StartsAre
  <2>2. StartsAt(g, f[o + 1].of, o)
    BY <2>1
  <2> QED
    BY <2>1, <2>2, StartsAre
<1>1. CapsuleStarts(g) = CapsuleStarts(f)
  BY <1>a, <1>b
<1>2. \A o \in CapsuleStarts(f) : g[o + 1].of = f[o + 1].of
  BY <1>b
<1> DEFINE T == CapsuleStarts(f)
           n == Cardinality(T)
<1>3. \A k \in 1 .. n : NthOf(T, k) \in T
  BY StartsAre, NthIs
<1>4. /\ ReadableCapsules(g) = [k \in 1 .. n |-> g[NthOf(T, k) + 1].of]
      /\ ReadableCapsules(f) = [k \in 1 .. n |-> f[NthOf(T, k) + 1].of]
  BY <1>1 DEF ReadableCapsules
<1> HIDE DEF T, n
<1>5. \A k \in 1 .. n : g[NthOf(T, k) + 1].of = f[NthOf(T, k) + 1].of
  BY <1>2, <1>3 DEF T
<1> QED
  BY <1>4, <1>5

LEMMA LogGrows ==
  ASSUME NEW f \in Seq(Cells), NEW g \in Seq(Cells), NEW d \in Capsules, NEW s \in Nat,
         \A o : \A c \in Capsules : StartsAt(g, c, o) <=> StartsAt(f, c, o) \/ (o = s /\ c = d),
         \A o \in CapsuleStarts(f) : o < s
  PROVE  ReadableCapsules(g) = Append(ReadableCapsules(f), d)
<1> DEFINE T == CapsuleStarts(f)
           R == CapsuleStarts(g)
           n == Cardinality(T)
           log == ReadableCapsules(f)
           new == ReadableCapsules(g)
<1>0. /\ Bounded(T, Len(f)) /\ Bounded(R, Len(g))
      /\ \A o \in T : f[o + 1].of \in Capsules /\ StartsAt(f, f[o + 1].of, o)
      /\ \A o \in R : g[o + 1].of \in Capsules /\ StartsAt(g, g[o + 1].of, o)
      /\ \A o : \A c \in Capsules : StartsAt(f, c, o) => o \in T /\ f[o + 1].of = c
      /\ \A o : \A c \in Capsules : StartsAt(g, c, o) => o \in R /\ g[o + 1].of = c
  BY StartsAre
<1>l. /\ log \in Seq(Capsules) /\ Len(log) = n /\ n \in Nat
      /\ \A k \in 1 .. n : log[k] = f[NthOf(T, k) + 1].of
  BY LogIs
<1>m. /\ new \in Seq(Capsules) /\ Len(new) = Cardinality(R)
      /\ \A k \in 1 .. Cardinality(R) : new[k] = g[NthOf(R, k) + 1].of
  BY LogIs
<1> HIDE DEF T, R, n, log, new
<1>a. ASSUME NEW o \in R PROVE o \in T \/ o = s
  <2>1. g[o + 1].of \in Capsules /\ StartsAt(g, g[o + 1].of, o)
    BY <1>0
  <2>2. StartsAt(f, g[o + 1].of, o) \/ o = s
    BY <2>1
  <2> QED
    BY <1>0, <2>1, <2>2
<1>b. ASSUME NEW o \in T PROVE o \in R /\ g[o + 1].of = f[o + 1].of
  <2>1. f[o + 1].of \in Capsules /\ StartsAt(f, f[o + 1].of, o)
    BY <1>0
  <2> DEFINE c == f[o + 1].of
  <2> HIDE DEF c
  <2>2. c \in Capsules /\ StartsAt(f, c, o)
    BY <2>1 DEF c
  <2>3. StartsAt(g, c, o)
    BY <2>2
  <2> QED
    BY <1>0, <2>2, <2>3 DEF c
<1>2. s \in R /\ g[s + 1].of = d
  <2>1. StartsAt(g, d, s)
    OBVIOUS
  <2> QED
    BY <1>0, <2>1
<1>1. R = T \cup {s} /\ \A o \in T : g[o + 1].of = f[o + 1].of
  BY <1>a, <1>b, <1>2
<1>3. Bounded(T, s) /\ s \notin T
  BY <1>0 DEF Bounded, T
<1>4. /\ Cardinality(R) = n + 1
      /\ NthOf(R, n + 1) = s
      /\ \A k \in 1 .. n : NthOf(R, k) = NthOf(T, k) /\ NthOf(T, k) \in T
  <2>1. /\ Cardinality(T \cup {s}) = Cardinality(T) + 1
        /\ NthOf(T \cup {s}, Cardinality(T) + 1) = s
        /\ \A k \in 1 .. Cardinality(T) : NthOf(T \cup {s}, k) = NthOf(T, k)
    BY <1>3, NthAdded
  <2>2. \A k \in 1 .. Cardinality(T) : NthOf(T, k) \in T
    BY <1>3, NthIs
  <2> QED
    BY <1>1, <2>1, <2>2 DEF n
<1>5. \A k \in 1 .. n : new[k] = log[k]
  <2>1. \A k \in 1 .. n : k \in 1 .. Cardinality(R)
    BY <1>l, <1>4
  <2> QED
    <3> SUFFICES ASSUME NEW k \in 1 .. n PROVE new[k] = log[k]
      OBVIOUS
    <3>1. new[k] = g[NthOf(T, k) + 1].of /\ NthOf(T, k) \in T
      BY <1>m, <1>4, <2>1
    <3>2. log[k] = f[NthOf(T, k) + 1].of
      BY <1>l
    <3> QED
      BY <1>1, <3>1, <3>2
<1>6. new[n + 1] = d
  BY <1>l, <1>m, <1>2, <1>4
<1>7. new = Append(log, d)
  <2>1. /\ Append(log, d) \in Seq(Capsules) /\ Len(Append(log, d)) = n + 1
        /\ \A k \in 1 .. n : Append(log, d)[k] = log[k]
        /\ Append(log, d)[n + 1] = d
    BY <1>l
  <2>2. ASSUME NEW k \in 1 .. n + 1 PROVE new[k] = Append(log, d)[k]
    BY <1>l, <1>5, <1>6, <2>1
  <2> QED
    BY <1>l, <1>m, <1>4, <2>1, <2>2, SeqEqual
<1> QED
  BY <1>7 DEF log, new

-----------------------------------------------------------------------------
(* The queue that the outbox implements.                                   *)
Log == ReadableCapsules(file)
PostedOf(f, D) == {c \in D : Readable(f, c)}

(* The capsule of a write under way is on no finished line, and every      *)
(* finished line ends before what that write has put into the file.        *)
UnderWay(f, a, n) ==
  /\ f \in Seq(Cells) /\ HeadsOnce(f)
  /\ a \in Capsules /\ TailIs(f, a, n)
  /\ n = 0 => \A i \in DOMAIN f : f[i] # HeadOf(a)

LEMMA UnderWayLines ==
  ASSUME NEW f, NEW a, NEW n, UnderWay(f, a, n)
  PROVE  /\ n \in 0 .. 2 /\ Len(f) - n \in Nat
         /\ \A o : \A c \in Capsules : StartsAt(f, c, o) =>
              c # a /\ o + 3 <= Len(f) - n /\ o \in Nat
<1> DEFINE s == Len(f) - n
<1>1. /\ a \in Capsules /\ TailIs(f, a, n) /\ f \in Seq(Cells)
      /\ n = 0 => \A i \in DOMAIN f : f[i] # HeadOf(a)
      /\ HeadsOnce(f)
  BY DEF UnderWay
<1>2. Len(f) \in Nat /\ DOMAIN f = 1 .. Len(f) /\ n \in 0 .. 2 /\ s \in Nat
  BY <1>1, LenProperties DEF TailIs
<1>3. ASSUME NEW o, NEW c \in Capsules, StartsAt(f, c, o)
      PROVE  c # a /\ o + 3 <= s /\ o \in Nat
  <2>1. /\ o \in Nat /\ o + 3 <= Len(f) /\ o \in 0 .. Len(f)
        /\ f[o + 1] = HeadOf(c) /\ f[o + 2] = TailOf(c) /\ f[o + 3] = Newline
    <3>1. o \in LineStarts(f) => o \in 0 .. Len(f)
      BY <1>2 DEF LineStarts
    <3> QED
      BY <1>1, <1>2, <1>3, <3>1, StartsAtCells
  <2>2. o + 3 <= s
    <3>1. CASE o + 3 = s + 1
      <4>1. n >= 1
        BY <1>2, <2>1, <3>1
      <4>2. f[o + 3] = HeadOf(a)
        BY <1>1, <1>2, <3>1, <4>1 DEF TailIs
      <4> QED
        BY <1>1, <2>1, <4>2, CellsDiffer
    <3>2. CASE o + 3 = s + 2
      <4>1. n = 2
        BY <1>2, <2>1, <3>2
      <4>2. o + 3 = Len(f) /\ f[Len(f)] = TailOf(a)
        BY <1>1, <1>2, <3>2, <4>1 DEF TailIs
      <4> QED
        BY <1>1, <2>1, <4>2, CellsDiffer
    <3>3. o + 3 <= s + 2
      BY <1>2, <2>1
    <3> QED
      BY <1>2, <2>1, <3>1, <3>2, <3>3
  <2>3. c # a
    <3>1. ASSUME c = a PROVE FALSE
      <4>1. o + 1 \in DOMAIN f
        BY <1>2, <2>1
      <4>2. n # 0
        BY <1>1, <2>1, <3>1, <4>1
      <4>3. f[s + 1] = HeadOf(a) /\ s + 1 \in DOMAIN f
        <5>1. n >= 1
          BY <1>2, <4>2
        <5> QED
          BY <1>1, <1>2, <5>1 DEF TailIs
      <4>4. HeadOf(a).part = "head"
        BY DEF HeadOf
      <4>5. o + 1 = s + 1
        BY <1>1, <2>1, <3>1, <4>1, <4>3, <4>4 DEF HeadsOnce
      <4> QED
        BY <1>2, <2>1, <2>2, <4>5
    <3> QED
      BY <3>1
  <2> QED
    BY <2>1, <2>2, <2>3
<1> QED
  BY <1>2, <1>3

LEMMA AppendUnderWay ==
  ASSUME FileInv, appending # NoCapsule
  PROVE  UnderWay(file, appending, written)
BY DEF FileInv, UnderWay

(* A write that has begun finishes no line.                                *)
LEMMA BeginReadable ==
  ASSUME FileInv, NEW c \in Capsules, AppendBegin(c)
  PROVE  /\ file' \in Seq(Cells)
         /\ \A o : \A d \in Capsules : StartsAt(file', d, o) <=> StartsAt(file, d, o)
<1>1. PICK n \in 0 .. 2 : file' = file \o SubSeq(LineOf(c), 1, n) /\ written' = n
  BY DEF AppendBegin
<1> DEFINE x == SubSeq(LineOf(c), 1, n)
<1>2. /\ x \in Seq(Cells) /\ file \in Seq(Cells) /\ file' = file \o x
      /\ FileInv' /\ appending' = c /\ c # NoCapsule
  <2>1. 1 \in 1 .. 3 /\ n \in 0 .. 3 /\ 1 <= n + 1
    BY <1>1
  <2>2. x \in Seq(Cells)
    BY <2>1, LinePart
  <2> QED
    BY <1>1, <2>2, BeginKeepsFile, NoCapsuleAssumption DEF AppendBegin, FileInv
<1> HIDE DEF x
<1>3. Len(file') = Len(file) + n /\ Len(file) \in Nat
  <2>1. Len(x) = n - 1 + 1
    <3>1. 1 \in 1 .. 3 /\ n \in 0 .. 3 /\ 1 <= n + 1
      BY <1>1
    <3> QED
      BY <3>1, LinePart DEF x
  <2> QED
    BY <1>2, <2>1, Grown, LenProperties
<1>4. ASSUME NEW o, NEW d \in Capsules, StartsAt(file', d, o) PROVE StartsAt(file, d, o)
  <2>1. o + 3 <= Len(file') - written'
    <3>1. UnderWay(file', appending', written')
      BY <1>2 DEF FileInv, UnderWay
    <3> QED
      BY <1>4, <3>1, UnderWayLines
  <2>2. o + 3 <= Len(file)
    BY <1>1, <1>3, <2>1
  <2> QED
    BY <1>2, <1>4, <2>2, StartsAtGrown
<1> QED
  BY <1>2, <1>4, StartsAtGrown

(* A write that ends finishes its own line, or none when the line is torn. *)
LEMMA FinishStarts ==
  ASSUME FileInv, AppendFinish
  PROVE  /\ file' \in Seq(Cells)
         /\ \A o : \A d \in Capsules :
              StartsAt(file', d, o) <=>
                StartsAt(file, d, o) \/ (Clean /\ o = Len(file) - written /\ d = appending)
<1> DEFINE s == Len(file) - written
           x == SubSeq(LineOf(appending), written + 1, 3)
<1>1. /\ FileInv' /\ appending \in Capsules
      /\ written \in 0 .. 2 /\ written <= Len(file)
      /\ Len(file') = s + 3
      /\ \A i \in 1 .. 3 : file'[s + i] = LineOf(appending)[i]
  BY FinishKeepsFile
<1>2. /\ file \in Seq(Cells) /\ file' \in Seq(Cells) /\ Len(file) \in Nat /\ s \in Nat
  BY <1>1, LenProperties DEF FileInv
<1>3. file'[s + 1] = HeadOf(appending) /\ file'[s + 2] = TailOf(appending)
      /\ file'[s + 3] = Newline
  BY <1>1, Lines
<1>4. x \in Seq(Cells) /\ file' = file \o x
  <2>1. written + 1 \in 1 .. 3 /\ 3 \in 0 .. 3 /\ written + 1 <= 3 + 1
    BY <1>1
  <2>2. x \in Seq(Cells)
    BY <1>1, <2>1, LinePart
  <2> QED
    BY <2>2 DEF AppendFinish
<1>5. /\ Clean <=> s \in LineStarts(file')
      /\ Clean => StartsAt(file', appending, s)
  BY FinishReadable
<1> HIDE DEF s, x
<1>6. ASSUME NEW o, NEW d \in Capsules, StartsAt(file', d, o)
      PROVE  StartsAt(file, d, o) \/ (Clean /\ o = s /\ d = appending)
  <2>1. /\ o \in LineStarts(file') /\ o + 3 <= s + 3
        /\ file'[o + 1] = HeadOf(d) /\ file'[o + 3] = Newline
    BY <1>1, <1>2, <1>6, StartsAtCells
  <2>2. o \in Nat
    BY <1>2, <2>1, LenProperties DEF LineStarts
  <2>3. CASE o + 3 <= Len(file)
    BY <1>2, <1>4, <1>6, <2>3, StartsAtGrown
  <2>4. CASE ~ (o + 3 <= Len(file))
    <3>1. o + 3 > s
      BY <1>1, <1>2, <2>2, <2>4 DEF s
    <3>2. o + 3 # s + 1 /\ o + 3 # s + 2
      BY <1>1, <1>3, <2>1, CellsDiffer
    <3>3. o = s
      BY <1>2, <2>1, <2>2, <3>1, <3>2
    <3>4. Clean /\ HeadOf(d) = HeadOf(appending)
      BY <1>3, <1>5, <2>1, <3>3
    <3> QED
      BY <1>1, <3>3, <3>4, CellsDiffer
  <2> QED
    BY <2>3, <2>4
<1>7. ASSUME NEW o, NEW d \in Capsules, StartsAt(file, d, o) PROVE StartsAt(file', d, o)
  BY <1>2, <1>4, <1>7, StartsAtGrown
<1> QED
  BY <1>2, <1>5, <1>6, <1>7 DEF s

(* When a capsule is posted from a line that is still being written, every *)
(* capsule on a finished line has been posted before.                      *)
LEMMA EarlyPostStep ==
  ASSUME FileInv, FlushInv, EarlyPost, [Next]_vars
  PROVE  EarlyPost'
<1>0. /\ file \in Seq(Cells) /\ delivered \subseteq tried /\ tried \subseteq Capsules
      /\ NoCapsule \notin delivered
  BY NoCapsuleAssumption DEF FileInv, FlushInv
<1>1. ASSUME NEW c \in Capsules, AppendBegin(c) PROVE EarlyPost'
  <2>1. appending' = c /\ c \notin tried /\ delivered' = delivered
    BY <1>1 DEF AppendBegin, upstreamVars
  <2> QED
    BY <1>0, <2>1 DEF EarlyPost
<1>2. CASE AppendFinish \/ AppendFails
  <2>1. appending' = NoCapsule /\ delivered' = delivered
    BY <1>2 DEF AppendFinish, AppendFails, upstreamVars
  <2> QED
    BY <1>0, <2>1 DEF EarlyPost
<1>3. CASE UNCHANGED writerVars /\ delivered' = delivered
  BY <1>3 DEF EarlyPost, writerVars, fileVars
<1>4. CASE UNCHANGED writerVars /\ flush.pc = "push" /\ Posted
  <2>1. /\ file' = file /\ appending' = appending
        /\ delivered' = delivered \cup {Decode(flush.line)}
    BY <1>4 DEF writerVars, fileVars, Posted
  <2>2. SUFFICES ASSUME appending = Decode(flush.line), NEW c \in Capsules, Readable(file, c)
                 PROVE  c \in delivered
    BY <2>1 DEF EarlyPost
  <2>3. /\ LineHeld(file, delivered, flush) /\ appending # NoCapsule
    BY <1>4, <2>2 DEF FlushInv, LineHeld
  <2>4. /\ flush.offset + 1 \in DOMAIN file
        /\ file[flush.offset + 1] = HeadOf(appending)
        /\ Covered(file, flush.offset, delivered) /\ flush.offset \in Nat
    BY <1>0, <2>2, <2>3, HeldLine DEF LineHeld, Segment
  <2>5. UnderWay(file, appending, written)
    BY <2>3, AppendUnderWay
  <2>6. Len(file) - written = flush.offset
    <3>1. written \in 0 .. 2 /\ written # 0 /\ Len(file) \in Nat /\ DOMAIN file = 1 .. Len(file)
      BY <1>0, <2>4, <2>5, LenProperties DEF UnderWay, TailIs
    <3>2. /\ file[Len(file) - written + 1] = HeadOf(appending)
          /\ Len(file) - written + 1 \in DOMAIN file
      BY <2>5, <3>1 DEF UnderWay, TailIs
    <3>3. HeadOf(appending).part = "head"
      BY DEF HeadOf
    <3>4. Len(file) - written + 1 = flush.offset + 1
      BY <2>4, <2>5, <3>2, <3>3 DEF UnderWay, HeadsOnce
    <3> QED
      BY <2>4, <3>1, <3>4
  <2>7. PICK o \in LineStarts(file) : StartsAt(file, c, o)
    BY <2>2 DEF Readable
  <2>8. o + 3 <= Len(file) - written /\ o \in Nat
    BY <2>5, <2>7, UnderWayLines
  <2>9. o < flush.offset
    BY <2>4, <2>6, <2>8
  <2> QED
    BY <1>0, <2>4, <2>7, <2>9, CoveredStart
<1>5. CASE FlushBegin \/ FlushStep \/ SaveFails \/ Crash \/ Tick \/ UNCHANGED vars
  <2>1. UNCHANGED writerVars
    BY <1>5 DEF FlushBegin, FlushStep, FlushRead, PushAnswered, PushSucceeds, PushRateLimited,
                PushFails, TruncateCursor, WriteCursor, Charge, SaveFails, Crash, Tick, vars
  <2>2. delivered' = delivered \/ (flush.pc = "push" /\ Posted)
    BY <1>5 DEF FlushBegin, FlushStep, FlushRead, PushAnswered, PushSucceeds, PushRateLimited,
                PushFails, TruncateCursor, WriteCursor, Charge, SaveFails, Crash, Tick, vars,
                upstreamVars
  <2> QED
    BY <1>3, <1>4, <2>1, <2>2
<1> QED
  BY <1>1, <1>2, <1>5 DEF Next, Write

-----------------------------------------------------------------------------
(* The steps of the writers and of the flusher, as steps of the queue.     *)
LEMMA BeginStutters ==
  ASSUME FileInv, FlushInv, NEW c \in Capsules, AppendBegin(c)
  PROVE  Log' = Log /\ PostedOf(file', delivered') = PostedOf(file, delivered)
<1>1. /\ file \in Seq(Cells) /\ file' \in Seq(Cells) /\ delivered' = delivered
      /\ \A o : \A d \in Capsules : StartsAt(file', d, o) <=> StartsAt(file, d, o)
  BY BeginReadable DEF FileInv, AppendBegin, upstreamVars
<1>2. Log' = Log
  BY <1>1, LogSame DEF Log
<1>3. ASSUME NEW d \in Capsules PROVE Readable(file', d) <=> Readable(file, d)
  BY <1>1 DEF Readable, StartsAt
<1>4. delivered \subseteq Capsules
  BY DEF FileInv, FlushInv
<1> QED
  BY <1>1, <1>2, <1>3, <1>4 DEF PostedOf

LEMMA FinishAccepts ==
  ASSUME FileInv, FlushInv, EarlyPost, AppendFinish
  PROVE  \/ Log' = Log /\ PostedOf(file', delivered') = PostedOf(file, delivered)
         \/ /\ appending \in Capsules /\ \A i \in 1 .. Len(Log) : Log[i] # appending
            /\ Log' = Append(Log, appending)
            /\ \/ PostedOf(file', delivered') = PostedOf(file, delivered)
               \/ /\ \A i \in 1 .. Len(Log) : Log[i] \in PostedOf(file, delivered)
                  /\ PostedOf(file', delivered') = PostedOf(file, delivered) \cup {appending}
<1> DEFINE s == Len(file) - written
<1>1. /\ file \in Seq(Cells) /\ file' \in Seq(Cells) /\ delivered' = delivered
      /\ \A o : \A d \in Capsules :
           StartsAt(file', d, o) <=>
             StartsAt(file, d, o) \/ (Clean /\ o = s /\ d = appending)
  BY FinishStarts DEF FileInv, AppendFinish, upstreamVars
<1>2. /\ appending \in Capsules /\ s \in Nat
      /\ \A o : \A c \in Capsules : StartsAt(file, c, o) => c # appending /\ o + 3 <= s /\ o \in Nat
  BY AppendUnderWay, UnderWayLines DEF AppendFinish, UnderWay
<1>3. delivered \subseteq Capsules
  BY DEF FileInv, FlushInv
<1>4. CASE ~Clean
  <2>1. \A o : \A d \in Capsules : StartsAt(file', d, o) <=> StartsAt(file, d, o)
    BY <1>1, <1>4
  <2>2. Log' = Log
    BY <1>1, <2>1, LogSame DEF Log
  <2>3. ASSUME NEW d \in Capsules PROVE Readable(file', d) <=> Readable(file, d)
    BY <2>1 DEF Readable, StartsAt
  <2> QED
    BY <1>1, <1>3, <2>2, <2>3 DEF PostedOf
<1>5. CASE Clean
  <2>1. \A o : \A d \in Capsules :
          StartsAt(file', d, o) <=> StartsAt(file, d, o) \/ (o = s /\ d = appending)
    BY <1>1, <1>5
  <2>2. \A o \in CapsuleStarts(file) : o < s
    <3> SUFFICES ASSUME NEW o \in CapsuleStarts(file) PROVE o < s
      OBVIOUS
    <3>1. file[o + 1].of \in Capsules /\ StartsAt(file, file[o + 1].of, o)
      BY <1>1, StartsAre
    <3>2. o + 3 <= s /\ o \in Nat
      BY <1>2, <3>1
    <3> QED
      BY <1>2, <3>2
  <2>3. Log' = Append(Log, appending)
    <3> HIDE DEF s
    <3> QED
      BY <1>1, <1>2, <2>1, <2>2, LogGrows DEF Log
  <2>4. ASSUME NEW i \in 1 .. Len(Log)
        PROVE  Log[i] \in Capsules /\ Readable(file, Log[i]) /\ Log[i] # appending
    <3>1. /\ Log[i] \in Capsules
          /\ StartsAt(file, Log[i], NthOf(CapsuleStarts(file), i))
      BY <1>1, LogIs DEF Log
    <3> QED
      BY <1>2, <3>1 DEF Readable, StartsAt
  <2>5. ASSUME NEW d \in Capsules
        PROVE  Readable(file', d) <=> Readable(file, d) \/ d = appending
    BY <2>1 DEF Readable, StartsAt
  <2>6. CASE appending \notin delivered
    <3>1. PostedOf(file', delivered') = PostedOf(file, delivered)
      BY <1>1, <1>3, <2>5, <2>6 DEF PostedOf
    <3> QED
      BY <1>2, <2>3, <2>4, <3>1
  <2>7. CASE appending \in delivered
    <3>1. PostedOf(file', delivered') = PostedOf(file, delivered) \cup {appending}
      BY <1>1, <1>3, <2>5, <2>7 DEF PostedOf
    <3>2. \A i \in 1 .. Len(Log) : Log[i] \in PostedOf(file, delivered)
      BY <2>4, <2>7 DEF EarlyPost, PostedOf
    <3> QED
      BY <1>2, <2>3, <2>4, <3>1, <3>2
  <2> QED
    BY <2>6, <2>7
<1> QED
  BY <1>4, <1>5

LEMMA PostsNext ==
  ASSUME FileInv, FlushInv, flush.pc = "push", Posted
  PROVE  \/ PostedOf(file, delivered') = PostedOf(file, delivered)
         \/ \E k \in 1 .. Len(Log) :
              /\ \A i \in 1 .. k - 1 : Log[i] \in PostedOf(file, delivered)
              /\ Log[k] \notin PostedOf(file, delivered)
              /\ PostedOf(file, delivered') = PostedOf(file, delivered) \cup {Log[k]}
<1> DEFINE c == Decode(flush.line)
           T == CapsuleStarts(file)
<1>1. /\ file \in Seq(Cells) /\ LineHeld(file, delivered, flush) /\ c # NoCapsule
      /\ HeadsOnce(file) /\ delivered' = delivered \cup {c}
  BY DEF FileInv, FlushInv, LineHeld, Posted
<1>2. /\ c \in Capsules /\ flush.offset + 1 \in DOMAIN file
      /\ file[flush.offset + 1] = HeadOf(c)
      /\ Covered(file, flush.offset, delivered) /\ flush.offset \in Nat
  BY <1>1, HeldLine DEF LineHeld, Segment
<1> HIDE DEF c, T
<1>3. CASE c \in delivered \/ ~Readable(file, c)
  BY <1>1, <1>3 DEF PostedOf
<1>4. CASE c \notin delivered /\ Readable(file, c)
  <2>1. PICK o \in LineStarts(file) : StartsAt(file, c, o)
    BY <1>4 DEF Readable
  <2>2. o = flush.offset
    <3>1. file[o + 1] = HeadOf(c) /\ o + 3 <= Len(file)
      BY <1>1, <1>2, <2>1, StartsAtCells
    <3>2. o \in Nat /\ o + 1 \in DOMAIN file
      BY <1>1, <3>1, LenProperties DEF LineStarts
    <3>3. HeadOf(c).part = "head"
      BY DEF HeadOf
    <3>4. o + 1 = flush.offset + 1
      BY <1>1, <1>2, <3>1, <3>2, <3>3 DEF HeadsOnce
    <3> QED
      BY <1>2, <3>2, <3>4
  <2>3. /\ Bounded(T, Len(file)) /\ o \in T /\ file[o + 1].of = c
    BY <1>1, <1>2, <2>1, StartsAre DEF T
  <2> DEFINE k == Cardinality(UpTo(T, o))
  <2>4. k \in 1 .. Cardinality(T) /\ NthOf(T, k) = o
    BY <2>3, NthOfRank
  <2>5. /\ Len(Log) = Cardinality(T)
        /\ \A i \in 1 .. Cardinality(T) : /\ Log[i] = file[NthOf(T, i) + 1].of
                                          /\ Log[i] \in Capsules
                                          /\ StartsAt(file, Log[i], NthOf(T, i))
        /\ Cardinality(T) \in Nat
    BY <1>1, LogIs DEF Log, T
  <2> HIDE DEF k
  <2>6. Log[k] = c
    BY <2>3, <2>4, <2>5
  <2>7. ASSUME NEW i \in 1 .. k - 1 PROVE Log[i] \in PostedOf(file, delivered)
    <3> DEFINE q == NthOf(T, i)
    <3>1. i \in 1 .. Cardinality(T) /\ i < k
      BY <2>4, <2>5
    <3>2. q \in T /\ Cardinality(UpTo(T, q)) = i
      BY <2>3, <3>1, NthIs
    <3>3. StartsAt(file, Log[i], q) /\ Log[i] \in Capsules
      BY <2>5, <3>1
    <3>4. q \in Nat /\ o \in Nat
      BY <2>3, <3>2, BoundedIsFinite
    <3> HIDE DEF q
    <3>5. q < o
      <4>1. ASSUME o <= q PROVE FALSE
        <5>1. Cardinality(UpTo(T, o)) <= Cardinality(UpTo(T, q))
          BY <2>3, <3>4, <4>1, RankGrows
        <5> QED
          BY <2>4, <2>5, <3>1, <3>2, <5>1 DEF k
      <4> QED
        BY <3>4, <4>1
    <3>6. Log[i] \in delivered
      BY <1>1, <1>2, <2>2, <3>3, <3>5, CoveredStart
    <3> QED
      BY <3>3, <3>6 DEF PostedOf, Readable, StartsAt
  <2>8. Log[k] \notin PostedOf(file, delivered)
    BY <1>4, <2>6 DEF PostedOf
  <2>9. PostedOf(file, delivered') = PostedOf(file, delivered) \cup {Log[k]}
    BY <1>1, <1>4, <2>6 DEF PostedOf
  <2> QED
    BY <2>4, <2>5, <2>7, <2>8, <2>9
<1> QED
  BY <1>3, <1>4

LEMMA QueueStep ==
  ASSUME FileInv, FlushInv, EarlyPost, [Next]_vars
  PROVE  [Queue!Next]_<<ReadableCapsules(file), {c \in delivered : Readable(file, c)}>>
<1> DEFINE posted == PostedOf(file, delivered)
<1>s. ASSUME Log' = Log, posted' = posted
      PROVE  UNCHANGED <<ReadableCapsules(file), {c \in delivered : Readable(file, c)}>>
  BY <1>s DEF Log, PostedOf
<1>1. CASE UNCHANGED writerVars /\ delivered' = delivered
  <2>1. file' = file
    BY <1>1 DEF writerVars, fileVars
  <2> QED
    BY <1>1, <1>s, <2>1 DEF Log, PostedOf
<1>2. ASSUME NEW c \in Capsules, AppendBegin(c) PROVE UNCHANGED <<Log, posted>>
  BY <1>2, BeginStutters
<1>3. CASE AppendFinish
  <2>1. CASE Log' = Log /\ posted' = posted
    BY <1>s, <2>1
  <2>2. CASE /\ appending \in Capsules /\ \A i \in 1 .. Len(Log) : Log[i] # appending
             /\ Log' = Append(Log, appending)
             /\ \/ posted' = posted
                \/ /\ \A i \in 1 .. Len(Log) : Log[i] \in posted
                   /\ posted' = posted \cup {appending}
    <3>1. Queue!Accept
      BY <2>2 DEF Queue!Accept, Queue!PostedUpTo, Log, PostedOf
    <3> QED
      BY <3>1 DEF Queue!Next
  <2> QED
    BY <1>3, <2>1, <2>2, FinishAccepts
<1>4. CASE AppendFails
  <2>1. file' = file /\ delivered' = delivered
    BY <1>4 DEF AppendFails, upstreamVars
  <2> QED
    BY <1>s, <2>1 DEF Log, PostedOf
<1>5. CASE UNCHANGED writerVars /\ flush.pc = "push" /\ Posted
  <2>0. file' = file /\ Log' = Log
    BY <1>5 DEF writerVars, fileVars, Log
  <2>1. CASE posted' = posted
    BY <1>s, <2>0, <2>1
  <2>2. CASE \E k \in 1 .. Len(Log) : /\ \A i \in 1 .. k - 1 : Log[i] \in posted
                                      /\ Log[k] \notin posted
                                      /\ posted' = posted \cup {Log[k]}
    <3>1. Queue!Post
      BY <2>0, <2>2 DEF Queue!Post, Queue!PostedUpTo, Log, PostedOf
    <3> QED
      BY <3>1 DEF Queue!Next
  <2> QED
    BY <1>5, <2>0, <2>1, <2>2, PostsNext
<1>6. CASE FlushBegin \/ FlushStep \/ SaveFails \/ Crash \/ Tick \/ UNCHANGED vars
  <2>1. UNCHANGED writerVars
    BY <1>6 DEF FlushBegin, FlushStep, FlushRead, PushAnswered, PushSucceeds, PushRateLimited,
                PushFails, TruncateCursor, WriteCursor, Charge, SaveFails, Crash, Tick, vars
  <2>2. delivered' = delivered \/ (flush.pc = "push" /\ Posted)
    BY <1>6 DEF FlushBegin, FlushStep, FlushRead, PushAnswered, PushSucceeds, PushRateLimited,
                PushFails, TruncateCursor, WriteCursor, Charge, SaveFails, Crash, Tick, vars,
                upstreamVars
  <2> QED
    BY <1>1, <1>5, <2>1, <2>2
<1> QED
  BY <1>s, <1>2, <1>3, <1>4, <1>6 DEF Next, Write

LEMMA QueueInit == Init => Queue!Init /\ EarlyPost
<1> SUFFICES ASSUME Init PROVE Queue!Init /\ EarlyPost
  OBVIOUS
<1>1. file = <<>> /\ file \in Seq(Cells) /\ delivered = {} /\ Len(file) = 0
  BY EmptySeq DEF Init
<1>2. CapsuleStarts(file) = {}
  <2>1. \A o \in LineStarts(file) : o \in 0 .. Len(file)
    BY <1>1, LenProperties DEF LineStarts
  <2> QED
    BY <1>1, <2>1 DEF CapsuleStarts
<1>3. ReadableCapsules(file) = <<>>
  <2>1. ReadableCapsules(file) \in Seq(Capsules) /\ Len(ReadableCapsules(file)) = 0
    BY <1>1, <1>2, LogIs, FS_EmptySet
  <2> QED
    BY <2>1, EmptySeq
<1> QED
  BY <1>1, <1>3 DEF Queue!Init, EarlyPost

(* QueueOrdered: the outbox implements the delivery queue's safety part:   *)
(* capsules reach the upstream in the order in which their lines came to   *)
(* stand in the file, and none is passed over.                             *)
THEOREM QueueOrderedHolds == Spec => QueueOrdered
<1>1. Init => Queue!Init /\ EarlyPost
  BY QueueInit
<1>2. OutboxInv /\ EarlyPost /\ [Next]_vars =>
        /\ EarlyPost'
        /\ [Queue!Next]_<<ReadableCapsules(file), {c \in delivered : Readable(file, c)}>>
  BY EarlyPostStep, QueueStep DEF OutboxInv
<1> QED
  BY <1>1, <1>2, OutboxInvariance, PTL DEF Spec, QueueOrdered, Queue!Ordered

-----------------------------------------------------------------------------
(* The quota drainer: its line is what the file has at its offset, and     *)
(* what begins before its offset, or before its cursor, is in both         *)
(* backends.                                                               *)
Both(m, o) == {c \in Capsules : m[c] > 0 /\ o[c] > 0}
Backends == [Capsules -> 0 .. 2]

DrainPlaces == {"idle", "read", "managed", "oss", "truncate", "write"}
Drains ==
  [pc : DrainPlaces, offset : Nat, processed : 0 .. DrainLimit, line : Seq(Cells)]

DrainHeld(f, m, o, r) ==
  /\ r \in Drains
  /\ Segment(f, r.offset, r.line)
  /\ Covered(f, r.offset, Both(m, o))
  /\ r.pc \in {"idle", "read"} => r.line = <<>>
  /\ r.pc \notin {"idle", "read"} => Decode(r.line) # NoCapsule
  /\ r.pc \in {"managed", "oss"} => r.processed < DrainLimit
  /\ r.pc = "oss" => m[Decode(r.line)] > 0
  /\ r.pc \in {"truncate", "write"} => Decode(r.line) \in Both(m, o)

DrainerInv ==
  /\ file \in Seq(Cells)
  /\ managed \in Backends /\ oss \in Backends
  /\ \A c \in Capsules : oss[c] > 0 => managed[c] > 0
  /\ drainCursor \in 0 .. Len(file) /\ Covered(file, drainCursor, Both(managed, oss))
  /\ DrainHeld(file, managed, oss, drain)
  /\ torn \in 0 .. MaxTorn /\ stops \in 0 .. MaxStops

DrainAt(o, p) == [pc |-> "read", offset |-> o, processed |-> p, line |-> <<>>]

LEMMA DrainRests ==
  ASSUME NEW f \in Seq(Cells), NEW m, NEW o
  PROVE  DrainHeld(f, m, o, Resting)
<1>1. 0 \in 0 .. Len(f) /\ <<>> \in Seq(Cells) /\ 0 \in 0 .. DrainLimit
  BY LenProperties, EmptySeq, DrainAssumption
<1>2. Segment(f, 0, <<>>) /\ Covered(f, 0, Both(m, o))
  BY <1>1, NothingHeld, CoveredNone
<1>3. Resting \in Drains
  BY <1>1 DEF Resting, Drains, DrainPlaces
<1> QED
  BY <1>2, <1>3 DEF Resting, DrainHeld

LEMMA DrainReads ==
  ASSUME NEW f \in Seq(Cells), NEW m, NEW o, NEW i \in 0 .. Len(f), NEW p \in 0 .. DrainLimit,
         Covered(f, i, Both(m, o))
  PROVE  DrainHeld(f, m, o, DrainAt(i, p))
<1>1. i \in Nat /\ <<>> \in Seq(Cells)
  BY LenProperties, EmptySeq
<1>2. Segment(f, i, <<>>)
  BY NothingHeld
<1>3. DrainAt(i, p) \in Drains
  BY <1>1 DEF DrainAt, Drains, DrainPlaces
<1> QED
  BY <1>2, <1>3 DEF DrainAt, DrainHeld

LEMMA DrainedLine ==
  ASSUME NEW f \in Seq(Cells), NEW m, NEW o, NEW r, DrainHeld(f, m, o, r),
         r.pc \notin {"idle", "read"}
  PROVE  /\ Decode(r.line) \in Capsules /\ r.line # <<>>
         /\ r.offset + Len(r.line) \in 0 .. Len(f)
<1>1. /\ Decode(r.line) \in Capsules
      /\ r.line \in {Text(Decode(r.line)), LineOf(Decode(r.line))}
  BY DecodedLine DEF DrainHeld
<1>2. Len(r.line) \in {2, 3}
  BY <1>1, Lines
<1>3. r.line # <<>>
  <2>1. Len(<<>>) = 0
    BY EmptySeq
  <2> QED
    BY <1>2, <2>1
<1>4. r.offset \in Nat /\ r.offset + Len(r.line) <= Len(f) /\ Len(f) \in Nat
  BY LenProperties DEF DrainHeld, Segment
<1> QED
  BY <1>1, <1>2, <1>3, <1>4

LEMMA DrainInitHolds == DrainInit => DrainerInv
<1> SUFFICES ASSUME DrainInit PROVE DrainerInv
  OBVIOUS
<1>1. file \in Seq(Cells) /\ Len(file) = 0 /\ drainCursor = 0 /\ 0 \in 0 .. Len(file)
  BY EmptySeq DEF DrainInit
<1>2. DrainHeld(file, managed, oss, drain) /\ Covered(file, drainCursor, Both(managed, oss))
  BY <1>1, DrainRests, CoveredNone DEF DrainInit
<1>3. managed \in Backends /\ oss \in Backends /\ \A c \in Capsules : oss[c] = 0
  BY DEF DrainInit, Backends
<1> QED
  BY <1>1, <1>2, <1>3, DrainAssumption, MaxTornAssumption DEF DrainInit, DrainerInv

LEMMA DrainedFileGrows ==
  ASSUME DrainerInv, NEW x \in Seq(Cells), file' = file \o x, torn' \in 0 .. MaxTorn,
         UNCHANGED <<drainCursor, drain, managed, oss, stops>>
  PROVE  DrainerInv'
<1>1. file \in Seq(Cells)
  BY DEF DrainerInv
<1>2. /\ file' \in Seq(Cells) /\ Len(file') = Len(file) + Len(x)
      /\ Len(file) \in Nat /\ Len(x) \in Nat
  BY <1>1, Grown, LenProperties
<1>3. drainCursor \in 0 .. Len(file') /\ Covered(file', drainCursor, Both(managed, oss))
  BY <1>1, <1>2, CoveredGrown DEF DrainerInv
<1>4. Segment(file', drain.offset, drain.line)
  BY <1>1, SegmentGrown DEF DrainerInv, DrainHeld
<1>5. drain.offset \in 0 .. Len(file)
  BY <1>2, LenProperties DEF DrainerInv, DrainHeld, Segment
<1>6. Covered(file', drain.offset, Both(managed, oss))
  BY <1>1, <1>5, CoveredGrown DEF DrainerInv, DrainHeld
<1>7. DrainHeld(file', managed, oss, drain)
  BY <1>4, <1>6 DEF DrainerInv, DrainHeld
<1> QED
  BY <1>2, <1>3, <1>7 DEF DrainerInv

(* What is left to show of a step that leaves the file alone.              *)
LEMMA DrainMoves ==
  ASSUME DrainerInv, UNCHANGED fileVars, managed' \in Backends, oss' \in Backends,
         \A c \in Capsules : managed'[c] >= managed[c] /\ oss'[c] >= oss[c],
         \A c \in Capsules : oss'[c] > 0 => managed'[c] > 0,
         drainCursor' \in 0 .. Len(file), Covered(file, drainCursor', Both(managed', oss')),
         DrainHeld(file, managed', oss', drain'), stops' \in 0 .. MaxStops
  PROVE  DrainerInv'
<1>1. file' = file /\ torn' = torn
  BY DEF fileVars
<1> QED
  BY <1>1 DEF DrainerInv

LEMMA StoredMore ==
  ASSUME NEW m \in Backends, drain.line \in Seq(Cells), Decode(drain.line) \in Capsules
  PROVE  /\ Stored(m) \in Backends
         /\ \A c \in Capsules : Stored(m)[c] >= m[c]
         /\ Stored(m)[Decode(drain.line)] > 0
         /\ \A c \in Capsules : c # Decode(drain.line) => Stored(m)[c] = m[c]
<1> DEFINE d == Decode(drain.line)
<1>1. d \in Capsules /\ m[d] \in 0 .. 2
  BY DEF Backends
<1>2. Stored(m) = [m EXCEPT ![d] = IF m[d] < 2 THEN m[d] + 1 ELSE m[d]]
  BY DEF Stored
<1>3. \A c \in Capsules : m[c] \in 0 .. 2
  BY DEF Backends
<1> HIDE DEF d
<1>4. (IF m[d] < 2 THEN m[d] + 1 ELSE m[d]) \in 1 .. 2
      /\ (IF m[d] < 2 THEN m[d] + 1 ELSE m[d]) >= m[d]
  BY <1>1
<1>5. /\ Stored(m) \in Backends
      /\ \A c \in Capsules : Stored(m)[c] = IF c = d THEN IF m[d] < 2 THEN m[d] + 1 ELSE m[d]
                                            ELSE m[c]
  BY <1>1, <1>2, <1>4 DEF Backends
<1> QED
  BY <1>1, <1>3, <1>4, <1>5 DEF d

LEMMA BothMore ==
  ASSUME NEW m \in Backends, NEW o \in Backends, NEW n \in Backends, NEW p \in Backends,
         \A c \in Capsules : n[c] >= m[c] /\ p[c] >= o[c]
  PROVE  Both(m, o) \subseteq Both(n, p)
<1> SUFFICES ASSUME NEW c \in Capsules, m[c] > 0, o[c] > 0 PROVE n[c] > 0 /\ p[c] > 0
  BY DEF Both
<1>1. m[c] \in 0 .. 2 /\ n[c] \in 0 .. 2 /\ o[c] \in 0 .. 2 /\ p[c] \in 0 .. 2
  BY DEF Backends
<1> QED
  BY <1>1

LEMMA DrainStepKeeps ==
  ASSUME DrainerInv, [DrainNext]_drainVars
  PROVE  DrainerInv'
<1>0. /\ file \in Seq(Cells) /\ DrainHeld(file, managed, oss, drain) /\ drain \in Drains
      /\ managed \in Backends /\ oss \in Backends
      /\ \A c \in Capsules : oss[c] > 0 => managed[c] > 0
      /\ drainCursor \in 0 .. Len(file) /\ Covered(file, drainCursor, Both(managed, oss))
      /\ stops \in 0 .. MaxStops
  BY DEF DrainerInv, DrainHeld
<1>n. \A c \in Capsules : managed[c] \in 0 .. 2 /\ oss[c] \in 0 .. 2
  BY <1>0 DEF Backends
<1>r. \A m, o : DrainHeld(file, m, o, Resting)
  BY <1>0, DrainRests
<1>q. ASSUME UNCHANGED <<fileVars, managed, oss>>, drainCursor' = drainCursor,
             DrainHeld(file, managed, oss, drain'), stops' \in 0 .. MaxStops
      PROVE  DrainerInv'
  BY <1>0, <1>n, <1>q, DrainMoves
<1>1. ASSUME NEW c \in Capsules, AppendLine(c) PROVE DrainerInv'
  <2>1. \E x \in Seq(Cells) : file' = file \o x
    <3>1. LineOf(c) \in Seq(Cells)
      BY Lines
    <3>2. \A n \in 1 .. 2 : SubSeq(LineOf(c), 1, n) \in Seq(Cells)
      <4> TAKE n \in 1 .. 2
      <4>1. 1 \in 1 .. 3 /\ n \in 0 .. 3 /\ 1 <= n + 1
        OBVIOUS
      <4> QED
        BY <4>1, LinePart
    <3> HIDE DEF LineOf
    <3> QED
      BY <1>1, <3>1, <3>2 DEF AppendLine
  <2>2. torn' \in 0 .. MaxTorn
    BY <1>1, MaxTornAssumption DEF AppendLine, DrainerInv
  <2>3. UNCHANGED <<drainCursor, drain, managed, oss, stops>>
    BY <1>1 DEF AppendLine
  <2> QED
    BY <2>1, <2>2, <2>3, DrainedFileGrows
<1>2. CASE DrainBegin
  <2>0. 0 \in 0 .. DrainLimit
    BY DrainAssumption
  <2>1. drain' = DrainAt(drainCursor, 0)
    BY <1>2 DEF DrainBegin, Resting, DrainAt
  <2>2. DrainHeld(file, managed, oss, drain')
    BY <1>0, <2>0, <2>1, DrainReads
  <2> QED
    BY <1>0, <1>2, <1>q, <2>2 DEF DrainBegin
<1>3. CASE DrainLine
  <2> DEFINE line == ReadLine(file, drain.offset)
  <2>1. /\ drain.pc = "read" /\ drain.line = <<>> /\ drain.offset \in Nat
        /\ drain.offset \in 0 .. Len(file) /\ drain.processed \in 0 .. DrainLimit
        /\ Covered(file, drain.offset, Both(managed, oss))
    <3>1. drain.offset \in 0 .. Len(file)
      BY <1>0, LenProperties DEF DrainHeld, Segment
    <3> QED
      BY <1>0, <1>3, <3>1 DEF DrainLine, DrainHeld, Drains
  <2>2. /\ Segment(file, drain.offset, line) /\ line \in Seq(Cells)
    BY <1>0, <2>1, ReadIsSegment DEF Segment
  <2>3. DrainHeld(file, managed, oss, drain')
    <3>1. CASE LimitReached \/ NoMoreLines
      BY <1>3, <1>r, <3>1 DEF DrainLine
    <3>2. CASE ~LimitReached /\ ~NoMoreLines /\ Decode(line) # NoCapsule
      <4>1. drain' = [drain EXCEPT !.pc = "managed", !.line = line]
        BY <1>3, <3>2 DEF DrainLine
      <4>2. drain.processed < DrainLimit
        BY <2>1, <3>2, DrainAssumption DEF LimitReached
      <4> HIDE DEF line
      <4>3. /\ drain' \in Drains /\ drain'.pc = "managed" /\ drain'.line = line
            /\ drain'.offset = drain.offset /\ drain'.processed = drain.processed
        BY <1>0, <2>2, <4>1 DEF Drains, DrainPlaces
      <4> QED
        BY <2>1, <2>2, <3>2, <4>2, <4>3 DEF DrainHeld
    <3>3. CASE ~LimitReached /\ ~NoMoreLines /\ Decode(line) = NoCapsule /\ Terminated(line)
      <4>1. drain' = [drain EXCEPT !.offset = @ + Len(line)]
        BY <1>3, <3>3 DEF DrainLine
      <4> HIDE DEF line
      <4>2. drain' = DrainAt(drain.offset + Len(line), drain.processed)
        BY <1>0, <2>1, <4>1 DEF DrainAt, Drains
      <4>3. line # <<>>
        BY <3>3 DEF Terminated
      <4>4. Covered(file, drain.offset + Len(line), Both(managed, oss))
        BY <1>0, <2>1, <2>2, <3>3, <4>3, CoveredPast
      <4>5. drain.offset + Len(line) \in 0 .. Len(file)
        BY <1>0, <2>1, <2>2, LenProperties DEF Segment
      <4> QED
        BY <1>0, <2>1, <4>2, <4>4, <4>5, DrainReads
    <3>4. CASE ~LimitReached /\ ~NoMoreLines /\ Decode(line) = NoCapsule /\ ~Terminated(line)
      <4>1. drain' = Resting
        BY <1>3, <3>4 DEF DrainLine
      <4> QED
        BY <1>r, <4>1
    <3> QED
      BY <3>1, <3>2, <3>3, <3>4
  <2> QED
    BY <1>0, <1>3, <1>q, <2>3 DEF DrainLine
<1> DEFINE d == Decode(drain.line)
<1>4. CASE PushManaged
  <2>1. /\ drain.pc = "managed" /\ d \in Capsules /\ drain.line \in Seq(Cells)
        /\ drain.processed < DrainLimit
    BY <1>0, <1>4, DrainedLine DEF PushManaged, DrainHeld, Drains
  <2>2. /\ managed' = Stored(managed) /\ oss' = oss
        /\ drain' = [drain EXCEPT !.pc = "oss"]
    BY <1>4 DEF PushManaged, AfterManaged
  <2>3. /\ managed' \in Backends /\ managed'[d] > 0
        /\ \A c \in Capsules : managed'[c] >= managed[c] /\ managed'[c] \in 0 .. 2
    BY <1>0, <2>1, <2>2, StoredMore DEF Backends
  <2>4. Both(managed, oss) \subseteq Both(managed', oss')
    BY <1>0, <1>n, <2>2, <2>3, BothMore
  <2>5. /\ drain' \in Drains /\ drain'.pc = "oss" /\ drain'.line = drain.line
        /\ drain'.offset = drain.offset /\ drain'.processed = drain.processed
    BY <1>0, <2>2 DEF Drains, DrainPlaces
  <2>6. DrainHeld(file, managed', oss', drain')
    BY <1>0, <2>1, <2>3, <2>4, <2>5, CoveredMore DEF DrainHeld
  <2>7. Covered(file, drainCursor, Both(managed', oss'))
    BY <1>0, <2>4, CoveredMore
  <2>8. \A c \in Capsules : oss'[c] > 0 => managed'[c] > 0
    BY <1>0, <1>n, <2>2, <2>3
  <2>9. \A c \in Capsules : managed'[c] >= managed[c] /\ oss'[c] >= oss[c]
    BY <1>n, <2>2, <2>3
  <2> QED
    BY <1>0, <1>4, <2>2, <2>3, <2>6, <2>7, <2>8, <2>9, DrainMoves DEF PushManaged
<1>5. CASE PushOSS
  <2>1. /\ drain.pc = "oss" /\ d \in Capsules /\ drain.line \in Seq(Cells)
        /\ drain.processed < DrainLimit /\ drain.processed \in 0 .. DrainLimit
        /\ managed[d] > 0
    BY <1>0, <1>5, DrainedLine DEF PushOSS, DrainHeld, Drains
  <2>2. /\ oss' = Stored(oss) /\ managed' = managed
        /\ drain' = [drain EXCEPT !.pc = "truncate", !.processed = @ + 1]
    BY <1>5 DEF PushOSS
  <2>3. /\ oss' \in Backends /\ oss'[d] > 0
        /\ \A c \in Capsules : oss'[c] >= oss[c] /\ oss'[c] \in 0 .. 2
        /\ \A c \in Capsules : c # d => oss'[c] = oss[c]
    BY <1>0, <2>1, <2>2, StoredMore DEF Backends
  <2>4. Both(managed, oss) \subseteq Both(managed', oss')
    BY <1>0, <1>n, <2>2, <2>3, BothMore
  <2>5. drain.processed + 1 \in 0 .. DrainLimit
    BY <2>1, DrainAssumption
  <2>6. /\ drain' \in Drains /\ drain'.pc = "truncate" /\ drain'.line = drain.line
        /\ drain'.offset = drain.offset
    BY <1>0, <2>2, <2>5 DEF Drains, DrainPlaces
  <2>7. d \in Both(managed', oss')
    BY <2>1, <2>2, <2>3 DEF Both
  <2>8. DrainHeld(file, managed', oss', drain')
    BY <1>0, <2>1, <2>4, <2>6, <2>7, CoveredMore DEF DrainHeld
  <2>9. Covered(file, drainCursor, Both(managed', oss'))
    BY <1>0, <2>4, CoveredMore
  <2>10. \A c \in Capsules : oss'[c] > 0 => managed'[c] > 0
    BY <1>0, <1>n, <2>1, <2>2, <2>3
  <2>11. \A c \in Capsules : managed'[c] >= managed[c] /\ oss'[c] >= oss[c]
    BY <1>n, <2>2, <2>3
  <2> QED
    BY <1>0, <1>5, <2>2, <2>3, <2>8, <2>9, <2>10, <2>11, DrainMoves DEF PushOSS
<1>6. CASE PushBothFails
  <2>1. drain.pc \in {"managed", "oss"} /\ d \in Capsules /\ drain.line \in Seq(Cells)
    BY <1>0, <1>6, DrainedLine DEF PushBothFails, DrainHeld, Drains
  <2>2. /\ \/ drain.pc = "managed" /\ managed' \in {managed, Stored(managed)} /\ oss' = oss
           \/ /\ drain.pc = "oss" /\ oss' \in {oss, Stored(oss)} /\ managed' = managed
              /\ managed[d] > 0
        /\ drain' = Resting /\ drainCursor' = drainCursor /\ stops' = stops
        /\ UNCHANGED fileVars
    BY <1>0, <1>6 DEF PushBothFails, DrainHeld
  <2>3. /\ managed' \in Backends /\ oss' \in Backends
        /\ \A c \in Capsules : managed'[c] >= managed[c] /\ oss'[c] >= oss[c]
    BY <1>0, <1>n, <2>1, <2>2, StoredMore
  <2>4. \A c \in Capsules : oss'[c] > 0 => managed'[c] > 0
    <3>1. \A c \in Capsules : c # d => Stored(oss)[c] = oss[c]
      BY <1>0, <2>1, StoredMore
    <3>2. \A c \in Capsules : managed'[c] \in 0 .. 2 /\ oss'[c] \in 0 .. 2
      BY <2>3 DEF Backends
    <3>3. CASE oss' = oss
      BY <1>0, <1>n, <2>3, <3>2, <3>3
    <3>4. CASE oss' = Stored(oss) /\ managed' = managed /\ managed[d] > 0
      BY <1>0, <1>n, <3>1, <3>4
    <3> QED
      BY <2>2, <3>3, <3>4
  <2>5. Both(managed, oss) \subseteq Both(managed', oss')
    BY <1>0, <2>3, BothMore
  <2>6. Covered(file, drainCursor', Both(managed', oss'))
    BY <1>0, <2>2, <2>5, CoveredMore
  <2>7. DrainHeld(file, managed', oss', drain')
    BY <1>r, <2>2
  <2> QED
    BY <1>0, <2>2, <2>3, <2>4, <2>6, <2>7, DrainMoves
<1>7. CASE TruncateDrained
  <2>1. /\ drain.pc = "truncate" /\ drain' = [drain EXCEPT !.pc = "write"] /\ drainCursor' = 0
        /\ UNCHANGED <<fileVars, managed, oss, stops>>
    BY <1>7 DEF TruncateDrained
  <2>2. /\ drain' \in Drains /\ drain'.pc = "write" /\ drain'.line = drain.line
        /\ drain'.offset = drain.offset
    BY <1>0, <2>1 DEF Drains, DrainPlaces
  <2>3. DrainHeld(file, managed, oss, drain')
    BY <1>0, <2>1, <2>2 DEF DrainHeld
  <2>4. drainCursor' \in 0 .. Len(file) /\ Covered(file, drainCursor', Both(managed, oss))
    BY <1>0, <2>1, CoveredNone, LenProperties
  <2> QED
    BY <1>0, <1>n, <2>1, <2>3, <2>4, DrainMoves
<1>8. CASE WriteDrained
  <2>1. /\ drain.pc = "write" /\ drainCursor' = PastDrained
        /\ UNCHANGED <<fileVars, managed, oss, stops>>
    BY <1>8 DEF WriteDrained
  <2>2. PastDrained \in 0 .. Len(file) /\ Covered(file, PastDrained, Both(managed, oss))
    <3>1. d \in Both(managed, oss) /\ d # NoCapsule /\ drain.line # <<>>
          /\ drain.offset + Len(drain.line) \in 0 .. Len(file)
      BY <1>0, <2>1, DrainedLine DEF DrainHeld
    <3>2. /\ Segment(file, drain.offset, drain.line) /\ drain.line \in Seq(Cells)
          /\ drain.offset \in Nat /\ Covered(file, drain.offset, Both(managed, oss))
      BY <1>0 DEF DrainHeld, Segment
    <3> QED
      BY <1>0, <3>1, <3>2, CoveredPast DEF PastDrained
  <2>3. DrainHeld(file, managed, oss, drain')
    <3>1. CASE Terminated(drain.line)
      <4>1. drain' = DrainAt(PastDrained, drain.processed)
        BY <1>8, <3>1 DEF WriteDrained, Resting, DrainAt
      <4>2. drain.processed \in 0 .. DrainLimit
        BY <1>0 DEF Drains
      <4> QED
        BY <1>0, <2>2, <4>1, <4>2, DrainReads
    <3>2. CASE ~Terminated(drain.line)
      BY <1>8, <1>r, <3>2 DEF WriteDrained
    <3> QED
      BY <3>1, <3>2
  <2> QED
    BY <1>0, <1>n, <2>1, <2>2, <2>3, DrainMoves
<1>9. CASE DrainStops
  <2>1. stops' \in 0 .. MaxStops
    BY <1>0, <1>9, DrainAssumption DEF DrainStops
  <2> QED
    BY <1>0, <1>9, <1>r, <1>q, <2>1 DEF DrainStops
<1>10. CASE UNCHANGED drainVars
  BY <1>10 DEF drainVars, fileVars, DrainerInv
<1> QED
  BY <1>1, <1>2, <1>3, <1>4, <1>5, <1>6, <1>7, <1>8, <1>9, <1>10 DEF DrainNext, DrainStep

(* DrainInv: the drainer's cursor passes no capsule that is not in both    *)
(* backends, and the OSS backend has none that the managed one lacks.      *)
THEOREM DrainInvHolds == DrainSpec => []DrainInv
<1>1. ASSUME DrainerInv PROVE DrainInv
  <2>1. /\ file \in Seq(Cells) /\ drain \in Drains /\ DrainHeld(file, managed, oss, drain)
        /\ managed \in Backends /\ oss \in Backends
        /\ Covered(file, drainCursor, Both(managed, oss))
    BY <1>1 DEF DrainerInv, DrainHeld
  <2>2. drain.offset + Len(drain.line) \in 0 .. Len(file)
    BY <2>1, LenProperties DEF DrainHeld, Segment
  <2>3. DrainTypeOK
    BY <1>1, <2>1, <2>2 DEF DrainerInv, DrainTypeOK, Drains, DrainPlaces, Backends
  <2>4. ASSUME NEW c \in Capsules, Readable(file, c), Place(file, c) < drainCursor
        PROVE  c \in Both(managed, oss)
    <3>1. StartsAt(file, c, Place(file, c))
      BY <2>4 DEF Readable, Place
    <3> QED
      BY <2>1, <2>4, <3>1, CoveredStart
  <2>5. CursorCoversBoth
    BY <1>1, <2>4 DEF CursorCoversBoth, Both, DrainerInv
  <2> QED
    BY <2>3, <2>5 DEF DrainInv
<1> QED
  BY <1>1, DrainInitHolds, DrainStepKeeps, PTL DEF DrainSpec
=============================================================================
