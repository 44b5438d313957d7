------------------------------ MODULE Breaker ------------------------------
(***************************************************************************)
(* The circuit breaker of internal/mem0outbox/circuit_breaker.go as a      *)
(* value: what each method makes of the breaker's fields.  Every method    *)
(* holds the mutex from beginning to end, so one operator is one step.     *)
(*                                                                         *)
(* Time is counted in units of which BaseBackoff and MaxBackoff are        *)
(* multiples; sinceOpen is the time since openedAt, counted no further     *)
(* than the backoff.  tripWindows, recoveries and transitions are          *)
(* telemetry that no method reads and are left out.                        *)
(***************************************************************************)
EXTENDS Naturals

CONSTANTS
  TripThreshold,  \* consecutive failures that open a closed breaker
  BaseBackoff,    \* first hold time
  MaxBackoff,     \* upper bound on the hold time
  TripCap         \* trip index from which on the backoff is MaxBackoff

(* The hold time of openLocked: doubled once per trip, cut at MaxBackoff.  *)
BackoffAfter[i \in Nat] ==
  IF i = 0 THEN BaseBackoff
  ELSE IF 2 * BackoffAfter[i - 1] > MaxBackoff THEN MaxBackoff
       ELSE 2 * BackoffAfter[i - 1]

(* NewCircuitBreaker replaces values that violate these; with them, no     *)
(* trip beyond TripCap is told from TripCap.                               *)
ASSUME BackoffAssumption ==
  /\ TripThreshold \in Nat \ {0}
  /\ BaseBackoff \in Nat \ {0}
  /\ MaxBackoff \in Nat /\ MaxBackoff >= BaseBackoff
  /\ TripCap \in Nat /\ BackoffAfter[TripCap] = MaxBackoff

BreakerStates == {"closed", "open", "half_open"}

Breakers ==
  [state : BreakerStates, consecFails : 0 .. TripThreshold - 1, tripIndex : 0 .. TripCap,
   backoff : 0 .. MaxBackoff, sinceOpen : 0 .. MaxBackoff, probeIssued : BOOLEAN]

NewBreaker ==
  [state |-> "closed", consecFails |-> 0, tripIndex |-> 0,
   backoff |-> 0, sinceOpen |-> 0, probeIssued |-> FALSE]

(* Allow: the answer, and the breaker afterwards.                          *)
WindowOver(b) == b.sinceOpen >= b.backoff

Allows(b) ==
  \/ b.state = "closed"
  \/ b.state = "open" /\ WindowOver(b)
  \/ b.state = "half_open" /\ ~b.probeIssued

AllowedUnmarked(b) ==
  IF b.state = "closed" THEN b ELSE [b EXCEPT !.state = "half_open"]

AfterAllow(b) ==
  IF b.state = "closed" THEN b
  ELSE [b EXCEPT !.state = "half_open", !.probeIssued = TRUE]

(* openLocked, from closed or half-open.                                   *)
OpenedAtBase(b, trips) ==
  [b EXCEPT !.state = "open", !.sinceOpen = 0, !.probeIssued = FALSE,
            !.tripIndex = trips, !.backoff = BaseBackoff, !.consecFails = 0]

Opened(b, trips) ==
  [b EXCEPT !.state = "open", !.sinceOpen = 0, !.probeIssued = FALSE,
            !.tripIndex = trips, !.backoff = BackoffAfter[trips], !.consecFails = 0]

(* RecordSuccess: a success while open (a late answer) closes it as well.  *)
SuccessCountsOnly(b) == [b EXCEPT !.consecFails = 0]

AfterSuccess(b) ==
  IF b.state = "closed" THEN [b EXCEPT !.consecFails = 0]
  ELSE [b EXCEPT !.state = "closed", !.consecFails = 0, !.tripIndex = 0,
                 !.backoff = 0, !.probeIssued = FALSE]

(* RecordFailure: a failure while open (a late answer) changes nothing.    *)
Trips(b) == b.consecFails + 1 >= TripThreshold

AfterFailure(b) ==
  CASE b.state = "closed" /\ ~Trips(b) -> [b EXCEPT !.consecFails = @ + 1]
    [] b.state = "closed" /\ Trips(b) -> Opened(b, b.tripIndex)
    [] b.state = "half_open" ->
         Opened(b, IF b.tripIndex < TripCap THEN b.tripIndex + 1 ELSE TripCap)
    [] b.state = "open" -> b

(* One unit of time passes.                                                *)
AfterTick(b) ==
  IF b.state = "open" /\ ~WindowOver(b) THEN [b EXCEPT !.sinceOpen = @ + 1] ELSE b
=============================================================================
