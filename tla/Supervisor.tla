----------------------------- MODULE Supervisor -----------------------------
(***************************************************************************)
(* The process supervisor (internal/supervisor): Register, Run with a      *)
(* restart loop and growing delay for each service, the memory probe that  *)
(* runs beside them, and cancellation.  Several goroutines may call Run,   *)
(* each with a context of its own; one that has returned may be called     *)
(* again.                                                                  *)
(*                                                                         *)
(* Services are external: one returns whenever it likes, and must when its *)
(* context is cancelled.  It has failed (an error, or a panic, which is    *)
(* recovered as an error) or finished (nil, context.Canceled or            *)
(* DeadlineExceeded, the errors the comment on Run sets apart).  Time is   *)
(* abstract: what counts of a life is whether it lasted five minutes.      *)
(***************************************************************************)
EXTENDS Naturals

CONSTANTS
  Services,
  Runners,       \* goroutines that call Run
  MaxExits       \* bound on returns that no cancellation asked for

ASSUME SupervisorAssumption == MaxExits \in Nat

VARIABLES
  registered,    \* the names registered
  running,       \* the flag that refuses a second Run
  pc,            \* where each Run is
  cancelled,     \* whether its context is
  mine,          \* the services it copied at its start
  loop,          \* superviseOne, for each Run and service
  probe,         \* the goroutine of the memory probe
  lasted,        \* whether the life before its last restart was a long one
  restarts,      \* its counter in serviceState
  delay,         \* and the last delay before a restart, in seconds
  exits

health == <<lasted, restarts, delay, exits>>
vars == <<registered, running, pc, cancelled, mine, loop, probe, health>>

MaxDelay == 30

TypeOK ==
  /\ registered \subseteq Services
  /\ running \in BOOLEAN
  /\ pc \in [Runners -> {"idle", "run", "leave", "returned", "refused"}]
  /\ cancelled \in [Runners -> BOOLEAN]
  /\ mine \in [Runners -> SUBSET registered]
  /\ loop \in [Runners -> [Services -> {"off", "check", "up", "failed", "finished", "backoff"}]]
  /\ probe \in [Runners -> {"off", "up"}]
  /\ lasted \in [Services -> BOOLEAN]
  /\ restarts \in [Services -> Nat] /\ delay \in [Services -> 0..MaxDelay]
  /\ exits \in 0..MaxExits

Init ==
  /\ registered = {} /\ running = FALSE
  /\ pc = [r \in Runners |-> "idle"]
  /\ cancelled = [r \in Runners |-> FALSE]
  /\ mine = [r \in Runners |-> {}]
  /\ loop = [r \in Runners |-> [s \in Services |-> "off"]]
  /\ probe = [r \in Runners |-> "off"]
  /\ lasted = [s \in Services |-> FALSE]
  /\ restarts = [s \in Services |-> 0]
  /\ delay = [s \in Services |-> 0]
  /\ exits = 0

(* A name that is taken is refused.                                        *)
Register(s) ==
  /\ s \notin registered
  /\ registered' = registered \cup {s}
  /\ UNCHANGED <<running, pc, cancelled, mine, loop, probe, health>>

-----------------------------------------------------------------------------
(* Run takes the flag and a copy of the services under the mutex and       *)
(* starts a goroutine for each and one for the probe.                      *)
RunUnguarded(r) ==
  /\ pc[r] = "idle"
  /\ pc' = [pc EXCEPT ![r] = "run"]
  /\ running' = TRUE
  /\ mine' = [mine EXCEPT ![r] = registered]
  /\ loop' = [loop EXCEPT ![r] =
                [s \in Services |-> IF s \in registered THEN "check" ELSE "off"]]
  /\ probe' \in {[probe EXCEPT ![r] = "up"], probe}
  /\ UNCHANGED <<registered, cancelled, health>>

Run(r) ==
  /\ pc[r] = "idle"
  /\ IF running
     THEN /\ pc' = [pc EXCEPT ![r] = "refused"]
          /\ UNCHANGED <<running, mine, loop, probe>>
     ELSE /\ pc' = [pc EXCEPT ![r] = "run"]
          /\ running' = TRUE
          /\ mine' = [mine EXCEPT ![r] = registered]
          /\ loop' = [loop EXCEPT ![r] =
                        [s \in Services |-> IF s \in registered THEN "check" ELSE "off"]]
          /\ probe' \in {[probe EXCEPT ![r] = "up"], probe}
  /\ UNCHANGED <<registered, cancelled, health>>

(* The probe goes with the context, or earlier, alone.                     *)
ProbeWithoutContext(r) ==
  /\ probe[r] = "up" /\ ~cancelled[r]
  /\ probe' = [probe EXCEPT ![r] = "off"]
  /\ UNCHANGED <<registered, running, pc, cancelled, mine, loop, health>>

ProbeEnds(r) ==
  /\ probe[r] = "up"
  /\ probe' = [probe EXCEPT ![r] = "off"]
  /\ UNCHANGED <<registered, running, pc, cancelled, mine, loop, health>>

NotWaited(r) == cancelled[r]
GroupDone(r) == probe[r] = "off" /\ \A s \in Services : loop[r][s] = "off"

WaitReturns(r) ==
  /\ pc[r] = "run" /\ GroupDone(r)
  /\ pc' = [pc EXCEPT ![r] = "leave"]
  /\ UNCHANGED <<registered, running, cancelled, mine, loop, probe, health>>

Leave(r) ==
  /\ pc[r] = "leave"
  /\ pc' = [pc EXCEPT ![r] = "returned"]
  /\ running' = FALSE
  /\ UNCHANGED <<registered, cancelled, mine, loop, probe, health>>

(* The caller starts over, with a context that is not cancelled.           *)
CallAgain(r) ==
  /\ pc[r] \in {"returned", "refused"}
  /\ pc' = [pc EXCEPT ![r] = "idle"]
  /\ cancelled' = [cancelled EXCEPT ![r] = FALSE]
  /\ mine' = [mine EXCEPT ![r] = {}]
  /\ UNCHANGED <<registered, running, loop, probe, health>>

Cancel(r) ==
  /\ ~cancelled[r]
  /\ cancelled' = [cancelled EXCEPT ![r] = TRUE]
  /\ UNCHANGED <<registered, running, pc, mine, loop, probe, health>>

-----------------------------------------------------------------------------
(* superviseOne.                                                           *)
At(r, s, from, to) ==
  /\ loop[r][s] = from
  /\ loop' = [loop EXCEPT ![r][s] = to]
  /\ UNCHANGED <<registered, running, pc, cancelled, mine, probe>>

Start(r, s) ==
  /\ At(r, s, "check", IF cancelled[r] THEN "off" ELSE "up")
  /\ UNCHANGED health

Exit(r, s) ==
  /\ \E result \in {"failed", "finished"} : At(r, s, "up", result)
  /\ cancelled[r] \/ exits < MaxExits
  /\ exits' = IF cancelled[r] THEN exits ELSE exits + 1
  /\ UNCHANGED <<lasted, restarts, delay>>

(* computeBackoff: 1, 2, 4, ... seconds, no more than MaxDelay.            *)
Uncapped(d) == d
Capped(d) == IF d >= MaxDelay THEN MaxDelay ELSE d

Backoff[n \in Nat] ==
  IF n = 0 THEN 1 ELSE Capped(2 * Backoff[n - 1])

(* superviseOne asks what a service returned neither for the restart nor   *)
(* for the reset of the counter after a long life.                         *)
FailedOnly(r, s) == loop[r][s] = "failed"
Returned(r, s) == loop[r][s] \in {"failed", "finished"}

NotReset(s, long) == restarts[s]
Counted(s, long) == IF long THEN 0 ELSE restarts[s]

Schedule(r, s) ==
  /\ ~cancelled[r] /\ Returned(r, s)
  /\ At(r, s, loop[r][s], "backoff")
  /\ \E long \in BOOLEAN :
       /\ lasted' = [lasted EXCEPT ![s] = long]
       /\ restarts' = [restarts EXCEPT ![s] = Counted(s, long) + 1]
       /\ delay' = [delay EXCEPT ![s] = Backoff[Counted(s, long)]]
  /\ UNCHANGED exits

GiveUp(r, s) ==
  /\ At(r, s, "backoff", "off")
  /\ UNCHANGED health

Wake(r, s) ==
  /\ At(r, s, "backoff", "check")
  /\ UNCHANGED health

(* The context is seen after a life and during a delay.                    *)
SeeCancel(r, s) ==
  /\ cancelled[r]
  /\ loop[r][s] \in {"failed", "finished", "backoff"}
  /\ At(r, s, loop[r][s], "off")
  /\ UNCHANGED health

LoopStep(r, s) ==
  Start(r, s) \/ Schedule(r, s) \/ Wake(r, s) \/ SeeCancel(r, s) \/ (cancelled[r] /\ Exit(r, s))

Next ==
  \/ \E s \in Services : Register(s)
  \/ \E r \in Runners :
       Run(r) \/ ProbeEnds(r) \/ WaitReturns(r) \/ Leave(r) \/ CallAgain(r) \/ Cancel(r)
  \/ \E r \in Runners, s \in Services : LoopStep(r, s) \/ Exit(r, s)

(* Goroutines are scheduled; a service and the probe return when their     *)
(* context is cancelled; nobody has to cancel, to call, or to fail.        *)
Fairness ==
  \A r \in Runners :
    /\ WF_vars(WaitReturns(r)) /\ WF_vars(Leave(r))
    /\ WF_vars(cancelled[r] /\ ProbeEnds(r))
    /\ \A s \in Services : WF_vars(LoopStep(r, s))

Spec == Init /\ [][Next]_vars
FairSpec == Spec /\ Fairness

-----------------------------------------------------------------------------
(* No service is ever run twice at the same time, whoever calls Run and    *)
(* whenever: the calls that overlap are refused.                           *)
OneLifeAtATime ==
  \A q, r \in Runners, s \in Services :
    loop[q][s] # "off" /\ loop[r][s] # "off" => q = r

(* A Run that is over has left nothing running behind.                     *)
NothingLeftBehind ==
  \A r \in Runners, s \in Services : loop[r][s] # "off" => pc[r] = "run"

ProbeGone == \A r \in Runners : probe[r] = "up" => pc[r] = "run"

(* Neither the end, the error nor the panic of a service, nor that of the  *)
(* probe, ends a Run that has a service: only its context does.            *)
RunsUntilCancelled ==
  \A r \in Runners : pc[r] \in {"leave", "returned"} => cancelled[r] \/ mine[r] = {}

(* A Run ends when it is told to and only then, and with all it started.   *)
EndsWholeWhenTold == RunsUntilCancelled /\ NothingLeftBehind /\ ProbeGone

(* A service that keeps returning waits for 1 second and then twice as     *)
(* long each time, up to MaxDelay, through one Run and into the next; a    *)
(* life of five minutes starts it from 1 again, also when it ended in an   *)
(* error ("no error returned", supervisor.go:209, is not looked at).       *)
DelayDoubles ==
  [][\A r \in Runners, s \in Services :
       loop[r][s] \in {"failed", "finished"} /\ loop'[r][s] = "backoff" =>
         delay'[s] = IF lasted'[s] \/ delay[s] = 0 THEN 1
                     ELSE IF 2 * delay[s] > MaxDelay THEN MaxDelay ELSE 2 * delay[s]]_vars

(* Unless its Run is cancelled a service that has returned is run again.   *)
(* The comments restart it "on a non-nil error (other than                 *)
(* context.Canceled / context.DeadlineExceeded)" (supervisor.go:156-160)   *)
(* and "on error" (207); the code restarts one that has finished as well.  *)
ReturnedIsRestarted ==
  \A r \in Runners, s \in Services :
    loop[r][s] \in {"failed", "finished"} ~> loop[r][s] = "up" \/ cancelled[r]

(* A cancelled Run returns, whatever its services and its probe were at.   *)
CancelEndsRun ==
  \A r \in Runners : pc[r] = "run" /\ cancelled[r] ~> pc[r] = "returned"
=============================================================================
