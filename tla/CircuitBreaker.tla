--------------------------- MODULE CircuitBreaker ---------------------------
(***************************************************************************)
(* One breaker shared by concurrent callers ("the type is safe for         *)
(* concurrent use", circuit_breaker.go:69-70).  A caller is a Flush        *)
(* (outbox.go:257): it asks Allow once, reports a success after each push, *)
(* and ends with the report of a failure (HTTP 429) or with none.  Other   *)
(* callers' calls fall in between, so an outcome may arrive in a state     *)
(* that did not admit it.                                                  *)
(***************************************************************************)
EXTENDS Breaker, FiniteSets

CONSTANT Callers

VARIABLES
  shared,    \* the breaker
  pushing,   \* callers between Allow and their return
  probes     \* callers admitted in the current half-open episode, unreported

sharedVars == <<shared, pushing, probes>>

SharedInit ==
  /\ shared = NewBreaker
  /\ pushing = {}
  /\ probes = {}

Allow(c) ==
  /\ c \notin pushing
  /\ Allows(shared)
  /\ shared' = AfterAllow(shared)
  /\ pushing' = pushing \cup {c}
  /\ probes' = IF shared'.state = "half_open" THEN probes \cup {c} ELSE probes

Report(c, after) ==
  /\ c \in pushing
  /\ shared' = after
  /\ probes' = IF shared'.state = "half_open" THEN probes \ {c} ELSE {}

(* Flush goes on with the next capsule after a success, and returns after  *)
(* an HTTP 429.                                                            *)
RecordSuccess(c) == Report(c, AfterSuccess(shared)) /\ UNCHANGED pushing
RecordFailure(c) == Report(c, AfterFailure(shared)) /\ pushing' = pushing \ {c}

(* Flush returns and tells the breaker nothing: its budget is frozen, the  *)
(* outbox is empty or cannot be read, a push failed with an error other    *)
(* than 429, or the successes were reported and the batch is over.         *)
Leave(c) ==
  /\ c \in pushing
  /\ pushing' = pushing \ {c}
  /\ UNCHANGED <<shared, probes>>

TimePasses ==
  /\ shared' = AfterTick(shared)
  /\ shared' # shared
  /\ UNCHANGED <<pushing, probes>>

SharedNext ==
  \/ TimePasses
  \/ \E c \in Callers : Allow(c) \/ RecordSuccess(c) \/ RecordFailure(c) \/ Leave(c)

(* Time passes, and a Flush returns, in whichever way.                     *)
SharedFairness ==
  /\ WF_sharedVars(TimePasses)
  /\ \A c \in Callers : WF_sharedVars(RecordFailure(c) \/ Leave(c))

SharedSpec == SharedInit /\ [][SharedNext]_sharedVars
SharedFairSpec == SharedSpec /\ SharedFairness

-----------------------------------------------------------------------------
(* A half-open breaker has let exactly one caller through since it left    *)
(* Open, and has no report of it yet, however late the reports of callers  *)
(* admitted before the trip come in, and whether or not that caller is     *)
(* still there to report ("permits exactly one probe through",             *)
(* circuit_breaker.go:28).                                                 *)
OneProbe ==
  shared.state = "half_open" => shared.probeIssued /\ Cardinality(probes) = 1

(* Each failed probe holds the breaker open longer than the trip before,   *)
(* until the hold time is MaxBackoff, which no hold exceeds; a trip from   *)
(* Closed starts over at BaseBackoff (openLocked).                         *)
BackoffDeepens ==
  [][shared'.state = "open" /\ shared.state # "open" =>
       /\ shared'.backoff <= MaxBackoff
       /\ shared.state = "closed" => shared'.backoff = BaseBackoff
       /\ shared.state = "half_open" =>
            shared'.backoff > shared.backoff \/ shared'.backoff = MaxBackoff]_sharedVars

(* The probe's caller has returned and reported nothing.                   *)
ProbeLeft == shared.state = "half_open" /\ probes # {} /\ probes \cap pushing = {}

(* "The probe's outcome decides whether the breaker closes again or        *)
(* re-opens" (circuit_breaker.go:28-31), but Flush need not report one.    *)
(* The breaker lets callers through again and again, unless it waits for   *)
(* ever for the report of a probe that has left: nothing else, no order of *)
(* late reports and no hold time, shuts it for good.                       *)
AdmitsAgain == []<>Allows(shared) \/ <>[]ProbeLeft
=============================================================================
