------------------------------- MODULE Outbox -------------------------------
(***************************************************************************)
(* The Mem0 outbox of one machine: processes that append capsules to       *)
(* pending.jsonl, and the one flusher that posts them and keeps its place  *)
(* in the cursor file (internal/mem0outbox/{outbox,budget}.go).            *)
(*                                                                         *)
(* Writers use O_APPEND, so the lines of two writers do not interleave;    *)
(* `appending' is the writer whose write is on its way, `written' of its   *)
(* cells can be read already.  A write that comes up short (full disk,     *)
(* killed process) leaves those cells behind.                              *)
(*                                                                         *)
(* os.WriteFile truncates the cursor file before it writes it, and an      *)
(* empty cursor file reads as offset 0.  Money is counted in capsules: a   *)
(* push costs one, Ceiling is the budget's USDMax * FreezeRatio.  Waiting  *)
(* for Retry-After and the flush interval is not modelled: Flush may be    *)
(* called at any time.                                                     *)
(***************************************************************************)
EXTENDS OutboxFile, Breaker

CONSTANTS
  BatchSize,
  Budgeted, Ceiling,   \* is there a Budget and a Ledger, and its ceiling
  UseBreaker,          \* is there a Breaker
  MaxFaults,           \* bound: crashes and failed file writes
  MaxSpend             \* bound: bills and lost answers are counted no further

ASSUME OutboxAssumption ==
  /\ BatchSize \in Nat \ {0}
  /\ Ceiling \in Nat \ {0} /\ MaxSpend \in Nat /\ MaxSpend > Ceiling
  /\ Budgeted \in BOOLEAN /\ UseBreaker \in BOOLEAN
  /\ MaxFaults \in Nat

VARIABLES
  appending, written,
  acked,             \* capsules that Append returned nil for
  cursor, ledger,    \* the cursor and spent_usd files
  breaker,
  flush,             \* the running Flush: its place in the code and locals
  delivered, spend,  \* what the upstream has stored, and billed
  unanswered,        \* history: capsules it stored without an answer reaching Flush
  faults

writerVars == <<fileVars, appending, written, acked>>
upstreamVars == <<delivered, spend, unanswered>>
vars == <<writerVars, cursor, ledger, breaker, flush, upstreamVars, faults>>

Idle == [pc |-> "idle", offset |-> 0, processed |-> 0, line |-> <<>>, limited |-> FALSE]

TypeOK ==
  /\ file \in Seq(Cells)
  /\ appending \in Capsules \cup {NoCapsule} /\ written \in 0 .. 2
  /\ acked \subseteq tried /\ tried \subseteq Capsules
  /\ cursor \in 0 .. Len(file)
  /\ ledger \in 0 .. Ceiling /\ spend \in 0 .. MaxSpend /\ unanswered \in 0 .. MaxSpend
  /\ breaker \in Breakers
  /\ flush.pc \in {"idle", "read", "push", "truncate", "write", "charge"}
  /\ flush.offset + Len(flush.line) \in 0 .. Len(file)
  /\ flush.processed \in 0 .. BatchSize
  /\ flush.limited \in BOOLEAN
  /\ flush.pc = "push" => Decode(flush.line) \in Capsules
  /\ delivered \subseteq tried
  /\ torn \in 0 .. MaxTorn /\ faults \in 0 .. MaxFaults

Init ==
  /\ file = <<>> /\ appending = NoCapsule /\ written = 0
  /\ tried = {} /\ acked = {}
  /\ cursor = 0 /\ ledger = 0
  /\ breaker = NewBreaker
  /\ flush = Idle
  /\ delivered = {} /\ spend = 0 /\ unanswered = 0
  /\ torn = 0 /\ faults = 0

-----------------------------------------------------------------------------
(* Writer.Append                                                           *)

AppendBegin(c) ==
  /\ appending = NoCapsule
  /\ c \notin tried
  /\ \E n \in 0 .. 2 : file' = file \o SubSeq(LineOf(c), 1, n) /\ written' = n
  /\ appending' = c
  /\ tried' = tried \cup {c}
  /\ UNCHANGED <<acked, torn, cursor, ledger, breaker, flush, upstreamVars, faults>>

(* The rest is written and synced, and Append returns nil.                 *)
AppendFromStart ==
  /\ appending # NoCapsule
  /\ file' = file \o LineOf(appending)
  /\ acked' = acked \cup {appending}
  /\ appending' = NoCapsule /\ written' = 0
  /\ UNCHANGED <<tried, torn, cursor, ledger, breaker, flush, upstreamVars, faults>>

AppendFinish ==
  /\ appending # NoCapsule
  /\ file' = file \o SubSeq(LineOf(appending), written + 1, 3)
  /\ acked' = acked \cup {appending}
  /\ appending' = NoCapsule /\ written' = 0
  /\ UNCHANGED <<tried, torn, cursor, ledger, breaker, flush, upstreamVars, faults>>

(* The write is cut short: an error, or the end of the process.            *)
AppendFails ==
  /\ appending # NoCapsule
  /\ torn < MaxTorn
  /\ torn' = torn + 1
  /\ appending' = NoCapsule /\ written' = 0
  /\ UNCHANGED <<file, tried, acked, cursor, ledger, breaker, flush, upstreamVars, faults>>

-----------------------------------------------------------------------------
(* Flusher.Flush                                                           *)

(* The two gates, in their order; a refused call returns at once.  Then    *)
(* the file is opened and the cursor read.                                 *)
Admitted == UseBreaker => Allows(breaker)
AnySpend == TRUE
UnderCeiling == Budgeted => ledger < Ceiling

FlushBegin ==
  /\ flush.pc = "idle"
  /\ breaker' = IF UseBreaker /\ Admitted THEN AfterAllow(breaker) ELSE breaker
  /\ flush' = IF Admitted /\ UnderCeiling
              THEN [Idle EXCEPT !.pc = "read", !.offset = cursor] ELSE Idle
  /\ UNCHANGED <<writerVars, cursor, ledger, upstreamVars, faults>>

(* One turn of the loop up to the push.  A corrupt or blank line is passed *)
(* over without saving the cursor.                                         *)
PastLine == flush.offset + Len(flush.line)

EndOfTurn ==
  IF flush.limited \/ ~Terminated(flush.line) THEN Idle
  ELSE [Idle EXCEPT !.pc = "read", !.offset = PastLine, !.processed = flush.processed]

AtEnd == LineEnd(file, flush.offset) = flush.offset
BatchDone == flush.processed = BatchSize
StopAtCorrupt(line) == FALSE
PassOver(line) == Terminated(line)

NextLine ==
  LET line == ReadLine(file, flush.offset)
  IN CASE BatchDone \/ AtEnd -> Idle
       [] ~BatchDone /\ ~AtEnd /\ Decode(line) # NoCapsule ->
            [flush EXCEPT !.pc = "push", !.line = line]
       [] ~BatchDone /\ ~AtEnd /\ Decode(line) = NoCapsule ->
            IF PassOver(line) THEN [flush EXCEPT !.offset = @ + Len(line)] ELSE Idle

FlushRead ==
  /\ flush.pc = "read"
  /\ flush' = NextLine
  /\ UNCHANGED <<writerVars, cursor, ledger, breaker, upstreamVars, faults>>

Posted ==
  /\ delivered' = delivered \cup {Decode(flush.line)}
  /\ spend' = Min({spend + 1, MaxSpend})

PushSucceeds ==
  /\ flush.pc = "push"
  /\ Posted /\ UNCHANGED unanswered
  /\ breaker' = IF UseBreaker THEN AfterSuccess(breaker) ELSE breaker
  /\ flush' = [flush EXCEPT !.pc = "truncate", !.processed = @ + 1]
  /\ UNCHANGED <<writerVars, cursor, ledger, faults>>

(* HTTP 429: the cursor is saved on the refused line.                      *)
PushRateLimited ==
  /\ flush.pc = "push"
  /\ breaker' = IF UseBreaker THEN AfterFailure(breaker) ELSE breaker
  /\ flush' = [flush EXCEPT !.pc = "truncate", !.limited = TRUE]
  /\ UNCHANGED <<writerVars, cursor, ledger, upstreamVars, faults>>

SkipRefused == EndOfTurn
AfterError == Idle

(* Any other error ends the flush; when only the answer was lost, the      *)
(* upstream has the capsule.                                               *)
PushFails ==
  /\ flush.pc = "push"
  /\ \/ Posted /\ unanswered' = Min({unanswered + 1, MaxSpend})
     \/ UNCHANGED upstreamVars
  /\ flush' = AfterError
  /\ UNCHANGED <<writerVars, cursor, ledger, breaker, faults>>

-----------------------------------------------------------------------------
(* writeCursor, the ledger, and the end of the loop's turn                 *)

LineTaken == PastLine
SavedOffset == IF flush.limited THEN flush.offset ELSE PastLine

ChargeRefusedToo == Budgeted
MustCharge == Budgeted /\ ~flush.limited

TruncateCursor ==
  /\ flush.pc = "truncate"
  /\ cursor' = 0
  /\ flush' = [flush EXCEPT !.pc = "write"]
  /\ UNCHANGED <<writerVars, ledger, breaker, upstreamVars, faults>>

WriteCursor ==
  /\ flush.pc = "write"
  /\ cursor' = SavedOffset
  /\ flush' = IF MustCharge THEN [flush EXCEPT !.pc = "charge"] ELSE EndOfTurn
  /\ UNCHANGED <<writerVars, ledger, breaker, upstreamVars, faults>>

Overspent(total) == total > Ceiling
Exhausted(total) == total >= Ceiling

(* FileLedger.Add replaces the file by a rename.  At the ceiling the flush *)
(* is over.                                                                *)
Charge ==
  /\ flush.pc = "charge"
  /\ ledger' = ledger + 1
  /\ flush' = IF Exhausted(ledger') THEN Idle ELSE EndOfTurn
  /\ UNCHANGED <<writerVars, cursor, breaker, upstreamVars, faults>>

(* A write of the cursor or the ledger fails, and Flush returns.           *)
SaveFails ==
  /\ flush.pc \in {"truncate", "write", "charge"}
  /\ faults < MaxFaults /\ faults' = faults + 1
  /\ flush' = Idle
  /\ UNCHANGED <<writerVars, cursor, ledger, breaker, upstreamVars>>

(* The flusher's process ends and is started again.                        *)
Crash ==
  /\ faults < MaxFaults /\ faults' = faults + 1
  /\ flush' = Idle
  /\ breaker' = NewBreaker
  /\ UNCHANGED <<writerVars, cursor, ledger, upstreamVars>>

Tick ==
  /\ breaker' = AfterTick(breaker)
  /\ breaker' # breaker
  /\ UNCHANGED <<writerVars, cursor, ledger, flush, upstreamVars, faults>>

-----------------------------------------------------------------------------
Write == AppendFinish \/ AppendFails \/ \E c \in Capsules : AppendBegin(c)
PushAnswered == PushSucceeds \/ PushRateLimited \/ PushFails
FlushStep == FlushRead \/ PushAnswered \/ TruncateCursor \/ WriteCursor \/ Charge

Next == Write \/ FlushBegin \/ FlushStep \/ SaveFails \/ Crash \/ Tick

(* A write under way ends, Flush is called again and again and takes its   *)
(* steps, and an upstream asked again and again accepts at times ("when    *)
(* Mem0 returns to health").                                               *)
Fairness ==
  /\ WF_vars(AppendFinish)
  /\ WF_vars(FlushBegin) /\ WF_vars(FlushStep)
  /\ SF_vars(PushSucceeds)

Spec == Init /\ [][Next]_vars
FairSpec == Spec /\ Fairness

-----------------------------------------------------------------------------
(* A capsule whose line is in the file is never passed by the cursor       *)
(* without having been posted, through partial reads, corrupt neighbours,  *)
(* failed saves and crashes ("the number of bytes that have been           *)
(* successfully posted", outbox.go:12-13).                                 *)
CursorCoversPosted ==
  \A c \in Capsules :
    Readable(file, c) /\ Place(file, c) < cursor => c \in delivered

(* "The ledger's running total is always a lower bound on actual spend"    *)
(* (outbox.go:364-366), also when a save fails or the process dies between *)
(* the push and the charge.                                                *)
LedgerIsLowerBound == ledger <= spend

(* The price of that order: the bill of a flusher with a budget passes the *)
(* ceiling by one capsule at most for each crash or failed save, and for   *)
(* each answer that was lost (Flush's two budget gates, outbox.go:281-289  *)
(* and 363-375); the freeze comes no later, whatever the sequence of       *)
(* flushes, retries and restarts.                                          *)
BillWithinBudget == Budgeted => spend <= Ceiling + faults + unanswered

(* The outbox posts in file order, skips nothing and posts everything: it  *)
(* implements the DeliveryQueue.                                           *)
Queue ==
  INSTANCE DeliveryQueue WITH
    log <- ReadableCapsules(file),
    posted <- {c \in delivered : Readable(file, c)}

QueueOrdered == Queue!Ordered
QueueSpec == Queue!Spec

(* Each short write costs at most one capsule that Append accepted: the    *)
(* one appended to the torn line.  That is what is left of "a crash        *)
(* mid-write cannot silently lose the capsule" (outbox.go:86-87); all      *)
(* other accepted capsules stay readable.                                  *)
TornLineCostsOne == Cardinality({c \in acked : ~Readable(file, c)}) <= torn
=============================================================================
