----------------------------- MODULE QuotaDrain -----------------------------
(***************************************************************************)
(* QuotaDrainer.Drain (internal/mem0outbox/drain.go): posts the outbox to  *)
(* two backends, the managed one first, and moves a cursor of its own past *)
(* a capsule when both have it.  Writers append meanwhile; a torn line is  *)
(* appended in one step here (Outbox has the partial reads).               *)
(***************************************************************************)
EXTENDS OutboxFile

CONSTANTS
  DrainLimit,    \* the batch limit of one Drain
  MaxStops       \* bound: crashes and failed writes of the cursor

ASSUME DrainAssumption == DrainLimit \in Nat \ {0} /\ MaxStops \in Nat

VARIABLES
  drainCursor,   \* the drainer's cursor file
  drain,         \* the running Drain: its place in the code and locals
  managed, oss,  \* how often each backend has stored a capsule, up to twice
  stops

drainVars == <<fileVars, drainCursor, drain, managed, oss, stops>>

Resting == [pc |-> "idle", offset |-> 0, processed |-> 0, line |-> <<>>]

DrainTypeOK ==
  /\ file \in Seq(Cells)
  /\ drainCursor \in 0 .. Len(file)
  /\ drain.pc \in {"idle", "read", "managed", "oss", "truncate", "write"}
  /\ drain.offset + Len(drain.line) \in 0 .. Len(file)
  /\ drain.processed \in 0 .. DrainLimit
  /\ managed \in [Capsules -> 0 .. 2] /\ oss \in [Capsules -> 0 .. 2]
  /\ torn \in 0 .. MaxTorn /\ stops \in 0 .. MaxStops

DrainInit ==
  /\ file = <<>> /\ tried = {} /\ torn = 0
  /\ drainCursor = 0
  /\ drain = Resting
  /\ managed = [c \in Capsules |-> 0] /\ oss = [c \in Capsules |-> 0]
  /\ stops = 0

(* Writer.Append, complete or cut short after n cells.                     *)
AppendLine(c) ==
  /\ c \notin tried
  /\ tried' = tried \cup {c}
  /\ \/ file' = file \o LineOf(c) /\ torn' = torn
     \/ /\ torn < MaxTorn /\ torn' = torn + 1
        /\ \E n \in 1 .. 2 : file' = file \o SubSeq(LineOf(c), 1, n)
  /\ UNCHANGED <<drainCursor, drain, managed, oss, stops>>

(* openPendingAtCursor.                                                    *)
DrainBegin ==
  /\ drain.pc = "idle"
  /\ drain' = [Resting EXCEPT !.pc = "read", !.offset = drainCursor]
  /\ UNCHANGED <<fileVars, drainCursor, managed, oss, stops>>

(* readPendingLine and decode.                                             *)
NoMoreLines == LineEnd(file, drain.offset) = drain.offset
LimitReached == drain.processed = DrainLimit

DrainLine ==
  LET line == ReadLine(file, drain.offset)
  IN  /\ drain.pc = "read"
      /\ drain' =
           IF LimitReached \/ NoMoreLines THEN Resting
           ELSE IF Decode(line) # NoCapsule
                THEN [drain EXCEPT !.pc = "managed", !.line = line]
                ELSE IF Terminated(line) THEN [drain EXCEPT !.offset = @ + Len(line)]
                     ELSE Resting
      /\ UNCHANGED <<fileVars, drainCursor, managed, oss, stops>>

(* pushBoth: an error, with or without the capsule stored, ends the drain. *)
Stored(backend) ==
  [backend EXCEPT ![Decode(drain.line)] = IF @ < 2 THEN @ + 1 ELSE @]

SaveAtOnce == "truncate"
AfterManaged == "oss"

PushManaged ==
  /\ drain.pc = "managed"
  /\ managed' = Stored(managed)
  /\ drain' = [drain EXCEPT !.pc = AfterManaged]
  /\ UNCHANGED <<fileVars, drainCursor, oss, stops>>

PushOSS ==
  /\ drain.pc = "oss"
  /\ oss' = Stored(oss)
  /\ drain' = [drain EXCEPT !.pc = "truncate", !.processed = @ + 1]
  /\ UNCHANGED <<fileVars, drainCursor, managed, stops>>

PushBothFails ==
  /\ \/ drain.pc = "managed" /\ managed' \in {managed, Stored(managed)} /\ oss' = oss
     \/ drain.pc = "oss" /\ oss' \in {oss, Stored(oss)} /\ managed' = managed
  /\ drain' = Resting
  /\ UNCHANGED <<fileVars, drainCursor, stops>>

(* writeCursor truncates the file before it writes it.                     *)
TruncateDrained ==
  /\ drain.pc = "truncate"
  /\ drainCursor' = 0
  /\ drain' = [drain EXCEPT !.pc = "write"]
  /\ UNCHANGED <<fileVars, managed, oss, stops>>

OneTooFar == drain.offset + Len(drain.line) + 1
PastDrained == drain.offset + Len(drain.line)

WriteDrained ==
  /\ drain.pc = "write"
  /\ drainCursor' = PastDrained
  /\ drain' = IF Terminated(drain.line)
              THEN [Resting EXCEPT !.pc = "read", !.offset = PastDrained,
                                   !.processed = drain.processed]
              ELSE Resting
  /\ UNCHANGED <<fileVars, managed, oss, stops>>

(* The process ends, or a write of the cursor fails and Drain returns.     *)
DrainStops ==
  /\ drain.pc # "idle"
  /\ stops < MaxStops /\ stops' = stops + 1
  /\ drain' = Resting
  /\ UNCHANGED <<fileVars, drainCursor, managed, oss>>

-----------------------------------------------------------------------------
DrainStep == DrainBegin \/ DrainLine \/ PushManaged \/ PushOSS \/ PushBothFails
             \/ TruncateDrained \/ WriteDrained

DrainNext == DrainStep \/ DrainStops \/ \E c \in Capsules : AppendLine(c)

(* Drain is run again and again, and each backend accepts at times.        *)
DrainFairness == WF_drainVars(DrainStep) /\ SF_drainVars(PushManaged) /\ SF_drainVars(PushOSS)
DrainSpec == DrainInit /\ [][DrainNext]_drainVars
DrainFairSpec == DrainSpec /\ DrainFairness

-----------------------------------------------------------------------------
(* "The cursor advances only after both Managed and OSS pushes succeed"    *)
(* (drain.go:27): a capsule it is past is in both backends, through        *)
(* partial failures, crashes and lost cursors, and OSS never has one that  *)
(* managed lacks.                                                          *)
CursorCoversBoth ==
  \A c \in Capsules :
    /\ Readable(file, c) /\ Place(file, c) < drainCursor => managed[c] > 0 /\ oss[c] > 0
    /\ oss[c] > 0 => managed[c] > 0

(* The drainer's place, locals and cursor stay within the file and the     *)
(* batch, and the cursor covers what both backends have.                   *)
DrainInv == DrainTypeOK /\ CursorCoversBoth

(* Every capsule on a finished line reaches both backends.                 *)
BothInTheEnd ==
  \A c \in Capsules : [](Readable(file, c) => <>(managed[c] > 0 /\ oss[c] > 0))
=============================================================================
