--------------------------- MODULE McpProxyProofs ---------------------------
(***************************************************************************)
(* That the proxy forwards lines once and in order, records what it        *)
(* forwards, and has handed over all it had when it ended well, for any    *)
(* number of lines and any room in the pipes.                              *)
(*                                                                         *)
(* A pump that met the end of its source has emptied it, and nobody writes *)
(* to a source that is closed; Run reports a good end only when both pumps *)
(* met it, or had been cancelled.                                          *)
(***************************************************************************)
EXTENDS McpProxy, SequenceTheorems, TLAPS

(* The functions on directions, whatever their values.                     *)
Shapes ==
  /\ from = [d \in Directions |-> from[d]]
  /\ pump = [d \in Directions |-> pump[d]]
  /\ held = [d \in Directions |-> held[d]]
  /\ err = [d \in Directions |-> err[d]]

(* A pump that is not at work on a line holds none.                        *)
HoldsNothing ==
  \A d \in Directions :
    /\ pump[d] \in {"off", "scan"} => held[d] = <<>>
    /\ pump[d] \in {"off", "scan", "write", "log"} => err[d] = "none"

Emptied ==
  \A d \in Directions :
    err[d] = "eof" => SourceClosed(d) /\ from[d] = <<>> /\ held[d] = <<>>

CancelledForACause ==
  \A d \in Directions : err[d] = "cancelled" /\ main = "run" => cancelled

NotBegun ==
  main = "start" => outcome = "none" /\ \A d \in Directions : pump[d] = "off"

BothEnded ==
  /\ \A d \in received : pump[d] = "done"
  /\ received \subseteq Directions
  /\ outcome = "ok" => main # "run" /\ \A d \in Directions :
                         pump[d] = "done" /\ (err[d] = "eof" \/ cancelled)

IInv == Shapes /\ HoldsNothing /\ Emptied /\ CancelledForACause /\ NotBegun /\ BothEnded

LEMMA InitIInv == Init => IInv
  BY DEF Init, IInv, Shapes, HoldsNothing, Emptied, CancelledForACause, NotBegun, BothEnded

-----------------------------------------------------------------------------
LEMMA PumpKeeps ==
  ASSUME IInv, NEW d \in Directions, PumpStep(d) \/ WriteFails PROVE IInv'
<1> USE DEF IInv, SourceClosed
<1>1. CASE Scan(d)
  <2>1. /\ pump[d] = "scan" /\ err[d] = "none"
        /\ held' = [held EXCEPT ![d] = <<Head(from[d])>>]
        /\ from' = [from EXCEPT ![d] = Tail(@)]
        /\ pump' = [pump EXCEPT ![d] = "write"]
        /\ UNCHANGED <<cancelled, client, server, err, received, main, outcome>>
    BY <1>1 DEF Scan, run, ends, HoldsNothing
  <2> QED
    BY <2>1 DEF Shapes, HoldsNothing, Emptied, CancelledForACause, NotBegun, BothEnded
<1>2. CASE ScanEnds(d)
  <2>1. /\ pump[d] = "scan" /\ held[d] = <<>>
        /\ UNCHANGED <<cancelled, client, server, from, held, received, main, outcome>>
    BY <1>2 DEF ScanEnds, run, ends, pipes, HoldsNothing
  <2>2. PICK e \in {"eof", "too_long", "closed"} :
          /\ PumpEnds(d, e)
          /\ e = "eof" => from[d] = <<>> /\ SourceClosed(d)
    BY <1>2 DEF ScanEnds
  <2>3. /\ pump' = [pump EXCEPT ![d] = "end"] /\ err' = [err EXCEPT ![d] = e]
    BY <2>2 DEF PumpEnds
  <2>4. Shapes' /\ HoldsNothing'
    BY <2>1, <2>3 DEF Shapes, HoldsNothing
  <2>5. Emptied'
    BY <2>1, <2>2, <2>3 DEF Shapes, Emptied
  <2>6. CancelledForACause'
    BY <2>1, <2>2, <2>3 DEF Shapes, CancelledForACause, RunContextDone
  <2>7. NotBegun' /\ BothEnded'
    BY <2>1, <2>3 DEF Shapes, NotBegun, BothEnded
  <2> QED
    BY <2>4, <2>5, <2>6, <2>7
<1>3. CASE Write(d)
  <2>1. /\ pump[d] = "write" /\ pump' = [pump EXCEPT ![d] = "log"]
        /\ UNCHANGED <<cancelled, client, server, from, held, err, received, main, outcome>>
    BY <1>3 DEF Write, run, ends
  <2> QED
    BY <2>1 DEF Shapes, HoldsNothing, Emptied, CancelledForACause, NotBegun, BothEnded
<1>4. CASE WriteFails
  <2>1. /\ pump["up"] = "write" /\ pump' = [pump EXCEPT !["up"] = "end"]
        /\ err' = [err EXCEPT !["up"] = "broken"]
        /\ UNCHANGED <<cancelled, client, server, from, held, received, main, outcome>>
    BY <1>4 DEF WriteFails, PumpEnds, run, ends, pipes
  <2> QED
    BY <2>1 DEF Shapes, HoldsNothing, Emptied, CancelledForACause, NotBegun, BothEnded, Directions
<1>5. CASE Log(d)
  <2>1. /\ pump[d] = "log" /\ pump' = [pump EXCEPT ![d] = "scan"]
        /\ held' = [held EXCEPT ![d] = <<>>]
        /\ UNCHANGED <<cancelled, client, server, from, err, received, main, outcome>>
    BY <1>5 DEF Log, run, ends, pipes
  <2> QED
    BY <2>1 DEF Shapes, HoldsNothing, Emptied, CancelledForACause, NotBegun, BothEnded
<1>6. CASE EndPump(d)
  <2>1. /\ pump[d] = "end" /\ pump' = [pump EXCEPT ![d] = "done"]
        /\ UNCHANGED <<cancelled, client, server, from, held, err, received, main, outcome>>
    BY <1>6 DEF EndPump, run, ends
  <2> QED
    BY <2>1 DEF Shapes, HoldsNothing, Emptied, CancelledForACause, NotBegun, BothEnded
<1>7. CASE ScanCancelled(d)
  <2>1. /\ pump[d] = "scan" /\ err[d] = "none" /\ RunContextDone
        /\ held' = [held EXCEPT ![d] = <<Head(from[d])>>]
        /\ from' = [from EXCEPT ![d] = Tail(@)]
        /\ pump' = [pump EXCEPT ![d] = "end"] /\ err' = [err EXCEPT ![d] = "cancelled"]
        /\ UNCHANGED <<cancelled, client, server, received, main, outcome>>
    BY <1>7 DEF ScanCancelled, PumpEnds, run, ends, HoldsNothing
  <2>2. Shapes' /\ HoldsNothing' /\ Emptied'
    BY <2>1 DEF Shapes, HoldsNothing, Emptied
  <2>3. CancelledForACause'
    BY <2>1 DEF Shapes, CancelledForACause, RunContextDone
  <2>4. NotBegun' /\ BothEnded'
    BY <2>1 DEF Shapes, NotBegun, BothEnded
  <2> QED
    BY <2>2, <2>3, <2>4
<1> QED
  BY <1>1, <1>2, <1>3, <1>4, <1>5, <1>6, <1>7 DEF PumpStep

(* Run reports a good end only when both pumps have ended well.            *)
LEMMA RunKeeps ==
  ASSUME IInv, MainStep \/ CloseReaders \/ Sigpipe PROVE IInv'
<1> USE DEF IInv, SourceClosed
<1>1. ASSUME NEW d \in Directions, Receive(d) PROVE IInv'
  <2>1. /\ main = "run" /\ pump[d] = "done" /\ received' = received \cup {d}
        /\ UNCHANGED <<cancelled, client, server, from, held, err, pump>>
    BY <1>1 DEF Receive, pipes, pumps, ends
  <2>2. CASE received' = Directions
    <3>1. /\ main' = "wait"
          /\ outcome' = IF \A e \in Directions : err[e] \in Benign THEN "ok" ELSE "error"
      BY <1>1, <2>2 DEF Receive, Returns
    <3>2. \A e \in Directions : pump[e] = "done"
      BY <2>1, <2>2 DEF BothEnded
    <3>3. BothEnded'
      BY <2>1, <2>2, <3>1, <3>2 DEF BothEnded, Benign, CancelledForACause
    <3> QED
      BY <2>1, <3>1, <3>3 DEF Shapes, HoldsNothing, Emptied, CancelledForACause, NotBegun
  <2>3. CASE received' # Directions
    <3>1. UNCHANGED <<main, outcome>>
      BY <1>1, <2>3 DEF Receive
    <3> QED
      BY <2>1, <3>1 DEF Shapes, HoldsNothing, Emptied, CancelledForACause, NotBegun, BothEnded
  <2> QED
    BY <2>2, <2>3
<1>2. CASE OpenLog
  <2>1. /\ main = "start" /\ main' = "run" /\ pump' = [d \in Directions |-> "scan"]
        /\ UNCHANGED <<cancelled, client, server, from, held, err, received, outcome>>
    BY <1>2 DEF OpenLog, pipes, ends
  <2> QED
    BY <2>1 DEF Shapes, HoldsNothing, Emptied, CancelledForACause, NotBegun, BothEnded
<1>3. CASE OpenLogFails
  BY <1>3 DEF OpenLogFails, pipes, pumps, ends, Shapes, HoldsNothing, Emptied,
              CancelledForACause, NotBegun, BothEnded
<1>4. CASE RunCancelled
  BY <1>4 DEF RunCancelled, Returns, pipes, pumps, ends, Shapes, HoldsNothing, Emptied,
              CancelledForACause, NotBegun, BothEnded
<1>5. CASE Wait
  BY <1>5 DEF Wait, pipes, pumps, ends, Shapes, HoldsNothing, Emptied,
              CancelledForACause, NotBegun, BothEnded
<1>6. CASE CloseReaders
  BY <1>6 DEF CloseReaders, pumps, run, ends, Shapes, HoldsNothing, Emptied,
              CancelledForACause, NotBegun, BothEnded
<1>7. CASE Sigpipe
  BY <1>7 DEF Sigpipe, pipes, pumps, ends, Shapes, HoldsNothing, Emptied,
              CancelledForACause, NotBegun, BothEnded
<1> QED
  BY <1>1, <1>2, <1>3, <1>4, <1>5, <1>6, <1>7 DEF MainStep

(* A closed source gets no more lines.                                     *)
LEMMA EnvironmentKeeps ==
  ASSUME IInv,
         \/ ClientSends \/ ClientReads \/ ClientEnds \/ Signal \/ KillServer
         \/ ServerStep \/ ServerCrashes \/ OthersWrite
  PROVE  IInv'
<1> USE DEF IInv, SourceClosed
<1>1. CASE ClientSends
  <2>1. /\ client = "open" /\ from' = [from EXCEPT !["up"] = Append(@, sent')]
        /\ UNCHANGED <<cancelled, client, server, pump, held, err, received, main, outcome>>
    BY <1>1 DEF ClientSends, pumps, run
  <2> QED
    BY <2>1 DEF Shapes, HoldsNothing, Emptied, CancelledForACause, NotBegun, BothEnded, Directions
<1>2. CASE ServerWrites
  <2>1. /\ server = "up" /\ from' = [from EXCEPT !["down"] = @ \o todo]
        /\ UNCHANGED <<cancelled, client, server, pump, held, err, received, main, outcome>>
    BY <1>2 DEF ServerWrites, pumps, run
  <2> QED
    BY <2>1 DEF Shapes, HoldsNothing, Emptied, CancelledForACause, NotBegun, BothEnded, Directions
<1>3. CASE ClientReads \/ ServerReads
  <2>1. UNCHANGED <<cancelled, client, server, from, pump, held, err, received, main, outcome>>
    BY <1>3 DEF ClientReads, ServerReads, pumps, run
  <2> QED
    BY <2>1 DEF Shapes, HoldsNothing, Emptied, CancelledForACause, NotBegun, BothEnded
<1>4. CASE ClientEnds
  BY <1>4 DEF ClientEnds, pipes, pumps, run, Shapes, HoldsNothing, Emptied,
              CancelledForACause, NotBegun, BothEnded
<1>5. CASE Signal
  BY <1>5 DEF Signal, pipes, pumps, run, ends, Shapes, HoldsNothing, Emptied,
              CancelledForACause, NotBegun, BothEnded
<1>6. CASE KillServer \/ ServerEnds \/ ServerCrashes
  <2>1. /\ server = "up" /\ server' = "exited"
        /\ UNCHANGED <<cancelled, client, from, pump, held, err, received, main, outcome>>
    BY <1>6 DEF KillServer, ServerEnds, ServerCrashes, pipes, pumps, run
  <2> QED
    BY <2>1 DEF Shapes, HoldsNothing, Emptied, CancelledForACause, NotBegun, BothEnded
<1>7. CASE OthersWrite
  BY <1>7 DEF OthersWrite, pipes, pumps, run, ends, Shapes, HoldsNothing, Emptied,
              CancelledForACause, NotBegun, BothEnded
<1> QED
  BY <1>1, <1>2, <1>3, <1>4, <1>5, <1>6, <1>7 DEF ServerStep

LEMMA StepKeeps == IInv /\ [Next]_vars => IInv'
<1> SUFFICES ASSUME IInv, [Next]_vars PROVE IInv'
  OBVIOUS
<1>1. CASE UNCHANGED vars
  BY <1>1 DEF vars, pipes, pumps, run, ends, IInv, Shapes, HoldsNothing, Emptied,
              SourceClosed, CancelledForACause, NotBegun, BothEnded
<1>2. CASE Next
  BY <1>2, PumpKeeps, RunKeeps, EnvironmentKeeps DEF Next, Directions
<1> QED
  BY <1>1, <1>2

(* A run that ended well without a signal left nothing in the pipes it     *)
(* reads, and holds no line.                                               *)
THEOREM HandsOver == Spec => []CleanExitHandsOver
<1>1. IInv => CleanExitHandsOver
  BY DEF IInv, BothEnded, Emptied, CleanExitHandsOver, Pending
<1> QED
  BY <1>1, InitIInv, StepKeeps, PTL DEF Spec
-----------------------------------------------------------------------------
(* Facts about sequences.                                                  *)
LEMMA HeadAndTail ==
  ASSUME NEW S, NEW s \in Seq(S), s # <<>>
  PROVE  /\ <<Head(s)>> \in Seq(S) /\ Tail(s) \in Seq(S)
         /\ <<Head(s)>> \o Tail(s) = s
<1>1. Head(s) \in S /\ Tail(s) \in Seq(S) /\ Len(Tail(s)) = Len(s) - 1
      /\ \A i \in 1..Len(Tail(s)) : Tail(s)[i] = s[i + 1]
  BY HeadTailProperties
<1>2. <<Head(s)>> \in Seq(S) /\ Len(<<Head(s)>>) = 1 /\ <<Head(s)>>[1] = s[1]
  BY <1>1
<1>3. Len(s) \in Nat \ {0}
  BY EmptySeq
<1> DEFINE t == <<Head(s)>> \o Tail(s)
<1>4. /\ t \in Seq(S) /\ Len(t) = 1 + Len(Tail(s))
      /\ \A i \in 1..(1 + Len(Tail(s))) :
           t[i] = IF i <= 1 THEN <<Head(s)>>[i] ELSE Tail(s)[i - 1]
  BY <1>1, <1>2, ConcatProperties
<1>5. Len(t) = Len(s)
  BY <1>1, <1>3, <1>4
<1>6. ASSUME NEW i \in 1..Len(t) PROVE t[i] = s[i]
  <2>1. CASE i = 1
    BY <2>1, <1>2, <1>4, <1>3, <1>5
  <2>2. CASE i # 1
    <3>1. i - 1 \in 1..Len(Tail(s)) /\ ~(i <= 1)
      BY <2>2, <1>1, <1>3, <1>5
    <3>2. t[i] = Tail(s)[i - 1]
      BY <3>1, <1>4, <1>1, <1>3
    <3>3. Tail(s)[i - 1] = s[(i - 1) + 1]
      BY <3>1, <1>1
    <3> QED
      BY <3>1, <3>2, <3>3
  <2> QED
    BY <2>1, <2>2
<1>7. t = s
  BY <1>4, <1>5, <1>6, SeqEqual
<1> QED
  BY <1>1, <1>2, <1>7

LEMMA AppendedLast ==
  ASSUME NEW S, NEW s \in Seq(S), NEW e \in S
  PROVE  Append(s, e) = s \o <<e>> /\ Append(s, e) \in Seq(S) /\ <<e>> \in Seq(S)
  OBVIOUS

-----------------------------------------------------------------------------
(* Types.                                                                  *)
LEMMA TypingInit == Init => TypeOK
<1> SUFFICES ASSUME Init PROVE TypeOK
  OBVIOUS
<1>1. <<>> \in Seq(Lines)
  BY EmptySeq
<1>2. cancelled \in BOOLEAN /\ stdinClosed \in BOOLEAN /\ readersClosed \in BOOLEAN
  BY DEF Init
<1>3. sent \in 0..MaxLines /\ lost \in Nat /\ badWrites \in 0..MaxBadWrites
  BY ProxyAssumption DEF Init
<1> QED
  BY <1>1, <1>2, <1>3 DEF Init, TypeOK

(* The file of the log, whichever way a write to it goes.                  *)
LEMMA FileTyping ==
  ASSUME TypeOK, WriteRecord \/ UNCHANGED <<logged, logFile>> \/ OthersWrite
  PROVE  torn' \in BOOLEAN /\ lost' \in Nat /\ badWrites' \in 0..MaxBadWrites
<1>1. torn \in BOOLEAN /\ lost \in Nat /\ badWrites \in 0..MaxBadWrites /\ MaxBadWrites \in Nat
  BY ProxyAssumption DEF TypeOK
<1>2. torn' = torn \/ torn' = TRUE \/ torn' = FALSE
  BY DEF WriteRecord, OthersWrite, logFile
<1>3. lost' = lost \/ lost' = lost + 1
  BY DEF WriteRecord, OthersWrite, logFile
<1>4. badWrites' = badWrites \/ (badWrites < MaxBadWrites /\ badWrites' = badWrites + 1)
  BY DEF WriteRecord, OthersWrite, logFile
<1>5. torn' \in BOOLEAN
  BY <1>1, <1>2
<1>6. lost' \in Nat
  BY <1>1, <1>3
<1>7. badWrites' \in 0..MaxBadWrites
  BY <1>1, <1>4
<1> QED
  BY <1>5, <1>6, <1>7

LEMMA TypingPump ==
  ASSUME TypeOK, NEW d \in Directions, PumpStep(d) \/ WriteFails PROVE TypeOK'
<1> USE DEF TypeOK, pipes, pumps, run, logs, logFile, ends
<1>0. <<>> \in Seq(Lines)
  BY EmptySeq
<1>1. CASE Scan(d)
  <2>1. <<Head(from[d])>> \in Seq(Lines) /\ Tail(from[d]) \in Seq(Lines)
    BY <1>1, HeadAndTail DEF Scan
  <2> QED
    BY <1>1, <2>1 DEF Scan
<1>2. CASE ScanEnds(d)
  <2>1. PICK e \in {"eof", "too_long", "closed"} : PumpEnds(d, e)
    BY <1>2 DEF ScanEnds
  <2>2. pump' = [pump EXCEPT ![d] = "end"] /\ err' = [err EXCEPT ![d] = e]
    BY <2>1 DEF PumpEnds
  <2>3. UNCHANGED <<long, cancelled, pipes, held, run, logs, ends>>
    BY <1>2 DEF ScanEnds
  <2> QED
    BY <2>2, <2>3
<1>3. CASE Write(d)
  <2>1. to[d] \o held[d] \in Seq(Lines)
    BY ConcatProperties
  <2> QED
    BY <1>3, <2>1 DEF Write
<1>4. CASE WriteFails
  BY <1>4 DEF WriteFails, PumpEnds, Directions
<1>5. CASE Log(d)
  <2>1. logged[d] \o held[d] \in Seq(Lines)
    BY ConcatProperties
  <2>2. torn' \in BOOLEAN /\ lost' \in Nat /\ badWrites' \in 0..MaxBadWrites
    BY <1>5, FileTyping DEF Log
  <2>3. logged' \in [Directions -> Seq(Lines)]
    BY <1>5, <2>1 DEF Log
  <2>4. held' \in [Directions -> Seq(Lines)]
    BY <1>0, <1>5 DEF Log
  <2>5. pump' = [pump EXCEPT ![d] = "scan"]
        /\ UNCHANGED <<long, cancelled, pipes, err, run, log, ends>>
    BY <1>5 DEF Log
  <2> QED
    BY <2>2, <2>3, <2>4, <2>5
<1>6. CASE EndPump(d)
  <2>1. stdinClosed' = (stdinClosed \/ d = "up")
    BY <1>6 DEF EndPump
  <2>2. stdinClosed' \in BOOLEAN
    BY <2>1, Zenon
  <2> QED
    BY <1>6, <2>2 DEF EndPump
<1>7. CASE ScanCancelled(d)
  <2>1. <<Head(from[d])>> \in Seq(Lines) /\ Tail(from[d]) \in Seq(Lines)
    BY <1>7, HeadAndTail DEF ScanCancelled
  <2> QED
    BY <1>7, <2>1 DEF ScanCancelled, PumpEnds
<1> QED
  BY <1>1, <1>2, <1>3, <1>4, <1>5, <1>6, <1>7 DEF PumpStep

LEMMA TypingRun == ASSUME TypeOK, MainStep \/ CloseReaders \/ Sigpipe PROVE TypeOK'
<1> USE DEF TypeOK, pipes, pumps, run, logs, logFile, ends
<1>1. ASSUME NEW d \in Directions, Receive(d) PROVE TypeOK'
  <2>1. /\ received' = received \cup {d}
        /\ main' = main \/ main' = "wait"
        /\ outcome' = outcome \/ outcome' = "ok" \/ outcome' = "error"
        /\ log' = log \/ log' = "closed"
    BY <1>1 DEF Receive, Returns
  <2>2. UNCHANGED <<long, cancelled, pipes, pumps, logged, logFile, ends>>
    BY <1>1 DEF Receive
  <2> QED
    BY <2>1, <2>2
<1>2. CASE OpenLog
  BY <1>2 DEF OpenLog
<1>3. CASE OpenLogFails
  BY <1>3 DEF OpenLogFails
<1>4. CASE RunCancelled
  BY <1>4 DEF RunCancelled, Returns
<1>5. CASE Wait
  BY <1>5 DEF Wait
<1>6. CASE CloseReaders
  BY <1>6 DEF CloseReaders
<1>7. CASE Sigpipe
  BY <1>7 DEF Sigpipe
<1> QED
  BY <1>1, <1>2, <1>3, <1>4, <1>5, <1>6, <1>7 DEF MainStep

LEMMA TypingEnvironment ==
  ASSUME TypeOK,
         \/ ClientSends \/ ClientReads \/ ClientEnds \/ Signal \/ KillServer
         \/ ServerStep \/ ServerCrashes \/ OthersWrite
  PROVE  TypeOK'
<1> USE DEF TypeOK, pipes, pumps, run, logs, logFile, ends
<1>0. "up" \in Directions /\ "down" \in Directions /\ <<>> \in Seq(Lines)
  BY EmptySeq DEF Directions
<1>1. CASE ClientSends
  <2>1. sent' \in Lines /\ sent' \in 0..MaxLines
    BY <1>1, ProxyAssumption DEF ClientSends, Lines
  <2>2. Append(from["up"], sent') \in Seq(Lines)
    BY <1>0, <2>1, AppendedLast
  <2> QED
    BY <1>0, <1>1, <2>1, <2>2 DEF ClientSends
<1>2. CASE ClientReads
  <2>1. Head(to["down"]) \in Lines /\ Tail(to["down"]) \in Seq(Lines)
    BY <1>0, <1>2, HeadTailProperties DEF ClientReads
  <2>2. Append(answered, Head(to["down"])) \in Seq(Lines)
    BY <2>1, AppendedLast
  <2> QED
    BY <1>0, <1>2, <2>1, <2>2 DEF ClientReads
<1>3. CASE ServerReads
  <2>1. Head(to["up"]) \in Lines /\ Tail(to["up"]) \in Seq(Lines)
    BY <1>0, <1>3, HeadTailProperties DEF ServerReads
  <2>2. Append(served, Head(to["up"])) \in Seq(Lines) /\ <<Head(to["up"])>> \in Seq(Lines)
    BY <2>1, AppendedLast
  <2> QED
    BY <1>0, <1>3, <2>1, <2>2 DEF ServerReads
<1>4. CASE ServerWrites
  <2>1. from["down"] \o todo \in Seq(Lines)
    BY <1>0, ConcatProperties
  <2> QED
    BY <1>0, <1>4, <2>1 DEF ServerWrites
<1>5. CASE ClientEnds
  BY <1>5 DEF ClientEnds
<1>6. CASE Signal
  BY <1>6 DEF Signal
<1>7. CASE KillServer \/ ServerEnds \/ ServerCrashes
  <2>1. server' = "exited"
        /\ UNCHANGED <<long, cancelled, pipes, pumps, run, logs, client, sent, served, todo,
                       answered>>
    BY <1>7 DEF KillServer, ServerEnds, ServerCrashes
  <2> QED
    BY <2>1
<1>8. CASE OthersWrite
  <2>1. torn' \in BOOLEAN /\ lost' \in Nat /\ badWrites' \in 0..MaxBadWrites
    BY <1>8, FileTyping
  <2> QED
    BY <1>8, <2>1 DEF OthersWrite
<1> QED
  BY <1>1, <1>2, <1>3, <1>4, <1>5, <1>6, <1>7, <1>8 DEF ServerStep

LEMMA TypingStep == TypeOK /\ [Next]_vars => TypeOK'
<1> SUFFICES ASSUME TypeOK, [Next]_vars PROVE TypeOK'
  OBVIOUS
<1>1. CASE UNCHANGED vars
  BY <1>1 DEF vars, pipes, pumps, run, logs, logFile, ends, TypeOK
<1>2. CASE Next
  BY <1>2, TypingPump, TypingRun, TypingEnvironment DEF Next, Directions
<1> QED
  BY <1>1, <1>2

(* TypeOK, for any number of lines and any room in the pipes.              *)
THEOREM ProxyTyping == Spec => []TypeOK
  BY TypingInit, TypingStep, PTL DEF Spec

-----------------------------------------------------------------------------
(* Order: a line moves from the head of one sequence to the end of the one *)
(* before it, so that what they make up together stays.                    *)
LEMMA MoveHead ==
  ASSUME NEW S, NEW s \in Seq(S), NEW t \in Seq(S), t # <<>>
  PROVE  /\ (s \o <<Head(t)>>) \o Tail(t) = s \o t
         /\ Append(s, Head(t)) \o Tail(t) = s \o t
<1>1. /\ <<Head(t)>> \in Seq(S) /\ Tail(t) \in Seq(S) /\ Head(t) \in S
      /\ <<Head(t)>> \o Tail(t) = t
  BY HeadAndTail, HeadTailProperties
<1>2. (s \o <<Head(t)>>) \o Tail(t) = s \o t
  BY <1>1, ConcatAssociative
<1>3. Append(s, Head(t)) = s \o <<Head(t)>>
  BY <1>1, AppendedLast
<1> QED
  BY <1>2, <1>3

(* The same when more follows, and when a line is added at the end.        *)
LEMMA MoveHeadBefore ==
  ASSUME NEW S, NEW f \in Seq(S), NEW t \in Seq(S), NEW u \in Seq(S), t # <<>>
  PROVE  (f \o <<Head(t)>>) \o (Tail(t) \o u) = (f \o <<>>) \o (t \o u)
<1>1. /\ <<Head(t)>> \in Seq(S) /\ Tail(t) \in Seq(S)
      /\ <<Head(t)>> \o Tail(t) = t
  BY HeadAndTail
<1>2. Tail(t) \o u \in Seq(S)
  BY <1>1, ConcatProperties
<1>3. (f \o <<Head(t)>>) \o (Tail(t) \o u) = f \o (<<Head(t)>> \o (Tail(t) \o u))
  BY <1>1, <1>2, ConcatAssociative
<1>4. <<Head(t)>> \o (Tail(t) \o u) = (<<Head(t)>> \o Tail(t)) \o u
  BY <1>1, ConcatAssociative
<1>5. f \o <<>> = f
  BY ConcatEmptySeq
<1> QED
  BY <1>1, <1>3, <1>4, <1>5

LEMMA AddAtEnd ==
  ASSUME NEW S, NEW f \in Seq(S), NEW t \in Seq(S), NEW e \in S
  PROVE  /\ f \o (Append(t, e) \o <<>>) = Append(f \o (t \o <<>>), e)
         /\ f \o (t \o <<e>>) = Append(f \o (t \o <<>>), e)
<1>1. <<e>> \in Seq(S) /\ Append(t, e) = t \o <<e>> /\ Append(t, e) \in Seq(S)
  BY AppendedLast
<1>2. Append(t, e) \o <<>> = Append(t, e) /\ t \o <<>> = t
  BY <1>1, ConcatEmptySeq
<1>3. f \o t \in Seq(S)
  BY ConcatProperties
<1>4. Append(f \o t, e) = (f \o t) \o <<e>>
  BY <1>3, AppendedLast
<1>5. (f \o t) \o <<e>> = f \o (t \o <<e>>)
  BY <1>1, ConcatAssociative
<1> QED
  BY <1>1, <1>2, <1>4, <1>5

(* What follows a pump, what is queued before it, and where it comes from. *)
Passed(d) == IF d = "up" THEN served ELSE answered
Ahead(d) == (Passed(d) \o to[d]) \o Pending(d)
Rest(d) == IF d = "up" THEN <<>> ELSE todo
Source(d) == IF d = "up" THEN Sent ELSE served
InOrder(d) == Ahead(d) \o (from[d] \o Rest(d)) = Source(d)

LEMMA Sequences ==
  ASSUME TypeOK, NEW d \in Directions
  PROVE  /\ Passed(d) \in Seq(Lines) /\ to[d] \in Seq(Lines) /\ from[d] \in Seq(Lines)
         /\ held[d] \in Seq(Lines) /\ Pending(d) \in Seq(Lines) /\ Rest(d) \in Seq(Lines)
         /\ Passed(d) \o to[d] \in Seq(Lines) /\ Ahead(d) \in Seq(Lines)
<1>1. <<>> \in Seq(Lines)
  BY EmptySeq
<1>2. /\ Passed(d) \in Seq(Lines) /\ to[d] \in Seq(Lines) /\ from[d] \in Seq(Lines)
      /\ held[d] \in Seq(Lines) /\ Pending(d) \in Seq(Lines) /\ Rest(d) \in Seq(Lines)
  BY <1>1 DEF TypeOK, Passed, Pending, Rest
<1>3. Passed(d) \o to[d] \in Seq(Lines)
  BY <1>2, ConcatProperties
<1>4. Ahead(d) \in Seq(Lines)
  BY <1>2, <1>3, ConcatProperties DEF Ahead
<1> QED
  BY <1>2, <1>3, <1>4

LEMMA OrderIsInOrder ==
  ASSUME TypeOK PROVE ForwardedInOrder <=> \A d \in Directions : InOrder(d)
<1>1. "up" \in Directions /\ "down" \in Directions
  BY DEF Directions
<1>2. from["up"] \o <<>> = from["up"]
  BY <1>1, Sequences, ConcatEmptySeq
<1>3. ASSUME NEW x \in Seq(Lines), NEW y \in Seq(Lines), NEW z \in Seq(Lines)
      PROVE  (x \o y) \o z = x \o (y \o z)
  BY ConcatAssociative
<1>4. /\ Ahead("down") \in Seq(Lines) /\ from["down"] \in Seq(Lines)
      /\ todo \in Seq(Lines)
  BY <1>1, Sequences DEF TypeOK
<1>5. (Ahead("down") \o from["down"]) \o todo = Ahead("down") \o (from["down"] \o todo)
  BY <1>3, <1>4
<1> QED
  BY <1>2, <1>5
  DEF ForwardedInOrder, Forwarded, InOrder, Ahead, Passed, Rest, Source, Directions

-----------------------------------------------------------------------------
LEMMA PumpOrders ==
  ASSUME TypeOK, HoldsNothing, NEW d \in Directions, InOrder(d),
         PumpStep(d) \/ (d = "up" /\ WriteFails)
  PROVE  InOrder(d)'
<1>0. /\ Passed(d) \in Seq(Lines) /\ to[d] \in Seq(Lines) /\ from[d] \in Seq(Lines)
      /\ held[d] \in Seq(Lines) /\ Rest(d) \in Seq(Lines) /\ Passed(d) \o to[d] \in Seq(Lines)
  BY Sequences
<1>1. CASE Scan(d) \/ ScanCancelled(d)
  <2>1. /\ from[d] # <<>> /\ held[d] = <<>> /\ pump[d] = "scan"
        /\ held'[d] = <<Head(from[d])>> /\ from'[d] = Tail(from[d])
        /\ pump'[d] \in {"write", "end"}
        /\ UNCHANGED <<to, served, answered, todo, sent>>
    BY <1>1 DEF Scan, ScanCancelled, PumpEnds, HoldsNothing, ends, TypeOK
  <2>2. /\ Pending(d) = <<>> /\ Pending(d)' = <<Head(from[d])>>
        /\ Passed(d)' = Passed(d) /\ Rest(d)' = Rest(d) /\ Source(d)' = Source(d)
    BY <2>1 DEF Pending, Passed, Rest, Source, Sent
  <2>3. ((Passed(d) \o to[d]) \o <<Head(from[d])>>) \o (Tail(from[d]) \o Rest(d))
          = ((Passed(d) \o to[d]) \o <<>>) \o (from[d] \o Rest(d))
    <3> DEFINE f == Passed(d) \o to[d]
               t == from[d]
               u == Rest(d)
    <3>1. f \in Seq(Lines) /\ t \in Seq(Lines) /\ u \in Seq(Lines) /\ t # <<>>
      BY <1>0, <2>1
    <3>2. (f \o <<Head(t)>>) \o (Tail(t) \o u) = (f \o <<>>) \o (t \o u)
      <4> HIDE DEF f, t, u
      <4> QED
        BY <3>1, MoveHeadBefore
    <3> QED
      BY <3>2
  <2>4. InOrder(d)' <=> ((Passed(d) \o to[d]) \o <<Head(from[d])>>) \o (Tail(from[d]) \o Rest(d))
                         = Source(d)
    BY <2>1, <2>2 DEF InOrder, Ahead
  <2>5. ((Passed(d) \o to[d]) \o <<>>) \o (from[d] \o Rest(d)) = Source(d)
    BY <2>2 DEF InOrder, Ahead
  <2> QED
    BY <2>3, <2>4, <2>5
<1>2. CASE ScanEnds(d)
  <2>1. PICK e \in {"eof", "too_long", "closed"} : PumpEnds(d, e)
    BY <1>2 DEF ScanEnds
  <2>2. /\ pump[d] = "scan" /\ pump'[d] = "end"
        /\ UNCHANGED <<from, held, to, served, answered, todo, sent>>
    BY <1>2, <2>1 DEF ScanEnds, PumpEnds, pipes, ends, TypeOK
  <2> QED
    BY <2>2 DEF InOrder, Ahead, Passed, Pending, Rest, Source, Sent
<1>3. CASE Write(d)
  <2>1. /\ pump[d] = "write" /\ pump'[d] = "log" /\ to'[d] = to[d] \o held[d]
        /\ UNCHANGED <<from, held, served, answered, todo, sent>>
    BY <1>3 DEF Write, ends, TypeOK
  <2>2. /\ Pending(d) = held[d] /\ Pending(d)' = <<>>
        /\ Passed(d)' = Passed(d) /\ Rest(d)' = Rest(d) /\ Source(d)' = Source(d)
    BY <2>1 DEF Pending, Passed, Rest, Source, Sent
  <2>3. (Passed(d) \o to[d]) \o held[d] = Passed(d) \o (to[d] \o held[d])
    <3> DEFINE p == Passed(d)
               t == to[d]
               h == held[d]
    <3>1. p \in Seq(Lines) /\ t \in Seq(Lines) /\ h \in Seq(Lines)
      BY <1>0
    <3>2. (p \o t) \o h = p \o (t \o h)
      <4> HIDE DEF p, t, h
      <4> QED
        BY <3>1, ConcatAssociative
    <3> QED
      BY <3>2
  <2>4. Ahead(d) \in Seq(Lines) /\ Ahead(d) = Passed(d) \o (to[d] \o held[d])
    BY <2>2, <2>3, Sequences DEF Ahead
  <2>5. Ahead(d) \o <<>> = Ahead(d)
    BY <2>4, ConcatEmptySeq
  <2>6. Ahead(d)' = Ahead(d)
    BY <2>1, <2>2, <2>4, <2>5 DEF Ahead
  <2> QED
    BY <2>1, <2>2, <2>6 DEF InOrder
<1>4. CASE d = "up" /\ WriteFails
  <2>1. /\ pump["up"] = "write" /\ pump'["up"] = "end"
        /\ UNCHANGED <<from, held, to, served, answered, todo, sent>>
    BY <1>4 DEF WriteFails, PumpEnds, pipes, ends, TypeOK
  <2> QED
    BY <1>4, <2>1 DEF InOrder, Ahead, Passed, Pending, Rest, Source, Sent
<1>5. CASE Log(d)
  <2>1. /\ pump[d] = "log" /\ pump'[d] = "scan" /\ held'[d] = <<>>
        /\ UNCHANGED <<from, to, served, answered, todo, sent>>
    BY <1>5 DEF Log, pipes, ends, TypeOK
  <2> QED
    BY <2>1 DEF InOrder, Ahead, Passed, Pending, Rest, Source, Sent
<1>6. CASE EndPump(d)
  <2>1. /\ pump[d] = "end" /\ pump'[d] = "done"
        /\ UNCHANGED <<from, held, to, served, answered, todo, sent>>
    BY <1>6 DEF EndPump, ends, TypeOK
  <2> QED
    BY <2>1 DEF InOrder, Ahead, Passed, Pending, Rest, Source, Sent
<1> QED
  BY <1>1, <1>2, <1>3, <1>4, <1>5, <1>6 DEF PumpStep

(* A pump leaves the other direction as it is.                             *)
LEMMA PumpLeavesOther ==
  ASSUME TypeOK, NEW d \in Directions, NEW e \in Directions, e # d, InOrder(e),
         PumpStep(d) \/ (d = "up" /\ WriteFails)
  PROVE  InOrder(e)'
<1>1. /\ from'[e] = from[e] /\ to'[e] = to[e] /\ held'[e] = held[e] /\ pump'[e] = pump[e]
      /\ UNCHANGED <<served, answered, todo, sent>>
  BY DEF PumpStep, Scan, ScanEnds, ScanCancelled, PumpEnds, Write, WriteFails, Log, EndPump,
         pipes, ends, TypeOK
<1> QED
  BY <1>1 DEF InOrder, Ahead, Passed, Pending, Rest, Source, Sent

LEMMA OthersOrder ==
  ASSUME TypeOK, HoldsNothing, NotBegun, NEW d \in Directions, InOrder(d),
         \/ MainStep \/ CloseReaders \/ Sigpipe
         \/ ClientEnds \/ Signal \/ KillServer \/ ServerEnds \/ ServerCrashes \/ OthersWrite
  PROVE  InOrder(d)'
<1>1. UNCHANGED <<from, to, held, served, answered, todo, sent>>
  BY DEF MainStep, Receive, OpenLog, OpenLogFails, RunCancelled, Wait, CloseReaders, Sigpipe,
         ClientEnds, Signal, KillServer, ServerEnds, ServerCrashes, OthersWrite, pipes, pumps,
         ends
<1>2. Pending(d)' = Pending(d)
  <2>1. CASE OpenLog
    <3>1. pump[d] = "off" /\ pump'[d] = "scan"
      BY <2>1 DEF OpenLog, NotBegun
    <3> QED
      BY <1>1, <3>1 DEF Pending
  <2>2. CASE ~OpenLog
    <3>1. UNCHANGED pump
      BY <2>2 DEF MainStep, Receive, OpenLogFails, RunCancelled, Wait, CloseReaders, Sigpipe,
             ClientEnds, Signal, KillServer, ServerEnds, ServerCrashes, OthersWrite, pumps
    <3> QED
      BY <1>1, <3>1 DEF Pending
  <2> QED
    BY <2>1, <2>2
<1> QED
  BY <1>1, <1>2 DEF InOrder, Ahead, Passed, Rest, Source, Sent

(* The client adds a line where its requests begin.                        *)
LEMMA SendOrders ==
  ASSUME TypeOK, ClientSends, \A d \in Directions : InOrder(d)
  PROVE  \A d \in Directions : InOrder(d)'
<1>0. "up" \in Directions /\ "down" \in Directions
  BY DEF Directions
<1>1. /\ sent' = sent + 1 /\ sent \in 0..MaxLines /\ sent' \in Lines
      /\ from'["up"] = Append(from["up"], sent') /\ from'["down"] = from["down"]
      /\ UNCHANGED <<to, pump, held, served, answered, todo>>
  <2>1. sent' = sent + 1 /\ sent < MaxLines /\ sent \in 0..MaxLines
    BY DEF ClientSends, TypeOK
  <2>2. sent' \in Lines
    BY <2>1, ProxyAssumption DEF Lines
  <2>3. from'["up"] = Append(from["up"], sent') /\ from'["down"] = from["down"]
    BY DEF ClientSends, TypeOK, Directions
  <2> QED
    BY <2>1, <2>2, <2>3 DEF ClientSends, pumps
<1>2. InOrder("down")'
  BY <1>0, <1>1 DEF InOrder, Ahead, Passed, Pending, Rest, Source
<1>3. Sent' = Append(Sent, sent')
  <2>1. Sent \in Seq(Nat) /\ Len(Sent) = sent
    BY <1>1, ProxyAssumption DEF Sent
  <2>2. Sent' \in Seq(Nat) /\ Len(Sent') = sent + 1
    BY <1>1, ProxyAssumption DEF Sent
  <2>3. Append(Sent, sent') \in Seq(Nat) /\ Len(Append(Sent, sent')) = sent + 1
    BY <1>1, <2>1, ProxyAssumption
  <2>4. ASSUME NEW i \in 1..(sent + 1) PROVE Sent'[i] = Append(Sent, sent')[i]
    BY <1>1, <2>1, ProxyAssumption DEF Sent
  <2> QED
    BY <2>2, <2>3, <2>4, SeqEqual
<1>4. InOrder("up")'
  <2> DEFINE a == Ahead("up")
             t == from["up"]
             e == sent'
  <2>1. a \in Seq(Lines) /\ t \in Seq(Lines) /\ e \in Lines
    BY <1>0, <1>1, Sequences
  <2>2. a \o (Append(t, e) \o <<>>) = Append(a \o (t \o <<>>), e)
    <3> HIDE DEF a, t, e
    <3> QED
      BY <2>1, AddAtEnd
  <2>3. a \o (t \o <<>>) = Sent
    BY <1>0 DEF InOrder, Rest, Source
  <2>4. Ahead("up")' = a /\ Rest("up")' = <<>> /\ Source("up")' = Sent'
    BY <1>1 DEF Ahead, Passed, Pending, Rest, Source
  <2>5. InOrder("up")' <=> a \o (Append(t, e) \o <<>>) = Append(Sent, e)
    BY <1>1, <1>3, <2>4 DEF InOrder
  <2> QED
    BY <2>2, <2>3, <2>5
<1> QED
  BY <1>2, <1>4 DEF Directions

(* What is read from a pipe has passed; the server's reading is also the   *)
(* beginning of an answer.                                                 *)
LEMMA ReadOrders ==
  ASSUME TypeOK, ClientReads \/ ServerReads, \A d \in Directions : InOrder(d)
  PROVE  \A d \in Directions : InOrder(d)'
<1>0. "up" \in Directions /\ "down" \in Directions
  BY DEF Directions
<1>1. ASSUME NEW p \in Seq(Lines), NEW t \in Seq(Lines), t # <<>>
      PROVE  Append(p, Head(t)) \o Tail(t) = p \o t
  BY <1>1, MoveHead
<1>2. CASE ClientReads
  <2>1. /\ to["down"] # <<>> /\ answered' = Append(answered, Head(to["down"]))
        /\ to'["down"] = Tail(to["down"]) /\ to'["up"] = to["up"]
        /\ UNCHANGED <<from, pump, held, served, todo, sent>>
    BY <1>0, <1>2 DEF ClientReads, TypeOK, pumps, Directions
  <2>2. answered \in Seq(Lines) /\ to["down"] \in Seq(Lines)
    BY <1>0 DEF TypeOK
  <2>3. Append(answered, Head(to["down"])) \o Tail(to["down"]) = answered \o to["down"]
    BY <1>1, <2>1, <2>2
  <2>4. Ahead("down")' = Ahead("down")
    BY <2>1, <2>3 DEF Ahead, Passed, Pending
  <2>5. InOrder("down")'
    BY <1>0, <2>1, <2>4 DEF InOrder, Rest, Source
  <2>6. InOrder("up")'
    BY <1>0, <2>1 DEF InOrder, Ahead, Passed, Pending, Rest, Source, Sent
  <2> QED
    BY <2>5, <2>6 DEF Directions
<1>3. CASE ServerReads
  <2>1. /\ to["up"] # <<>> /\ served' = Append(served, Head(to["up"]))
        /\ to'["up"] = Tail(to["up"]) /\ to'["down"] = to["down"]
        /\ todo = <<>> /\ todo' = <<Head(to["up"])>>
        /\ UNCHANGED <<from, pump, held, answered, sent>>
    BY <1>0, <1>3 DEF ServerReads, TypeOK, pumps, Directions
  <2>2. served \in Seq(Lines) /\ to["up"] \in Seq(Lines)
    BY <1>0 DEF TypeOK
  <2>3. Append(served, Head(to["up"])) \o Tail(to["up"]) = served \o to["up"]
    BY <1>1, <2>1, <2>2
  <2>4. Ahead("up")' = Ahead("up")
    BY <2>1, <2>3 DEF Ahead, Passed, Pending
  <2>5. InOrder("up")'
    BY <1>0, <2>1, <2>4 DEF InOrder, Rest, Source, Sent
  <2> DEFINE a == Ahead("down")
             t == from["down"]
             e == Head(to["up"])
  <2>6. a \in Seq(Lines) /\ t \in Seq(Lines) /\ e \in Lines
    BY <1>0, <2>1, <2>2, Sequences, HeadTailProperties
  <2>7. a \o (t \o <<e>>) = Append(a \o (t \o <<>>), e)
    <3> HIDE DEF a, t, e
    <3> QED
      BY <2>6, AddAtEnd
  <2>8. a \o (t \o <<>>) = served
    BY <1>0, <2>1 DEF InOrder, Rest, Source
  <2>9. Ahead("down")' = a /\ Rest("down")' = <<e>> /\ Source("down")' = Append(served, e)
    BY <2>1 DEF Ahead, Passed, Pending, Rest, Source
  <2>10. InOrder("down")' <=> a \o (t \o <<e>>) = Append(served, e)
    BY <2>1, <2>9 DEF InOrder
  <2> QED
    BY <2>5, <2>7, <2>8, <2>10 DEF Directions
<1> QED
  BY <1>2, <1>3

LEMMA AnswerOrders ==
  ASSUME TypeOK, ServerWrites, \A d \in Directions : InOrder(d)
  PROVE  \A d \in Directions : InOrder(d)'
<1>0. "up" \in Directions /\ "down" \in Directions
  BY DEF Directions
<1>1. /\ from'["down"] = from["down"] \o todo /\ from'["up"] = from["up"] /\ todo' = <<>>
      /\ UNCHANGED <<to, pump, held, served, answered, sent>>
  BY <1>0 DEF ServerWrites, TypeOK, pumps, Directions
<1>2. InOrder("up")'
  BY <1>0, <1>1 DEF InOrder, Ahead, Passed, Pending, Rest, Source, Sent
<1>3. from["down"] \o todo \in Seq(Lines)
  BY <1>0, ConcatProperties DEF TypeOK
<1>4. (from["down"] \o todo) \o <<>> = from["down"] \o todo
  BY <1>3, ConcatEmptySeq
<1>5. InOrder("down")'
  BY <1>0, <1>1, <1>4 DEF InOrder, Ahead, Passed, Pending, Rest, Source
<1> QED
  BY <1>2, <1>5 DEF Directions

OrderInv == TypeOK /\ IInv /\ \A d \in Directions : InOrder(d)

LEMMA OrderStep == OrderInv /\ [Next]_vars => OrderInv'
<1> SUFFICES ASSUME OrderInv, [Next]_vars PROVE OrderInv'
  OBVIOUS
<1>1. TypeOK /\ HoldsNothing /\ NotBegun /\ \A d \in Directions : InOrder(d)
  BY DEF OrderInv, IInv
<1>2. TypeOK' /\ IInv'
  BY TypingStep, StepKeeps DEF OrderInv
<1>3. \A d \in Directions : InOrder(d)'
  <2>1. CASE UNCHANGED vars
    BY <1>1, <2>1 DEF vars, pipes, pumps, run, ends, InOrder, Ahead, Passed, Pending, Rest,
                      Source, Sent
  <2>2. ASSUME NEW d \in Directions, PumpStep(d) \/ (d = "up" /\ WriteFails)
        PROVE  \A e \in Directions : InOrder(e)'
    BY <1>1, <2>2, PumpOrders, PumpLeavesOther
  <2>3. CASE WriteFails
    BY <2>2, <2>3 DEF Directions
  <2>4. CASE MainStep \/ CloseReaders \/ Sigpipe \/ ClientEnds \/ Signal \/ KillServer
             \/ ServerEnds \/ ServerCrashes \/ OthersWrite
    BY <1>1, <2>4, OthersOrder
  <2>5. CASE ClientSends
    BY <1>1, <2>5, SendOrders
  <2>6. CASE ClientReads \/ ServerReads
    BY <1>1, <2>6, ReadOrders
  <2>7. CASE ServerWrites
    BY <1>1, <2>7, AnswerOrders
  <2> QED
    BY <2>1, <2>2, <2>3, <2>4, <2>5, <2>6, <2>7 DEF Next, ServerStep
<1> QED
  BY <1>2, <1>3 DEF OrderInv

LEMMA OrderInit == Init => OrderInv
<1> SUFFICES ASSUME Init PROVE OrderInv
  OBVIOUS
<1>1. TypeOK /\ IInv
  BY TypingInit, InitIInv
<1>2. <<>> \o <<>> = <<>>
  BY EmptySeq, ConcatEmptySeq
<1>3. Sent = <<>>
  BY DEF Init, Sent
<1>4. \A d \in Directions : InOrder(d)
  BY <1>2, <1>3 DEF Init, InOrder, Ahead, Passed, Pending, Rest, Source
<1> QED
  BY <1>1, <1>4 DEF OrderInv

(* Lines are forwarded once and in order, however many there are and       *)
(* whatever the room in the pipes.                                         *)
THEOREM ForwardsInOrder == Spec => []ForwardedInOrder
<1>1. OrderInv => ForwardedInOrder
  BY OrderIsInOrder DEF OrderInv
<1> QED
  BY <1>1, OrderInit, OrderStep, PTL DEF Spec

-----------------------------------------------------------------------------
(* The log.  Before Run has begun nothing has been forwarded, while it     *)
(* waits the log is open, and it reports a good end after closing it.      *)
AboutToRecord(d) == IF pump[d] = "log" THEN held[d] ELSE <<>>

LogFollowsRun ==
  /\ main = "start" => log = "none" /\ \A d \in Directions :
                         Passed(d) = <<>> /\ to[d] = <<>> /\ logged[d] = <<>>
  /\ main = "run" => log = "open"
  /\ outcome = "ok" => log = "closed"

Recorded(d) ==
  /\ log = "open" => logged[d] \o AboutToRecord(d) = Passed(d) \o to[d]
  /\ outcome = "ok" => logged[d] = Passed(d) \o to[d]

LogInv == OrderInv /\ LogFollowsRun /\ \A d \in Directions : Recorded(d)

LEMMA LogInit == Init => LogInv
<1> SUFFICES ASSUME Init PROVE LogInv
  OBVIOUS
<1>1. OrderInv
  BY OrderInit
<1>2. LogFollowsRun
  BY DEF Init, LogFollowsRun, Passed
<1>3. \A d \in Directions : Recorded(d)
  BY DEF Init, Recorded
<1> QED
  BY <1>1, <1>2, <1>3 DEF LogInv

(* A pump at work: Run has begun, and has not ended well.                  *)
LEMMA AtWork ==
  ASSUME IInv, NEW d \in Directions, pump[d] \notin {"off", "done"}
  PROVE  main # "start" /\ outcome # "ok"
  BY DEF IInv, NotBegun, BothEnded

LEMMA PumpRecords ==
  ASSUME LogInv, NEW d \in Directions, PumpStep(d) \/ (d = "up" /\ WriteFails)
  PROVE  LogFollowsRun' /\ \A e \in Directions : Recorded(e)'
<1> USE DEF LogInv, OrderInv
<1>1. pump[d] \notin {"off", "done"}
  BY DEF PumpStep, Scan, ScanEnds, ScanCancelled, Write, WriteFails, Log, EndPump
<1>2. /\ main # "start" /\ outcome # "ok"
      /\ UNCHANGED <<main, outcome, log, served, answered>>
  BY <1>1, AtWork DEF PumpStep, Scan, ScanEnds, ScanCancelled, Write, WriteFails, Log, EndPump,
                      run, logs, ends
<1>3. LogFollowsRun'
  BY <1>2 DEF LogFollowsRun
<1>4. ASSUME NEW e \in Directions, e # d PROVE Recorded(e)'
  <2>1. /\ to'[e] = to[e] /\ held'[e] = held[e] /\ pump'[e] = pump[e] /\ logged'[e] = logged[e]
    BY <1>4 DEF PumpStep, Scan, ScanEnds, ScanCancelled, PumpEnds, Write, WriteFails, Log,
                EndPump, pipes, logs, TypeOK
  <2> QED
    BY <1>2, <2>1 DEF Recorded, AboutToRecord, Passed
<1>5. /\ Passed(d) \in Seq(Lines) /\ to[d] \in Seq(Lines) /\ held[d] \in Seq(Lines)
      /\ logged[d] \in Seq(Lines) /\ logged[d] \o <<>> = logged[d]
  BY Sequences, ConcatEmptySeq DEF TypeOK
<1>6. Passed(d)' = Passed(d)
  BY <1>2 DEF Passed
<1>7. ASSUME log = "open" PROVE (logged[d] \o AboutToRecord(d) = Passed(d) \o to[d])'
  <2>1. logged[d] \o AboutToRecord(d) = Passed(d) \o to[d]
    BY <1>7 DEF Recorded
  <2>2. CASE Scan(d) \/ ScanEnds(d) \/ ScanCancelled(d) \/ EndPump(d)
             \/ (d = "up" /\ WriteFails)
    <3>1. /\ pump[d] # "log" /\ pump'[d] # "log" /\ UNCHANGED <<to, logged>>
      BY <2>2 DEF Scan, ScanEnds, ScanCancelled, PumpEnds, EndPump, WriteFails, pipes, logs,
                  TypeOK
    <3> QED
      BY <2>1, <3>1, <1>6 DEF AboutToRecord
  <2>3. CASE Write(d)
    <3>1. /\ pump[d] = "write" /\ pump'[d] = "log" /\ to'[d] = to[d] \o held[d]
          /\ UNCHANGED <<held, logged>>
      BY <2>3 DEF Write, logs, TypeOK
    <3>2. logged[d] = Passed(d) \o to[d]
      BY <1>5, <2>1, <3>1 DEF AboutToRecord
    <3> DEFINE p == Passed(d)
               t == to[d]
               h == held[d]
    <3>3. (p \o t) \o h = p \o (t \o h)
      <4> HIDE DEF p, t, h
      <4>1. p \in Seq(Lines) /\ t \in Seq(Lines) /\ h \in Seq(Lines)
        BY <1>5 DEF p, t, h
      <4> QED
        BY <4>1, ConcatAssociative
    <3> QED
      BY <3>1, <3>2, <3>3, <1>6 DEF AboutToRecord
  <2>4. CASE Log(d)
    <3>1. /\ pump[d] = "log" /\ pump'[d] = "scan" /\ logged'[d] = logged[d] \o held[d]
          /\ UNCHANGED to
      BY <1>7, <2>4 DEF Log, pipes, TypeOK
    <3>2. logged[d] \o held[d] \in Seq(Lines)
      BY <1>5, ConcatProperties
    <3>3. (logged[d] \o held[d]) \o <<>> = logged[d] \o held[d]
      BY <3>2, ConcatEmptySeq
    <3> QED
      BY <2>1, <3>1, <3>3, <1>6 DEF AboutToRecord
  <2> QED
    BY <2>2, <2>3, <2>4 DEF PumpStep
<1>8. Recorded(d)'
  BY <1>2, <1>7 DEF Recorded
<1> QED
  BY <1>3, <1>4, <1>8

(* Run closes the log when it returns; a good end leaves no line about to  *)
(* be recorded.                                                            *)
LEMMA RunRecords ==
  ASSUME LogInv, MainStep \/ CloseReaders \/ Sigpipe
  PROVE  LogFollowsRun' /\ \A e \in Directions : Recorded(e)'
<1> USE DEF LogInv, OrderInv, IInv
<1>1. UNCHANGED <<to, held, logged, served, answered>>
  BY DEF MainStep, Receive, OpenLog, OpenLogFails, RunCancelled, Wait, CloseReaders, Sigpipe,
         pipes, pumps, logs, ends
<1>2. \A d \in Directions : Passed(d)' = Passed(d)
  BY <1>1 DEF Passed
<1>3. \A d \in Directions : logged[d] \o <<>> = logged[d]
  BY ConcatEmptySeq DEF TypeOK
<1>4. CASE OpenLog
  <2>1. /\ main = "start" /\ main' = "run" /\ log' = "open" /\ outcome' = outcome
        /\ pump' = [d \in Directions |-> "scan"]
    BY <1>4 DEF OpenLog
  <2>2. outcome = "none"
    BY <2>1 DEF NotBegun
  <2>3. <<>> \o <<>> = <<>>
    BY EmptySeq, ConcatEmptySeq
  <2>4. \A d \in Directions : Passed(d) = <<>> /\ to[d] = <<>> /\ logged[d] = <<>>
    BY <2>1 DEF LogFollowsRun
  <2>5. \A d \in Directions : Recorded(d)'
    BY <1>1, <1>2, <2>1, <2>2, <2>3, <2>4 DEF Recorded, AboutToRecord
  <2> QED
    BY <2>1, <2>2, <2>5 DEF LogFollowsRun
<1>5. CASE OpenLogFails
  <2>1. /\ main = "start" /\ main' = "wait" /\ log' = log /\ outcome' = "error"
    BY <1>5 DEF OpenLogFails, logs
  <2> QED
    BY <2>1 DEF LogFollowsRun, Recorded
<1>6. ASSUME NEW d \in Directions, Receive(d)
      PROVE  LogFollowsRun' /\ \A e \in Directions : Recorded(e)'
  <2>1. /\ main = "run" /\ pump[d] = "done" /\ received' = received \cup {d}
        /\ UNCHANGED pump
    BY <1>6 DEF Receive, pumps
  <2>2. log = "open" /\ outcome # "ok"
    BY <2>1 DEF LogFollowsRun, BothEnded
  <2>3. CASE received' = Directions
    <3>1. main' = "wait" /\ log' = "closed"
      BY <1>6, <2>3 DEF Receive, Returns
    <3>2. \A e \in Directions : pump[e] = "done"
      BY <2>1, <2>3 DEF BothEnded
    <3>3. \A e \in Directions : logged[e] = Passed(e) \o to[e]
      BY <1>3, <2>2, <3>2 DEF Recorded, AboutToRecord
    <3> QED
      BY <1>1, <1>2, <3>1, <3>3 DEF LogFollowsRun, Recorded
  <2>4. CASE received' # Directions
    <3>1. UNCHANGED <<main, outcome, log>>
      BY <1>6, <2>4 DEF Receive
    <3> QED
      BY <1>1, <1>2, <2>1, <3>1 DEF LogFollowsRun, Recorded, AboutToRecord
  <2> QED
    BY <2>3, <2>4
<1>7. CASE RunCancelled
  BY <1>7 DEF RunCancelled, Returns, LogFollowsRun, Recorded
<1>8. CASE Wait \/ CloseReaders \/ Sigpipe
  <2>1. /\ main' \notin {"start", "run"} \/ main' = main
        /\ UNCHANGED <<pump, outcome, log>>
    BY <1>8 DEF Wait, CloseReaders, Sigpipe, pumps, run, logs
  <2> QED
    BY <1>1, <1>2, <2>1 DEF LogFollowsRun, Recorded, AboutToRecord
<1> QED
  BY <1>4, <1>5, <1>6, <1>7, <1>8 DEF MainStep

(* What is read moves from the pipe to what has passed.                    *)
LEMMA EnvironmentRecords ==
  ASSUME LogInv,
         \/ ClientSends \/ ClientReads \/ ClientEnds \/ Signal \/ KillServer
         \/ ServerStep \/ ServerCrashes \/ OthersWrite
  PROVE  LogFollowsRun' /\ \A e \in Directions : Recorded(e)'
<1> USE DEF LogInv, OrderInv
<1>1. UNCHANGED <<main, outcome, log, logged, pump, held>>
  BY DEF ClientSends, ClientReads, ClientEnds, Signal, KillServer, ServerStep, ServerReads,
         ServerWrites, ServerEnds, ServerCrashes, OthersWrite, pumps, run, logs
<1>2. CASE ClientReads \/ ServerReads
  <2>1. main # "start"
    BY <1>2 DEF LogFollowsRun, ClientReads, ServerReads, Directions
  <2>2. \A d \in Directions : (Passed(d) \o to[d])' = Passed(d) \o to[d]
    <3>0. "up" \in Directions /\ "down" \in Directions
      BY DEF Directions
    <3>1. ASSUME NEW p \in Seq(Lines), NEW t \in Seq(Lines), t # <<>>
          PROVE  Append(p, Head(t)) \o Tail(t) = p \o t
      BY <3>1, MoveHead
    <3>2. /\ served \in Seq(Lines) /\ to["up"] \in Seq(Lines)
          /\ answered \in Seq(Lines) /\ to["down"] \in Seq(Lines)
      BY <3>0 DEF TypeOK
    <3>3. CASE ClientReads
      <4>1. /\ to["down"] # <<>> /\ answered' = Append(answered, Head(to["down"]))
            /\ to'["down"] = Tail(to["down"]) /\ to'["up"] = to["up"] /\ served' = served
        BY <3>0, <3>3 DEF ClientReads, TypeOK, Directions
      <4>2. Append(answered, Head(to["down"])) \o Tail(to["down"]) = answered \o to["down"]
        BY <3>1, <3>2, <4>1
      <4> QED
        BY <4>1, <4>2 DEF Passed, Directions
    <3>4. CASE ServerReads
      <4>1. /\ to["up"] # <<>> /\ served' = Append(served, Head(to["up"]))
            /\ to'["up"] = Tail(to["up"]) /\ to'["down"] = to["down"] /\ answered' = answered
        BY <3>0, <3>4 DEF ServerReads, TypeOK, Directions
      <4>2. Append(served, Head(to["up"])) \o Tail(to["up"]) = served \o to["up"]
        BY <3>1, <3>2, <4>1
      <4> QED
        BY <4>1, <4>2 DEF Passed, Directions
    <3> QED
      BY <1>2, <3>3, <3>4
  <2> QED
    BY <1>1, <2>1, <2>2 DEF LogFollowsRun, Recorded, AboutToRecord
<1>3. CASE ClientSends \/ ClientEnds \/ Signal \/ KillServer \/ ServerWrites \/ ServerEnds
           \/ ServerCrashes \/ OthersWrite
  <2>1. UNCHANGED <<to, served, answered>>
    BY <1>3 DEF ClientSends, ClientEnds, Signal, KillServer, ServerWrites, ServerEnds,
                ServerCrashes, OthersWrite, pipes, ends
  <2> QED
    BY <1>1, <2>1 DEF LogFollowsRun, Recorded, AboutToRecord, Passed
<1> QED
  BY <1>2, <1>3 DEF ServerStep

LEMMA LogStep == LogInv /\ [Next]_vars => LogInv'
<1> SUFFICES ASSUME LogInv, [Next]_vars PROVE LogInv'
  OBVIOUS
<1>1. OrderInv'
  BY OrderStep DEF LogInv
<1>2. LogFollowsRun' /\ \A e \in Directions : Recorded(e)'
  <2>1. CASE UNCHANGED vars
    BY <2>1 DEF LogInv, vars, pipes, pumps, run, logs, ends, LogFollowsRun, Recorded,
                AboutToRecord, Passed
  <2>2. CASE Next
    <3>1. "up" \in Directions
      BY DEF Directions
    <3> QED
      BY <2>2, <3>1, PumpRecords, RunRecords, EnvironmentRecords DEF Next
  <2> QED
    BY <2>1, <2>2
<1> QED
  BY <1>1, <1>2 DEF LogInv

-----------------------------------------------------------------------------
(* A write to the log's file costs a record when it fails, and another one *)
(* when it has left an unfinished line, which is no longer there then.     *)
LossInv == TypeOK /\ LossIsBounded

LEMMA TwoPerFailure ==
  ASSUME NEW l \in Nat, NEW b \in Nat, NEW m, NEW c, NEW k \in 0..1,
         l <= 2 * b, m \in {l, l + 1}, c = b + 1
  PROVE m + k <= 2 * c
<1>1. m \in Nat /\ m <= 2 * b + 1
  OBVIOUS
<1>2. 2 * c = 2 * b + 2
  OBVIOUS
<1> QED
  BY <1>1, <1>2

LEMMA WritesCount ==
  ASSUME LossInv, WriteRecord \/ OthersWrite PROVE LossIsBounded'
<1>1. torn \in BOOLEAN /\ lost \in Nat /\ badWrites \in Nat
  BY ProxyAssumption DEF LossInv, TypeOK
<1>2. lost + (IF torn THEN 1 ELSE 0) <= 2 * badWrites
  BY DEF LossInv, LossIsBounded
<1>3. (IF torn' THEN 1 ELSE 0) \in 0..1
  OBVIOUS
<1>4. CASE /\ lost' = (IF torn THEN lost + 1 ELSE lost) /\ torn' = FALSE
           /\ badWrites' = badWrites
  BY <1>1, <1>2, <1>4 DEF LossIsBounded
<1>5. CASE badWrites' = badWrites + 1 /\ lost' \in {lost, lost + 1}
  <2>1. lost <= 2 * badWrites
    BY <1>1, <1>2
  <2> QED
    BY <1>1, <1>3, <1>5, <2>1, TwoPerFailure, Zenon DEF LossIsBounded
<1>6. CASE torn' = FALSE /\ UNCHANGED <<lost, badWrites>>
  BY <1>1, <1>2, <1>6 DEF LossIsBounded
<1> QED
  BY <1>4, <1>5, <1>6 DEF WriteRecord, OthersWrite

LEMMA LossStep == LossInv /\ [Next]_vars => LossInv'
<1> SUFFICES ASSUME LossInv, [Next]_vars PROVE LossInv'
  OBVIOUS
<1>1. TypeOK'
  BY TypingStep DEF LossInv
<1>2. UNCHANGED logFile \/ WriteRecord \/ OthersWrite
  BY DEF Next, PumpStep, Scan, ScanEnds, ScanCancelled, Write, WriteFails, Log, EndPump, MainStep,
         OpenLog, OpenLogFails, Receive, RunCancelled, Wait, CloseReaders, Sigpipe, ServerStep,
         ServerReads, ServerWrites, ServerEnds, ServerCrashes, ClientSends, ClientReads,
         ClientEnds, Signal, KillServer, vars, logs
<1>3. ASSUME UNCHANGED logFile PROVE LossIsBounded'
  BY <1>3 DEF LossInv, LossIsBounded, logFile
<1> QED
  BY <1>1, <1>2, <1>3, WritesCount DEF LossInv

LEMMA LossInit == Init => LossInv
<1> SUFFICES ASSUME Init PROVE LossInv
  OBVIOUS
<1>1. lost + (IF torn THEN 1 ELSE 0) <= 2 * badWrites
  BY DEF Init
<1> QED
  BY <1>1, TypingInit DEF LossInv, LossIsBounded

(* The records follow the lines forwarded, and two of them at most are     *)
(* lost for each write that failed, whatever the pumps, the two sides and  *)
(* the other writers of the log do in between.                             *)
THEOREM RecordsWhatItForwards == Spec => []LogIsComplete
<1>1. ASSUME LogInv PROVE RecordsFollow
  <2>1. \A d \in Directions : Forwarded(d) = Passed(d) \o to[d]
    BY DEF Forwarded, Passed, Directions
  <2>2. \A d \in Directions : Recorded(d)
    BY <1>1 DEF LogInv
  <2> QED
    BY <2>1, <2>2 DEF RecordsFollow, Recorded, AboutToRecord
<1>2. LogInv /\ LossInv => LogIsComplete
  BY <1>1 DEF LossInv, LogIsComplete
<1> QED
  BY <1>2, LogInit, LogStep, LossInit, LossStep, PTL DEF Spec

=============================================================================
