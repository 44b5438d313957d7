------------------------------ MODULE McpProxy ------------------------------
(***************************************************************************)
(* The MCP proxy between a client and the server it starts as a child      *)
(* (internal/mcpproxy/proxy.go, cmd/mcp-proxy/main.go): two pumps that     *)
(* forward a line and then record it, the loop of Run that waits for both, *)
(* the goroutine that closes the readers, and main, which waits for the    *)
(* child.  The client, the server, the pipes (each of bounded room) and    *)
(* the process's signals are external.                                     *)
(*                                                                         *)
(* The log is a file that all proxies of the machine append to             *)
(* (cmd/mcp-proxy/main.go:33).  A write of a record may fail, which the    *)
(* pump is not told, and may then leave part of a line behind, to which    *)
(* the next record of whatever process is appended; a reader of the file   *)
(* finds neither of the two.                                               *)
(*                                                                         *)
(* The client's lines are the requests 1, 2, ...; the server takes one at  *)
(* a time and answers it with one line, which has the request's number.    *)
(* One line may be longer than the scanner takes.                          *)
(***************************************************************************)
EXTENDS Naturals, Sequences

CONSTANTS
  MaxLines,      \* bound on the client's lines
  Room,          \* lines that a pipe holds
  MaxBadWrites   \* bound on failed writes to the log file

ASSUME ProxyAssumption ==
  MaxLines \in Nat /\ Room \in Nat \ {0} /\ MaxBadWrites \in Nat

Directions == {"up", "down"}     \* client to server, server to client
Lines == 1..MaxLines

VARIABLES
  long,          \* the over-long line: its direction and number
  client,        \* "open", "closed" (its last line is sent) or "gone"
  server,        \* "up" or "exited"
  cancelled,     \* SIGINT or SIGTERM has been received
  from, to,      \* the pipe that each pump reads, the pipe that it writes
  stdinClosed,   \* the proxy has closed the server's standard input
  readersClosed, \* the closing goroutine has run
  pump, held,    \* where each pump is, and the line it has read
  err,           \* what each pump ended with
  received,      \* the pumps whose end Run has seen
  main,          \* where the proxy's main goroutine is
  outcome,       \* of Run
  log, logged,   \* whether the log is open, the records it was given, by direction
  torn,          \* the file's last line is unfinished
  lost,          \* records of this proxy that no line of the file has
  badWrites,     \* failed writes so far, of this proxy and of others
  sent,          \* history: lines the client has sent
  served, todo,  \* the lines the server has read, the answer it is about to write
  answered       \* history: lines the client has read

pipes == <<from, to, stdinClosed, readersClosed>>
pumps == <<pump, held, err>>
run == <<received, main, outcome>>
logFile == <<torn, lost, badWrites>>
logs == <<log, logged, logFile>>
ends == <<client, server, sent, served, todo, answered>>
vars == <<long, cancelled, pipes, pumps, run, logs, ends>>

TypeOK ==
  /\ long \in (Directions \X Lines) \cup {<<>>}
  /\ client \in {"open", "closed", "gone"} /\ server \in {"up", "exited"}
  /\ cancelled \in BOOLEAN /\ stdinClosed \in BOOLEAN /\ readersClosed \in BOOLEAN
  /\ from \in [Directions -> Seq(Lines)] /\ to \in [Directions -> Seq(Lines)]
  /\ pump \in [Directions -> {"off", "scan", "write", "log", "end", "done"}]
  /\ held \in [Directions -> Seq(Lines)]
  /\ err \in [Directions -> {"none", "eof", "too_long", "broken", "cancelled", "closed"}]
  /\ received \subseteq Directions
  /\ main \in {"start", "run", "wait", "exited", "killed"}
  /\ outcome \in {"none", "ok", "error"}
  /\ log \in {"none", "open", "closed"} /\ logged \in [Directions -> Seq(Lines)]
  /\ torn \in BOOLEAN /\ lost \in Nat /\ badWrites \in 0..MaxBadWrites
  /\ sent \in 0..MaxLines
  /\ served \in Seq(Lines) /\ todo \in Seq(Lines) /\ answered \in Seq(Lines)

Init ==
  /\ long \in (Directions \X Lines) \cup {<<>>}
  /\ client = "open" /\ server = "up" /\ cancelled = FALSE
  /\ from = [d \in Directions |-> <<>>] /\ to = [d \in Directions |-> <<>>]
  /\ stdinClosed = FALSE /\ readersClosed = FALSE
  /\ pump = [d \in Directions |-> "off"]
  /\ held = [d \in Directions |-> <<>>]
  /\ err = [d \in Directions |-> "none"]
  /\ received = {} /\ main = "start" /\ outcome = "none"
  /\ log = "none" /\ logged = [d \in Directions |-> <<>>]
  /\ torn = FALSE /\ lost = 0 /\ badWrites = 0
  /\ sent = 0 /\ served = <<>> /\ todo = <<>> /\ answered = <<>>

Alive == main \notin {"exited", "killed"}

-----------------------------------------------------------------------------
(* Run: open the log and start the goroutines.  Without a log it returns   *)
(* at once, the child already running.                                     *)
OpenLog ==
  /\ main = "start"
  /\ main' = "run" /\ log' = "open"
  /\ pump' = [d \in Directions |-> "scan"]
  /\ UNCHANGED <<long, cancelled, pipes, held, err, received, outcome, logged, logFile, ends>>

OpenLogFails ==
  /\ main = "start"
  /\ main' = "wait" /\ outcome' = "error"
  /\ UNCHANGED <<long, cancelled, pipes, pumps, received, logs, ends>>

RunContextDone == cancelled \/ main = "wait"

(* The writer of the pipe that a pump reads has closed it.                 *)
SourceClosed(d) == IF d = "up" THEN client # "open" ELSE server = "exited"

-----------------------------------------------------------------------------
(* pump.                                                                   *)
PumpEnds(d, result) ==
  /\ pump' = [pump EXCEPT ![d] = "end"]
  /\ err' = [err EXCEPT ![d] = result]

Scan(d) ==
  /\ Alive /\ pump[d] = "scan" /\ from[d] # <<>>
  /\ long # <<d, Head(from[d])>> /\ ~RunContextDone
  /\ held' = [held EXCEPT ![d] = <<Head(from[d])>>]
  /\ from' = [from EXCEPT ![d] = Tail(@)]
  /\ pump' = [pump EXCEPT ![d] = "write"]
  /\ UNCHANGED <<long, cancelled, to, stdinClosed, readersClosed, err, run, logs, ends>>

ScanEnds(d) ==
  /\ Alive /\ pump[d] = "scan"
  /\ \/ from[d] = <<>> /\ SourceClosed(d) /\ PumpEnds(d, "eof")
     \/ from[d] # <<>> /\ long = <<d, Head(from[d])>> /\ PumpEnds(d, "too_long")
     \/ readersClosed /\ PumpEnds(d, "closed")
  /\ UNCHANGED <<long, cancelled, pipes, held, run, logs, ends>>

(* The line read last goes no further.                                     *)
ScanCancelled(d) ==
  /\ Alive /\ pump[d] = "scan" /\ from[d] # <<>>
  /\ long # <<d, Head(from[d])>> /\ RunContextDone
  /\ held' = [held EXCEPT ![d] = <<Head(from[d])>>]
  /\ from' = [from EXCEPT ![d] = Tail(@)]
  /\ PumpEnds(d, "cancelled")
  /\ UNCHANGED <<long, cancelled, to, stdinClosed, readersClosed, run, logs, ends>>

WriteOrDrop(d) ==
  /\ Alive /\ pump[d] = "write"
  /\ IF d = "up" THEN server = "up" ELSE client # "gone"
  /\ to' = IF Len(to[d]) < Room THEN [to EXCEPT ![d] = @ \o held[d]] ELSE to
  /\ pump' = [pump EXCEPT ![d] = "log"]
  /\ UNCHANGED <<long, cancelled, from, stdinClosed, readersClosed, held, err, run, logs, ends>>

Write(d) ==
  /\ Alive /\ pump[d] = "write" /\ Len(to[d]) < Room
  /\ IF d = "up" THEN server = "up" ELSE client # "gone"
  /\ to' = [to EXCEPT ![d] = @ \o held[d]]
  /\ pump' = [pump EXCEPT ![d] = "log"]
  /\ UNCHANGED <<long, cancelled, from, stdinClosed, readersClosed, held, err, run, logs, ends>>

(* The server's end of its standard input is closed: an error.             *)
WriteErrorIgnored ==
  /\ Alive /\ pump["up"] = "write" /\ server = "exited"
  /\ pump' = [pump EXCEPT !["up"] = "log"]
  /\ UNCHANGED <<long, cancelled, pipes, held, err, run, logs, ends>>

WriteFails ==
  /\ Alive /\ pump["up"] = "write" /\ server = "exited"
  /\ PumpEnds("up", "broken")
  /\ UNCHANGED <<long, cancelled, pipes, held, run, logs, ends>>

(* The client is gone: a write to a broken standard output ends a Go       *)
(* process with SIGPIPE, and its pipes are closed with it.                 *)
Sigpipe ==
  /\ Alive /\ pump["down"] = "write" /\ client = "gone"
  /\ main' = "killed"
  /\ UNCHANGED <<long, cancelled, pipes, pumps, received, outcome, logs, ends>>

(* logger.write: a line of its own, the end of an unfinished line, or an   *)
(* error, of which logRequest and logResponse take no notice.              *)
WriteRecord ==
  \/ /\ lost' = IF torn THEN lost + 1 ELSE lost
     /\ torn' = FALSE
     /\ UNCHANGED badWrites
  \/ /\ badWrites < MaxBadWrites /\ badWrites' = badWrites + 1
     /\ lost' = lost + 1
     /\ torn' \in {torn, TRUE}

(* logRequest, logResponse; once the log is closed the record is dropped.  *)
LogUnlessCancelled(d) ==
  /\ Alive /\ pump[d] = "log"
  /\ IF log = "open" /\ ~cancelled
     THEN WriteRecord /\ logged' = [logged EXCEPT ![d] = @ \o held[d]]
     ELSE UNCHANGED <<logged, logFile>>
  /\ held' = [held EXCEPT ![d] = <<>>]
  /\ pump' = [pump EXCEPT ![d] = "scan"]
  /\ UNCHANGED <<long, cancelled, pipes, err, run, log, ends>>

Log(d) ==
  /\ Alive /\ pump[d] = "log"
  /\ IF log = "open"
     THEN WriteRecord /\ logged' = [logged EXCEPT ![d] = @ \o held[d]]
     ELSE UNCHANGED <<logged, logFile>>
  /\ held' = [held EXCEPT ![d] = <<>>]
  /\ pump' = [pump EXCEPT ![d] = "scan"]
  /\ UNCHANGED <<long, cancelled, pipes, err, run, log, ends>>

(* Another proxy writes to the file, or leaves half a line in it.          *)
OthersWrite ==
  /\ Alive /\ log = "open"
  /\ \/ torn /\ torn' = FALSE /\ UNCHANGED badWrites
     \/ badWrites < MaxBadWrites /\ badWrites' = badWrites + 1 /\ torn' = TRUE
  /\ UNCHANGED <<long, cancelled, pipes, pumps, run, log, logged, lost, ends>>

EndPumpOnly(d) ==
  /\ Alive /\ pump[d] = "end"
  /\ pump' = [pump EXCEPT ![d] = "done"]
  /\ UNCHANGED <<long, cancelled, pipes, held, err, run, logs, ends>>

EndPump(d) ==
  /\ Alive /\ pump[d] = "end"
  /\ stdinClosed' = (stdinClosed \/ d = "up")
  /\ pump' = [pump EXCEPT ![d] = "done"]
  /\ UNCHANGED <<long, cancelled, from, to, readersClosed, held, err, run, logs, ends>>

-----------------------------------------------------------------------------
(* Run and main.                                                           *)
Returns(result) ==
  /\ main' = "wait" /\ outcome' = result
  /\ log' = "closed"

Benign == {"eof", "cancelled"}

ReceiveFirst(d) ==
  /\ main = "run" /\ pump[d] = "done"
  /\ received' = received \cup {d}
  /\ Returns(IF err[d] \in Benign THEN "ok" ELSE "error")
  /\ UNCHANGED <<long, cancelled, pipes, pumps, logged, logFile, ends>>

Receive(d) ==
  /\ main = "run" /\ pump[d] = "done" /\ d \notin received
  /\ received' = received \cup {d}
  /\ IF received' = Directions
     THEN Returns(IF \A e \in Directions : err[e] \in Benign THEN "ok" ELSE "error")
     ELSE UNCHANGED <<main, outcome, log>>
  /\ UNCHANGED <<long, cancelled, pipes, pumps, logged, logFile, ends>>

RunCancelled ==
  /\ main = "run" /\ cancelled
  /\ Returns("error")
  /\ UNCHANGED <<long, cancelled, pipes, pumps, received, logged, logFile, ends>>

CloseReaders ==
  /\ Alive /\ RunContextDone /\ log # "none" /\ ~readersClosed
  /\ readersClosed' = TRUE
  /\ UNCHANGED <<long, cancelled, from, to, stdinClosed, pumps, run, logs, ends>>

Wait ==
  /\ main = "wait" /\ server = "exited"
  /\ main' = "exited"
  /\ UNCHANGED <<long, cancelled, pipes, pumps, received, outcome, logs, ends>>

(* A signal cancels the context, and exec.CommandContext kills the child.  *)
Signal ==
  /\ Alive /\ ~cancelled
  /\ cancelled' = TRUE
  /\ UNCHANGED <<long, pipes, pumps, run, logs, ends>>

KillServer ==
  /\ Alive /\ cancelled /\ server = "up"
  /\ server' = "exited"
  /\ UNCHANGED <<long, cancelled, pipes, pumps, run, logs, client, sent, served, todo, answered>>

-----------------------------------------------------------------------------
(* The client: sends, reads, closes its end, or is gone.                   *)
ClientSends ==
  /\ Alive /\ client = "open" /\ sent < MaxLines /\ Len(from["up"]) < Room
  /\ sent' = sent + 1
  /\ from' = [from EXCEPT !["up"] = Append(@, sent')]
  /\ UNCHANGED <<long, cancelled, to, stdinClosed, readersClosed, pumps, run, logs,
                 client, server, served, todo, answered>>

ClientReads ==
  /\ client # "gone" /\ to["down"] # <<>>
  /\ answered' = Append(answered, Head(to["down"]))
  /\ to' = [to EXCEPT !["down"] = Tail(@)]
  /\ UNCHANGED <<long, cancelled, from, stdinClosed, readersClosed, pumps, run, logs,
                 client, server, sent, served, todo>>

ClientEnds ==
  /\ \/ client = "open" /\ client' \in {"closed", "gone"}
     \/ client = "closed" /\ client' = "gone"
  /\ UNCHANGED <<long, cancelled, pipes, pumps, run, logs, server, sent, served, todo, answered>>

(* The server: reads a line, answers it; exits at the end of its input, on *)
(* a broken output, or at any time.                                        *)
ServerReads ==
  /\ server = "up" /\ todo = <<>> /\ to["up"] # <<>>
  /\ todo' = <<Head(to["up"])>>
  /\ served' = Append(served, Head(to["up"]))
  /\ to' = [to EXCEPT !["up"] = Tail(@)]
  /\ UNCHANGED <<long, cancelled, from, stdinClosed, readersClosed, pumps, run, logs,
                 client, server, sent, answered>>

ServerWrites ==
  /\ server = "up" /\ todo # <<>> /\ Len(from["down"]) < Room
  /\ Alive /\ ~readersClosed
  /\ from' = [from EXCEPT !["down"] = @ \o todo]
  /\ todo' = <<>>
  /\ UNCHANGED <<long, cancelled, to, stdinClosed, readersClosed, pumps, run, logs,
                 client, server, sent, served, answered>>

ServerEnds ==
  /\ server = "up"
  /\ \/ todo = <<>> /\ to["up"] = <<>> /\ (stdinClosed \/ ~Alive)
     \/ todo # <<>> /\ (readersClosed \/ ~Alive)
  /\ server' = "exited"
  /\ UNCHANGED <<long, cancelled, pipes, pumps, run, logs, client, sent, served, todo, answered>>

ServerCrashes ==
  /\ server = "up"
  /\ server' = "exited"
  /\ UNCHANGED <<long, cancelled, pipes, pumps, run, logs, client, sent, served, todo, answered>>

-----------------------------------------------------------------------------
PumpStep(d) ==
  Scan(d) \/ ScanEnds(d) \/ ScanCancelled(d) \/ Write(d) \/ Log(d) \/ EndPump(d)
MainStep == OpenLog \/ OpenLogFails \/ RunCancelled \/ Wait \/ \E d \in Directions : Receive(d)
ServerStep == ServerReads \/ ServerWrites \/ ServerEnds

Next ==
  \/ \E d \in Directions : PumpStep(d)
  \/ WriteFails \/ Sigpipe \/ OthersWrite
  \/ MainStep \/ CloseReaders \/ KillServer \/ Signal
  \/ ClientSends \/ ClientReads \/ ClientEnds
  \/ ServerStep \/ ServerCrashes

(* Goroutines are scheduled, the server does its work and the client reads *)
(* what is there for it.                                                   *)
Fairness ==
  /\ WF_vars(PumpStep("up") \/ WriteFails) /\ WF_vars(PumpStep("down") \/ Sigpipe)
  /\ WF_vars(MainStep) /\ WF_vars(CloseReaders) /\ WF_vars(KillServer)
  /\ WF_vars(ClientReads) /\ WF_vars(ServerStep)

Spec == Init /\ [][Next]_vars
FairSpec == Spec /\ Fairness

-----------------------------------------------------------------------------
Sent == [i \in 1..sent |-> i]
Pending(d) == IF pump[d] = "log" THEN <<>> ELSE held[d]
Forwarded(d) == IF d = "up" THEN served \o to["up"] ELSE answered \o to["down"]

(* Every line is forwarded once and in order: what a side has sent is what *)
(* the other has read, what the pipes hold and what the pump holds.        *)
ForwardedInOrder ==
  /\ Forwarded("up") \o Pending("up") \o from["up"] = Sent
  /\ Forwarded("down") \o Pending("down") \o from["down"] \o todo = served

(* The records given to the log are the lines forwarded, in their order:   *)
(* those of an open log up to the line whose pump is about to record it,   *)
(* those of a run that ended well to the last.                             *)
RecordsFollow ==
  \A d \in Directions :
    /\ log = "open" =>
         logged[d] \o (IF pump[d] = "log" THEN held[d] ELSE <<>>) = Forwarded(d)
    /\ outcome = "ok" => logged[d] = Forwarded(d)

(* A failed write costs the file two of them at most, its own and the one  *)
(* that comes after a line it has left unfinished.                         *)
LossIsBounded == lost + (IF torn THEN 1 ELSE 0) <= 2 * badWrites

(* The log has a record of each line forwarded, in order, but for two at   *)
(* most for each write that failed unnoticed ("_ = p.log.write(ev)",       *)
(* proxy.go:179, 204): neither the pumps, nor the end of one of them, nor  *)
(* a signal, nor the closing of the log loses one.                         *)
LogIsComplete == RecordsFollow /\ LossIsBounded

(* A run that ended well, and not by a signal, has handed over everything: *)
(* the client's lines to the server's input and the answers to the client. *)
CleanExitHandsOver ==
  outcome = "ok" /\ ~cancelled =>
    \A d \in Directions : from[d] = <<>> /\ Pending(d) = <<>>

(* The proxy ends after its client has closed, unless its log could not be *)
(* opened or an over-long answer has stopped the pump of the answers; and  *)
(* it ends on a signal, whatever its pumps are blocked on.                 *)
EndsWithClient == client # "open" /\ log # "none" ~> ~Alive \/ err["down"] = "too_long"
EndsOnSignal == cancelled ~> ~Alive
ProxyEnds == EndsWithClient /\ EndsOnSignal

(* When the server is gone, the next line of the client ends the proxy.    *)
ServerLossIsNoticed ==
  server = "exited" /\ log # "none" /\ from["up"] # <<>> ~> ~Alive
=============================================================================
