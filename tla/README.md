# Verification of cursor-tools

`cursor-tools` is a Go monorepo: a command line tool and a family of MCP
servers that let several AI agent sessions share work (a sprint board),
memories (Mem0, behind a local outbox) and configuration. These modules model
the parts in which several processes, goroutines or machines, or one process and
a crash, meet on shared state. TLC checks them on small instances; TLAPS proves
their invariants and action properties for every instance.

Paths below are relative to the repository; `sprintboard/` stands for
`internal/platform/sprintboard/`, `mem0outbox/` for `internal/mem0outbox/`.
The Go sources are under `src/` in `PROJECT.json`.

## Files

| File | Contents |
|---|---|
| `TicketBoard.tla` | tickets and claims: every tool call as its SQL statements |
| `MCTicketBoard.tla` | TLC instance: symmetry of servers, agents |
| `TicketBoardProofs.tla` | typing, who holds a claim, how claims and finished tickets change |
| `Dependencies.tla` | the graph that the next two share: acyclic, rows in any order |
| `TicketDag.tla` | adding and removing dependencies, the cycle search query by query |
| `TopologicalSort.tla`, `MCTopologicalSort.tla` | Kahn's algorithm over two queries |
| `TicketDagProofs.tla` | proofs about both: serial adds, the sort's order and its report |
| `OutboxFile.tla` | `pending.jsonl` as a sequence of cells: lines, decoding, offsets |
| `Breaker.tla` | the circuit breaker as a value: what each method does to it |
| `Outbox.tla`, `MCOutbox.tla` | writers, flusher, cursor, ledger, breaker, crashes |
| `DeliveryQueue.tla` | abstract specification of the outbox |
| `CircuitBreaker.tla` | one breaker, many callers |
| `QuotaDrain.tla` | the two-backend drainer |
| `OutboxProofs.tla` | proofs about the outbox, the breaker and the drainer; the step simulation of `DeliveryQueue` |
| `DirLock.tla`, `DirLockProofs.tla` | the stop hook's directory lock, call by call; exclusion, work done |
| `RepoSync.tla`, `MCRepoSync.tla` | the stop hook's git sync on several machines |
| `Signals.tla` | signals through Mem0: retried posts, paged listings, clean-up |
| `StopHookProofs.tla` | proofs about the sync (no edit lost, no false success) and the signals (listings) |
| `Supervisor.tla`, `SupervisorProofs.tla` | services, restarts, Runs that overlap; one life at a time, delays |
| `McpProxy.tla`, `McpProxyProofs.tla` | the relay between an MCP client and server; order, log, hand-over |
| `NaturalLemmas.tla` | recursive functions on the naturals exist |

`PROJECT.json` maps every definition to the lines it translates, lists the
runs, one mutant of the code per checked property, the hazards and the
theorems. To repeat a run: `tlc -config <run>.cfg <module>.tla`; to repeat a
proof: `tlapm <module>Proofs.tla`.

## Inventory

### The sprint board

One `sprintboard-mcp` process per agent session (`cmd/sprintboard-mcp`), all on
one SQLite file in WAL mode with a busy timeout of 5 s. A process serves one
JSON-RPC call at a time over its standard streams; the processes share nothing
but the database. Almost every call is a sequence of auto-commit statements.

* **Tickets and claims** (`store.go`, `claiming.go`). State: `tickets` (status,
  `claimed_by`, `claimed_at`), `ticket_transitions`. Operations: `ticket_create`,
  `ticket_update`, `task_claim` (in a transaction), `task_complete`,
  `DeleteTicket`, and at every start of a server `ReleaseStaleClaims(30 min)`
  and `ReleaseNullClaims`. Hard: two claims of one ticket; a start-up clean-up
  in the middle of another server's call; crashes between a statement and the
  next. Correct when a successful claim is exclusive and stays with the agent
  until it is given up, expires or the ticket goes.
* **Dependencies** (`dag.go`). State: `ticket_dependencies`. Operations:
  `AddDependency` (a depth-first search with one query per ticket, then an
  insert), `RemoveDependency`, `TopologicalSort`, and the read-only `BlockedBy`
  and `ReadyTickets`. Hard: search and insert are not one transaction. Correct
  when the graph stays acyclic and the sort puts each ticket after those that
  block it.
* **Agents, handoffs, distribution** (`agents.go`, `coordination.go`,
  `capability.go`, and `sprintDistribute` in `main.go`). State: `agents` with
  heartbeats, `handoffs`, `tickets.owner_agent`. Publishing a handoff is an
  insert followed by a best-effort copy to Mem0; subscribing selects
  `created_at >= since`, compared as strings. Hard: clock zones, equal
  timestamps, assignment from a list read earlier. `ExpireStaleAgents` has no
  caller.
* **Embeddings and search** (`vectorstore.go`, `embedder.go`). A goroutine that
  `ticket_create` starts stores a vector; search ranks by similarity.

### The Mem0 outbox

* **File, writers and flusher** (`outbox.go`, `budget.go`). State on disk:
  `pending.jsonl` (append-only), the cursor, the spend ledger. `Writer.Append`
  adds a line and syncs; `Flusher.Flush` posts each line to Mem0, moves the
  cursor, charges the ledger. Writers and the flusher are different processes
  (`evoloop promote` appends, `mem0 outbox flush` posts). Hard: torn lines,
  reading inside a write, crashes and failed saves between post, cursor and
  ledger. Correct when capsules are posted in order, none is skipped, and the
  budget is kept.
* **Circuit breaker** (`circuit_breaker.go`). In-memory, one mutex; state
  Closed, Open, HalfOpen with an exponential hold time. Hard: outcomes reported
  in a state other than the one that admitted the call. The `mem0 outbox flush`
  command does not install one; `Flusher.Breaker` is an option of the package.
* **Quota drainer** (`drain.go`). Posts the same file to two backends with a
  cursor of its own. Hard: the second push fails after the first succeeded.

### Locks, processes, coordination

* **Directory lock** (`internal/lockfile/dirlock.go`): `mkdir` as mutual
  exclusion, a PID file inside, and reclaim when the holder is dead or the
  directory is older than 300 s. Used by the stop hook. Hard: two contenders
  reclaim at once, a live holder outlasts the timeout, a kill between two calls.
  Correct when two hooks work at once only after such an accident, and no lock
  is left behind.
* **File lock** (`filelock*.go`): `flock(2)`.
* **Stop hook** (`internal/cli/hook_housekeeping.go`): at the end of a session,
  under the directory lock, it commits the shared memories, pulls with rebase,
  pushes with retries, writes a result file, and cleans up or pulls signals.
  State: a git repository per machine, one remote. Hard: failing or killed git
  commands whose errors are ignored, another machine's push in between, a half
  rebase, edits amid the sync. Correct when no edit is lost, "success" means
  pushed, and edits arrive.
* **Coordination client** (`internal/coordination`): signals between machines as
  Mem0 memories, by HTTP with retries and pages. Hard: a retried POST after a lost
  answer, a store that changes between two pages, several clean-ups. Correct when
  a task reaches its machine before anything removes it.
* **Supervisor** (`internal/supervisor`): registered services in goroutines,
  restarted with a doubling delay, a memory probe, cancellation. Hard: a second
  Run, a Run on its way out, a cancellation in a delay. Correct when no service has
  two lives, a Run ends when it is told to and leaves nothing behind.
* **MCP proxy** (`internal/mcpproxy`, `cmd/mcp-proxy`): two pumps between a client
  and a child process, a log, signals. Hard: full pipes in both directions, either
  side closing first, over-long lines. Correct when lines pass once and in order and
  the proxy ends with either side.

### Memories, migration, outcomes

* **Response cache, batches, de-duplication** (`internal/mem0cache`),
  **persistence and watchdog** (`mem0persist`, `mem0watchdog`): check-then-act on
  shared maps and files; batches dropped by a failed flush.
* **Import migration** (`importmigrate`, `pool`): a producer and a pool of
  workers with cancellation.
* **Outcome emission** (`outcomes`): a rate limiter that marks an outcome as sent
  before it is.
* **Replication of the configuration tree** (`replicate`): plan, back up by
  rename, link; a crash leaves the tree between the two.

### In-memory services and relays

* **Control plane** (`platform/controlplane`): scheduler, registry and events
  behind mutexes.
* **Approval queue, agent life cycle, fallbacks, provider switch, key rotation**
  (`platform/...`): small state machines behind a mutex each.
* **Claude proxy** (`zdproxy`): translates HTTP requests.

### The rest

EvoLoop and agent traces, work distribution and fan-out, the command line,
validators, generators, health checks and reports: transformations of their
input, with nothing that runs concurrently or survives a step. `PROJECT.json`
lists each with its files.

## What is modelled

### TicketBoard

State: `status`, `claimedBy`, `stale` (is `claimed_at` past the expiry) and
`lastRow` (the latest transition row) are the database; `pc` and `call` are each
server's place in its call and what it has read; `outdated` holds the servers
whose open snapshot is older than the last commit. Two history variables tell
the agents' side: `believes` (was told that its claim succeeded) and `revoked`
(the board took the claim back since, by expiry or deletion).

A call is one action per statement. `task_claim` is `ClaimRead` (SELECT, which
takes the snapshot) and `ClaimCommit` (UPDATE, INSERT, COMMIT), which SQLite
refuses with `SQLITE_BUSY_SNAPSHOT` when another connection committed in
between; that is `SnapshotFresh`. `task_complete` is `CompleteTicket` and
`CompleteRow`; `ticket_update` is `UpdateRead`, `UpdateWrite`, `UpdateRow`;
deletion is `DeleteTicket` and `DeleteRows`
(an operation of the store that no MCP tool calls yet). A start is `ReleaseStaleClaims`
then `ReleaseNullClaims`, each of which may fail and is then passed over.
`StatementFails` ends a call at any statement and `Crash` a process.
SQLite itself is external: it is modelled by serialised commits and the snapshot
rule.

### TicketDag and TopologicalSort

`TicketDag` turns the recursion of `dfsHasPath` into a stack, one action per
query, so that other servers change `deps` between two queries. Rows come in any
order (`Orders`). `QueryFails` is the early return on a query error, which the
code treats as "no path"; `QueriesFail` turns it on. `misled` is a history
variable: the servers whose search met a failed query or another server's insert.

`TopologicalSort` starts from any graph, any sprint, and any ticket created or
deleted between its two queries, and takes one step per ticket removed from the
queue; Go's map iteration is a nondeterministic order.

### Outbox, OutboxFile, Breaker, DeliveryQueue

A line is three cells (two pieces of text, a newline), so that a reader may see,
and a failed write may leave, any part of it; `Decode` yields the capsule of a
line that consists of exactly one capsule's text. `Outbox` has the writers
(`AppendBegin`, `AppendFinish`, `AppendFails`) and one action per step of `Flush`:
`FlushBegin` (breaker gate, then budget gate, then the cursor), `FlushRead`, the
three outcomes of a push (`PushSucceeds`, `PushRateLimited`, `PushFails` with or
without the capsule stored), `TruncateCursor` and `WriteCursor` (`os.WriteFile` is
not atomic, and an empty cursor file reads as 0), and `Charge`. `SaveFails` and
`Crash` hit anywhere. Files that a killed process left survive; a power failure
that loses unsynced data is not modelled.

`Breaker` gives each method as an operator on the breaker's fields. It is used
by `Outbox`, where the flusher is the only caller, and by `CircuitBreaker`, where
several callers ask, push and report in any order. A caller there is a `Flush`: it asks
once, may report any number of successes, and ends with the report of a 429
(`RecordFailure`) or with none (`Leave`), as `Flush` does at `outbox.go:281-294`, `315`
and `351`. `probes` are the callers admitted in the current half-open episode of which
there is no report yet.

`DeliveryQueue` is the abstract specification: a log of capsules and the set of those
that have been posted, in the order of the log, each in the end. `Outbox` implements
it with `log` the readable capsules of the file and `posted` those of them that
the upstream has. Two things in it come from the code: a re-post is a stuttering
step (the outbox is at-least-once), and a capsule may be posted when it joins the
log, because a reader at the end of the file decodes a complete line before its
newline is there.

### QuotaDrain

`Drain` step by step on the same file: two pushes, each of which may fail with or
without effect, then the cursor's truncation and write.

### DirLock

A hook process calls `Acquire` once, works, and calls `Release`. Every system
call is an action: `FirstMkdir`, `WritePID`, `ReadPID`, `SignalPID`, `CheckAge`,
`RemovePID` and `RemoveDir` (the release inside a reclaim and the holder's own),
`SecondMkdir`. `pid` is the content of the PID file, `old` whether the directory's
time is past the timeout (`Expire`), `Crash` kills a process anywhere. `owner` (whose
`mkdir` made the directory), `served` and `doubtful` (somebody reclaimed a lock that
was not a dead process's, or while another was removing it) are history. That a PID
is used again by another process is left out.

### RepoSync

A branch is the set of edits its commits record; since the code neither merges
nor forces, main may be pushed when it contains the remote's set. One action per
git command of `syncRepo`, `safeRebase`, `pushWithRetry` and `pullRepo`; what git
promises (refusing a dirty tree, stopping on a conflict, what an abort resets) is
external. `Edit` is a session at work, at any time. `Fault` is a failed or killed
command, a lost answer, a killed hook, or a second hook beside one at work, as
`DirLock` shows can happen. `risked` are the edits made, or added by the hook, amid a
stopped rebase, which the abort may drop; `mine` is what a hook has committed.

### Signals

The store is a list of memories, new ones in front, that answers one page and its
length. `PostSucceeds`, `PostRetryable` and `PostFails` are the attempts of
`AddSignal`, each of which may take effect whatever is answered; `ListPage` is one
request of `ListSignals` with its test for the last page; `CleanStaleSignals` takes
the list over and `DeleteSignal` passes to the next stale one of it, where a 404 ends
the clean-up;
`FilterPendingTasks` is the pulling hook. `atStart` and `shrunk` remember what was there
when a listing began and whether something was deleted meanwhile.

### Supervisor

`pc` is where each caller of `Run` is, `loop` where `superviseOne` is for each Run and
service (checking the context, in a life, after it, in a delay), `probe` the probe's
goroutine. `Exit` has two results: "failed" is an error or a recovered panic that is not
the context's, "finished" is nil, `context.Canceled` or `DeadlineExceeded`. The comments
tell them apart (`supervisor.go:156-160`), the loop does not: `Returned` is both, and
`FailedOnly`, what the comments say, is the mutant of `ReturnedIsRestarted`. Time is
abstract: `lasted` says whether a life took five minutes, `delay` is what
`computeBackoff` returned.

### McpProxy

`from` and `to` are the pipes on either side of each pump and hold `Room` lines;
`held` is the line a pump has read. A pump scans, writes, logs; its end closes the
child's input (client to server); `Receive` collects the two results, `RunCancelled`
is the select's other branch, `CloseReaders` the goroutine that closes the readers
when the context is done, `Wait` main's wait for the child, `KillServer` the context
that `exec.CommandContext` holds. `Sigpipe` is the Go runtime's rule for a broken
standard output. The client and the server are external: they may be slow, close,
leave or crash. `long` is a line over the scanner's 4 MiB. `ScanCancelled` is the line
that a pump has read when it finds its context done, and which goes no further.

`Log` is `logRequest` and `logResponse`, which ignore what `logger.write` returns.
`WriteRecord` is that write to a file all proxies of the machine append to
(`OthersWrite`): it adds a record, or completes a line that somebody left unfinished,
in which case no reader of the file finds the record, or fails, with or without such a
piece left behind. `logged` has the records the log was given, `lost` counts those the
file does not have on a line of their own, `torn` says that its last line is unfinished.

## Runs

| Run | Distinct states | What it shows |
|---|---|---|
| `board_claims` | 875,120 | Two servers, two agents, one ticket: the agent told "Success" is the claimant in the database unless the claim expired or the ticket was deleted; no other server's call takes it away; start-up leaves finished tickets alone |
| `dag_adds` | 687,802 | An add that no other insert overlaps and whose queries all succeed keeps the graph acyclic, whatever was removed meanwhile; every search ends, even in a cyclic graph that others change |
| `topo_sort` | 31,079 | For every graph of four tickets: the order is dependency-first, and "cycle" is reported exactly when there is one or a dependency points outside the sprint |
| `circuit_breaker` | 199 | One probe per half-open episode, growing hold times; callers are let through again and again unless the probe's `Flush` returned without a report, after which the breaker may refuse for ever |
| `outbox` | 366,473 | The cursor never passes an unposted readable capsule; ledger below the bill; the bill past the ceiling only by one capsule for each fault and lost answer; a torn line costs at most one accepted capsule; the order of `DeliveryQueue` |
| `outbox_delivery` | 68,500 | `DeliveryQueue` with its liveness: every capsule on a finished line is posted |
| `quota_drain` | 42,898 | The drainer's cursor is past a capsule only when both backends have it; both get every capsule on a finished line |
| `dir_lock` | 741,318 | Four hooks: two hold the lock at once only after a doubtful reclaim; unless one is killed somebody does the work and no lock stays behind |
| `repo_sync` | 161,988 | Two machines, three hooks: edits are lost only when made or added amid a stopped rebase, success means pushed, half rebases are undone, edits without conflict reach the remote |
| `signals` | 402,679 | A listing that no deletion disturbs is complete; tasks are seen although listings may skip one; completed signals all go |
| `supervisor` | 286,077 | One life at a time; a Run ends only when cancelled and leaves neither a service nor the probe behind; delays double to 30 s and start over; a service is restarted whether it failed or finished, which is more than the comments say; cancellation ends the Run |
| `mcp_proxy` | 596,876 | Lines pass once and in order and are recorded, except for two at most for each write to the log that failed unnoticed; a clean exit hands over everything; the proxy ends with its client, on the first request after the server is gone, and on a signal |

`CircuitBreaker` has no type invariant of its own: `Outbox` checks the breaker's
fields. The type invariants of `TicketBoard`, `TicketDag`, `DirLock`, `RepoSync` and
`McpProxy` are proved and not checked; those of `TopologicalSort` and
`QuotaDrain` are part of `SortInv` and `DrainInv`.

## Observed while modelling

The passing properties are worded so that they say what does hold. Where a comment
promises more, the comment is quoted.

The board:

* `ClaimTicket` writes `from_status = 'ready'` without reading the status
  (`claiming.go:89`), while `main.go:190` promises "transition tracking"; rows of
  overlapping calls name statuses that others have replaced.
* "DAG, cycle-safe" (`main.go:207`) holds within one server: two servers that add
  opposite dependencies at the same time close a cycle (`dag.go:26`). A failing
  query in the search counts as "no path" (`dag.go:190`).
* `TopologicalSort` reports a cycle when a dependency names a ticket outside the
  sprint, or one deleted since (`dag.go:167`); `ReportIsExact` states this.
* `ticket_update` to `in_progress` on an unclaimed ticket is undone (reset to
  `backlog`) by the next start of any server (`claiming.go:142`).
* A claim expires 30 minutes after it was made, heartbeats or not, so that a
  live agent loses a long task at the next start of another server. It is not
  told: `believes` and `revoked` are what `HolderIsClaimant` subtracts.

The outbox:

* "a crash mid-write cannot silently lose the capsule" (`outbox.go:86-87`) holds for
  the capsule whose write crashed, which was never accepted; the one after it is
  appended to the torn line, is accepted, and is passed over by the flusher.
  `TornLineCostsOne` bounds the loss: one accepted capsule for each torn line.
* "the probe's outcome decides whether the breaker closes again or re-opens"
  (`circuit_breaker.go:28-31`), but a frozen budget (`outbox.go:286-294`), an empty file
  (`315`) and an error other than 429 (`351`) end a probe flush without an outcome. The
  breaker is then half-open, its probe issued, and refuses every call until a `Flush` that
  it admitted earlier reports something; if there is none, for as long as the process
  lives. `AdmitsAgain` states that this is the one way a
  breaker stays shut (`ProbeLeft`). The command installs no breaker; this concerns users
  of the package.
* The budget's first gate is documented as "project the cost of pushing BatchSize
  capsules" (`outbox.go:248-251`); the code projects none (`286`). The gate after each
  push is the one that stops a batch. What a crash, a failed save or a lost answer keeps
  from the ledger is spent on top: `BillWithinBudget` says how much.
* The drainer is at-least-once for each backend (`drain.go:176`), "exactly once" and
  "no capsule is double-pushed" (`drain.go:23-29`) notwithstanding.
* Truncating the cursor before writing it means that a crash restarts the file
  from its beginning: everything is posted again.
* A capsule that Mem0 always rejects blocks those behind it.

The stop hook:

* A contender that has read the PID of a dead holder may remove the lock that
  another has since made, and so may one that meets a live holder through its
  predecessor's PID; `Release` never looks at whose lock it is. Work that takes more
  than 300 s loses the lock. `ExclusiveUnlessDoubtful` is what `mkdir` is worth then.
* Edits made, or added by the hook, amid a stopped rebase are dropped by
  `rebase --abort`, and the hook may report success all the same; so it does when its
  commit failed. A conflict stays until a person resolves it.
* The clean-up by age never happens: signals read back have no `CreatedAt`
  (`client.go:387-400`), although `client.go:223` says "deletes signals older
  than maxAge"; only the type decides. The first 404 ends a clean-up; a retried POST stores a signal twice;
  errors of the transport are not retried.
* A deletion between two pages shifts the list, so that a listing may skip a memory
  and still believe itself complete.

Supervisor and proxy:

* `Run` copies the list of services once: one registered later is not started
  until the next `Run`, although "the new service is picked up on the next
  iteration" (`supervisor.go:88-89`). Without services it
  returns at once. `Started` is never
  reset, and the restart counter survives into the next `Run`.
* "on a non-nil error (other than context.Canceled / context.DeadlineExceeded) the
  supervisor sleeps for computeBackoff(restarts) and restarts the service"
  (`supervisor.go:156-160`), and "On error, increments Restarts" (`207`): `superviseOne`
  does not look at what the service returned, and restarts one that returned nil or a
  context's error of its own as well. Nor does the reset of the counter depend on "no
  error returned" (`209-211`): a long life that ended in an error resets it.
* `Run` of the proxy is documented as going on "until either reader returns EOF"
  (`proxy.go:59`); it waits for both pumps. An answer over 4 MiB ends the answers' pump
  alone, after which the proxy may wait for ever for a server blocked on its
  output: `ProxyEnds` excepts it. If the log cannot be opened, main waits for a child
  whose input nobody closes, until a signal comes.
* The error of a write to the log is ignored (`proxy.go:179`, `204`; `281-282` returns
  it), so that a record may be missing while the log is open and after a run that ended
  well, and nobody is told. A short write leaves an unfinished line in a file that other
  proxies append to as well (`cmd/mcp-proxy/main.go:33`), and spoils the next record,
  whoever writes it. `LogIsComplete` bounds the loss; `TornLineCostsOne` is its
  counterpart in the outbox.
* A pump that reads a line after its context is done drops it (`proxy.go:125-128`).
* An answer may be recorded before its request. Whether closing `os.Stdin` wakes a
  blocked read depends on the platform; the properties do not rest on it.

## Bounds

| Constant | Value | Why it is enough |
|---|---|---|
| `Servers` | 2 | A race needs two; a third server's statements could be made by the second, which may crash, restart and begin another call between any two statements of the first |
| `Agents` | 2 | A claimant and a rival |
| `Tickets` (board) | 1 | No statement of `TicketBoard` except the clean-ups touches two tickets, and those treat each on its own. The proofs cover any number |
| `UpdateTargets` | 4 | `in_progress`, which the clean-ups look at, `ready` and `review`, and `done`, by which a ticket is finished with or without a claimant |
| `Tickets` (dag) | 3 | A direct edge, an indirect path, a diamond's half; the proof covers any finite number |
| `Tickets` (sort) | 4 | Diamonds, a cycle with a tail, a ticket off the sprint |
| `Capsules` | 3 | One torn, one merged into it, one after; more than `BatchSize` = 2, so that a batch ends before the file does |
| `Ceiling`, `MaxSpend` | 2, 5 (1, 2 for liveness, without a budget) | The ceiling is met inside a batch; with two faults and an answer lost the bill can be five; bills and lost answers are counted no further, at which point `BillWithinBudget` says nothing new |
| `MaxTorn` | 1 | A torn line and its victim take two of three capsules |
| `MaxFaults` | 2 (1 for liveness) | A fault, and one during the recovery from it |
| `TripThreshold`, `TripCap`, `MaxBackoff` | 2, 2, 3 (outbox: 2, 1, 2) | A failure that does not trip, one that does; a doubling and a cut that is no doubling. `BackoffAssumption` says when `TripCap` loses nothing |
| `Callers` | 3 | The probe, a late success and a late failure |
| `managed`, `oss` | counted to 2 | Tells once from more than once |
| `Procs`, `MaxCrashes` (dir_lock) | 4, 2 | A holder, two contenders that reclaim at once, and one that meets what they leave; the proof covers any number |
| `Machines`, `Hooks` (repo_sync) | 2, 3 | Two hooks may meet on one machine; a hook that ended stands for the next |
| `Edits` | 3 | Two that clash, made on two machines, and a new file |
| `MaxFaults` (repo_sync), `MaxFailures` (signals) | 1 | The code has no recovery from a recovery; the invariants of `RepoSync` are proved for any number |
| `Tasks`, `Completed`, `Cleaners`, `Pullers` | 1, 1, 2, 1 | With retries up to four memories, so two pages of `PageSize` 2; two clean-ups meet each other's 404 |
| `Retries` (signals) | 1 | A first attempt and a last one; the code's number is a parameter |
| `Services`, `Runners` | 2, 2 | A sibling to leave alone, and a Run to overlap with |
| `MaxExits` | 6 | The delay would be 32 s after the sixth restart: the cut at 30 s is met |
| `MaxLines`, `Room` | 2, 1 | A pipe is full with one line while the other is in the pump, in both directions at once |
| `MaxBadWrites` | 1 | One failed write and the record after it; the proof covers any number |

Deadlock is checked in every run but `topo_sort` (its algorithm ends), `circuit_breaker`
(a probe may leave without a report, and when all callers have returned nothing is left
to happen), `dir_lock` (every hook process ends) and `mcp_proxy` (the proxy, its client and its server may all
have ended; that it does not stop before is `ProxyEnds`).

## Fairness

* `dag_adds`: a server at work on a call goes on with it; the search has no wait.
* `circuit_breaker`: time passes, and a `Flush` that was admitted returns, in whichever
  way: with a report or without. That it reports is not assumed, nor that anybody asks
  again.
* `outbox_delivery`: a write under way ends unless it fails; `Flush` is called
  again and takes its steps. The daemon loops (`cli/mem0_outbox.go:136`) but
  returns on an error other than 429, so this takes a service manager or an
  operator to start it again. `PushSucceeds` is strongly fair: an upstream that
  is asked again and again accepts at times, the "when Mem0 returns to health" of
  the package comment. Without a budget (`--no-budget`), since a frozen budget
  rightly stops delivery.
* `quota_drain`: the same of `Drain`, with each backend accepting at times.
* `repo_sync`: a hook at work goes on (every git command has a timeout of two
  minutes), and sessions keep ending on each machine, so that a hook gets the
  lock again and again (strong fairness: another hook may hold it meanwhile).
* `signals`: a hook's requests are answered and there are more sessions. Posting has
  no fairness: a sender may die.
* `supervisor`: goroutines are scheduled, and a service and the probe return once
  their context is cancelled, as the `Service` interface asks. Nobody has to cancel, call
  or fail.
* `mcp_proxy`: goroutines are scheduled, the server reads and answers while it runs,
  and the client reads what is there for it. Neither has to send, close or crash.

Crashes, faults and failed saves get no fairness: they may happen or not. Their
bounds make them finitely many in the runs with liveness properties. `dir_lock` has
no liveness property: a hook that does not get the lock gives up, by design.

## What is proved

Every safety invariant and every action property that the runs check is also a
theorem, for arbitrary constants under the named assumptions; of `DeliveryQueue`, the
step simulation is. What a theorem is about, the run of the same property shows on a
small instance.

* **TicketBoard** (`NoneAssumption`, `TargetsAssumption`). `Typing`,
  `HolderIsClaimantHolds`, `ClaimNeverStolenHolds`, `DoneReopenedOnlyExplicitlyHolds`.
  `HolderIsClaimant` is not inductive: a claim commits what it decided on its read.
  The inductive `BoardInv` adds `SnapshotSound`: a server inside a claim with a fresh
  snapshot finds the ticket still free for its agent. Every action that writes either
  leaves the claim alone or outdates the other snapshots. The two action properties
  then follow action by action; that a claim reopens a done ticket only for its
  claimant is `SnapshotSound` again.
* **TicketDag** (`TicketsAssumption`: finitely many tickets). `DagTyping` and
  `SerialAddsAreSafe`. The inductive `DagInv` adds `SearchSound`: for a server
  that is not misled, each visited ticket is not the target, and its blockers
  are visited or on the stack; also the ticket where the search began is. So
  when the stack is empty the visited set is closed under `deps`, contains the
  new blocker and not the ticket to be blocked, and the new edge joins no cycle.
  Removals by others only help; inserts set `misled`.
* **TopologicalSort** (`TicketsAssumption`). `SortInvHolds` and `ReportIsExactHolds`.
  Order and uniqueness are not inductive. `KahnInv` adds `DegreesLeft` (a key's
  degree is the number of its blockers without a turn), `FreeAreOut` (the keys of
  degree 0 are those queued or sorted) and `EachOnce`. When the queue is empty, the
  keys that are not sorted each wait for a ticket that is not sorted: either one that
  is no key, which is a dependency off the sprint, or one of themselves, so that they
  are a set that contradicts `Acyclic`; and a set that contradicts `Acyclic` has no
  first member in the order.
* **Outbox** (`OutboxAssumption`, `NoCapsuleAssumption`, `MaxTornAssumption`,
  `BackoffAssumption`). All but its liveness:
  * `LedgerIsLowerBoundHolds`, by `BudgetInv`: at which places
    of `Flush` the ledger is known to be below the ceiling (from the gate to the
    charge) and behind the bill (from the push to the charge). `BillWithinBudgetHolds`, by
    `BillInv`: what the ledger lacks of the bill is the capsule on its way to it, which
    is there only below the ceiling, and one for each fault and lost answer.
  * `OutboxTypeCorrect`, `CursorCoversPostedHolds`, by `FileInv` and `FlushInv`. The
    cursor property is not inductive: a reader at the end of the file decodes a line
    whose newline is not there yet, posts it and passes it, and the line becomes
    readable only then. `FlushInv` therefore speaks of every capsule whose line has
    begun before the offset (or the cursor, or the line that is being pushed), and
    `FileInv` says that a capsule has one head in the file and what of the line under
    way is there.
  * `TornLineCostsOneHolds`, by `TornInv`: while the file ends inside a line that no
    write is at, one short write has not yet cost a capsule.
  * `QueueOrderedHolds`: under the mapping of `Queue`, finishing a line appends its
    capsule to the log, a push posts the next one or repeats one, everything else
    stutters. A capsule that is posted before its newline is there was posted after
    all readable ones (`EarlyPost`). The log is the file's readable capsules sorted by place; the lemmas
    `NthOfRank` and `NthAdded` say what adding a last one does to such a sorting.
* **CircuitBreaker** (`BackoffAssumption`). `OneProbeHolds`, by `ProbeInv`;
  `BackoffDeepensHolds`, by `HoldInv`: the hold time of a breaker that is not closed
  is `BackoffAfter` of its trips. For any number of callers.
* **QuotaDrain** (the outbox file's assumptions, `DrainAssumption`). `DrainInvHolds`: the
  argument of `CursorCoversPosted` for two backends, with what the first push gives the
  second.
* **DirLock** (`DirLockAssumption`). `DirLockTyping`, `DirLockExclusive` and
  `DirLockWorkIsDone`, for any number of processes and crashes. The inductive
  `LockInv` says that while nobody reclaimed on doubtful grounds, a process from its
  `mkdir` to its `rmdir` made the present directory, and one that removes a lock
  removes a dead process's, alone. `WorkInv` says, while nobody was killed, what is
  still to come: a lock that is there has a process inside it or about to remove it,
  or is the one found at the start, which no process passes by; and before the first
  success, without a lock, somebody is about to make one.
* **RepoSync** (`RepoAssumption`). `RepoTyping`, `EditsAreKept`, `SuccessIsTrue`,
  `RemoteGrows`, for any machines, hooks, edits, clashes and faults. `NoEditLost` is
  not inductive, since an abort empties the tree. The inductive `SyncInv` adds
  `RebaseClean`: in a rebase, what is staged was staged amid it, and what else is in the
  tree is risked or a new file, because git refuses to begin otherwise; and `MineKept`: what a hook
  committed outside a rebase is on its machine's branch or the remote from then on.
* **Signals** (`SignalsAssumption`). `SignalsTypeCorrect` and `ListingIsComplete`, for
  any page size. A listing ends when it has read as many as there are, and after
  additions it has read some twice, so that counting proves nothing by itself. The
  inductive `ListingsCover` says of a listing under way that all but its last page
  were full, and that every memory that was there at its beginning has been read or
  stands behind the pages read, where additions in front only push it further; the page
  with which the count is reached ends at the end of the list.
* **Supervisor** (`SupervisorAssumption`). `ServicesRunOnce` and `ReturnsClean`, for any
  services and goroutines: the inductive invariant ties the flag to the one Run
  that is inside and each live goroutine, the probe's too, to a Run that waits for it.
  `SupervisorTypeCorrect` and `DelayDoublesHolds`, by `DelayInv`: the last delay of a
  service is the `Backoff` of its restarts.
* **McpProxy** (`ProxyAssumption`). `ProxyTyping`, `ForwardsInOrder`, `HandsOver`,
  `RecordsWhatItForwards`, for any numbers of lines and failed writes and any room. The
  order and the log are inductive with the pump's `held` line accounted for by its place; the hand-over
  follows from what each kind of end of a pump says about its pipe. `LossInv` counts the
  records of the log that its file lacks: an unfinished line is one still to come.

`NaturalLemmas` proves what the two backoffs need: that a function defined by its value
at 0 and a step from n to n + 1 satisfies its equation (`RecursionExists`). It is done
for a fixed step and with the least-number principle in place of an induction
theorem, since the provers at hand instantiate no operator. `BackoffRecurs` of `OutboxProofs` and of
`SupervisorProofs` use it; what the delays are for every trip then follows.

Only model-checked is liveness, which is out of the prover's reach: `SearchEnds`,
`AdmitsAgain`, `QueueSpec` (the fairness of `DeliveryQueue`), `BothInTheEnd`,
`HalfRebaseHealed`, `EditsArrive`, `TasksAreSeen`, `CompletedAreRemoved`,
`ReturnedIsRestarted`, `CancelEndsRun`, `ProxyEnds`, `ServerLossIsNoticed`.

## Not modelled

* Sprints, `DeleteSprint` (no caller outside tests), `AssignTicket`, handoffs and
  agents: planned, below. Embeddings and search: numeric ranking.
* Simplified in modelled parts: a Mem0 reply that is a flat array, for which
  `ListSignals` takes its length as the total and so ends after the first page
  (`client.go:376-382`); the append inside `QuotaDrain`, which is one step (`Outbox` has
  the partial reads); an error amid the rows and the call without a sprint of
  `TopologicalSort`; a fast-forward of `PullRepo` on the detached HEAD of a stopped
  rebase. A `Run` of the supervisor without services ends by itself, and
  `EndsWholeWhenTold` excepts it.
* Within modelled parts: `Reader` and statistics (read-only), telemetry counters,
  durations of waits, read errors of local files, power failure, a PID used again,
  what the proxy's log records of a line, the stop hook's other subcommands and log
  rotation.
* The response cache, migration pool, outcome limiter, control plane and
  replication: planned where the plan names them; the others are small state
  machines behind one mutex.
* Everything the inventory lists under "The rest", and the file lock (the kernel's
  exclusion).

## Plan

Done, in this order: the board, dependencies, the outbox and its breaker, the
drainer, the directory lock, the stop hook's sync, the signals, the supervisor, the
MCP proxy. Next:

1. `AgentRegistry` with `sprint_distribute`, composed with `TicketBoard`'s claims:
   assignment from an outdated list. `Handoffs`: subscription by time against
   an abstract feed that delivers each handoff once or more.
2. `MigrationPool`, `MemoryCache`, `OutcomeLimiter`: producer and workers with
   cancellation; batches and failed flushes; marks before the emission.
3. `Replicate`: plan, backup, link with a crash between any two.
4. Proofs about each of these, as for the modules there are.

Runs are to stay few: a new module brings one passing run, and settled questions
are merged into the runs there are.
