---------------------------- MODULE TicketBoard ----------------------------
(***************************************************************************)
(* Tickets and claims of the sprint board: internal/platform/sprintboard   *)
(* (store.go, claiming.go) as driven by cmd/sprintboard-mcp.               *)
(*                                                                         *)
(* Every agent session runs its own sprintboard-mcp process; all of them   *)
(* share one SQLite file in WAL mode.  A server handles one tool call at a *)
(* time, but a call is several SQL statements, and statements of different *)
(* servers interleave.  ClaimTicket alone runs inside a transaction: it    *)
(* takes its snapshot with the SELECT and needs the write lock for the     *)
(* UPDATE, which SQLite refuses (SQLITE_BUSY_SNAPSHOT) when another        *)
(* process committed since the snapshot.  All other operations are         *)
(* auto-commit statements, one action each.                                *)
(***************************************************************************)
EXTENDS Naturals

CONSTANTS
  Servers,        \* sprintboard-mcp processes
  Agents,         \* agent ids a call may name
  Tickets,        \* ticket ids
  UpdateTargets,  \* the statuses ticket_update is called with
  None            \* NULL: no claimant, no ticket, no status

Statuses == {"backlog", "ready", "in_progress", "review", "done", "blocked",
             "ready_for_handoff"}
Absent == "absent"                      \* no row with this ticket id

ASSUME NoneAssumption == None \notin Agents \cup Tickets \cup Statuses
ASSUME TargetsAssumption == UpdateTargets \subseteq Statuses

VARIABLES
  status,     \* tickets.status, or Absent
  claimedBy,  \* tickets.claimed_by
  stale,      \* tickets whose claimed_at is older than the 30 min expiry
  lastRow,    \* latest ticket_transitions row of each ticket
  pc,         \* what each server is doing
  call,       \* arguments and reads of the call in progress
  outdated,   \* servers whose open snapshot is older than the last commit
  believes,   \* <<agent, ticket>>: told Success, has not completed the ticket
  revoked     \* beliefs the board took back without telling the agent

boardVars == <<status, claimedBy, stale, lastRow>>
serverVars == <<pc, call, outdated>>
agentVars == <<believes, revoked>>
vars == <<boardVars, serverVars, agentVars>>

-----------------------------------------------------------------------------

Row == [from : Statuses \cup {None}, to : Statuses \cup {None}]
NoRow == [from |-> None, to |-> None]

Call == [ticket : Tickets \cup {None}, agent : Agents \cup {None},
         from : Statuses \cup {None}, to : Statuses \cup {None}]
NoCall == [ticket |-> None, agent |-> None, from |-> None, to |-> None]

PC == {"down", "starting", "idle", "claim", "complete", "update", "record",
       "delete"}

TypeOK ==
  /\ status \in [Tickets -> Statuses \cup {Absent}]
  /\ claimedBy \in [Tickets -> Agents \cup {None}]
  /\ stale \subseteq Tickets
  /\ lastRow \in [Tickets -> Row]
  /\ pc \in [Servers -> PC]
  /\ call \in [Servers -> Call]
  /\ \A s \in Servers :
       /\ pc[s] \notin {"down", "starting", "idle"} => call[s].ticket \in Tickets
       /\ pc[s] \in {"claim", "complete"} => call[s].agent \in Agents
       /\ pc[s] \in {"update", "record"} => call[s].from \in Statuses
                                         /\ call[s].to \in Statuses
  /\ outdated \subseteq Servers
  /\ believes \subseteq Agents \X Tickets
  /\ revoked \subseteq Agents \X Tickets

Init ==
  /\ status = [t \in Tickets |-> Absent]
  /\ claimedBy = [t \in Tickets |-> None]
  /\ stale = {}
  /\ lastRow = [t \in Tickets |-> NoRow]
  /\ pc = [s \in Servers |-> "down"]
  /\ call = [s \in Servers |-> NoCall]
  /\ outdated = {}
  /\ believes = {}
  /\ revoked = {}

-----------------------------------------------------------------------------
(* A statement of server s changed the database: every other open snapshot *)
(* is now too old to be upgraded to a write.                               *)
Committed(s) == outdated' = {r \in Servers \ {s} : pc[r] = "claim"}

Begin(s, where, c) ==
  /\ pc[s] = "idle"
  /\ pc' = [pc EXCEPT ![s] = where]
  /\ call' = [call EXCEPT ![s] = c]

Return(s) ==
  /\ pc' = [pc EXCEPT ![s] = "idle"]
  /\ call' = [call EXCEPT ![s] = NoCall]

Exists(t) == status[t] # Absent

(* ticket_create: INSERT, refused by the primary key when the id exists;   *)
(* an empty status is filled in as backlog.                                *)
InitialStatus == "backlog"

CreateTicket(s, t) ==
  /\ pc[s] = "idle"
  /\ ~Exists(t)
  /\ status' = [status EXCEPT ![t] = InitialStatus]
  /\ Committed(s)
  /\ UNCHANGED <<claimedBy, stale, lastRow, pc, call, agentVars>>

(* task_claim, up to the SELECT.  A ticket claimed by somebody else is     *)
(* answered with a conflict, which changes nothing.                        *)
FreeUnlessInProgress(t, a) == claimedBy[t] \in {None, a} \/ status[t] # "in_progress"
FreeFor(t, a) == claimedBy[t] \in {None, a}

ClaimRead(s, t, a) ==
  /\ Exists(t)
  /\ FreeFor(t, a)
  /\ Begin(s, "claim", [NoCall EXCEPT !.ticket = t, !.agent = a])
  /\ UNCHANGED <<boardVars, outdated, agentVars>>

(* task_claim, UPDATE, INSERT and COMMIT: whatever the status was, the row *)
(* says the ticket came from ready.                                        *)
NoTransaction(s) == TRUE
SnapshotFresh(s) == s \notin outdated

ClaimCommit(s) ==
  LET t == call[s].ticket
      a == call[s].agent
  IN  /\ pc[s] = "claim"
      /\ SnapshotFresh(s)
      /\ claimedBy' = [claimedBy EXCEPT ![t] = a]
      /\ status' = [status EXCEPT ![t] = "in_progress"]
      /\ stale' = stale \ {t}
      /\ lastRow' = [lastRow EXCEPT ![t] = [from |-> "ready", to |-> "in_progress"]]
      /\ believes' = believes \cup {<<a, t>>}
      /\ revoked' = revoked \ {<<a, t>>}
      /\ Return(s)
      /\ Committed(s)

(* task_complete: UPDATE ... WHERE id = ? AND claimed_by = ?, then the     *)
(* INSERT in a statement of its own.  The claim stays on the ticket.       *)
CompleteTicket(s, t, a) ==
  /\ claimedBy[t] = a
  /\ Begin(s, "complete", [NoCall EXCEPT !.ticket = t, !.agent = a])
  /\ status' = [status EXCEPT ![t] = "done"]
  /\ Committed(s)
  /\ UNCHANGED <<claimedBy, stale, lastRow, agentVars>>

CompleteRow(s) ==
  LET t == call[s].ticket
  IN  /\ pc[s] = "complete"
      /\ lastRow' = [lastRow EXCEPT ![t] = [from |-> "in_progress", to |-> "done"]]
      /\ believes' = believes \ {<<call[s].agent, t>>}
      /\ Return(s)
      /\ Committed(s)
      /\ UNCHANGED <<status, claimedBy, stale, revoked>>

(* ticket_update: SELECT the old status; UPDATE; INSERT.  Neither the      *)
(* claim nor the number of rows the UPDATE touched is looked at.           *)
UpdateRead(s, t, to) ==
  /\ Exists(t)
  /\ Begin(s, "update", [NoCall EXCEPT !.ticket = t, !.from = status[t], !.to = to])
  /\ UNCHANGED <<boardVars, outdated, agentVars>>

UpdateWrite(s) ==
  LET t == call[s].ticket
  IN  /\ pc[s] = "update"
      /\ pc' = [pc EXCEPT ![s] = "record"]
      /\ IF Exists(t)
           THEN /\ status' = [status EXCEPT ![t] = call[s].to]
                /\ Committed(s)
           ELSE UNCHANGED <<status, outdated>>
      /\ UNCHANGED <<claimedBy, stale, lastRow, call, agentVars>>

UpdateRow(s) ==
  /\ pc[s] = "record"
  /\ lastRow' = [lastRow EXCEPT ![call[s].ticket] =
                    [from |-> call[s].from, to |-> call[s].to]]
  /\ Return(s)
  /\ Committed(s)
  /\ UNCHANGED <<status, claimedBy, stale, agentVars>>

(* DeleteTicket: the ticket first, its transitions in a later statement.   *)
DeleteTicket(s, t) ==
  /\ Exists(t)
  /\ Begin(s, "delete", [NoCall EXCEPT !.ticket = t])
  /\ status' = [status EXCEPT ![t] = Absent]
  /\ claimedBy' = [claimedBy EXCEPT ![t] = None]
  /\ stale' = stale \ {t}
  /\ revoked' = revoked \cup {b \in believes : b[2] = t}
  /\ Committed(s)
  /\ UNCHANGED <<lastRow, believes>>

DeleteRows(s) ==
  /\ pc[s] = "delete"
  /\ lastRow' = [lastRow EXCEPT ![call[s].ticket] = NoRow]
  /\ Return(s)
  /\ Committed(s)
  /\ UNCHANGED <<status, claimedBy, stale, agentVars>>

-----------------------------------------------------------------------------
(* Start-up: ReleaseStaleClaims(30 min), then ReleaseNullClaims.           *)
StaleClaimsOfAnyStatus == {t \in stale : claimedBy[t] # None}
StaleClaims ==
  {t \in stale : claimedBy[t] # None /\ status[t] = "in_progress"}

ReleaseStaleClaims(s) ==
  /\ pc[s] = "down"
  /\ pc' = [pc EXCEPT ![s] = "starting"]
  /\ claimedBy' = [t \in Tickets |-> IF t \in StaleClaims THEN None ELSE claimedBy[t]]
  /\ status' = [t \in Tickets |-> IF t \in StaleClaims THEN "ready" ELSE status[t]]
  /\ stale' = stale \ StaleClaims
  /\ revoked' = revoked \cup {b \in believes : b[2] \in StaleClaims}
  /\ IF StaleClaims # {} THEN Committed(s) ELSE UNCHANGED outdated
  /\ UNCHANGED <<lastRow, call, believes>>

NullClaims == {t \in Tickets : status[t] = "in_progress" /\ claimedBy[t] = None}

ReleaseNullClaims(s) ==
  /\ pc[s] = "starting"
  /\ pc' = [pc EXCEPT ![s] = "idle"]
  /\ status' = [t \in Tickets |-> IF t \in NullClaims THEN "backlog" ELSE status[t]]
  /\ IF NullClaims # {} THEN Committed(s) ELSE UNCHANGED outdated
  /\ UNCHANGED <<claimedBy, stale, lastRow, call, agentVars>>

(* Either clean-up may fail (database locked for 5 s); main logs and goes  *)
(* on.                                                                     *)
CleanupFails(s) ==
  /\ \/ pc[s] = "down" /\ pc' = [pc EXCEPT ![s] = "starting"]
     \/ pc[s] = "starting" /\ pc' = [pc EXCEPT ![s] = "idle"]
  /\ UNCHANGED <<boardVars, call, outdated, agentVars>>

(* A statement fails: the call returns the error, a transaction is rolled  *)
(* back, what earlier statements committed stays.                          *)
StatementFails(s) ==
  /\ pc[s] \notin {"down", "starting", "idle"}
  /\ Return(s)
  /\ outdated' = outdated \ {s}
  /\ UNCHANGED <<boardVars, agentVars>>

(* The session ends or the process is killed, between any two statements.  *)
Crash(s) ==
  /\ pc[s] # "down"
  /\ pc' = [pc EXCEPT ![s] = "down"]
  /\ call' = [call EXCEPT ![s] = NoCall]
  /\ outdated' = outdated \ {s}
  /\ UNCHANGED <<boardVars, agentVars>>

(* 30 minutes have passed since claimed_at; no heartbeat renews it.        *)
Expire(t) ==
  /\ claimedBy[t] # None
  /\ t \notin stale
  /\ stale' = stale \cup {t}
  /\ UNCHANGED <<status, claimedBy, lastRow, serverVars, agentVars>>

-----------------------------------------------------------------------------

Tool(s) ==
  \/ \E t \in Tickets : CreateTicket(s, t) \/ DeleteTicket(s, t)
  \/ \E t \in Tickets, a \in Agents : ClaimRead(s, t, a) \/ CompleteTicket(s, t, a)
  \/ \E t \in Tickets, to \in UpdateTargets : UpdateRead(s, t, to)
  \/ ClaimCommit(s)
  \/ CompleteRow(s)
  \/ UpdateWrite(s)
  \/ UpdateRow(s)
  \/ DeleteRows(s)
  \/ StatementFails(s)

Process(s) ==
  \/ ReleaseStaleClaims(s)
  \/ ReleaseNullClaims(s)
  \/ CleanupFails(s)
  \/ Crash(s)

Next ==
  \/ \E s \in Servers : Tool(s) \/ Process(s)
  \/ \E t \in Tickets : Expire(t)

Spec == Init /\ [][Next]_vars

-----------------------------------------------------------------------------
(* An agent that was told its claim succeeded, and whose claim was not     *)
(* expired or deleted since, is the ticket's claimant in the database, no  *)
(* matter how the statements of other servers fell between its reads and   *)
(* writes (ClaimTicket).                                                   *)
HolderIsClaimant ==
  \A a \in Agents, t \in Tickets :
    <<a, t>> \in believes \ revoked => claimedBy[t] = a

(* A claim leaves its agent only by deletion of the ticket or by the       *)
(* start-up release of a claim that is stale and still in progress: no     *)
(* claim, completion or update of another server takes it away.            *)
ClaimNeverStolen ==
  [][\A t \in Tickets :
       claimedBy[t] # None /\ claimedBy'[t] # claimedBy[t] =>
         /\ claimedBy'[t] = None
         /\ status'[t] = Absent \/ t \in StaleClaims]_vars

(* Finished work is not reopened behind its claimant's back: a done ticket *)
(* changes status only through ticket_update, deletion, or a claim by an   *)
(* agent that is its claimant (any agent when it has none).  The start-up  *)
(* clean-ups never touch it.                                               *)
DoneReopenedOnlyExplicitly ==
  [][\A t \in Tickets :
       status[t] = "done" /\ status'[t] # "done" =>
         \/ status'[t] = Absent
         \/ \E s \in Servers :
              /\ call[s].ticket = t
              /\ \/ pc[s] = "update" /\ call[s].to = status'[t]
                 \/ pc[s] = "claim" /\ claimedBy[t] \in {None, call[s].agent}]_vars
=============================================================================
