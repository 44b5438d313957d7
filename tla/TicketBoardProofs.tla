------------------------- MODULE TicketBoardProofs -------------------------
(***************************************************************************)
(* Proofs about TicketBoard, for any sets of servers, agents and tickets.  *)
(* HolderIsClaimant is not inductive: ClaimCommit overwrites claimed_by    *)
(* without looking, and is right only because SQLite refuses an upgrade    *)
(* from an outdated snapshot.  SnapshotSound is what that refusal buys.    *)
(***************************************************************************)
EXTENDS TicketBoard, TLAPS

(* While the snapshot of an open claim is current, what ClaimTicket read   *)
(* there still holds: the ticket is free for the claiming agent.           *)
SnapshotSound ==
  \A s \in Servers :
    pc[s] = "claim" /\ s \notin outdated => FreeFor(call[s].ticket, call[s].agent)

BoardInv == TypeOK /\ HolderIsClaimant /\ SnapshotSound

-----------------------------------------------------------------------------

LEMMA InitTyped == Init => TypeOK
  BY DEF Init, TypeOK, Row, NoRow, Call, NoCall, PC

LEMMA ReturnTyped ==
  ASSUME TypeOK, NEW s \in Servers, Return(s)
  PROVE  /\ pc' \in [Servers -> PC]
         /\ call' \in [Servers -> Call]
         /\ \A r \in Servers :
              /\ pc'[r] \notin {"down", "starting", "idle"} => call'[r].ticket \in Tickets
              /\ pc'[r] \in {"claim", "complete"} => call'[r].agent \in Agents
              /\ pc'[r] \in {"update", "record"} => call'[r].from \in Statuses
                                                 /\ call'[r].to \in Statuses
  BY DEF TypeOK, Return, PC, Call, NoCall

LEMMA CommittedTyped ==
  ASSUME NEW s \in Servers, Committed(s)
  PROVE  outdated' \subseteq Servers
  BY DEF Committed

LEMMA NextTyped == TypeOK /\ [Next]_vars => TypeOK'
<1> SUFFICES ASSUME TypeOK, [Next]_vars PROVE TypeOK'
  OBVIOUS
<1> USE NoneAssumption, TargetsAssumption
<1>1. ASSUME NEW s \in Servers, NEW t \in Tickets, CreateTicket(s, t) PROVE TypeOK'
  BY <1>1, CommittedTyped DEF TypeOK, CreateTicket, InitialStatus, Statuses, agentVars
<1>2. ASSUME NEW s \in Servers, NEW t \in Tickets, DeleteTicket(s, t) PROVE TypeOK'
  BY <1>2, CommittedTyped DEF TypeOK, DeleteTicket, Begin, Call, NoCall, PC
<1>3. ASSUME NEW s \in Servers, NEW t \in Tickets, NEW a \in Agents, ClaimRead(s, t, a)
      PROVE TypeOK'
  BY <1>3 DEF TypeOK, ClaimRead, Begin, Call, NoCall, PC, boardVars, agentVars
<1>4. ASSUME NEW s \in Servers, NEW t \in Tickets, NEW a \in Agents, CompleteTicket(s, t, a)
      PROVE TypeOK'
  BY <1>4, CommittedTyped
     DEF TypeOK, CompleteTicket, Begin, Call, NoCall, PC, Statuses, agentVars
<1>5. ASSUME NEW s \in Servers, NEW t \in Tickets, NEW to \in UpdateTargets,
             UpdateRead(s, t, to)
      PROVE TypeOK'
  BY <1>5 DEF TypeOK, UpdateRead, Exists, Begin, Call, NoCall, PC, boardVars, agentVars
<1>6. ASSUME NEW s \in Servers, ClaimCommit(s) PROVE TypeOK'
  <2>1. call[s].ticket \in Tickets /\ call[s].agent \in Agents
    BY <1>6 DEF TypeOK, ClaimCommit
  <2>2. /\ claimedBy' \in [Tickets -> Agents \cup {None}]
        /\ status' \in [Tickets -> Statuses \cup {Absent}]
        /\ lastRow' \in [Tickets -> Row]
        /\ stale' \subseteq Tickets
        /\ believes' \subseteq Agents \X Tickets
        /\ revoked' \subseteq Agents \X Tickets
    BY <1>6, <2>1 DEF TypeOK, ClaimCommit, Row, Statuses
  <2>3. Return(s) /\ Committed(s)
    BY <1>6 DEF ClaimCommit
  <2> QED
    BY <2>2, <2>3, ReturnTyped, CommittedTyped DEF TypeOK
<1>7. ASSUME NEW s \in Servers, CompleteRow(s) PROVE TypeOK'
  BY <1>7, ReturnTyped, CommittedTyped DEF TypeOK, CompleteRow, Row, Statuses
<1>8. ASSUME NEW s \in Servers, UpdateWrite(s) PROVE TypeOK'
  <2>1. call[s].ticket \in Tickets /\ call[s].to \in Statuses /\ call[s].from \in Statuses
    BY <1>8 DEF TypeOK, UpdateWrite
  <2>2. status' \in [Tickets -> Statuses \cup {Absent}] /\ outdated' \subseteq Servers
    BY <1>8, <2>1, CommittedTyped DEF TypeOK, UpdateWrite
  <2> QED
    BY <1>8, <2>1, <2>2 DEF TypeOK, UpdateWrite, PC, agentVars
<1>9. ASSUME NEW s \in Servers, UpdateRow(s) PROVE TypeOK'
  BY <1>9, ReturnTyped, CommittedTyped DEF TypeOK, UpdateRow, Row, agentVars
<1>10. ASSUME NEW s \in Servers, DeleteRows(s) PROVE TypeOK'
  BY <1>10, ReturnTyped, CommittedTyped DEF TypeOK, DeleteRows, Row, NoRow, agentVars
<1>11. ASSUME NEW s \in Servers, StatementFails(s) PROVE TypeOK'
  BY <1>11, ReturnTyped DEF TypeOK, StatementFails, boardVars, agentVars
<1>12. ASSUME NEW s \in Servers, ReleaseStaleClaims(s) PROVE TypeOK'
  <2>1. /\ claimedBy' \in [Tickets -> Agents \cup {None}]
        /\ status' \in [Tickets -> Statuses \cup {Absent}]
        /\ stale' \subseteq Tickets
        /\ revoked' \subseteq Agents \X Tickets
        /\ outdated' \subseteq Servers
    BY <1>12, CommittedTyped DEF TypeOK, ReleaseStaleClaims, Statuses
  <2> QED
    BY <1>12, <2>1 DEF TypeOK, ReleaseStaleClaims, PC
<1>13. ASSUME NEW s \in Servers, ReleaseNullClaims(s) PROVE TypeOK'
  <2>1. status' \in [Tickets -> Statuses \cup {Absent}] /\ outdated' \subseteq Servers
    BY <1>13, CommittedTyped DEF TypeOK, ReleaseNullClaims, Statuses
  <2> QED
    BY <1>13, <2>1 DEF TypeOK, ReleaseNullClaims, PC, agentVars
<1>14. ASSUME NEW s \in Servers, CleanupFails(s) PROVE TypeOK'
  BY <1>14 DEF TypeOK, CleanupFails, PC, boardVars, agentVars
<1>15. ASSUME NEW s \in Servers, Crash(s) PROVE TypeOK'
  BY <1>15 DEF TypeOK, Crash, PC, Call, NoCall, boardVars, agentVars
<1>16. ASSUME NEW t \in Tickets, Expire(t) PROVE TypeOK'
  BY <1>16 DEF TypeOK, Expire, serverVars, agentVars
<1>17. CASE UNCHANGED vars
  BY <1>17 DEF TypeOK, vars, boardVars, serverVars, agentVars
<1> QED
  BY <1>1, <1>2, <1>3, <1>4, <1>5, <1>6, <1>7, <1>8, <1>9, <1>10, <1>11, <1>12,
     <1>13, <1>14, <1>15, <1>16, <1>17 DEF Next, Tool, Process

(* TicketBoard is type-correct: in particular a call past its first        *)
(* statement always carries the ticket, agent and statuses it needs.       *)
THEOREM Typing == Spec => []TypeOK
  BY InitTyped, NextTyped, PTL DEF Spec

-----------------------------------------------------------------------------

LEMMA InitSound == Init => HolderIsClaimant /\ SnapshotSound
  BY DEF Init, HolderIsClaimant, SnapshotSound

(* Steps that leave claims and beliefs alone cannot disturb the holders.   *)
LEMMA HolderKept ==
  ASSUME HolderIsClaimant, UNCHANGED <<claimedBy, agentVars>>
  PROVE  HolderIsClaimant'
  BY DEF HolderIsClaimant, agentVars

(* Nor can a step that leaves the claims alone and opens no claim make a   *)
(* snapshot unsound: open calls keep their arguments or are closed.        *)
LEMMA SnapshotKept ==
  ASSUME SnapshotSound, UNCHANGED claimedBy,
         \A r \in Servers :
           pc'[r] = "claim" /\ r \notin outdated' =>
             pc[r] = "claim" /\ r \notin outdated /\ call'[r] = call[r]
  PROVE  SnapshotSound'
  BY DEF SnapshotSound, FreeFor

(* After a commit no other snapshot is current.                            *)
LEMMA SnapshotAfterCommit ==
  ASSUME NEW s \in Servers, Committed(s), pc'[s] # "claim",
         \A r \in Servers \ {s} : pc'[r] = pc[r]
  PROVE  SnapshotSound'
  BY DEF SnapshotSound, Committed

LEMMA NextSound == BoardInv /\ [Next]_vars => HolderIsClaimant' /\ SnapshotSound'
<1> SUFFICES ASSUME BoardInv, [Next]_vars PROVE HolderIsClaimant' /\ SnapshotSound'
  OBVIOUS
<1> USE NoneAssumption
<1>0. TypeOK /\ HolderIsClaimant /\ SnapshotSound
  BY DEF BoardInv
<1>1. ASSUME NEW s \in Servers, NEW t \in Tickets, CreateTicket(s, t)
      PROVE HolderIsClaimant' /\ SnapshotSound'
  BY <1>0, <1>1, HolderKept, SnapshotAfterCommit DEF CreateTicket
<1>2. ASSUME NEW s \in Servers, NEW t \in Tickets, DeleteTicket(s, t)
      PROVE HolderIsClaimant' /\ SnapshotSound'
  <2>1. HolderIsClaimant'
    BY <1>0, <1>2 DEF DeleteTicket, HolderIsClaimant, TypeOK
  <2>2. SnapshotSound'
    BY <1>0, <1>2, SnapshotAfterCommit DEF DeleteTicket, Begin, TypeOK
  <2> QED
    BY <2>1, <2>2
<1>3. ASSUME NEW s \in Servers, NEW t \in Tickets, NEW a \in Agents, ClaimRead(s, t, a)
      PROVE HolderIsClaimant' /\ SnapshotSound'
  <2>1. HolderIsClaimant'
    BY <1>0, <1>3, HolderKept DEF ClaimRead, boardVars
  <2>2. SnapshotSound'
    BY <1>0, <1>3 DEF ClaimRead, Begin, NoCall, SnapshotSound, FreeFor, TypeOK, Call, boardVars
  <2> QED
    BY <2>1, <2>2
<1>4. ASSUME NEW s \in Servers, NEW t \in Tickets, NEW a \in Agents, CompleteTicket(s, t, a)
      PROVE HolderIsClaimant' /\ SnapshotSound'
  BY <1>0, <1>4, HolderKept, SnapshotAfterCommit DEF CompleteTicket, Begin, TypeOK
<1>5. ASSUME NEW s \in Servers, NEW t \in Tickets, NEW to \in UpdateTargets,
             UpdateRead(s, t, to)
      PROVE HolderIsClaimant' /\ SnapshotSound'
  BY <1>0, <1>5, HolderKept, SnapshotKept DEF UpdateRead, Begin, TypeOK, boardVars
<1>6. ASSUME NEW s \in Servers, ClaimCommit(s) PROVE HolderIsClaimant' /\ SnapshotSound'
  <2> DEFINE t == call[s].ticket
             a == call[s].agent
  <2>1. t \in Tickets /\ a \in Agents /\ claimedBy[t] \in {None, a}
    BY <1>0, <1>6 DEF ClaimCommit, SnapshotFresh, SnapshotSound, FreeFor, TypeOK
  <2>2. HolderIsClaimant'
    <3> SUFFICES ASSUME NEW b \in Agents, NEW u \in Tickets,
                        <<b, u>> \in believes' \ revoked'
                 PROVE claimedBy'[u] = b
      BY DEF HolderIsClaimant
    <3>1. CASE u = t
      <4>1. CASE b = a
        BY <1>0, <1>6, <2>1, <3>1, <4>1 DEF ClaimCommit, TypeOK
      <4>2. CASE b # a
        <5>1. <<b, u>> \in believes \ revoked
          BY <1>6, <3>1, <4>2 DEF ClaimCommit
        <5> QED
          BY <1>0, <2>1, <3>1, <4>2, <5>1 DEF HolderIsClaimant
      <4> QED
        BY <4>1, <4>2
    <3>2. CASE u # t
      <4>1. <<b, u>> \in believes \ revoked
        BY <1>6, <3>2 DEF ClaimCommit
      <4> QED
        BY <1>0, <1>6, <2>1, <3>2, <4>1 DEF ClaimCommit, HolderIsClaimant, TypeOK
    <3> QED
      BY <3>1, <3>2
  <2>3. SnapshotSound'
    BY <1>0, <1>6, SnapshotAfterCommit DEF ClaimCommit, Return, TypeOK
  <2> QED
    BY <2>2, <2>3
<1>7. ASSUME NEW s \in Servers, CompleteRow(s) PROVE HolderIsClaimant' /\ SnapshotSound'
  <2>1. HolderIsClaimant'
    BY <1>0, <1>7 DEF CompleteRow, HolderIsClaimant
  <2>2. SnapshotSound'
    BY <1>0, <1>7, SnapshotAfterCommit DEF CompleteRow, Return, TypeOK
  <2> QED
    BY <2>1, <2>2
<1>8. ASSUME NEW s \in Servers, UpdateWrite(s) PROVE HolderIsClaimant' /\ SnapshotSound'
  <2>1. HolderIsClaimant'
    BY <1>0, <1>8, HolderKept DEF UpdateWrite
  <2>2. CASE Committed(s)
    BY <1>0, <1>8, <2>1, <2>2, SnapshotAfterCommit DEF UpdateWrite, TypeOK
  <2>3. CASE UNCHANGED outdated
    BY <1>0, <1>8, <2>1, <2>3, SnapshotKept DEF UpdateWrite, TypeOK
  <2> QED
    BY <1>8, <2>2, <2>3 DEF UpdateWrite
<1>9. ASSUME NEW s \in Servers, UpdateRow(s) PROVE HolderIsClaimant' /\ SnapshotSound'
  BY <1>0, <1>9, HolderKept, SnapshotAfterCommit DEF UpdateRow, Return, TypeOK
<1>10. ASSUME NEW s \in Servers, DeleteRows(s) PROVE HolderIsClaimant' /\ SnapshotSound'
  BY <1>0, <1>10, HolderKept, SnapshotAfterCommit DEF DeleteRows, Return, TypeOK
<1>11. ASSUME NEW s \in Servers, StatementFails(s) PROVE HolderIsClaimant' /\ SnapshotSound'
  BY <1>0, <1>11, HolderKept, SnapshotKept DEF StatementFails, Return, TypeOK, boardVars
<1>12. ASSUME NEW s \in Servers, ReleaseStaleClaims(s)
       PROVE HolderIsClaimant' /\ SnapshotSound'
  <2>1. HolderIsClaimant'
    BY <1>0, <1>12 DEF ReleaseStaleClaims, HolderIsClaimant
  <2>2. CASE StaleClaims # {}
    <3>1. Committed(s)
      BY <1>12, <2>2 DEF ReleaseStaleClaims
    <3> QED
      BY <1>0, <1>12, <2>1, <3>1, SnapshotAfterCommit DEF ReleaseStaleClaims, TypeOK
  <2>3. CASE StaleClaims = {}
    <3>1. UNCHANGED <<claimedBy, outdated>>
      BY <1>0, <1>12, <2>3 DEF ReleaseStaleClaims, TypeOK
    <3> QED
      BY <1>0, <1>12, <2>1, <3>1, SnapshotKept DEF ReleaseStaleClaims, TypeOK
  <2> QED
    BY <2>2, <2>3
<1>13. ASSUME NEW s \in Servers, ReleaseNullClaims(s)
       PROVE HolderIsClaimant' /\ SnapshotSound'
  <2>1. HolderIsClaimant'
    BY <1>0, <1>13, HolderKept DEF ReleaseNullClaims
  <2>2. CASE Committed(s)
    BY <1>0, <1>13, <2>1, <2>2, SnapshotAfterCommit DEF ReleaseNullClaims, TypeOK
  <2>3. CASE UNCHANGED outdated
    BY <1>0, <1>13, <2>1, <2>3, SnapshotKept DEF ReleaseNullClaims, TypeOK
  <2> QED
    BY <1>13, <2>2, <2>3 DEF ReleaseNullClaims
<1>14. ASSUME NEW s \in Servers, CleanupFails(s) PROVE HolderIsClaimant' /\ SnapshotSound'
  BY <1>0, <1>14, HolderKept, SnapshotKept DEF CleanupFails, TypeOK, boardVars
<1>15. ASSUME NEW s \in Servers, Crash(s) PROVE HolderIsClaimant' /\ SnapshotSound'
  BY <1>0, <1>15, HolderKept, SnapshotKept DEF Crash, TypeOK, boardVars
<1>16. ASSUME NEW t \in Tickets, Expire(t) PROVE HolderIsClaimant' /\ SnapshotSound'
  BY <1>0, <1>16, HolderKept, SnapshotKept DEF Expire, serverVars
<1>17. CASE UNCHANGED vars
  BY <1>0, <1>17, HolderKept, SnapshotKept DEF vars, boardVars, serverVars
<1> QED
  BY <1>1, <1>2, <1>3, <1>4, <1>5, <1>6, <1>7, <1>8, <1>9, <1>10, <1>11, <1>12,
     <1>13, <1>14, <1>15, <1>16, <1>17 DEF Next, Tool, Process

LEMMA Invariance == Spec => []BoardInv
<1>1. Init => BoardInv
  BY InitTyped, InitSound DEF BoardInv
<1>2. BoardInv /\ [Next]_vars => BoardInv'
  BY NextTyped, NextSound DEF BoardInv
<1> QED
  BY <1>1, <1>2, PTL DEF Spec

(* Whatever the interleaving of the servers' statements, crashes, failed   *)
(* statements and clean-ups: an agent told that its claim succeeded is the *)
(* claimant until the claim is expired or the ticket deleted.              *)
THEOREM HolderIsClaimantHolds == Spec => []HolderIsClaimant
<1>1. BoardInv => HolderIsClaimant
  BY DEF BoardInv
<1> QED
  BY <1>1, Invariance, PTL

-----------------------------------------------------------------------------

(* Every step keeps a claim or takes it away in one of the two ways the    *)
(* property allows.                                                        *)
LEMMA StepKeepsClaims ==
  ASSUME BoardInv, [Next]_vars, NEW t \in Tickets,
         claimedBy[t] # None, claimedBy'[t] # claimedBy[t]
  PROVE  claimedBy'[t] = None /\ (status'[t] = Absent \/ t \in StaleClaims)
<1> USE DEF BoardInv
<1>1. CASE UNCHANGED claimedBy
  BY <1>1
<1>2. ASSUME NEW s \in Servers, NEW u \in Tickets, DeleteTicket(s, u)
      PROVE claimedBy'[t] = None /\ (status'[t] = Absent \/ t \in StaleClaims)
  BY <1>2 DEF DeleteTicket, TypeOK
<1>3. ASSUME NEW s \in Servers, ClaimCommit(s)
      PROVE FALSE
  <2>1. claimedBy[call[s].ticket] \in {None, call[s].agent}
    BY <1>3 DEF ClaimCommit, SnapshotFresh, SnapshotSound, FreeFor
  <2> QED
    BY <1>3, <2>1 DEF ClaimCommit, TypeOK
<1>4. ASSUME NEW s \in Servers, ReleaseStaleClaims(s)
      PROVE claimedBy'[t] = None /\ (status'[t] = Absent \/ t \in StaleClaims)
  BY <1>4 DEF ReleaseStaleClaims
<1>5. \/ UNCHANGED claimedBy
      \/ \E s \in Servers : \/ ClaimCommit(s)
                            \/ ReleaseStaleClaims(s)
                            \/ \E u \in Tickets : DeleteTicket(s, u)
  BY DEF Next, Tool, Process, CreateTicket, ClaimRead, CompleteTicket, UpdateRead,
         CompleteRow, UpdateWrite, UpdateRow, DeleteRows, StatementFails,
         ReleaseNullClaims, CleanupFails, Crash, Expire, vars, boardVars
<1> QED
  BY <1>1, <1>2, <1>3, <1>4, <1>5

(* No claim, completion or update ever takes a claim from its agent.       *)
THEOREM ClaimNeverStolenHolds == Spec => ClaimNeverStolen
<1>1. BoardInv /\ [Next]_vars =>
        [\A t \in Tickets :
           claimedBy[t] # None /\ claimedBy'[t] # claimedBy[t] =>
             /\ claimedBy'[t] = None
             /\ status'[t] = Absent \/ t \in StaleClaims]_vars
  BY StepKeepsClaims
<1> QED
  BY <1>1, Invariance, PTL DEF Spec, ClaimNeverStolen

-----------------------------------------------------------------------------

(* A step that takes a ticket out of done is one of the steps the property *)
(* allows.  A claim that does it holds a current snapshot, by which the    *)
(* ticket was free for the claiming agent; the clean-ups touch tickets in  *)
(* progress only.                                                          *)
LEMMA StepKeepsDone ==
  ASSUME BoardInv, [Next]_vars, NEW t \in Tickets,
         status[t] = "done", status'[t] # "done"
  PROVE  \/ status'[t] = Absent
         \/ \E s \in Servers :
              /\ call[s].ticket = t
              /\ \/ pc[s] = "update" /\ call[s].to = status'[t]
                 \/ pc[s] = "claim" /\ claimedBy[t] \in {None, call[s].agent}
<1> DEFINE Allowed ==
      \/ status'[t] = Absent
      \/ \E s \in Servers :
           /\ call[s].ticket = t
           /\ \/ pc[s] = "update" /\ call[s].to = status'[t]
              \/ pc[s] = "claim" /\ claimedBy[t] \in {None, call[s].agent}
<1>0. /\ status \in [Tickets -> Statuses \cup {Absent}]
      /\ \A s \in Servers : pc[s] \in {"claim", "update"} => call[s].ticket \in Tickets
  BY DEF BoardInv, TypeOK
<1>1. ASSUME NEW s \in Servers, NEW u \in Tickets, CreateTicket(s, u) PROVE Allowed
  BY <1>0, <1>1 DEF CreateTicket, Exists, Absent
<1>2. ASSUME NEW s \in Servers, NEW u \in Tickets, DeleteTicket(s, u) PROVE Allowed
  BY <1>0, <1>2 DEF DeleteTicket
<1>3. ASSUME NEW s \in Servers, NEW u \in Tickets, NEW a \in Agents, CompleteTicket(s, u, a)
      PROVE FALSE
  BY <1>0, <1>3 DEF CompleteTicket
<1>4. ASSUME NEW s \in Servers, ClaimCommit(s) PROVE Allowed
  <2>1. pc[s] = "claim" /\ FreeFor(call[s].ticket, call[s].agent)
    BY <1>4 DEF ClaimCommit, SnapshotFresh, BoardInv, SnapshotSound
  <2>2. call[s].ticket = t
    BY <1>0, <1>4 DEF ClaimCommit
  <2> QED
    BY <2>1, <2>2 DEF FreeFor
<1>5. ASSUME NEW s \in Servers, UpdateWrite(s) PROVE Allowed
  <2>1. pc[s] = "update" /\ call[s].ticket = t /\ status'[t] = call[s].to
    BY <1>0, <1>5 DEF UpdateWrite
  <2> QED
    BY <2>1
<1>6. ASSUME NEW s \in Servers, ReleaseStaleClaims(s) PROVE FALSE
  BY <1>6 DEF ReleaseStaleClaims, StaleClaims
<1>7. ASSUME NEW s \in Servers, ReleaseNullClaims(s) PROVE FALSE
  BY <1>7 DEF ReleaseNullClaims, NullClaims
<1>8. \/ UNCHANGED status
      \/ \E s \in Servers :
           \/ ClaimCommit(s) \/ UpdateWrite(s)
           \/ ReleaseStaleClaims(s) \/ ReleaseNullClaims(s)
           \/ \E u \in Tickets : CreateTicket(s, u) \/ DeleteTicket(s, u)
           \/ \E u \in Tickets, a \in Agents : CompleteTicket(s, u, a)
  BY DEF Next, Tool, Process, ClaimRead, UpdateRead, CompleteRow, UpdateRow, DeleteRows,
         StatementFails, CleanupFails, Crash, Expire, vars, boardVars
<1> HIDE DEF Allowed
<1>9. Allowed
  BY <1>1, <1>2, <1>3, <1>4, <1>5, <1>6, <1>7, <1>8
<1> QED
  BY <1>9 DEF Allowed

(* A done ticket is reopened by ticket_update, deletion or a claim of its  *)
(* own claimant only, whatever other servers do between a claim's read and *)
(* its commit.                                                             *)
THEOREM DoneReopenedOnlyExplicitlyHolds == Spec => DoneReopenedOnlyExplicitly
<1>1. BoardInv /\ [Next]_vars =>
        [\A t \in Tickets :
           status[t] = "done" /\ status'[t] # "done" =>
             \/ status'[t] = Absent
             \/ \E s \in Servers :
                  /\ call[s].ticket = t
                  /\ \/ pc[s] = "update" /\ call[s].to = status'[t]
                     \/ pc[s] = "claim" /\ claimedBy[t] \in {None, call[s].agent}]_vars
  BY StepKeepsDone
<1> QED
  BY <1>1, Invariance, PTL DEF Spec, DoneReopenedOnlyExplicitly
=============================================================================
