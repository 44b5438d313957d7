------------------------------ MODULE RepoSync ------------------------------
(***************************************************************************)
(* How the stop hook keeps one git repository of shared memories on        *)
(* several machines in step (cli/hook_housekeeping.go: syncRepo, pullRepo, *)
(* safeRebase, pushWithRetry).  Each git command is a step; git itself is  *)
(* external and modelled by what these commands promise.                   *)
(*                                                                         *)
(* A commit stands for the edits it records, and since nothing here merges *)
(* or forces, a branch for the set of edits its commits record: main may   *)
(* be pushed when it contains all that the remote has.  Agents' sessions   *)
(* edit the working tree at any time, also in the middle of a sync.        *)
(* A hook is alone in its repository as long as DirLock keeps others out;  *)
(* that a second one gets in, as DirLock shows it can, is one of the       *)
(* faults here.                                                            *)
(***************************************************************************)
EXTENDS FiniteSets, Naturals

CONSTANTS
  Machines,
  Hooks,         \* hook processes; one that ended stands for the next as well
  MachineOf,     \* the machine each runs on
  Edits,
  MayEdit,       \* the machines where each may be made
  NewFiles,      \* those in files that git does not track until they are added
  Clash,         \* pairs of edits that git cannot rebase over one another
  MaxFaults      \* bound on failed git commands, lost answers, killed hooks, and
                 \* starts beside a hook that is at work

ASSUME RepoAssumption ==
  /\ MachineOf \in [Hooks -> Machines]
  /\ MayEdit \in [Edits -> SUBSET Machines]
  /\ NewFiles \subseteq Edits
  /\ Clash \subseteq Edits \X Edits
  /\ MaxFaults \in Nat

MaxRetries == 3

VARIABLES
  remote,        \* the edits on the remote's main
  branch,        \* the edits on each machine's main
  tree,          \* uncommitted edits in each working tree
  staged,        \* those of them that git add has seen
  rebasing,      \* the machines whose repository is in the middle of a rebase
  detached,      \* and the edits under their detached HEAD
  pc, attempt,   \* where each hook is; 0 before the first push
  faults,
  made,          \* history: the edits made so far
  risked,        \* history: those made, or seen by git add, amid a rebase
  mine           \* history: what each hook's commit recorded

repos == <<remote, branch, tree, staged, rebasing, detached>>
vars == <<repos, pc, attempt, faults, made, risked, mine>>

Working == {"changes", "add", "commit", "rebase", "status", "abort", "push",
            "report_ok", "report_failed", "ff"}

TypeOK ==
  /\ remote \subseteq made
  /\ branch \in [Machines -> SUBSET made] /\ tree \in [Machines -> SUBSET made]
  /\ staged \in [Machines -> SUBSET made]
  /\ \A m \in Machines : staged[m] \subseteq tree[m]
  /\ rebasing \subseteq Machines
  /\ detached \in [Machines -> SUBSET made]
  /\ \A m \in Machines \ rebasing : detached[m] = {}
  /\ pc \in [Hooks -> Working \cup {"idle"}]
  /\ attempt \in [Hooks -> 0..MaxRetries]
  /\ \A h \in Hooks : attempt[h] = MaxRetries => pc[h] \in {"push", "report_ok", "report_failed"}
  /\ faults \in 0..MaxFaults
  /\ made \subseteq Edits /\ risked \subseteq made
  /\ mine \in [Hooks -> SUBSET made]

Init ==
  /\ remote = {}
  /\ branch = [m \in Machines |-> {}]
  /\ tree = [m \in Machines |-> {}]
  /\ staged = [m \in Machines |-> {}]
  /\ rebasing = {}
  /\ detached = [m \in Machines |-> {}]
  /\ pc = [h \in Hooks |-> "idle"]
  /\ attempt = [h \in Hooks |-> 0]
  /\ faults = 0
  /\ made = {} /\ risked = {}
  /\ mine = [h \in Hooks |-> {}]

Fault == faults < MaxFaults /\ faults' = faults + 1
NoFault == UNCHANGED faults

Goto(h, from, to) == pc[h] = from /\ pc' = [pc EXCEPT ![h] = to]

-----------------------------------------------------------------------------
(* A session changes a file.                                               *)
Edit(m, e) ==
  /\ e \notin made /\ m \in MayEdit[e]
  /\ made' = made \cup {e}
  /\ tree' = [tree EXCEPT ![m] = @ \cup {e}]
  /\ risked' = IF m \in rebasing THEN risked \cup {e} ELSE risked
  /\ UNCHANGED <<remote, branch, staged, rebasing, detached, pc, attempt, faults, mine>>

(* A session stops and its hook gets the lock.                             *)
Begin(h, to) ==
  /\ Goto(h, "idle", to)
  /\ \/ /\ \A g \in Hooks : MachineOf[g] = MachineOf[h] => pc[g] = "idle"
        /\ NoFault
     \/ /\ \E g \in Hooks : MachineOf[g] = MachineOf[h] /\ pc[g] # "idle"
        /\ Fault
  /\ UNCHANGED <<repos, attempt, made, risked, mine>>

BeginSync(h) == Begin(h, "changes")   \* the session completed or was aborted
BeginPull(h) == Begin(h, "ff")        \* any other end

(* Incoming commits would overwrite uncommitted edits: git refuses.        *)
Overwrites(m) == \E e \in tree[m], f \in remote \ branch[m] : <<e, f>> \in Clash

(* pullRepo: fetch, merge --ff-only; both errors are ignored.              *)
PullRepo(h) ==
  LET m == MachineOf[h]
      mayMerge == /\ m \notin rebasing /\ branch[m] \subseteq remote
                  /\ ~Overwrites(m)
  IN /\ Goto(h, "ff", "idle")
     /\ \/ /\ NoFault
           /\ branch' = IF mayMerge THEN [branch EXCEPT ![m] = remote] ELSE branch
        \/ Fault /\ UNCHANGED branch
     /\ UNCHANGED <<remote, tree, staged, rebasing, detached, attempt, made, risked, mine>>

-----------------------------------------------------------------------------
(* syncRepo: commit what there is.                                         *)

(* A stopped rebase has conflicted files in the tree.                      *)
DirtyTracked(m) == tree[m] \ NewFiles # {} \/ m \in rebasing
Dirty(m) == tree[m] # {} \/ m \in rebasing

(* hasChanges: status --porcelain; an error counts as "no".                *)
HasChanges(h) ==
  /\ \/ Dirty(MachineOf[h]) /\ Goto(h, "changes", "add") /\ NoFault
     \/ ~Dirty(MachineOf[h]) /\ Goto(h, "changes", "rebase") /\ NoFault
     \/ Goto(h, "changes", "rebase") /\ Fault
  /\ UNCHANGED <<repos, attempt, made, risked, mine>>

AddAll(h) ==
  LET m == MachineOf[h]
  IN /\ Goto(h, "add", "commit")
     /\ \/ /\ NoFault
           /\ staged' = [staged EXCEPT ![m] = tree[m]]
           /\ risked' = IF m \in rebasing THEN risked \cup tree[m] ELSE risked
        \/ Fault /\ UNCHANGED <<staged, risked>>
     /\ UNCHANGED <<remote, branch, tree, rebasing, detached, attempt, made, mine>>

(* git commit, whose error is ignored.  HEAD is detached in a rebase.      *)
Commit(h) ==
  LET m == MachineOf[h]
  IN /\ Goto(h, "commit", "rebase")
     /\ \/ /\ NoFault
           /\ tree' = [tree EXCEPT ![m] = @ \ staged[m]]
           /\ staged' = [staged EXCEPT ![m] = {}]
           /\ mine' = [mine EXCEPT ![h] = staged[m]]
           /\ IF m \in rebasing
              THEN detached' = [detached EXCEPT ![m] = @ \cup staged[m]] /\ UNCHANGED branch
              ELSE branch' = [branch EXCEPT ![m] = @ \cup staged[m]] /\ UNCHANGED detached
        \/ Fault /\ UNCHANGED <<branch, tree, staged, detached, mine>>
     /\ UNCHANGED <<remote, rebasing, attempt, made, risked>>

-----------------------------------------------------------------------------
(* safeRebase.                                                             *)

Conflict(m) == \E e \in branch[m] \ remote, f \in remote \ branch[m] : <<e, f>> \in Clash

(* Its error: ignored before the first push, the end of the retries later. *)
RebaseFailed(h) ==
  IF attempt[h] = 0
  THEN pc' = [pc EXCEPT ![h] = "push"] /\ attempt' = [attempt EXCEPT ![h] = 1]
  ELSE pc' = [pc EXCEPT ![h] = "report_failed"] /\ UNCHANGED attempt

(* pull --rebase refuses a tree with changes other than new files, and one *)
(* in a rebase.  On a conflict, or killed by its timeout, it leaves a      *)
(* rebase in progress; the own commits it has applied are on the branch as *)
(* well.                                                                   *)
PullRebase(h) ==
  LET m == MachineOf[h]
      refused == \/ staged[m] # {} \/ tree[m] \ NewFiles # {}
                 \/ Overwrites(m) \/ m \in rebasing
  IN /\ pc[h] = "rebase"
     /\ \/ /\ ~refused /\ ~Conflict(m) /\ NoFault
           /\ branch' = [branch EXCEPT ![m] = @ \cup remote]
           /\ pc' = [pc EXCEPT ![h] = "push"]
           /\ attempt' = [attempt EXCEPT ![h] = @ + 1]
           /\ UNCHANGED <<rebasing, detached>>
        \/ /\ (refused /\ NoFault) \/ Fault
           /\ pc' = [pc EXCEPT ![h] = "status"]
           /\ UNCHANGED <<branch, rebasing, detached, attempt>>
        \/ /\ ~refused
           /\ (Conflict(m) /\ NoFault) \/ Fault
           /\ branch[m] \ remote # {} /\ remote \ branch[m] # {}
           /\ detached' = [detached EXCEPT ![m] = remote]
           /\ rebasing' = rebasing \cup {m}
           /\ pc' = [pc EXCEPT ![h] = "status"]
           /\ UNCHANGED <<branch, attempt>>
     /\ UNCHANGED <<remote, tree, staged, made, risked, mine>>

(* git status says whether a rebase is in progress, whoever began it; if   *)
(* it fails, there is none.                                                *)
IgnoreRebase(h) ==
  /\ pc[h] = "status"
  /\ RebaseFailed(h)
  /\ UNCHANGED <<repos, faults, made, risked, mine>>

CheckStatus(h) ==
  /\ pc[h] = "status"
  /\ \/ /\ MachineOf[h] \in rebasing /\ NoFault
        /\ Goto(h, "status", "abort") /\ UNCHANGED attempt
     \/ /\ (MachineOf[h] \notin rebasing /\ NoFault) \/ Fault
        /\ RebaseFailed(h)
  /\ UNCHANGED <<repos, made, risked, mine>>

(* rebase --abort goes back to the branch as it was and resets the working *)
(* tree; files that it does not yet track survive.  Its error is ignored.  *)
SkippedTo(m) == detached[m]
Restored(m) == branch[m]
Surviving(m) == (tree[m] \cap NewFiles) \ staged[m]

AbortRebase(h) ==
  LET m == MachineOf[h]
  IN /\ pc[h] = "abort"
     /\ RebaseFailed(h)
     /\ \/ /\ m \in rebasing /\ NoFault
           /\ branch' = [branch EXCEPT ![m] = Restored(m)]
           /\ tree' = [tree EXCEPT ![m] = Surviving(m)]
           /\ staged' = [staged EXCEPT ![m] = {}]
           /\ detached' = [detached EXCEPT ![m] = {}]
           /\ rebasing' = rebasing \ {m}
        \/ /\ (m \notin rebasing /\ NoFault) \/ Fault
           /\ UNCHANGED <<branch, tree, staged, rebasing, detached>>
     /\ UNCHANGED <<remote, made, risked, mine>>

-----------------------------------------------------------------------------
(* pushWithRetry: after a failed push, safeRebase and the next attempt.    *)
(* The answer to a push that took effect may be lost.                      *)
SuccessAnyway(h) == IF attempt[h] >= MaxRetries THEN "report_ok" ELSE "rebase"
AfterFailedPush(h) == IF attempt[h] >= MaxRetries THEN "report_failed" ELSE "rebase"

FastForward(m) == remote \subseteq branch[m]

Push(h) ==
  LET m == MachineOf[h]
      failed == AfterFailedPush(h)
      accepted == FastForward(m)
  IN /\ \/ accepted /\ NoFault /\ remote' = branch[m] /\ Goto(h, "push", "report_ok")
        \/ accepted /\ Fault /\ remote' = branch[m] /\ Goto(h, "push", failed)
        \/ ~accepted /\ NoFault /\ UNCHANGED remote /\ Goto(h, "push", failed)
        \/ Fault /\ UNCHANGED remote /\ Goto(h, "push", failed)
     /\ UNCHANGED <<branch, tree, staged, rebasing, detached, attempt, made, risked, mine>>

End(h) ==
  /\ pc' = [pc EXCEPT ![h] = "idle"]
  /\ attempt' = [attempt EXCEPT ![h] = 0]
  /\ mine' = [mine EXCEPT ![h] = {}]
  /\ UNCHANGED <<repos, made, risked>>

(* writePushState, then the lock's release.                                *)
WritePushState(h) ==
  /\ pc[h] \in {"report_ok", "report_failed"}
  /\ End(h)
  /\ NoFault

(* Killed; the next hook reclaims the lock of the dead process.            *)
Crash(h) ==
  /\ pc[h] # "idle"
  /\ End(h)
  /\ Fault

SyncStep(h) ==
  \/ HasChanges(h) \/ AddAll(h) \/ Commit(h) \/ PullRebase(h) \/ CheckStatus(h)
  \/ AbortRebase(h) \/ Push(h) \/ WritePushState(h) \/ PullRepo(h)

Next ==
  \/ \E m \in Machines, e \in Edits : Edit(m, e)
  \/ \E h \in Hooks : BeginSync(h) \/ BeginPull(h) \/ SyncStep(h) \/ Crash(h)

(* A hook at work goes on, and sessions keep completing on each machine.   *)
Fairness ==
  /\ \A h \in Hooks : WF_vars(SyncStep(h))
  /\ \A m \in Machines : SF_vars(\E h \in Hooks : MachineOf[h] = m /\ BeginSync(h))

Spec == Init /\ [][Next]_vars
FairSpec == Spec /\ Fairness

-----------------------------------------------------------------------------
(* An edit that was not made or added amid a rebase is never lost,         *)
(* whatever fails, is killed, or gets past the lock: it is in a working    *)
(* tree, on a branch or on the remote.  safeRebase counts on this when it  *)
(* aborts ("preventing a half-rebased working tree"): what was there       *)
(* before the rebase must have been committed or be out of git's reach.    *)
NoEditLost ==
  made \ risked \subseteq remote \cup UNION {branch[m] \cup tree[m] : m \in Machines}

(* "result: success" is not written while an edit that this sync committed *)
(* is missing from the remote (again except for edits amid a rebase).      *)
SuccessMeansPushed ==
  \A h \in Hooks : pc[h] = "report_ok" => mine[h] \ risked \subseteq remote

(* A rebase left in the middle, by a hook that was killed there, is undone. *)
HalfRebaseHealed == \A m \in Machines : m \in rebasing ~> m \notin rebasing

(* Every edit reaches the remote in the end, unless it was made amid a     *)
(* rebase or its machine is stuck on a conflict, which nothing here can    *)
(* resolve.                                                                *)
EditsArrive ==
  \A e \in Edits :
    e \in made ~> \/ e \in remote \cup risked
                 \/ \E m \in Machines : Conflict(m) /\ e \in tree[m] \cup branch[m]

=============================================================================
