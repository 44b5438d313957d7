--------------------------- MODULE StopHookProofs ---------------------------
(***************************************************************************)
(* Proofs about the work of the stop hook: the repository (RepoSync, for   *)
(* any machines, hooks, edits, clashes, faults) and the signals (Signals,  *)
(* for any numbers of them, of sessions, retries and any page size).       *)
(*                                                                         *)
(* RepoSync.  What git refuses makes it work: in a rebase, what is staged  *)
(* was staged amid it, and what else lies in the tree was made amid it or  *)
(* is a new file, which the abort leaves alone.  And what a hook committed *)
(* outside a rebase is on the branch or the remote from then on.           *)
(*                                                                         *)
(* Signals.  While a listing reads on, what it is still to show lies       *)
(* behind the pages that it has read, because additions come in front; and *)
(* every page but the last is full, so that the next one begins there.     *)
(***************************************************************************)
EXTENDS RepoSync, Signals, SequenceTheorems, TLAPS

RebaseClean ==
  \A m \in rebasing : /\ staged[m] \subseteq risked
                      /\ tree[m] \ risked \subseteq NewFiles

MineKept ==
  \A h \in Hooks : mine[h] \ risked \subseteq branch[MachineOf[h]] \cup remote

SyncInv == TypeOK /\ NoEditLost /\ RebaseClean /\ MineKept /\ SuccessMeansPushed

-----------------------------------------------------------------------------
LEMMA TypingInit == Init => TypeOK
BY RepoAssumption DEF Init, TypeOK, Working, MaxRetries

(* The counter of push attempts stays within its range.                    *)
LEMMA FailedTyped ==
  ASSUME TypeOK, NEW h \in Hooks, RebaseFailed(h), attempt[h] # MaxRetries
  PROVE  /\ pc' \in [Hooks -> Working \cup {"idle"}]
         /\ attempt' \in [Hooks -> 0..MaxRetries]
         /\ \A g \in Hooks : attempt'[g] = MaxRetries
                             => pc'[g] \in {"push", "report_ok", "report_failed"}
BY DEF RebaseFailed, TypeOK, Working, MaxRetries

LEMMA TypingStep == TypeOK /\ [Next]_vars => TypeOK'
<1> SUFFICES ASSUME TypeOK, [Next]_vars PROVE TypeOK'
  OBVIOUS
<1> USE RepoAssumption DEF TypeOK, repos, Fault, NoFault
<1>1. ASSUME NEW m \in Machines, NEW e \in Edits, Edit(m, e) PROVE TypeOK'
  BY <1>1 DEF Edit
<1>2. ASSUME NEW h \in Hooks, BeginSync(h) \/ BeginPull(h) PROVE TypeOK'
  BY <1>2 DEF BeginSync, BeginPull, Begin, Goto, Working
<1>3. ASSUME NEW h \in Hooks, SyncStep(h) PROVE TypeOK'
  <2> DEFINE m == MachineOf[h]
  <2>1. m \in Machines
    OBVIOUS
  <2>2. CASE HasChanges(h)
    BY <2>2 DEF HasChanges, Goto, Working
  <2>3. CASE AddAll(h)
    BY <2>1, <2>3 DEF AddAll, Goto, Working
  <2>4. CASE Commit(h)
    BY <2>1, <2>4 DEF Commit, Goto, Working
  <2>5. CASE PullRebase(h)
    BY <2>1, <2>5 DEF PullRebase, Working, MaxRetries
  <2>6. CASE CheckStatus(h)
    BY <2>6, FailedTyped DEF CheckStatus, Goto, Working
  <2>7. CASE AbortRebase(h)
    <3>1. UNCHANGED <<remote, branch, made, risked, mine>>
      BY <2>1, <2>7 DEF AbortRebase, Restored
    <3>2. faults' \in 0..MaxFaults
      BY <2>7 DEF AbortRebase
    <3>3. /\ tree' \in [Machines -> SUBSET made] /\ staged' \in [Machines -> SUBSET made]
          /\ \A n \in Machines : staged'[n] \subseteq tree'[n]
          /\ rebasing' \subseteq Machines /\ detached' \in [Machines -> SUBSET made]
          /\ \A n \in Machines \ rebasing' : detached'[n] = {}
      BY <2>1, <2>7 DEF AbortRebase, Surviving
    <3> QED
      BY <2>7, <3>1, <3>2, <3>3, FailedTyped DEF AbortRebase
  <2>8. CASE Push(h)
    BY <2>1, <2>8 DEF Push, AfterFailedPush, FastForward, Goto, Working
  <2>9. CASE WritePushState(h)
    BY <2>9 DEF WritePushState, End, MaxRetries
  <2>10. CASE PullRepo(h)
    BY <2>1, <2>10 DEF PullRepo, Goto, Working
  <2> QED
    BY <1>3, <2>2, <2>3, <2>4, <2>5, <2>6, <2>7, <2>8, <2>9, <2>10 DEF SyncStep
<1>4. ASSUME NEW h \in Hooks, Crash(h) PROVE TypeOK'
  BY <1>4 DEF Crash, End, MaxRetries
<1>5. CASE UNCHANGED vars
  BY <1>5 DEF vars
<1> QED
  BY <1>1, <1>2, <1>3, <1>4, <1>5 DEF Next

(* TypeOK is an invariant of every instance.                               *)
THEOREM RepoTyping == Spec => []TypeOK
BY TypingInit, TypingStep, PTL DEF Spec

-----------------------------------------------------------------------------
LEMMA SyncInit == Init => SyncInv
<1> SUFFICES ASSUME Init PROVE SyncInv
  OBVIOUS
<1>1. TypeOK
  BY TypingInit
<1>2. NoEditLost /\ RebaseClean /\ SuccessMeansPushed
  BY DEF Init, NoEditLost, RebaseClean, SuccessMeansPushed
<1>3. MineKept
  BY RepoAssumption DEF Init, MineKept
<1> QED
  BY <1>1, <1>2, <1>3 DEF SyncInv

(* Only Commit and AbortRebase take edits out of a tree.                   *)
LEMMA SyncStepInv == SyncInv /\ [Next]_vars => SyncInv'
<1> SUFFICES ASSUME SyncInv, [Next]_vars
             PROVE  NoEditLost' /\ RebaseClean' /\ MineKept' /\ SuccessMeansPushed'
  BY TypingStep DEF SyncInv
<1> USE RepoAssumption DEF SyncInv, repos, TypeOK
<1> DEFINE Goal == NoEditLost' /\ RebaseClean' /\ MineKept' /\ SuccessMeansPushed'
<1>1. ASSUME NEW m \in Machines, NEW e \in Edits, Edit(m, e) PROVE Goal
  <2>1. NoEditLost'
    BY <1>1 DEF Edit, NoEditLost
  <2>2. RebaseClean'
    BY <1>1 DEF Edit, RebaseClean
  <2>3. MineKept' /\ SuccessMeansPushed'
    BY <1>1 DEF Edit, MineKept, SuccessMeansPushed
  <2> QED
    BY <2>1, <2>2, <2>3
<1>2. ASSUME NEW h \in Hooks, BeginSync(h) \/ BeginPull(h) PROVE Goal
  BY <1>2 DEF BeginSync, BeginPull, Begin, Goto, NoEditLost, RebaseClean, MineKept,
     SuccessMeansPushed
<1>3. ASSUME NEW h \in Hooks, SyncStep(h) PROVE Goal
  <2> DEFINE m == MachineOf[h]
  <2>0. m \in Machines
    OBVIOUS
  <2>1. CASE HasChanges(h) \/ CheckStatus(h)
    BY <2>1 DEF HasChanges, CheckStatus, RebaseFailed, Goto, NoEditLost, RebaseClean,
       MineKept, SuccessMeansPushed
  <2>2. CASE AddAll(h)
    <3>1. NoEditLost' /\ MineKept' /\ SuccessMeansPushed'
      BY <2>2 DEF AddAll, Goto, NoEditLost, MineKept, SuccessMeansPushed
    <3>2. RebaseClean'
      BY <2>0, <2>2 DEF AddAll, RebaseClean
    <3> QED
      BY <3>1, <3>2
  <2>3. CASE Commit(h)
    <3>1. CASE UNCHANGED <<branch, tree, staged, detached, mine>>
      BY <2>3, <3>1 DEF Commit, Goto, NoEditLost, RebaseClean, MineKept, SuccessMeansPushed
    <3>2. CASE /\ tree' = [tree EXCEPT ![m] = @ \ staged[m]]
               /\ staged' = [staged EXCEPT ![m] = {}]
               /\ mine' = [mine EXCEPT ![h] = staged[m]]
               /\ IF m \in rebasing
                  THEN UNCHANGED branch
                  ELSE branch' = [branch EXCEPT ![m] = @ \cup staged[m]]
      <4>1. staged[m] \subseteq branch'[m] \cup risked
        BY <2>0, <3>2 DEF RebaseClean
      <4>2. /\ \A n \in Machines : branch[n] \subseteq branch'[n]
            /\ \A n \in Machines : tree[n] \subseteq tree'[n] \cup branch'[n] \cup risked
        BY <2>0, <3>2, <4>1
      <4>3. UNCHANGED <<remote, rebasing, made, risked>>
        BY <2>3 DEF Commit
      <4>4. NoEditLost'
        BY <4>2, <4>3 DEF NoEditLost
      <4>5. RebaseClean'
        BY <2>0, <3>2, <4>3 DEF RebaseClean
      <4>6. MineKept'
        BY <2>0, <3>2, <4>1, <4>2, <4>3 DEF MineKept
      <4>7. SuccessMeansPushed'
        BY <2>3, <3>2, <4>3 DEF Commit, Goto, SuccessMeansPushed
      <4> QED
        BY <4>4, <4>5, <4>6, <4>7
    <3> QED
      BY <2>3, <3>1, <3>2 DEF Commit
  <2>4. CASE PullRebase(h)
    <3>1. \A n \in Machines : branch[n] \subseteq branch'[n]
      BY <2>0, <2>4 DEF PullRebase
    <3>2. UNCHANGED <<remote, tree, staged, made, risked, mine>>
      BY <2>4 DEF PullRebase
    <3>3. NoEditLost' /\ MineKept'
      BY <3>1, <3>2 DEF NoEditLost, MineKept
    <3>4. RebaseClean'
      BY <2>0, <2>4, <3>2 DEF PullRebase, RebaseClean
    <3>5. SuccessMeansPushed'
      BY <2>4, <3>2 DEF PullRebase, SuccessMeansPushed
    <3> QED
      BY <3>3, <3>4, <3>5
  <2>5. CASE AbortRebase(h)
    <3>1. UNCHANGED <<remote, branch, made, risked, mine>>
      BY <2>0, <2>5 DEF AbortRebase, Restored
    <3>2. CASE UNCHANGED <<tree, staged, rebasing>>
      BY <2>5, <3>1, <3>2 DEF AbortRebase, RebaseFailed, NoEditLost, RebaseClean,
         MineKept, SuccessMeansPushed
    <3>3. CASE m \in rebasing /\ ~UNCHANGED <<branch, tree, staged, rebasing, detached>>
      <4>1. /\ tree' = [tree EXCEPT ![m] = (@ \cap NewFiles) \ staged[m]]
            /\ staged' = [staged EXCEPT ![m] = {}]
            /\ rebasing' = rebasing \ {m}
        BY <2>5, <3>3 DEF AbortRebase, Surviving
      <4>2. \A n \in Machines : tree[n] \subseteq tree'[n] \cup risked
        BY <2>0, <3>3, <4>1 DEF RebaseClean
      <4>3. NoEditLost'
        BY <3>1, <4>2 DEF NoEditLost
      <4>4. RebaseClean'
        BY <2>0, <3>1, <4>1 DEF RebaseClean
      <4>5. MineKept' /\ SuccessMeansPushed'
        BY <2>5, <3>1 DEF AbortRebase, RebaseFailed, MineKept, SuccessMeansPushed
      <4> QED
        BY <4>3, <4>4, <4>5
    <3> QED
      BY <2>5, <3>2, <3>3 DEF AbortRebase
  <2>6. CASE Push(h)
    <3>1. UNCHANGED <<branch, tree, staged, rebasing, made, risked, mine>>
      BY <2>6 DEF Push, AfterFailedPush, FastForward
    <3>2. remote \subseteq remote'
      BY <2>6 DEF Push, AfterFailedPush, FastForward
    <3>3. NoEditLost' /\ RebaseClean' /\ MineKept'
      BY <3>1, <3>2 DEF NoEditLost, RebaseClean, MineKept
    <3>4. pc'[h] = "report_ok" => branch[m] \subseteq remote' /\ remote \subseteq remote'
      BY <2>6 DEF Push, AfterFailedPush, FastForward, Goto
    <3>5. SuccessMeansPushed'
      BY <2>6, <3>1, <3>2, <3>4 DEF Push, AfterFailedPush, FastForward, Goto,
         SuccessMeansPushed, MineKept
    <3> QED
      BY <3>3, <3>5
  <2>7. CASE WritePushState(h)
    BY <2>7 DEF WritePushState, End, NoEditLost, RebaseClean, MineKept, SuccessMeansPushed
  <2>8. CASE PullRepo(h)
    <3>1. \A n \in Machines : branch[n] \subseteq branch'[n]
      BY <2>0, <2>8 DEF PullRepo
    <3>2. UNCHANGED <<remote, tree, staged, rebasing, made, risked, mine>>
      BY <2>8 DEF PullRepo
    <3> QED
      BY <2>8, <3>1, <3>2 DEF PullRepo, Goto, NoEditLost, RebaseClean, MineKept,
         SuccessMeansPushed
  <2> QED
    BY <1>3, <2>1, <2>2, <2>3, <2>4, <2>5, <2>6, <2>7, <2>8 DEF SyncStep
<1>4. ASSUME NEW h \in Hooks, Crash(h) PROVE Goal
  BY <1>4 DEF Crash, End, NoEditLost, RebaseClean, MineKept, SuccessMeansPushed
<1>5. CASE UNCHANGED vars
  BY <1>5 DEF vars, NoEditLost, RebaseClean, MineKept, SuccessMeansPushed
<1> QED
  BY <1>1, <1>2, <1>3, <1>4, <1>5 DEF Next

(* An edit neither made nor added amid a rebase is never lost.             *)
THEOREM EditsAreKept == Spec => []NoEditLost
BY SyncInit, SyncStepInv, PTL DEF Spec, SyncInv

(* A sync that reports success has pushed what it committed.               *)
THEOREM SuccessIsTrue == Spec => []SuccessMeansPushed
BY SyncInit, SyncStepInv, PTL DEF Spec, SyncInv

(* The remote never loses an edit.                                         *)
THEOREM RemoteGrows == Spec => [][remote \subseteq remote']_vars
<1>1. [Next]_vars => remote \subseteq remote'
  <2> SUFFICES ASSUME [Next]_vars PROVE remote \subseteq remote'
    OBVIOUS
  <2>1. ASSUME NEW h \in Hooks, Push(h) PROVE remote \subseteq remote'
    BY <2>1 DEF Push, AfterFailedPush, FastForward
  <2>2. CASE remote' = remote
    BY <2>2
  <2> QED
    BY <2>1, <2>2 DEF Next, vars, repos, Edit, BeginSync, BeginPull, Begin, SyncStep, HasChanges,
       AddAll, Commit, PullRebase, CheckStatus, AbortRebase, WritePushState, PullRepo, Crash, End
<1> QED
  BY <1>1, PTL DEF Spec

-----------------------------------------------------------------------------
(* What a listing has read, and where the rest of what was there at its    *)
(* beginning now is: additions move it back, and only a deletion can bring *)
(* it to a place that was read already.                                    *)
Read(h) == (page[h] - 1) * PageSize

Covers(h) ==
  /\ Len(got[h]) = Read(h)
  /\ \A m \in atStart[h] :
       m \in ToSet(got[h]) \/ \E i \in DOMAIN store : i > Read(h) /\ store[i] = m

ListingsCover == \A h \in Sessions : doing[h] = "list" /\ h \notin shrunk => Covers(h)

IdleHasNothing == \A h \in Sessions : page[h] # 0 /\ (doing[h] = "idle" => got[h] = <<>>)

AttemptsLeft == \A s \in Signals : sending[s] = "posting" => attempts[s] <= Retries

SignalInv ==
  /\ SignalTypeOK /\ AttemptsLeft /\ IdleHasNothing
  /\ ListingsCover /\ UndisturbedListingIsComplete

LEMMA SignalInitInv == SignalInit => SignalInv
<1> SUFFICES ASSUME SignalInit PROVE SignalInv
  OBVIOUS
<1>1. 0 \in 0..(Retries + 1) /\ 0 \in 0..MaxFailures
  BY SignalsAssumption
<1>2. SignalTypeOK
  BY <1>1 DEF SignalInit, SignalTypeOK
<1>3. AttemptsLeft /\ IdleHasNothing /\ ListingsCover /\ UndisturbedListingIsComplete
  BY SignalsAssumption DEF SignalInit, AttemptsLeft, IdleHasNothing, ListingsCover,
                           UndisturbedListingIsComplete
<1> QED
  BY <1>2, <1>3 DEF SignalInv

LEMMA FailureTyped ==
  ASSUME failures \in 0..MaxFailures, Failure \/ UNCHANGED failures
  PROVE  failures' \in 0..MaxFailures
  BY SignalsAssumption DEF Failure

(* A new memory in front leaves every listing its rest.                    *)
LEMMA InFrontCovers ==
  ASSUME SignalTypeOK, NEW x \in Memories, store' = <<x>> \o store, UNCHANGED hooks,
         NEW h \in Sessions, Covers(h)
  PROVE  Covers(h)'
<1>1. UNCHANGED <<got, page, atStart>> /\ Read(h)' = Read(h)
  BY DEF hooks, Read
<1>2. /\ store \in Seq(Memories) /\ Len(store) \in Nat /\ DOMAIN store = 1..Len(store)
      /\ DOMAIN store' = 1..(Len(store) + 1)
      /\ \A i \in 1..Len(store) : store'[i + 1] = store[i]
  BY DEF SignalTypeOK
<1>3. Read(h) \in Int
  BY SignalsAssumption DEF Read, SignalTypeOK
<1>4. ASSUME NEW m, NEW i \in DOMAIN store, i > Read(h), store[i] = m
      PROVE  \E j \in DOMAIN store' : j > Read(h) /\ store'[j] = m
  <2>1. i + 1 \in DOMAIN store' /\ i + 1 > Read(h) /\ store'[i + 1] = m
    BY <1>2, <1>3, <1>4
  <2> QED
    BY <2>1
<1> QED
  BY <1>1, <1>4 DEF Covers

LEMMA PostedKeeps ==
  ASSUME SignalInv, NEW s \in Signals, NEW effect \in BOOLEAN,
         NEW result \in {"posting", "sent", "failed"},
         Posted(s, effect, result), result = "posting" => attempts[s] < Retries,
         failures' \in 0..MaxFailures
  PROVE  SignalInv'
<1>1. /\ SignalTypeOK /\ AttemptsLeft /\ IdleHasNothing
      /\ ListingsCover /\ UndisturbedListingIsComplete
  BY DEF SignalInv
<1>2. /\ sending[s] = "posting" /\ attempts' = [attempts EXCEPT ![s] = @ + 1]
      /\ store' = IF effect THEN <<<<s, attempts[s] + 1>>>> \o store ELSE store
      /\ sending' = [sending EXCEPT ![s] = result]
      /\ UNCHANGED <<hooks, shrunk, seen>> /\ UNCHANGED <<doing, page, got, todo, atStart>>
  BY DEF Posted, hooks
<1>3. attempts[s] \in 0..Retries /\ attempts[s] + 1 \in 1..(Retries + 1)
  BY <1>1, <1>2, SignalsAssumption DEF AttemptsLeft, SignalTypeOK
<1> DEFINE x == <<s, attempts[s] + 1>>
<1>4. x \in Memories
  BY <1>3 DEF Memories
<1> HIDE DEF x
<1>5. store' = store \/ store' = <<x>> \o store
  BY <1>2 DEF x
<1>6. store' \in Seq(Memories)
  <2>1. store \in Seq(Memories) /\ <<x>> \in Seq(Memories)
    BY <1>1, <1>4 DEF SignalTypeOK
  <2>2. <<x>> \o store \in Seq(Memories)
    BY <2>1, ConcatProperties
  <2> QED
    BY <1>5, <2>1, <2>2
<1>7. /\ attempts' \in [Signals -> 0..(Retries + 1)]
      /\ sending' \in [Signals -> {"posting", "sent", "failed"}]
  BY <1>1, <1>2, <1>3, SignalsAssumption DEF SignalTypeOK
<1>8. SignalTypeOK'
  BY <1>1, <1>2, <1>6, <1>7 DEF SignalTypeOK
<1>9. AttemptsLeft'
  <2> SUFFICES ASSUME NEW t \in Signals, sending'[t] = "posting" PROVE attempts'[t] <= Retries
    BY DEF AttemptsLeft
  <2>1. CASE t = s
    <3>1. result = "posting" /\ attempts'[t] = attempts[s] + 1
      BY <1>1, <1>2, <2>1 DEF SignalTypeOK
    <3> QED
      BY <1>3, <3>1, SignalsAssumption
  <2>2. CASE t # s
    BY <1>1, <1>2, <2>2 DEF SignalTypeOK, AttemptsLeft
  <2> QED
    BY <2>1, <2>2
<1>10. IdleHasNothing' /\ UndisturbedListingIsComplete'
  BY <1>1, <1>2 DEF IdleHasNothing, UndisturbedListingIsComplete, ToSet
<1>11. ListingsCover'
  <2> SUFFICES ASSUME NEW h \in Sessions, doing[h] = "list", h \notin shrunk PROVE Covers(h)'
    BY <1>2 DEF ListingsCover
  <2>1. Covers(h)
    BY <1>1 DEF ListingsCover
  <2>2. CASE store' = store
    BY <1>2, <2>1, <2>2 DEF Covers, Read, ToSet
  <2>3. CASE store' = <<x>> \o store
    BY <1>1, <1>2, <1>4, <2>1, <2>3, InFrontCovers
  <2> QED
    BY <1>5, <2>2, <2>3
<1> QED
  BY <1>8, <1>9, <1>10, <1>11 DEF SignalInv

LEMMA AddSignalKeeps ==
  ASSUME SignalInv, NEW s \in Signals, AddSignal(s) PROVE SignalInv'
<1>1. failures' \in 0..MaxFailures
  BY FailureTyped DEF SignalInv, SignalTypeOK, AddSignal, PostSucceeds, PostRetryable, PostFails
<1>2. CASE PostSucceeds(s)
  BY <1>1, <1>2, PostedKeeps DEF PostSucceeds
<1>3. CASE PostRetryable(s)
  <2>1. PICK effect \in BOOLEAN : Posted(s, effect, AfterServerError(s))
    BY <1>3 DEF PostRetryable
  <2>2. /\ AfterServerError(s) \in {"posting", "sent", "failed"}
        /\ AfterServerError(s) = "posting" => attempts[s] < Retries
    BY SignalsAssumption DEF AfterServerError, SignalInv, SignalTypeOK
  <2> QED
    BY <1>1, <2>1, <2>2, PostedKeeps
<1>4. CASE PostFails(s)
  <2>1. PICK effect \in BOOLEAN : Posted(s, effect, "failed")
    BY <1>4 DEF PostFails
  <2> QED
    BY <1>1, <2>1, PostedKeeps
<1> QED
  BY <1>2, <1>3, <1>4 DEF AddSignal

-----------------------------------------------------------------------------
(* A step of one session that leaves the memories alone leaves the others  *)
(* what they know.                                                         *)
LEMMA SessionKeeps ==
  ASSUME SignalInv, NEW h \in Sessions, UNCHANGED <<store, senders>>,
         SignalTypeOK', shrunk' \in {shrunk, shrunk \ {h}},
         \A g \in Sessions \ {h} :
            /\ doing'[g] = doing[g] /\ page'[g] = page[g] /\ got'[g] = got[g]
            /\ atStart'[g] = atStart[g],
         page'[h] # 0, doing'[h] = "idle" => got'[h] = <<>>,
         doing'[h] = "list" /\ h \notin shrunk' => Covers(h)',
         doing'[h] = "listed" /\ h \notin shrunk' => atStart'[h] \subseteq ToSet(got'[h])
  PROVE  SignalInv'
<1>1. /\ SignalTypeOK /\ AttemptsLeft /\ IdleHasNothing
      /\ ListingsCover /\ UndisturbedListingIsComplete
  BY DEF SignalInv
<1>2. AttemptsLeft'
  BY <1>1 DEF senders, AttemptsLeft
<1>3. IdleHasNothing'
  BY <1>1 DEF IdleHasNothing
<1>4. ListingsCover'
  <2> SUFFICES ASSUME NEW g \in Sessions, doing'[g] = "list", g \notin shrunk', g # h
               PROVE  Covers(g)'
    BY DEF ListingsCover
  <2>1. Covers(g)
    BY <1>1 DEF ListingsCover
  <2> QED
    BY <2>1 DEF Covers, Read
<1>5. UndisturbedListingIsComplete'
  <2> SUFFICES ASSUME NEW g \in Sessions, doing'[g] = "listed", g \notin shrunk'
               PROVE  atStart'[g] \subseteq ToSet(got'[g])
    BY DEF UndisturbedListingIsComplete
  <2> QED
    BY <1>1 DEF UndisturbedListingIsComplete
<1> QED
  BY <1>2, <1>3, <1>4, <1>5 DEF SignalInv

LEMMA BeginKeeps == ASSUME SignalInv, NEW h \in Sessions, BeginListing(h) PROVE SignalInv'
<1>1. /\ SignalTypeOK /\ IdleHasNothing
  BY DEF SignalInv
<1>2. /\ doing[h] = "idle" /\ doing' = [doing EXCEPT ![h] = "list"]
      /\ page' = [page EXCEPT ![h] = 1] /\ atStart' = [atStart EXCEPT ![h] = ToSet(store)]
      /\ UNCHANGED <<store, senders, failures, got, todo, shrunk, seen>>
  BY DEF BeginListing
<1>3. store \in Seq(Memories) /\ ToSet(store) \in SUBSET Memories
  BY <1>1 DEF SignalTypeOK, ToSet
<1>4. SignalTypeOK'
  BY <1>1, <1>2, <1>3 DEF SignalTypeOK, senders
<1>5. /\ doing'[h] = "list" /\ page'[h] = 1 /\ got'[h] = <<>> /\ atStart'[h] = ToSet(store)
  BY <1>1, <1>2 DEF SignalTypeOK, IdleHasNothing
<1>6. Covers(h)'
  <2>1. Read(h)' = 0
    BY <1>5, SignalsAssumption DEF Read
  <2>2. \A m \in ToSet(store) : \E i \in DOMAIN store : i > 0 /\ store[i] = m
    BY <1>3 DEF ToSet
  <2> QED
    BY <1>2, <1>5, <2>1, <2>2 DEF Covers
<1>7. \A g \in Sessions \ {h} :
        /\ doing'[g] = doing[g] /\ page'[g] = page[g] /\ got'[g] = got[g]
        /\ atStart'[g] = atStart[g]
  BY <1>1, <1>2 DEF SignalTypeOK
<1> QED
  BY <1>2, <1>4, <1>5, <1>6, <1>7, SessionKeeps

(* One page more.  A page that is not the last is full, so that what was   *)
(* read stays a number of pages.                                           *)
IsPage(q, g, b, n, rows, w) ==
  /\ q \in Seq(Memories) /\ g \in Seq(Memories) /\ b \in Nat /\ n \in Nat
  /\ n = IF b + PageSize < Len(q) THEN b + PageSize ELSE Len(q)
  /\ rows = SubSeq(q, b + 1, n) /\ w = g \o rows

LEMMA PageReads ==
  ASSUME NEW q, NEW g, NEW b, NEW n, NEW rows, NEW w, IsPage(q, g, b, n, rows, w)
  PROVE  /\ w \in Seq(Memories)
         /\ ToSet(g) \subseteq ToSet(w)
         /\ \A i \in DOMAIN q : i > b => i > n \/ q[i] \in ToSet(w)
         /\ Len(g) = b /\ ~ (rows = <<>> \/ Len(w) >= Len(q)) =>
              Len(w) = b + PageSize /\ n = b + PageSize
         /\ Len(g) = b /\ (rows = <<>> \/ Len(w) >= Len(q)) => n = Len(q)
<1>0. /\ q \in Seq(Memories) /\ g \in Seq(Memories) /\ b \in Nat /\ n \in Nat
      /\ n = IF b + PageSize < Len(q) THEN b + PageSize ELSE Len(q)
      /\ rows = SubSeq(q, b + 1, n) /\ w = g \o rows
  BY DEF IsPage
<1>1. PageSize \in Nat \ {0} /\ Len(q) \in Nat /\ Len(g) \in Nat /\ n <= Len(q) /\ n <= b + PageSize
  BY <1>0, SignalsAssumption
<1>2. /\ rows \in Seq(Memories) /\ Len(rows) = IF b < n THEN n - b ELSE 0
      /\ DOMAIN rows = 1..Len(rows)
      /\ \A i \in 1..Len(rows) : rows[i] = q[b + i]
  <2>1. b + 1 \in Int /\ n \in Int /\ \A i \in (b + 1)..n : q[i] \in Memories
    BY <1>0, <1>1
  <2>2. /\ rows \in Seq(Memories)
        /\ Len(rows) = IF b + 1 <= n THEN n - (b + 1) + 1 ELSE 0
        /\ \A i \in 1..(n - (b + 1) + 1) : rows[i] = q[(b + 1) + i - 1]
    BY <1>0, <2>1, SubSeqProperties
  <2>3. DOMAIN rows = 1..Len(rows) /\ Len(rows) = IF b < n THEN n - b ELSE 0
    BY <1>0, <1>1, <2>2
  <2>4. ASSUME NEW i \in 1..Len(rows) PROVE rows[i] = q[b + i]
    <3>1. i \in 1..(n - (b + 1) + 1) /\ (b + 1) + i - 1 = b + i
      BY <1>0, <1>1, <2>3
    <3> QED
      BY <2>2, <3>1
  <2> QED
    BY <2>2, <2>3, <2>4
<1>3. rows = <<>> => n <= b
  <2> SUFFICES ASSUME rows = <<>> PROVE n <= b
    OBVIOUS
  <2>1. Len(rows) = 0
    OBVIOUS
  <2>2. 0 = IF b < n THEN n - b ELSE 0
    BY <1>2, <2>1
  <2> QED
    BY <1>0, <1>1, <2>2
<1>4. /\ w \in Seq(Memories) /\ Len(w) = Len(g) + Len(rows) /\ DOMAIN w = 1..Len(w)
      /\ \A i \in 1..Len(g) : w[i] = g[i]
      /\ \A i \in 1..Len(rows) : w[Len(g) + i] = rows[i]
  <2>1. rows \in Seq(Memories) /\ Len(rows) \in Nat /\ Len(g) \in Nat
    BY <1>0, <1>2
  <2>2. /\ w \in Seq(Memories) /\ Len(w) = Len(g) + Len(rows)
        /\ \A i \in 1 .. Len(g) + Len(rows) :
             w[i] = IF i <= Len(g) THEN g[i] ELSE rows[i - Len(g)]
    BY <1>0, <2>1, ConcatProperties
  <2>3. DOMAIN w = 1..Len(w)
    BY <2>2
  <2>4. ASSUME NEW i \in 1..Len(rows) PROVE w[Len(g) + i] = rows[i]
    <3>1. /\ Len(g) + i \in 1 .. Len(g) + Len(rows)
          /\ ~ (Len(g) + i <= Len(g)) /\ (Len(g) + i) - Len(g) = i
      BY <2>1
    <3> QED
      BY <2>2, <3>1
  <2> QED
    BY <2>1, <2>2, <2>3, <2>4
<1>5. ToSet(g) \subseteq ToSet(w)
  <2> SUFFICES ASSUME NEW i \in DOMAIN g PROVE g[i] \in ToSet(w)
    BY DEF ToSet
  <2>1. i \in DOMAIN w /\ w[i] = g[i]
    BY <1>0, <1>1, <1>2, <1>4
  <2> QED
    BY <2>1 DEF ToSet
<1>6. ASSUME NEW i \in DOMAIN q, i > b, ~ (i > n) PROVE q[i] \in ToSet(w)
  <2>0. i \in Nat /\ i <= Len(q)
    BY <1>0, <1>1
  <2>1. i - b \in 1..Len(rows) /\ b + (i - b) = i
    <3>1. b < n /\ i - b \in 1..(n - b) /\ b + (i - b) = i
      BY <1>0, <1>1, <1>6, <2>0
    <3> QED
      BY <1>2, <3>1
  <2>2. rows[i - b] = q[i]
    BY <1>2, <2>1
  <2>3. Len(g) + (i - b) \in DOMAIN w /\ w[Len(g) + (i - b)] = q[i]
    <3>1. w[Len(g) + (i - b)] = q[i]
      BY <1>4, <2>1, <2>2
    <3>2. Len(rows) \in Nat
      BY <1>2
    <3>3. Len(g) + (i - b) \in 1..(Len(g) + Len(rows))
      BY <1>1, <2>1, <3>2
    <3> QED
      BY <1>4, <3>1, <3>3
  <2> QED
    BY <2>3 DEF ToSet
<1>7. ASSUME Len(g) = b, ~ (rows = <<>> \/ Len(w) >= Len(q))
      PROVE  Len(w) = b + PageSize /\ n = b + PageSize
  <2>1. b < n
    <3>1. Len(rows) # 0
      BY <1>2, <1>7
    <3> QED
      BY <1>0, <1>1, <1>2, <3>1
  <2> QED
    BY <1>0, <1>1, <1>2, <1>4, <1>7, <2>1
<1>8. ASSUME Len(g) = b, rows = <<>> \/ Len(w) >= Len(q) PROVE n = Len(q)
  BY <1>0, <1>1, <1>2, <1>3, <1>4, <1>8
<1> QED
  BY <1>2, <1>4, <1>5, <1>6, <1>7, <1>8

LEMMA ListPageKeeps == ASSUME SignalInv, NEW h \in Sessions, ListPage(h) PROVE SignalInv'
<1> DEFINE n == IF page[h] * PageSize < Len(store) THEN page[h] * PageSize ELSE Len(store)
           rows == SubSeq(store, (page[h] - 1) * PageSize + 1, n)
           all == got[h] \o rows
           b == Read(h)
<1>1. /\ SignalTypeOK /\ IdleHasNothing /\ ListingsCover
      /\ store \in Seq(Memories) /\ got[h] \in Seq(Memories) /\ page[h] \in Nat \ {0}
      /\ PageSize \in Nat \ {0} /\ Len(store) \in Nat
  BY SignalsAssumption DEF SignalInv, SignalTypeOK, IdleHasNothing
<1>2. /\ doing[h] = "list"
      /\ got' = [got EXCEPT ![h] = all]
      /\ page' = [page EXCEPT ![h] = IF LastPage(rows, all) THEN 1 ELSE @ + 1]
      /\ doing' = [doing EXCEPT ![h] = IF LastPage(rows, all) THEN "listed" ELSE "list"]
      /\ UNCHANGED <<store, senders, failures, todo, atStart, shrunk, seen>>
  BY DEF ListPage
<1>3. b \in Nat /\ page[h] * PageSize = b + PageSize /\ n \in Nat
  <2>1. page[h] - 1 \in Nat
    BY <1>1
  <2>2. \A k \in Nat : k * PageSize \in Nat /\ (k + 1) * PageSize = k * PageSize + PageSize
    BY <1>1
  <2>3. (page[h] - 1) + 1 = page[h]
    BY <1>1
  <2>4. page[h] * PageSize = (page[h] - 1) * PageSize + PageSize
    BY <2>1, <2>2, <2>3
  <2> QED
    BY <1>1, <2>1, <2>2, <2>4 DEF Read
<1>4. /\ n = (IF b + PageSize < Len(store) THEN b + PageSize ELSE Len(store))
      /\ rows = SubSeq(store, b + 1, n)
  BY <1>3 DEF Read
<1> HIDE DEF n, b
<1>5. /\ all \in Seq(Memories) /\ ToSet(got[h]) \subseteq ToSet(all)
      /\ \A i \in DOMAIN store : i > b => i > n \/ store[i] \in ToSet(all)
      /\ Len(got[h]) = b /\ ~LastPage(rows, all) => Len(all) = b + PageSize /\ n = b + PageSize
      /\ Len(got[h]) = b /\ LastPage(rows, all) => n = Len(store)
  <2>1. rows = SubSeq(store, b + 1, n) /\ all = got[h] \o rows
    BY <1>4
  <2>2. LastPage(rows, all) <=> rows = <<>> \/ Len(all) >= Len(store)
    BY DEF LastPage
  <2> HIDE DEF rows, all
  <2>3. /\ all \in Seq(Memories) /\ ToSet(got[h]) \subseteq ToSet(all)
        /\ \A i \in DOMAIN store : i > b => i > n \/ store[i] \in ToSet(all)
        /\ Len(got[h]) = b /\ ~ (rows = <<>> \/ Len(all) >= Len(store)) =>
             Len(all) = b + PageSize /\ n = b + PageSize
        /\ Len(got[h]) = b /\ (rows = <<>> \/ Len(all) >= Len(store)) => n = Len(store)
    <3> DEFINE g == got[h]
    <3>1. store \in Seq(Memories) /\ g \in Seq(Memories) /\ b \in Nat /\ n \in Nat
      BY <1>1, <1>3
    <3>2. n = IF b + PageSize < Len(store) THEN b + PageSize ELSE Len(store)
      BY <1>4
    <3>3. rows = SubSeq(store, b + 1, n) /\ all = g \o rows
      BY <2>1
    <3> HIDE DEF g
    <3>4. /\ all \in Seq(Memories) /\ ToSet(g) \subseteq ToSet(all)
          /\ \A i \in DOMAIN store : i > b => i > n \/ store[i] \in ToSet(all)
          /\ Len(g) = b /\ ~ (rows = <<>> \/ Len(all) >= Len(store)) =>
               Len(all) = b + PageSize /\ n = b + PageSize
          /\ Len(g) = b /\ (rows = <<>> \/ Len(all) >= Len(store)) => n = Len(store)
      <4>1. IsPage(store, g, b, n, rows, all)
        BY <3>1, <3>2, <3>3 DEF IsPage
      <4> QED
        BY <4>1, PageReads
    <3> QED
      BY <3>4 DEF g
  <2> QED
    BY <2>2, <2>3
<1> HIDE DEF rows, all
<1>6. /\ doing'[h] = IF LastPage(rows, all) THEN "listed" ELSE "list"
      /\ page'[h] = (IF LastPage(rows, all) THEN 1 ELSE page[h] + 1)
      /\ got'[h] = all /\ atStart'[h] = atStart[h]
  BY <1>1, <1>2 DEF SignalTypeOK
<1>7. SignalTypeOK'
  <2>1. page' \in [Sessions -> Nat]
    BY <1>1, <1>2 DEF SignalTypeOK
  <2>2. got' \in [Sessions -> Seq(Memories)]
    BY <1>1, <1>2, <1>5 DEF SignalTypeOK
  <2>3. doing' \in [Sessions -> {"idle", "list", "listed", "delete"}]
    BY <1>1, <1>2 DEF SignalTypeOK
  <2> QED
    BY <1>1, <1>2, <2>1, <2>2, <2>3 DEF SignalTypeOK, senders
<1>8. h \notin shrunk => Len(got[h]) = b /\ \A m \in atStart[h] :
        m \in ToSet(got[h]) \/ \E i \in DOMAIN store : i > b /\ store[i] = m
  BY <1>1, <1>2 DEF ListingsCover, Covers, b
<1>9. ASSUME h \notin shrunk, ~LastPage(rows, all) PROVE Covers(h)'
  <2>1. Read(h)' = n
    <3>1. page'[h] - 1 = page[h]
      BY <1>1, <1>6, <1>9
    <3> QED
      BY <1>3, <1>5, <1>8, <1>9, <3>1 DEF Read
  <2>2. Len(got'[h]) = n
    BY <1>5, <1>6, <1>8, <1>9
  <2>3. \A m \in atStart'[h] :
          m \in ToSet(got'[h]) \/ \E i \in DOMAIN store' : i > n /\ store'[i] = m
    BY <1>2, <1>5, <1>6, <1>8, <1>9
  <2> QED
    BY <2>1, <2>2, <2>3 DEF Covers
<1>10. ASSUME h \notin shrunk, LastPage(rows, all) PROVE atStart'[h] \subseteq ToSet(got'[h])
  <2>1. \A i \in DOMAIN store : ~ (i > n)
    BY <1>1, <1>5, <1>8, <1>10
  <2> QED
    BY <1>5, <1>6, <1>8, <1>10, <2>1
<1>11. \A g \in Sessions \ {h} :
         /\ doing'[g] = doing[g] /\ page'[g] = page[g] /\ got'[g] = got[g]
         /\ atStart'[g] = atStart[g]
  BY <1>1, <1>2 DEF SignalTypeOK
<1>12. page'[h] # 0 /\ doing'[h] # "idle"
  BY <1>1, <1>6
<1>13. /\ doing'[h] = "list" /\ h \notin shrunk' => Covers(h)'
       /\ doing'[h] = "listed" /\ h \notin shrunk' => atStart'[h] \subseteq ToSet(got'[h])
  BY <1>2, <1>6, <1>9, <1>10
<1> QED
  BY <1>2, <1>7, <1>11, <1>12, <1>13, SessionKeeps

-----------------------------------------------------------------------------
(* The end of a call.                                                      *)
LEMMA LeavesTyped ==
  ASSUME SignalTypeOK, NEW h \in Sessions, Leaves(h)
  PROVE  /\ doing' \in [Sessions -> {"idle", "list", "listed", "delete"}]
         /\ page' \in [Sessions -> Nat] /\ got' \in [Sessions -> Seq(Memories)]
         /\ todo' \in [Sessions -> Seq(Memories)] /\ atStart' \in [Sessions -> SUBSET Memories]
         /\ doing'[h] = "idle" /\ page'[h] = 1 /\ got'[h] = <<>>
         /\ \A g \in Sessions \ {h} :
              /\ doing'[g] = doing[g] /\ page'[g] = page[g] /\ got'[g] = got[g]
              /\ atStart'[g] = atStart[g]
<1>1. <<>> \in Seq(Memories)
  OBVIOUS
<1> QED
  BY <1>1 DEF SignalTypeOK, Leaves

LEMMA LeavingKeeps ==
  ASSUME SignalInv, NEW h \in Sessions, Leaves(h), UNCHANGED <<store, senders>>,
         failures' \in 0..MaxFailures, shrunk' \in {shrunk, shrunk \ {h}}, seen' \subseteq Tasks
  PROVE  SignalInv'
<1>1. SignalTypeOK
  BY DEF SignalInv
<1>2. SignalTypeOK'
  BY <1>1, LeavesTyped DEF SignalTypeOK, senders
<1>3. /\ doing'[h] = "idle" /\ page'[h] # 0 /\ got'[h] = <<>>
      /\ \A g \in Sessions \ {h} :
           /\ doing'[g] = doing[g] /\ page'[g] = page[g] /\ got'[g] = got[g]
           /\ atStart'[g] = atStart[g]
  BY <1>1, LeavesTyped
<1>4. doing'[h] # "list" /\ doing'[h] # "listed"
  BY <1>3
<1> QED
  BY <1>2, <1>3, <1>4, SessionKeeps

LEMMA CleanKeeps == ASSUME SignalInv, NEW h \in Sessions, CleanStaleSignals(h) PROVE SignalInv'
<1>1. SignalTypeOK /\ IdleHasNothing
  BY DEF SignalInv
<1>2. /\ doing[h] = "listed" /\ doing' = [doing EXCEPT ![h] = "delete"]
      /\ todo' = [todo EXCEPT ![h] = got[h]] /\ got' = [got EXCEPT ![h] = <<>>]
      /\ atStart' = [atStart EXCEPT ![h] = {}] /\ shrunk' = shrunk \ {h}
      /\ UNCHANGED <<store, senders, failures, page, seen>>
  BY DEF CleanStaleSignals
<1>3. <<>> \in Seq(Memories) /\ got[h] \in Seq(Memories)
  BY <1>1 DEF SignalTypeOK
<1>4. SignalTypeOK'
  BY <1>1, <1>2, <1>3 DEF SignalTypeOK, senders
<1>5. /\ doing'[h] = "delete" /\ page'[h] # 0
      /\ \A g \in Sessions \ {h} :
           /\ doing'[g] = doing[g] /\ page'[g] = page[g] /\ got'[g] = got[g]
           /\ atStart'[g] = atStart[g]
  BY <1>1, <1>2 DEF SignalTypeOK, IdleHasNothing
<1> QED
  BY <1>2, <1>4, <1>5, SessionKeeps

LEMMA RemoveTyped ==
  ASSUME NEW S, NEW q \in Seq(S), NEW i \in DOMAIN q PROVE RemoveAt(q, i) \in Seq(S)
<1>1. i \in 1..Len(q) /\ Len(q) \in Nat
  OBVIOUS
<1>2. SubSeq(q, 1, i - 1) \in Seq(S) /\ SubSeq(q, i + 1, Len(q)) \in Seq(S)
  BY <1>1
<1> QED
  BY <1>2 DEF RemoveAt

(* A deletion spares no listing: those it may have disturbed are marked.   *)
LEMMA DeletionKeeps ==
  ASSUME SignalInv, NEW h \in Sessions, NEW r, Delete(r), UNCHANGED senders, SignalTypeOK',
         \A g \in Sessions \ {h} :
           /\ doing'[g] = doing[g] /\ page'[g] = page[g] /\ got'[g] = got[g]
           /\ atStart'[g] = atStart[g],
         page'[h] # 0, doing'[h] \in {"idle", "delete"}, doing'[h] = "idle" => got'[h] = <<>>
  PROVE  SignalInv'
<1>1. /\ AttemptsLeft /\ IdleHasNothing /\ UndisturbedListingIsComplete
      /\ shrunk' = shrunk \cup {g \in Sessions : doing[g] = "list"}
  BY DEF SignalInv, Delete
<1>2. AttemptsLeft'
  BY <1>1 DEF senders, AttemptsLeft
<1>3. IdleHasNothing'
  BY <1>1 DEF IdleHasNothing
<1>4. ListingsCover'
  BY <1>1 DEF ListingsCover
<1>5. UndisturbedListingIsComplete'
  BY <1>1 DEF UndisturbedListingIsComplete
<1> QED
  BY <1>2, <1>3, <1>4, <1>5 DEF SignalInv

LEMMA DeleteSignalKeeps == ASSUME SignalInv, NEW h \in Sessions, DeleteSignal(h) PROVE SignalInv'
<1>1. SignalTypeOK /\ IdleHasNothing
  BY DEF SignalInv
<1>2. PICK i \in DOMAIN todo[h] :
        LET r == todo[h][i]
        IN \/ /\ Delete(r)
              /\ todo' = [todo EXCEPT ![h] = Following(h, i)]
              /\ UNCHANGED <<doing, page, got, atStart, failures>>
           \/ /\ Delete(r) \/ UNCHANGED <<store, shrunk>>
              /\ Leaves(h) /\ Failure
           \/ Leaves(h) /\ UNCHANGED <<store, failures, shrunk>>
  BY DEF DeleteSignal
<1> DEFINE r == todo[h][i]
<1>3. doing[h] = "delete" /\ UNCHANGED senders /\ seen' = seen
  BY DEF DeleteSignal
<1>4. ASSUME Delete(r) PROVE store' \in Seq(Memories) /\ shrunk' \subseteq Sessions
  <2>1. PICK j \in DOMAIN store : store' = RemoveAt(store, j)
    BY <1>4 DEF Delete
  <2>2. store \in Seq(Memories)
    BY <1>1 DEF SignalTypeOK
  <2> QED
    BY <1>1, <1>4, <2>1, <2>2, RemoveTyped DEF Delete, SignalTypeOK
<1>5. ASSUME Leaves(h), UNCHANGED <<store, shrunk>>, Failure \/ UNCHANGED failures PROVE SignalInv'
  <2>1. failures' \in 0..MaxFailures
    BY <1>1, <1>5, FailureTyped DEF SignalTypeOK
  <2>2. seen' \subseteq Tasks
    BY <1>1, <1>3 DEF SignalTypeOK
  <2> QED
    BY <1>3, <1>5, <2>1, <2>2, LeavingKeeps
<1>6. ASSUME Leaves(h), Delete(r), Failure PROVE SignalInv'
  <2>1. failures' \in 0..MaxFailures
    BY <1>1, <1>6, FailureTyped DEF SignalTypeOK
  <2>2. SignalTypeOK'
    <3> HIDE DEF r
    <3> QED
      BY <1>1, <1>3, <1>4, <1>6, <2>1, LeavesTyped DEF SignalTypeOK, senders
  <2>3. /\ doing'[h] = "idle" /\ page'[h] = 1 /\ got'[h] = <<>>
        /\ \A g \in Sessions \ {h} :
             /\ doing'[g] = doing[g] /\ page'[g] = page[g] /\ got'[g] = got[g]
             /\ atStart'[g] = atStart[g]
    BY <1>1, <1>6, LeavesTyped
  <2> HIDE DEF r
  <2> QED
    BY <1>3, <1>6, <2>2, <2>3, DeletionKeeps
<1>7. ASSUME Delete(r), todo' = [todo EXCEPT ![h] = Following(h, i)],
             UNCHANGED <<doing, page, got, atStart, failures>>
      PROVE  SignalInv'
  <2>1. Following(h, i) \in Seq(Memories)
    <3>1. todo[h] \in Seq(Memories)
      BY <1>1 DEF SignalTypeOK
    <3>2. i + 1 \in Nat \ {0} /\ Len(todo[h]) \in Nat
      BY <3>1
    <3> QED
      BY <3>1, <3>2 DEF Following
  <2>2. todo' \in [Sessions -> Seq(Memories)]
    BY <1>1, <1>7, <2>1 DEF SignalTypeOK
  <2> HIDE DEF r
  <2>3. SignalTypeOK'
    BY <1>1, <1>3, <1>4, <1>7, <2>2 DEF SignalTypeOK, senders
  <2>4. page'[h] # 0 /\ doing'[h] = "delete"
    BY <1>1, <1>3, <1>7 DEF IdleHasNothing
  <2> QED
    BY <1>3, <1>7, <2>3, <2>4, DeletionKeeps
<1> QED
  BY <1>2, <1>5, <1>6, <1>7

LEMMA SignalStepKeeps == SignalInv /\ [SignalNext]_signalVars => SignalInv'
<1> SUFFICES ASSUME SignalInv, [SignalNext]_signalVars PROVE SignalInv'
  OBVIOUS
<1>1. ASSUME NEW h \in Sessions, ListFails(h) PROVE SignalInv'
  <2>1. failures' \in 0..MaxFailures
    BY <1>1, FailureTyped DEF ListFails, SignalInv, SignalTypeOK
  <2>2. seen' \subseteq Tasks
    BY <1>1 DEF ListFails, SignalInv, SignalTypeOK
  <2> QED
    BY <1>1, <2>1, <2>2, LeavingKeeps DEF ListFails
<1>2. ASSUME NEW h \in Sessions, FilterPendingTasks(h) PROVE SignalInv'
  <2>1. failures' \in 0..MaxFailures
    BY <1>2 DEF FilterPendingTasks, SignalInv, SignalTypeOK
  <2>2. seen' \subseteq Tasks
    BY <1>2 DEF FilterPendingTasks, SignalInv, SignalTypeOK
  <2> QED
    BY <1>2, <2>1, <2>2, LeavingKeeps DEF FilterPendingTasks
<1>3. ASSUME NEW h \in Sessions, CleanupDone(h) PROVE SignalInv'
  <2>1. failures' \in 0..MaxFailures /\ seen' \subseteq Tasks
    BY <1>3 DEF CleanupDone, SignalInv, SignalTypeOK
  <2> QED
    BY <1>3, <2>1, LeavingKeeps DEF CleanupDone
<1>4. CASE UNCHANGED signalVars
  <2>1. UNCHANGED <<store, sending, attempts, failures, doing, page, got, todo, atStart,
                    shrunk, seen>>
    BY <1>4 DEF signalVars, senders, hooks
  <2> QED
    BY <2>1 DEF SignalInv, SignalTypeOK, AttemptsLeft, IdleHasNothing, ListingsCover, Covers, Read,
                UndisturbedListingIsComplete, ToSet
<1> QED
  BY <1>1, <1>2, <1>3, <1>4, AddSignalKeeps, BeginKeeps, ListPageKeeps, CleanKeeps, DeleteSignalKeeps
  DEF SignalNext, HookStep

LEMMA SignalInvariance == SignalSpec => []SignalInv
  BY SignalInitInv, SignalStepKeeps, PTL DEF SignalSpec

(* Every variable of the coordination client keeps its type: a signal is   *)
(* never sent more often than the retries allow.                           *)
THEOREM SignalsTypeCorrect == SignalSpec => []SignalTypeOK
<1>1. SignalInv => SignalTypeOK
  BY DEF SignalInv
<1> QED
  BY <1>1, SignalInvariance, PTL

(* For any page size, any numbers of senders and sessions: a listing that  *)
(* no deletion disturbed holds all that was there when it began.           *)
THEOREM ListingIsComplete == SignalSpec => []UndisturbedListingIsComplete
<1>1. SignalInv => UndisturbedListingIsComplete
  BY DEF SignalInv
<1> QED
  BY <1>1, SignalInvariance, PTL
=============================================================================
