--------------------------- MODULE DirLockProofs ---------------------------
(***************************************************************************)
(* Proofs about DirLock for any number of hook processes: TypeOK, that two *)
(* hold the lock only after a reclaim on doubtful grounds, and that the    *)
(* work is done and the lock freed unless one of them was killed.          *)
(*                                                                         *)
(* While no reclaim was doubtful, whoever is between mkdir and rmdir made  *)
(* the present directory, and a process that removes a lock removes one    *)
(* whose maker is dead, alone.  Deadness is stable, so what was true at    *)
(* the decision is true at the removals.                                   *)
(***************************************************************************)
EXTENDS DirLock, TLAPS

Inside == {"created", "holding", "free_pid", "free_dir"}

Owned == \A p \in Procs : pc[p] \in Inside => dir /\ owner = p
RemovalSound == \A p \in Procs : pc[p] \in Removing => dir /\ Dead(owner)
RemovalAlone == \A p, q \in Procs : pc[p] \in Removing /\ pc[q] \in Removing => p = q

Sound == Owned /\ RemovalSound /\ RemovalAlone
LockInv == TypeOK /\ (~doubtful => Sound)

-----------------------------------------------------------------------------
LEMMA TypingInit == Init => TypeOK
<1> SUFFICES ASSUME Init PROVE TypeOK
  OBVIOUS
<1>1. dir \in BOOLEAN /\ old \in BOOLEAN /\ doubtful \in BOOLEAN
  BY DEF Init
<1>2. ~dir => pid = NoPid /\ ~old
  BY DEF Init
<1>3. /\ pid \in Pids \cup {NoPid, Unreadable} /\ owner \in Pids /\ served \subseteq Procs
      /\ crashes \in 0..MaxCrashes
  BY DirLockAssumption DEF Init, Pids
<1>4. pc = [p \in Procs |-> "idle"] /\ seen = [p \in Procs |-> NoPid]
  BY DEF Init
<1> QED
  BY <1>1, <1>2, <1>3, <1>4 DEF TypeOK

LEMMA TypingStep == TypeOK /\ [Next]_vars => TypeOK'
<1> SUFFICES ASSUME TypeOK, [Next]_vars PROVE TypeOK'
  OBVIOUS
<1>0. \A p \in Procs : (doubtful \/ ~GoodGrounds(p)) \in BOOLEAN
  BY Zenon
<1> USE DirLockAssumption DEF TypeOK, Pids, Removing, lock
<1>1. ASSUME NEW p \in Procs, Acquire(p) PROVE TypeOK'
  <2>1. CASE FirstMkdir(p) \/ SecondMkdir(p)
    BY <2>1 DEF FirstMkdir, SecondMkdir, Mkdir
  <2>2. CASE WritePID(p)
    <3>1. CASE dir
      <4>1. old' \in BOOLEAN
        <5>1. old' = (old /\ pid # NoPid)
          BY <2>2, <3>1 DEF WritePID
        <5> QED
          BY <5>1, Zenon
      <4> QED
        BY <2>2, <3>1, <4>1 DEF WritePID
    <3>2. CASE ~dir
      BY <2>2, <3>2 DEF WritePID
    <3> QED
      BY <3>1, <3>2
  <2>3. CASE ReadPID(p)
    BY <2>3 DEF ReadPID
  <2>4. CASE SignalPID(p)
    BY <2>4, <1>0 DEF SignalPID, Reclaim
  <2>5. CASE CheckAge(p)
    BY <2>5, <1>0 DEF CheckAge, Reclaim
  <2> QED
    BY <1>1, <2>1, <2>2, <2>3, <2>4, <2>5 DEF Acquire
<1>2. ASSUME NEW p \in Procs, Release(p) PROVE TypeOK'
  BY <1>2 DEF Release, RemovePID, RemoveDir
<1>3. ASSUME NEW p \in Procs, FinishWork(p) \/ Skip(p) PROVE TypeOK'
  BY <1>3 DEF FinishWork, Skip, Step
<1>4. ASSUME NEW p \in Procs, Crash(p) PROVE TypeOK'
  BY <1>4 DEF Crash
<1>5. CASE Expire
  BY <1>5 DEF Expire
<1>6. CASE UNCHANGED vars
  BY <1>6 DEF vars
<1> QED
  BY <1>1, <1>2, <1>3, <1>4, <1>5, <1>6 DEF Next

(* TypeOK is an invariant of every instance.                               *)
THEOREM DirLockTyping == Spec => []TypeOK
BY TypingInit, TypingStep, PTL DEF Spec

-----------------------------------------------------------------------------
LEMMA SoundInit == Init => LockInv
<1> SUFFICES ASSUME Init PROVE LockInv
  OBVIOUS
<1>1. TypeOK
  BY TypingInit
<1>2. Sound
  BY DEF Init, Sound, Owned, RemovalSound, RemovalAlone, Inside, Removing
<1> QED
  BY <1>1, <1>2 DEF LockInv

(* A process that has gone stays gone.                                     *)
LEMMA GoneStaysGone ==
  ASSUME TypeOK, [Next]_vars PROVE \A q \in Procs : pc[q] = "gone" => pc'[q] = "gone"
BY DEF Next, vars, TypeOK, Acquire, FirstMkdir, SecondMkdir, Mkdir, WritePID,
     ReadPID, SignalPID, CheckAge, Reclaim, Release, RemovePID, RemoveDir, FinishWork,
     Skip, Step, Crash, Expire

LEMMA DoubtRemains == ASSUME TypeOK, [Next]_vars, doubtful PROVE doubtful'
BY DEF Next, vars, TypeOK, Acquire, FirstMkdir, SecondMkdir, Mkdir, WritePID,
     ReadPID, SignalPID, CheckAge, Reclaim, Release, RemovePID, RemoveDir, FinishWork,
     Skip, Step, Crash, Expire

LEMMA SoundStep == LockInv /\ [Next]_vars => LockInv'
<1> SUFFICES ASSUME LockInv, [Next]_vars, ~doubtful' PROVE Sound'
  BY TypingStep DEF LockInv
<1>1. TypeOK /\ Sound
  BY DoubtRemains DEF LockInv
<1> DEFINE SameLock == dir' = dir /\ owner' = owner
(* Steps that leave the directory alone and take p to no place inside.     *)
<1>2. ASSUME SameLock, NEW p \in Procs, NEW to,
             pc' = [pc EXCEPT ![p] = to],
             to \in Inside => pc[p] \in Inside,
             to \in Removing => pc[p] \in Removing
      PROVE  Sound'
  <2>1. Dead(owner) => Dead(owner)'
    BY <1>1, <1>2, GoneStaysGone DEF Dead
  <2>2. \A q \in Procs : q # p => pc'[q] = pc[q]
    BY <1>1, <1>2 DEF TypeOK
  <2>3. pc'[p] = to
    BY <1>1, <1>2 DEF TypeOK
  <2> QED
    BY <1>1, <1>2, <2>1, <2>2, <2>3 DEF Sound, Owned, RemovalSound, RemovalAlone
(* A decision on good grounds.                                             *)
<1>3. ASSUME SameLock, NEW p \in Procs, Reclaim(p) PROVE Sound'
  <2>1. GoodGrounds(p)
    BY <1>3 DEF Reclaim
  <2>2. pc'[p] = "drop_pid" /\ \A q \in Procs : q # p => pc'[q] = pc[q]
    BY <1>1, <1>3 DEF TypeOK, Reclaim
  <2>3. Dead(owner)'
    BY <1>1, <1>3, <2>1, GoneStaysGone DEF GoodGrounds, Dead
  <2> QED
    BY <1>1, <1>3, <2>1, <2>2, <2>3
    DEF Sound, Owned, RemovalSound, RemovalAlone, GoodGrounds, Inside, Removing
(* A directory made where there was none: nobody was inside or removing.   *)
<1>4. ASSUME NEW p \in Procs, NEW failed \in {"read_pid", "skipped"}, Mkdir(p, failed)
      PROVE  Sound'
  <2>1. CASE dir
    BY <1>2, <1>4, <2>1 DEF Mkdir, lock, Inside, Removing
  <2>2. CASE ~dir
    <3>1. \A q \in Procs : pc[q] \notin Inside /\ pc[q] \notin Removing
      BY <1>1, <2>2 DEF Sound, Owned, RemovalSound
    <3>2. dir' /\ owner' = p /\ pc' = [pc EXCEPT ![p] = "created"]
      BY <1>4, <2>2 DEF Mkdir
    <3> QED
      BY <1>1, <3>1, <3>2
      DEF TypeOK, Sound, Owned, RemovalSound, RemovalAlone, Inside, Removing
  <2> QED
    BY <2>1, <2>2
(* rmdir by p: p made the directory, or removes that of a dead process.    *)
<1>5. ASSUME NEW p \in Procs, NEW from, NEW to, RemoveDir(p, from, to),
             \/ from = "free_dir" /\ to = "gone"
             \/ from = "drop_dir" /\ to = "retry"
      PROVE  Sound'
  <2>1. \A q \in Procs : pc[q] \in Inside /\ q # p => owner # p /\ ~Dead(owner)
    BY <1>1, DirLockAssumption DEF Sound, Owned, Dead, Inside
  <2>2. ~Dead(p) \/ from = "drop_dir"
    BY <1>5, DirLockAssumption DEF RemoveDir, Dead
  <2>3. \A q \in Procs : q # p => pc[q] \notin Inside /\ pc[q] \notin Removing
    BY <1>1, <1>5, <2>1, <2>2 DEF RemoveDir, Sound, Owned, RemovalSound, RemovalAlone,
       Inside, Removing
  <2>4. pc'[p] = to /\ \A q \in Procs : q # p => pc'[q] = pc[q]
    BY <1>1, <1>5 DEF RemoveDir, TypeOK
  <2> QED
    BY <1>5, <2>3, <2>4 DEF Sound, Owned, RemovalSound, RemovalAlone, Inside, Removing
<1>6. ASSUME NEW p \in Procs, Acquire(p) PROVE Sound'
  <2>1. CASE FirstMkdir(p) \/ SecondMkdir(p)
    BY <1>4, <2>1 DEF FirstMkdir, SecondMkdir
  <2>2. CASE WritePID(p)
    BY <1>2, <2>2 DEF WritePID, Inside, Removing
  <2>3. CASE ReadPID(p)
    BY <1>2, <2>3 DEF ReadPID, lock, Inside, Removing
  <2>4. CASE SignalPID(p)
    BY <1>2, <1>3, <2>4 DEF SignalPID, lock, Inside, Removing
  <2>5. CASE CheckAge(p)
    BY <1>2, <1>3, <2>5 DEF CheckAge, lock, Inside, Removing
  <2> QED
    BY <1>6, <2>1, <2>2, <2>3, <2>4, <2>5 DEF Acquire
<1>7. ASSUME NEW p \in Procs, Release(p) PROVE Sound'
  <2>1. CASE RemovePID(p, "free_pid", "free_dir") \/ RemovePID(p, "drop_pid", "drop_dir")
    BY <1>2, <2>1 DEF RemovePID, Inside, Removing
  <2>2. CASE RemoveDir(p, "free_dir", "gone") \/ RemoveDir(p, "drop_dir", "retry")
    BY <1>5, <2>2
  <2> QED
    BY <1>7, <2>1, <2>2 DEF Release
<1>8. ASSUME NEW p \in Procs, FinishWork(p) \/ Skip(p) \/ Crash(p) PROVE Sound'
  BY <1>2, <1>8 DEF FinishWork, Skip, Crash, Step, lock, Inside, Removing
<1>9. CASE Expire \/ UNCHANGED vars
  BY <1>1, <1>9 DEF Expire, vars, lock, Sound, Owned, RemovalSound, RemovalAlone, Dead
<1> QED
  BY <1>6, <1>7, <1>8, <1>9 DEF Next

(* Two processes hold the directory lock only after a doubtful reclaim.    *)
THEOREM DirLockExclusive == Spec => []ExclusiveUnlessDoubtful
<1>1. LockInv => ExclusiveUnlessDoubtful
  BY DEF LockInv, Sound, Owned, ExclusiveUnlessDoubtful, Holders, Inside
<1> QED
  BY <1>1, SoundInit, SoundStep, PTL DEF Spec

-----------------------------------------------------------------------------
(* What holds while nobody was killed.  The former lock: as long as it is  *)
(* there, nobody has made one, and as long as its PID file is there, no    *)
(* process has passed it by.  A newer lock: the PID in it is that of a     *)
(* process that will remove it, and somebody is left who will remove the   *)
(* directory.  No lock, and nobody served: somebody will make one.         *)
FormerLock ==
  owner = Former =>
    served = {} /\ pid \notin Procs /\ \A p \in Procs : pc[p] \notin Inside

FormerIsMet ==
  pid = Former =>
    \A p \in Procs : /\ pc[p] \in {"idle", "read_pid", "signal", "drop_pid"}
                     /\ pc[p] = "signal" => seen[p] = Former

NewLock == owner # Former => pid \notin {Former, Unreadable}
PidOfHolder == \A p \in Procs : pid = p => pc[p] \in {"holding", "free_pid"}
HolderServed == \A p \in Procs : pc[p] \in Inside \ {"created"} => p \in served

SomeoneFrees == dir /\ owner # Former => \E p \in Procs : pc[p] \in Inside \cup Removing
SomeoneRetries == ~dir /\ served = {} => \E p \in Procs : pc[p] \in {"idle", "retry"}

WorkInv ==
  /\ FormerLock /\ FormerIsMet /\ NewLock
  /\ PidOfHolder /\ HolderServed
  /\ SomeoneFrees /\ SomeoneRetries

UndisturbedInv == TypeOK /\ (crashes = 0 => WorkInv)

LEMMA WorkInit == Init => UndisturbedInv
<1> SUFFICES ASSUME Init PROVE UndisturbedInv
  OBVIOUS
<1>1. \A p \in Procs : pc[p] = "idle"
  BY DEF Init
<1>2. owner = Former /\ served = {} /\ pid \in {NoPid, Former, Unreadable} /\ pid \notin Procs
  BY DirLockAssumption DEF Init
<1>3. WorkInv
  BY <1>1, <1>2, DirLockAssumption
  DEF WorkInv, FormerLock, FormerIsMet, NewLock, PidOfHolder, HolderServed, SomeoneFrees,
      SomeoneRetries, Inside
<1> QED
  BY <1>3, TypingInit DEF UndisturbedInv

(* A process at work on the lock moves on, and the lock stays as it is.    *)
LEMMA WorkMove ==
  ASSUME TypeOK, WorkInv, UNCHANGED <<dir, pid, owner, served>>,
         NEW p \in Procs, NEW to, pc' = [pc EXCEPT ![p] = to],
         \A q \in Procs : q # p => seen'[q] = seen[q],
         \/ pc[p] = "idle" /\ to = "read_pid"
         \/ pc[p] = "read_pid" /\ to \in {"signal", "age"}
         \/ pc[p] = "signal" /\ to \in {"drop_pid", "age"}
         \/ pc[p] = "age" /\ to \in {"drop_pid", "skipped"}
         \/ pc[p] \in {"created", "retry"} /\ to = "skipped"
         \/ pc[p] = "holding" /\ to = "free_pid"
         \/ pc[p] = "skipped" /\ to = "gone",
         pc[p] \in {"idle", "retry"} => dir,
         pc[p] = "created" => ~dir,
         pc[p] = "read_pid" /\ pid = Former => to = "signal" /\ seen'[p] = Former,
         pc[p] = "signal" /\ pid = Former => to = "drop_pid"
  PROVE  WorkInv'
<1>1. pc'[p] = to /\ \A q \in Procs : q # p => pc'[q] = pc[q]
  BY DEF TypeOK
<1>2. FormerLock' /\ NewLock' /\ PidOfHolder' /\ HolderServed'
  BY <1>1 DEF WorkInv, FormerLock, NewLock, PidOfHolder, HolderServed, Inside
<1>3. FormerIsMet'
  <2> SUFFICES ASSUME pid = Former
               PROVE  \A q \in Procs :
                        /\ pc'[q] \in {"idle", "read_pid", "signal", "drop_pid"}
                        /\ pc'[q] = "signal" => seen'[q] = Former
    BY DEF FormerIsMet
  <2>0. FormerIsMet
    BY DEF WorkInv
  <2>1. \A q \in Procs : /\ pc[q] \in {"idle", "read_pid", "signal", "drop_pid"}
                         /\ pc[q] = "signal" => seen[q] = Former
    BY <2>0 DEF FormerIsMet
  <2>2. /\ to \in {"read_pid", "signal", "drop_pid"}
        /\ to = "signal" => seen'[p] = Former
    BY <2>1
  <2> QED
    BY <1>1, <2>1, <2>2
<1>4. SomeoneFrees'
  BY <1>1 DEF WorkInv, SomeoneFrees, Inside, Removing
<1>5. SomeoneRetries'
  BY <1>1 DEF WorkInv, SomeoneRetries
<1> QED
  BY <1>2, <1>3, <1>4, <1>5 DEF WorkInv

LEMMA WorkMkdir ==
  ASSUME TypeOK, WorkInv, NEW p \in Procs,
         \/ pc[p] = "idle" /\ Mkdir(p, "read_pid")
         \/ pc[p] = "retry" /\ Mkdir(p, "skipped")
  PROVE  WorkInv'
<1>1. CASE dir
  <2>1. /\ \/ pc[p] = "idle" /\ pc' = [pc EXCEPT ![p] = "read_pid"]
           \/ pc[p] = "retry" /\ pc' = [pc EXCEPT ![p] = "skipped"]
        /\ UNCHANGED <<lock, seen, served>>
    BY <1>1 DEF Mkdir
  <2> QED
    BY <1>1, <2>1, WorkMove DEF lock
<1>2. CASE ~dir
  <2>1. /\ pid' = NoPid /\ pid = NoPid /\ served' = served
        /\ dir' /\ owner' = p /\ pc' = [pc EXCEPT ![p] = "created"]
    BY <1>2 DEF Mkdir, TypeOK
  <2>2. pc'[p] = "created" /\ \A q \in Procs : q # p => pc'[q] = pc[q]
    BY <2>1 DEF TypeOK
  <2>3. pid' # Former /\ pid' # Unreadable /\ pid' \notin Procs /\ owner' # Former
    BY <2>1, DirLockAssumption
  <2>4. PidOfHolder' /\ FormerIsMet' /\ NewLock' /\ FormerLock'
    BY <2>3 DEF PidOfHolder, FormerIsMet, NewLock, FormerLock
  <2>5. HolderServed' /\ SomeoneFrees' /\ SomeoneRetries'
    BY <2>1, <2>2 DEF WorkInv, HolderServed, SomeoneFrees, SomeoneRetries, Inside
  <2> QED
    BY <2>4, <2>5 DEF WorkInv
<1> QED
  BY <1>1, <1>2

LEMMA WorkWritePID ==
  ASSUME TypeOK, WorkInv, NEW p \in Procs, WritePID(p), dir PROVE WorkInv'
<1>1. /\ pid' = p /\ served' = served \cup {p} /\ dir' = dir /\ owner' = owner
      /\ pc' = [pc EXCEPT ![p] = "holding"] /\ pc[p] = "created"
  BY DEF WritePID
<1>2. pc'[p] = "holding" /\ \A q \in Procs : q # p => pc'[q] = pc[q]
  BY <1>1 DEF TypeOK
<1>3. owner # Former
  BY <1>1 DEF WorkInv, FormerLock, Inside
<1>4. FormerLock' /\ FormerIsMet' /\ NewLock'
  BY <1>1, <1>3, DirLockAssumption DEF FormerLock, FormerIsMet, NewLock
<1>5. PidOfHolder' /\ HolderServed' /\ SomeoneFrees' /\ SomeoneRetries'
  BY <1>1, <1>2 DEF WorkInv, PidOfHolder, HolderServed, SomeoneFrees, SomeoneRetries, Inside
<1> QED
  BY <1>4, <1>5 DEF WorkInv

LEMMA WorkRemovePID ==
  ASSUME TypeOK, WorkInv, NEW p \in Procs,
         RemovePID(p, "free_pid", "free_dir") \/ RemovePID(p, "drop_pid", "drop_dir")
  PROVE  WorkInv'
<1>1. /\ pid' = NoPid /\ UNCHANGED <<dir, owner, served>>
      /\ \/ pc[p] = "free_pid" /\ pc' = [pc EXCEPT ![p] = "free_dir"]
         \/ pc[p] = "drop_pid" /\ pc' = [pc EXCEPT ![p] = "drop_dir"]
  BY DEF RemovePID
<1>2. /\ \A q \in Procs : q # p => pc'[q] = pc[q]
      /\ \/ pc[p] = "free_pid" /\ pc'[p] = "free_dir"
         \/ pc[p] = "drop_pid" /\ pc'[p] = "drop_dir"
  BY <1>1 DEF TypeOK
<1>3. FormerIsMet' /\ NewLock' /\ PidOfHolder'
  <2>1. pid' # Former /\ pid' # Unreadable /\ pid' \notin Procs
    BY <1>1, DirLockAssumption
  <2> QED
    BY <2>1 DEF FormerIsMet, NewLock, PidOfHolder
<1>4. FormerLock' /\ HolderServed'
  BY <1>1, <1>2, DirLockAssumption DEF WorkInv, FormerLock, HolderServed, Inside
<1>5. SomeoneFrees' /\ SomeoneRetries'
  BY <1>1, <1>2 DEF WorkInv, SomeoneFrees, SomeoneRetries, Inside, Removing
<1> QED
  BY <1>3, <1>4, <1>5 DEF WorkInv

(* rmdir: when it is refused, the PID file is that of a process that will  *)
(* come to remove the directory itself.                                    *)
LEMMA WorkRemoveDir ==
  ASSUME TypeOK, WorkInv, NEW p \in Procs,
         RemoveDir(p, "free_dir", "gone") \/ RemoveDir(p, "drop_dir", "retry")
  PROVE  WorkInv'
<1>1. /\ UNCHANGED <<pid, owner, served>> /\ dir' = (dir /\ pid # NoPid)
      /\ \/ pc[p] = "free_dir" /\ pc' = [pc EXCEPT ![p] = "gone"]
         \/ pc[p] = "drop_dir" /\ pc' = [pc EXCEPT ![p] = "retry"]
  BY DEF RemoveDir
<1>2. /\ \A q \in Procs : q # p => pc'[q] = pc[q]
      /\ \/ pc[p] = "free_dir" /\ pc'[p] = "gone"
         \/ pc[p] = "drop_dir" /\ pc'[p] = "retry"
  BY <1>1 DEF TypeOK
<1>3. pid # Former
  <2>1. FormerIsMet
    BY DEF WorkInv
  <2> QED
    BY <1>2, <2>1 DEF FormerIsMet
<1>4. FormerLock' /\ FormerIsMet' /\ NewLock' /\ PidOfHolder' /\ HolderServed'
  BY <1>1, <1>2, <1>3
  DEF WorkInv, FormerLock, FormerIsMet, NewLock, PidOfHolder, HolderServed, Inside
<1>5. SomeoneFrees'
  <2> SUFFICES ASSUME dir', owner # Former
               PROVE  \E q \in Procs : pc'[q] \in Inside \cup Removing
    BY <1>1 DEF SomeoneFrees
  <2>1. pid \in Procs
    BY <1>1 DEF WorkInv, NewLock, TypeOK, Pids
  <2>2. pc[pid] \in {"holding", "free_pid"}
    BY <2>1 DEF WorkInv, PidOfHolder
  <2>3. pc'[pid] \in {"holding", "free_pid"}
    BY <1>2, <2>1, <2>2
  <2> QED
    BY <2>1, <2>3 DEF Inside
<1>6. SomeoneRetries'
  <2>1. pc[p] = "free_dir" => p \in served
    BY DEF WorkInv, HolderServed, Inside
  <2> QED
    BY <1>1, <1>2, <2>1 DEF SomeoneRetries
<1> QED
  BY <1>4, <1>5, <1>6 DEF WorkInv

LEMMA WorkStep == UndisturbedInv /\ [Next]_vars => UndisturbedInv'
<1> SUFFICES ASSUME UndisturbedInv, [Next]_vars, crashes' = 0 PROVE WorkInv'
  BY TypingStep DEF UndisturbedInv
<1>0. TypeOK /\ \A p \in Procs : ~Crash(p)
  BY DEF UndisturbedInv, TypeOK, Crash
<1>1. CASE Expire \/ UNCHANGED vars
  <2>1. UNCHANGED <<dir, pid, owner, pc, seen, crashes, served>>
    BY <1>1 DEF Expire, vars, lock
  <2> QED
    BY <2>1 DEF UndisturbedInv, WorkInv, FormerLock, FormerIsMet, NewLock, PidOfHolder,
       HolderServed, SomeoneFrees, SomeoneRetries
<1>2. ASSUME NEW p \in Procs, Acquire(p) PROVE WorkInv'
  <2>0. WorkInv
    BY <1>2 DEF UndisturbedInv, Acquire, FirstMkdir, SecondMkdir, Mkdir, WritePID, ReadPID,
       SignalPID, CheckAge
  <2>1. CASE FirstMkdir(p) \/ SecondMkdir(p)
    BY <1>0, <2>0, <2>1, WorkMkdir DEF FirstMkdir, SecondMkdir
  <2>2. CASE WritePID(p)
    BY <1>0, <2>0, <2>2, WorkWritePID, WorkMove DEF WritePID
  <2>3. CASE ReadPID(p)
    <3>1. CASE pid \in Pids
      <4>1. /\ UNCHANGED <<dir, pid, owner, served>> /\ pc[p] = "read_pid"
            /\ pc' = [pc EXCEPT ![p] = "signal"] /\ seen' = [seen EXCEPT ![p] = pid]
        BY <2>3, <3>1 DEF ReadPID, lock
      <4>2. seen'[p] = pid /\ \A q \in Procs : q # p => seen'[q] = seen[q]
        BY <1>0, <4>1 DEF TypeOK
      <4> QED
        BY <1>0, <2>0, <4>1, <4>2, WorkMove
    <3>2. CASE pid \notin Pids
      BY <1>0, <2>0, <2>3, <3>2, WorkMove DEF ReadPID, lock, Pids
    <3> QED
      BY <3>1, <3>2
  <2>4. CASE SignalPID(p)
    <3>1. /\ UNCHANGED <<dir, pid, owner, served>> /\ pc[p] = "signal"
          /\ seen' = [seen EXCEPT ![p] = NoPid]
          /\ \/ Dead(seen[p]) /\ pc' = [pc EXCEPT ![p] = "drop_pid"]
             \/ ~Dead(seen[p]) /\ pc' = [pc EXCEPT ![p] = "age"]
      BY <2>4 DEF SignalPID, Reclaim, lock
    <3>2. \A q \in Procs : q # p => seen'[q] = seen[q]
      BY <1>0, <3>1 DEF TypeOK
    <3>3. pid = Former => Dead(seen[p])
      BY <2>0, <3>1 DEF WorkInv, FormerIsMet, Dead
    <3>4. CASE Dead(seen[p])
      BY <1>0, <2>0, <3>1, <3>2, <3>4, WorkMove
    <3>5. CASE ~Dead(seen[p])
      BY <1>0, <2>0, <3>1, <3>2, <3>3, <3>5, WorkMove
    <3> QED
      BY <3>4, <3>5
  <2>5. CASE CheckAge(p)
    <3>1. /\ UNCHANGED <<dir, pid, owner, served, seen>> /\ pc[p] = "age"
          /\ \/ pc' = [pc EXCEPT ![p] = "drop_pid"]
             \/ pc' = [pc EXCEPT ![p] = "skipped"]
      BY <2>5 DEF CheckAge, Reclaim, lock
    <3> QED
      BY <1>0, <2>0, <3>1, WorkMove
  <2> QED
    BY <1>2, <2>1, <2>2, <2>3, <2>4, <2>5 DEF Acquire
<1>3. ASSUME NEW p \in Procs, Release(p) PROVE WorkInv'
  <2>0. WorkInv
    BY <1>3 DEF UndisturbedInv, Release, RemovePID, RemoveDir
  <2> QED
    BY <1>0, <1>3, <2>0, WorkRemovePID, WorkRemoveDir DEF Release
<1>4. ASSUME NEW p \in Procs, FinishWork(p) \/ Skip(p) PROVE WorkInv'
  <2>0. WorkInv
    BY <1>4 DEF UndisturbedInv, FinishWork, Skip, Step
  <2> QED
    BY <1>0, <1>4, <2>0, WorkMove DEF FinishWork, Skip, Step, lock
<1> QED
  BY <1>0, <1>1, <1>2, <1>3, <1>4 DEF Next

(* However many contenders interfere, unless one is killed: they do not    *)
(* all give up, but before an anonymous lock not yet old, and the last to  *)
(* go leaves no lock behind.                                               *)
THEOREM DirLockWorkIsDone == Spec => []WorkIsDoneAndLockFreed
<1>1. UndisturbedInv => WorkIsDoneAndLockFreed
  <2> SUFFICES ASSUME UndisturbedInv, AllDone, crashes = 0
               PROVE  IF served = {} THEN dir /\ owner = Former /\ pid \in {NoPid, Unreadable}
                                     ELSE ~dir
    BY DEF WorkIsDoneAndLockFreed
  <2>1. TypeOK /\ WorkInv
    BY DEF UndisturbedInv
  <2>2. PICK p \in Procs : pc[p] = "gone"
    BY DirLockAssumption DEF AllDone
  <2>3. pid \in {NoPid, Unreadable}
    <3>0. FormerIsMet
      BY <2>1 DEF WorkInv
    <3>1. pid # Former
      BY <2>2, <3>0 DEF FormerIsMet
    <3>2. pid \notin Procs
      BY <2>1 DEF WorkInv, PidOfHolder, AllDone
    <3> QED
      BY <2>1, <3>1, <3>2 DEF TypeOK, Pids
  <2>4. dir => owner = Former /\ served = {}
    BY <2>1 DEF WorkInv, SomeoneFrees, FormerLock, AllDone, Inside, Removing
  <2>5. served = {} => dir
    BY <2>1 DEF WorkInv, SomeoneRetries, AllDone
  <2> QED
    BY <2>3, <2>4, <2>5
<1> QED
  BY <1>1, WorkInit, WorkStep, PTL DEF Spec
=============================================================================
