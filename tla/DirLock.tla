------------------------------- MODULE DirLock -------------------------------
(***************************************************************************)
(* The directory lock (internal/lockfile/dirlock.go) as the stop hook uses *)
(* it (cli/hook_housekeeping.go): each hook process calls Acquire once,    *)
(* does its housekeeping if that succeeds, and calls Release.  Each file   *)
(* system call is a step.  Other processes come between any two of them,   *)
(* and a process may be killed at any step.                                *)
(*                                                                         *)
(* Acquire reads the PID file, asks whether that process lives, looks at   *)
(* the age of the directory, removes the PID file, removes the directory   *)
(* and makes it anew: six looks at a lock that may be another's each time. *)
(***************************************************************************)
EXTENDS Naturals

CONSTANTS
  Procs,        \* the hook processes of the period, each with its own PID
  Former,       \* a holder that died before the period
  NoPid,        \* there is no PID file
  Unreadable,   \* the PID file holds no number (it was created, not yet written)
  MaxCrashes    \* bound on the processes killed

ASSUME DirLockAssumption ==
  /\ Procs # {}
  /\ Former \notin Procs
  /\ NoPid \notin Procs \cup {Former}
  /\ Unreadable \notin Procs \cup {Former, NoPid}
  /\ MaxCrashes \in Nat

VARIABLES
  dir,          \* the lock directory exists
  pid,          \* what the PID file in it says
  old,          \* the directory's modification time is past the stale timeout
  pc,           \* where each process is
  seen,         \* the PID each process has read
  crashes,      \* how many were killed
  owner,        \* history: whose mkdir made the present directory
  served,       \* history: the processes whose Acquire succeeded
  doubtful      \* history: somebody decided to reclaim without good grounds

lock == <<dir, pid, old, owner>>
vars == <<lock, pc, seen, crashes, served, doubtful>>

Pids == Procs \cup {Former}

(* Inside Acquire's Release.                                               *)
Removing == {"drop_pid", "drop_dir"}

TypeOK ==
  /\ dir \in BOOLEAN /\ old \in BOOLEAN /\ doubtful \in BOOLEAN
  /\ pid \in Pids \cup {NoPid, Unreadable}
  /\ ~dir => pid = NoPid /\ ~old
  /\ pc \in [Procs -> {"idle", "read_pid", "signal", "age", "created", "holding",
                       "free_pid", "free_dir", "retry", "skipped", "gone"} \cup Removing]
  /\ seen \in [Procs -> Pids \cup {NoPid}]
  /\ \A p \in Procs : pc[p] = "signal" => seen[p] \in Pids
  /\ crashes \in 0..MaxCrashes
  /\ owner \in Pids
  /\ served \subseteq Procs

(* No lock, or what a process that died earlier may have left.             *)
Init ==
  /\ \/ dir = FALSE /\ pid = NoPid /\ old = FALSE
     \/ dir = TRUE /\ pid \in {Former, NoPid, Unreadable} /\ old \in BOOLEAN
  /\ owner = Former
  /\ pc = [p \in Procs |-> "idle"]
  /\ seen = [p \in Procs |-> NoPid]
  /\ crashes = 0
  /\ served = {}
  /\ doubtful = FALSE

Dead(q) == q = Former \/ (q \in Procs /\ pc[q] = "gone")

-----------------------------------------------------------------------------
(* Acquire.                                                                *)

(* os.Mkdir: made it, or it exists.                                        *)
MkdirAll(p, failed) ==
  /\ dir' = TRUE /\ owner' = p
  /\ pc' = [pc EXCEPT ![p] = "created"]
  /\ UNCHANGED <<pid, old, seen, crashes, served, doubtful>>

Mkdir(p, failed) ==
  \/ /\ ~dir
     /\ dir' = TRUE
     /\ owner' = p
     /\ pc' = [pc EXCEPT ![p] = "created"]
     /\ UNCHANGED <<pid, old, seen, crashes, served, doubtful>>
  \/ /\ dir
     /\ pc' = [pc EXCEPT ![p] = failed]
     /\ UNCHANGED <<lock, seen, crashes, served, doubtful>>

FirstMkdir(p) == pc[p] = "idle" /\ Mkdir(p, "read_pid")

(* writePID.  Without the directory it fails, and so does Acquire.  The    *)
(* new file touches the directory.                                         *)
WritePID(p) ==
  /\ pc[p] = "created"
  /\ \/ /\ dir
        /\ pid' = p
        /\ old' = (old /\ pid # NoPid)
        /\ pc' = [pc EXCEPT ![p] = "holding"]
        /\ served' = served \cup {p}
     \/ /\ ~dir
        /\ pc' = [pc EXCEPT ![p] = "skipped"]
        /\ UNCHANGED <<pid, old, served>>
  /\ UNCHANGED <<dir, owner, seen, crashes, doubtful>>

(* isHeldByDeadProcess reads the PID file.                                 *)
ReadPID(p) ==
  /\ pc[p] = "read_pid"
  /\ IF pid \in Pids
     THEN /\ seen' = [seen EXCEPT ![p] = pid]
          /\ pc' = [pc EXCEPT ![p] = "signal"]
     ELSE /\ pc' = [pc EXCEPT ![p] = "age"]
          /\ UNCHANGED seen
  /\ UNCHANGED <<lock, crashes, served, doubtful>>

(* The grounds for a reclaim are good when the directory now there was     *)
(* left by a dead process and nobody else is removing it.                  *)
GoodGrounds(p) ==
  dir /\ Dead(owner) /\ \A q \in Procs \ {p} : pc[q] \notin Removing

Reclaim(p) ==
  /\ pc' = [pc EXCEPT ![p] = "drop_pid"]
  /\ doubtful' = (doubtful \/ ~GoodGrounds(p))

(* Signal(0) to the process whose PID was read.                            *)
SignalPID(p) ==
  /\ pc[p] = "signal"
  /\ \/ Dead(seen[p]) /\ Reclaim(p)
     \/ ~Dead(seen[p]) /\ pc' = [pc EXCEPT ![p] = "age"] /\ UNCHANGED doubtful
  /\ seen' = [seen EXCEPT ![p] = NoPid]
  /\ UNCHANGED <<lock, crashes, served>>

(* isStale; a directory that is gone is not stale.                         *)
CheckAge(p) ==
  /\ pc[p] = "age"
  /\ \/ old /\ Reclaim(p)
     \/ ~old /\ pc' = [pc EXCEPT ![p] = "skipped"] /\ UNCHANGED doubtful
  /\ UNCHANGED <<lock, seen, crashes, served>>

SecondMkdir(p) == pc[p] = "retry" /\ Mkdir(p, "skipped")

-----------------------------------------------------------------------------
(* Release, by the holder or inside Acquire: two removals whose errors are *)
(* ignored.  Neither looks at whose lock it is.  rmdir refuses a directory *)
(* with a file in it.                                                      *)
RemovePID(p, from, to) ==
  /\ pc[p] = from
  /\ pid' = NoPid
  /\ old' = (old /\ pid = NoPid)
  /\ pc' = [pc EXCEPT ![p] = to]
  /\ UNCHANGED <<dir, owner, seen, crashes, served, doubtful>>

RemoveDir(p, from, to) ==
  /\ pc[p] = from
  /\ dir' = (dir /\ pid # NoPid)
  /\ old' = (old /\ dir')
  /\ pc' = [pc EXCEPT ![p] = to]
  /\ UNCHANGED <<pid, owner, seen, crashes, served, doubtful>>

ReleaseDirOnly(p) ==
  RemoveDir(p, "free_pid", "gone") \/ RemoveDir(p, "drop_pid", "retry")

Release(p) ==
  \/ RemovePID(p, "free_pid", "free_dir") \/ RemoveDir(p, "free_dir", "gone")
  \/ RemovePID(p, "drop_pid", "drop_dir") \/ RemoveDir(p, "drop_dir", "retry")

-----------------------------------------------------------------------------
Step(p, from, to) ==
  /\ pc[p] = from
  /\ pc' = [pc EXCEPT ![p] = to]
  /\ UNCHANGED <<lock, seen, crashes, served, doubtful>>

(* Handle's work is done: the deferred Release begins.                     *)
FinishWork(p) == Step(p, "holding", "free_pid")

(* "housekeeping skipped": the process ends.                               *)
Skip(p) == Step(p, "skipped", "gone")

(* Killed.  In writePID it may leave an empty file.                        *)
Crash(p) ==
  /\ pc[p] \notin {"idle", "gone"}
  /\ crashes < MaxCrashes
  /\ crashes' = crashes + 1
  /\ pid' \in IF pc[p] = "created" /\ dir THEN {pid, Unreadable} ELSE {pid}
  /\ old' = (old /\ (pid # NoPid \/ pid' = NoPid))
  /\ pc' = [pc EXCEPT ![p] = "gone"]
  /\ seen' = [seen EXCEPT ![p] = NoPid]
  /\ UNCHANGED <<dir, owner, served, doubtful>>

(* Five minutes pass without a change in the directory, its holder alive   *)
(* or not: the subcommands of one hook may take longer than that.          *)
Expire ==
  /\ dir /\ ~old
  /\ old' = TRUE
  /\ UNCHANGED <<dir, pid, owner, pc, seen, crashes, served, doubtful>>

Acquire(p) ==
  \/ FirstMkdir(p) \/ WritePID(p) \/ ReadPID(p)
  \/ SignalPID(p) \/ CheckAge(p) \/ SecondMkdir(p)

Next ==
  \/ \E p \in Procs : Acquire(p) \/ Release(p) \/ FinishWork(p) \/ Skip(p) \/ Crash(p)
  \/ Expire

Spec == Init /\ [][Next]_vars

-----------------------------------------------------------------------------
Holders == {p \in Procs : pc[p] = "holding"}
AllDone == \A p \in Procs : pc[p] = "gone"

(* Two processes hold the lock only after somebody reclaimed it on doubtful *)
(* grounds: from a holder still alive (slower than the timeout, or met      *)
(* through the PID of its predecessor), or while another was reclaiming it. *)
(* This is what "mkdir atomicity" is worth once locks are reclaimed.        *)
ExclusiveUnlessDoubtful ==
  ~doubtful => \A p, q \in Holders : p = q

(* However contenders interfere, unless one is killed they do not all give  *)
(* up, except before an anonymous lock not yet old, and the last to go      *)
(* leaves no lock behind that would make the next hook skip its work.       *)
WorkIsDoneAndLockFreed ==
  AllDone /\ crashes = 0 =>
    IF served = {} THEN dir /\ owner = Former /\ pid \in {NoPid, Unreadable}
                   ELSE ~dir

=============================================================================
