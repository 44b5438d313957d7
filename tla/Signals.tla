------------------------------- MODULE Signals -------------------------------
(***************************************************************************)
(* Signals between machines through the Mem0 API                           *)
(* (internal/coordination/client.go): AddSignal posts with retries,        *)
(* ListSignals reads page after page, CleanStaleSignals lists and deletes, *)
(* and the hook of a session's start lists and picks the tasks for its     *)
(* machine (FilterPendingTasks).                                           *)
(*                                                                         *)
(* The store is external: a list of memories, each new one in front, that  *)
(* answers a page of it and its length at the time of the request.  What   *)
(* others add or delete between two requests shifts the pages.             *)
(***************************************************************************)
EXTENDS Naturals, Sequences, SequencesExt

CONSTANTS
  Tasks,         \* signals of type task_dispatch
  Completed,     \* signals of type completed
  Cleaners,      \* hooks of sessions that completed
  Pullers,       \* hooks that pull, on the machine the tasks are for
  PageSize,
  Retries,
  MaxFailures    \* bound on requests that fail or whose answer is lost

ASSUME SignalsAssumption ==
  /\ Tasks \cap Completed = {} /\ Cleaners \cap Pullers = {}
  /\ PageSize \in Nat \ {0} /\ Retries \in Nat /\ MaxFailures \in Nat

Signals == Tasks \cup Completed
Sessions == Cleaners \cup Pullers

VARIABLES
  store,         \* the memories: a signal and the number of its copy
  sending,       \* how far each AddSignal is
  attempts,      \* its attempts so far
  failures,
  doing,         \* where each hook is
  page, got,     \* ListSignals: the next page, what has been read
  todo,          \* CleanStaleSignals: what is left to look at
  atStart,       \* history: the memories there when the listing began
  shrunk,        \* history: hooks during whose listing a memory was deleted
  seen           \* history: tasks that a listing has shown to their machine

senders == <<sending, attempts>>
hooks == <<doing, page, got, todo, atStart>>
signalVars == <<store, senders, failures, hooks, shrunk, seen>>

Memories == Signals \X (1..(Retries + 1))

SignalTypeOK ==
  /\ store \in Seq(Memories)
  /\ sending \in [Signals -> {"posting", "sent", "failed"}]
  /\ attempts \in [Signals -> 0..(Retries + 1)]
  /\ failures \in 0..MaxFailures
  /\ doing \in [Sessions -> {"idle", "list", "listed", "delete"}]
  /\ page \in [Sessions -> Nat]
  /\ got \in [Sessions -> Seq(Memories)]
  /\ todo \in [Sessions -> Seq(Memories)]
  /\ atStart \in [Sessions -> SUBSET Memories]
  /\ shrunk \subseteq Sessions /\ seen \subseteq Tasks

SignalInit ==
  /\ store = <<>>
  /\ sending = [s \in Signals |-> "posting"]
  /\ attempts = [s \in Signals |-> 0]
  /\ failures = 0
  /\ doing = [h \in Sessions |-> "idle"]
  /\ page = [h \in Sessions |-> 1]
  /\ got = [h \in Sessions |-> <<>>]
  /\ todo = [h \in Sessions |-> <<>>]
  /\ atStart = [h \in Sessions |-> {}]
  /\ shrunk = {} /\ seen = {}

Failure == failures < MaxFailures /\ failures' = failures + 1

-----------------------------------------------------------------------------
(* AddSignal and the retries of doHTTP.                                    *)
(* One POST: it may take effect whatever is answered.  5xx and 429 are     *)
(* tried again while attempts are left; any other error ends it at once.   *)
Posted(s, effect, result) ==
  /\ sending[s] = "posting"
  /\ attempts' = [attempts EXCEPT ![s] = @ + 1]
  /\ store' = IF effect THEN <<<<s, attempts[s] + 1>>>> \o store ELSE store
  /\ sending' = [sending EXCEPT ![s] = result]
  /\ UNCHANGED <<hooks, shrunk, seen>>

AfterServerError(s) == IF attempts[s] >= Retries THEN "failed" ELSE "posting"

PostedAgain(s) == Posted(s, TRUE, "posting") /\ UNCHANGED failures
PostSucceeds(s) == Posted(s, TRUE, "sent") /\ UNCHANGED failures
PostRetryable(s) ==
  /\ sending[s] = "posting"
  /\ \E effect \in BOOLEAN : Posted(s, effect, AfterServerError(s))
  /\ Failure
PostFails(s) == (\E effect \in BOOLEAN : Posted(s, effect, "failed")) /\ Failure

AddSignal(s) == PostSucceeds(s) \/ PostRetryable(s) \/ PostFails(s)

-----------------------------------------------------------------------------
(* ListSignals.                                                            *)
BeginListing(h) ==
  /\ doing[h] = "idle"
  /\ doing' = [doing EXCEPT ![h] = "list"]
  /\ page' = [page EXCEPT ![h] = 1]
  /\ atStart' = [atStart EXCEPT ![h] = ToSet(store)]
  /\ UNCHANGED <<store, senders, failures, got, todo, shrunk, seen>>

(* The last page is an empty one, or the one with which as many have been  *)
(* read as there are now.                                                  *)
OnePage(rows, all) == TRUE
LastButOne(rows, all) == rows = <<>> \/ Len(all) + 1 >= Len(store)
LastPage(rows, all) == rows = <<>> \/ Len(all) >= Len(store)

ListPage(h) ==
  LET rows == SubSeq(store, (page[h] - 1) * PageSize + 1,
                     IF page[h] * PageSize < Len(store) THEN page[h] * PageSize ELSE Len(store))
      all == got[h] \o rows
      last == LastPage(rows, all)
  IN /\ doing[h] = "list"
     /\ got' = [got EXCEPT ![h] = all]
     /\ page' = [page EXCEPT ![h] = IF last THEN 1 ELSE @ + 1]
     /\ doing' = [doing EXCEPT ![h] = IF last THEN "listed" ELSE "list"]
     /\ UNCHANGED <<store, senders, failures, todo, atStart, shrunk, seen>>

Leaves(h) ==
  /\ doing' = [doing EXCEPT ![h] = "idle"]
  /\ page' = [page EXCEPT ![h] = 1]
  /\ got' = [got EXCEPT ![h] = <<>>]
  /\ todo' = [todo EXCEPT ![h] = <<>>]
  /\ atStart' = [atStart EXCEPT ![h] = {}]

(* doHTTP gives up on a page: the listing is an error.                     *)
ListFails(h) ==
  /\ doing[h] = "list"
  /\ Leaves(h)
  /\ shrunk' = shrunk \ {h}
  /\ Failure
  /\ UNCHANGED <<store, senders, seen>>

(* pullCoordinationSignals: FilterPendingTasks and a note in the log.      *)
FilterPendingTasks(h) ==
  /\ doing[h] = "listed" /\ h \in Pullers
  /\ seen' = seen \cup {r[1] : r \in {r \in ToSet(got[h]) : r[1] \in Tasks}}
  /\ Leaves(h)
  /\ shrunk' = shrunk \ {h}
  /\ UNCHANGED <<store, senders, failures>>

-----------------------------------------------------------------------------
(* CleanStaleSignals.  Signals read back carry no time of creation, so     *)
(* that the type alone decides, whatever the age.                          *)
StaleOrUndated(r) == TRUE
Stale(r) == r[1] \in Completed

CleanStaleSignals(h) ==
  /\ doing[h] = "listed" /\ h \in Cleaners
  /\ doing' = [doing EXCEPT ![h] = "delete"]
  /\ todo' = [todo EXCEPT ![h] = got[h]]
  /\ got' = [got EXCEPT ![h] = <<>>]
  /\ atStart' = [atStart EXCEPT ![h] = {}]
  /\ shrunk' = shrunk \ {h}
  /\ UNCHANGED <<store, senders, failures, page, seen>>

Delete(r) ==
  /\ \E i \in DOMAIN store : store[i] = r /\ store' = RemoveAt(store, i)
  /\ shrunk' = shrunk \cup {g \in Sessions : doing[g] = "list"}

(* The next signal of the list to be deleted: those before it are passed.  *)
Following(h, i) == SubSeq(todo[h], i + 1, Len(todo[h]))
IsNext(h, i) == Stale(todo[h][i]) /\ \A j \in 1..(i - 1) : ~Stale(todo[h][j])

(* DELETE by id.  What is gone already is a 404, which ends the clean-up;  *)
(* so does a deletion whose answer is lost, as the retry meets the 404.    *)
DeleteSignal(h) ==
  /\ doing[h] = "delete"
  /\ \E i \in DOMAIN todo[h] :
       LET r == todo[h][i]
       IN /\ IsNext(h, i)
          /\ \/ /\ Delete(r)
                /\ todo' = [todo EXCEPT ![h] = Following(h, i)]
                /\ UNCHANGED <<doing, page, got, atStart, failures>>
             \/ /\ r \in ToSet(store)
                /\ Delete(r) \/ UNCHANGED <<store, shrunk>>
                /\ Leaves(h) /\ Failure
             \/ /\ r \notin ToSet(store)
                /\ Leaves(h) /\ UNCHANGED <<store, failures, shrunk>>
  /\ UNCHANGED <<senders, seen>>

CleanupDone(h) ==
  /\ doing[h] = "delete" /\ \A i \in DOMAIN todo[h] : ~Stale(todo[h][i])
  /\ Leaves(h)
  /\ UNCHANGED <<store, senders, failures, shrunk, seen>>

HookStep(h) ==
  \/ ListPage(h) \/ ListFails(h) \/ FilterPendingTasks(h)
  \/ CleanStaleSignals(h) \/ DeleteSignal(h) \/ CleanupDone(h)

SignalNext ==
  \/ \E s \in Signals : AddSignal(s)
  \/ \E h \in Sessions : BeginListing(h) \/ HookStep(h)

(* A hook's requests are answered, and there are more sessions to come.    *)
SignalFairness == \A h \in Sessions : WF_signalVars(BeginListing(h) \/ HookStep(h))

SignalSpec == SignalInit /\ [][SignalNext]_signalVars
SignalFairSpec == SignalSpec /\ SignalFairness

-----------------------------------------------------------------------------
(* A listing that no deletion disturbed has every memory that was there at *)
(* its beginning, however many were added meanwhile: each new one in front *)
(* shows one memory twice and raises the total by one.                     *)
UndisturbedListingIsComplete ==
  \A h \in Sessions : doing[h] = "listed" /\ h \notin shrunk => atStart[h] \subseteq ToSet(got[h])

(* The machine that a task is for comes to see it, although listings may   *)
(* skip it while others clean up: no clean-up, however its list is out of  *)
(* date, takes the task away before.                                       *)
TasksAreSeen == \A t \in Tasks : sending[t] = "sent" ~> t \in seen

(* Every copy of a completed signal goes in the end, although one that is  *)
(* found gone stops a clean-up before the rest.                            *)
CompletedAreRemoved ==
  \A r \in Completed \X (1..(Retries + 1)) : r \in ToSet(store) ~> r \notin ToSet(store)

=============================================================================
