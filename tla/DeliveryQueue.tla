--------------------------- MODULE DeliveryQueue ---------------------------
(***************************************************************************)
(* What the outbox promises, whatever its files go through: capsules are   *)
(* posted in the order in which their lines came to stand in the file,     *)
(* none is passed over, and every one is posted in the end.  Posting one   *)
(* again is not excluded, and is a stuttering step here.                   *)
(***************************************************************************)
EXTENDS Sequences, Naturals

CONSTANT Capsules

VARIABLES
  log,     \* capsules on finished lines, oldest first
  posted   \* those of them that have reached the upstream

Init ==
  /\ log = <<>>
  /\ posted = {}

PostedUpTo(n) == \A i \in 1 .. n : log[i] \in posted

(* A finished line joins the log.  A reader that is at the end of the file *)
(* may have decoded and posted it before its newline was there.            *)
Accept ==
  \E c \in Capsules :
    /\ \A i \in 1 .. Len(log) : log[i] # c
    /\ log' = Append(log, c)
    /\ \/ posted' = posted
       \/ PostedUpTo(Len(log)) /\ posted' = posted \cup {c}

(* The next one is posted.                                                 *)
Post ==
  \E k \in 1 .. Len(log) :
    /\ PostedUpTo(k - 1) /\ log[k] \notin posted
    /\ posted' = posted \cup {log[k]}
    /\ log' = log

Next == Accept \/ Post

Ordered == Init /\ [][Next]_<<log, posted>>
Spec == Ordered /\ WF_<<log, posted>>(Post)
=============================================================================
