----------------------------- MODULE OutboxFile -----------------------------
(***************************************************************************)
(* pending.jsonl as the readers of internal/mem0outbox see it: a sequence  *)
(* of cells that only grows.  A capsule's line is three cells, two pieces  *)
(* of JSON and the newline, so that a write may be seen, or be cut short,  *)
(* inside a line.  An offset counts cells from the start of the file.      *)
(*                                                                         *)
(* A line decodes when its text is exactly one capsule: the pieces of two  *)
(* capsules that share a line are no JSON object (json.Unmarshal fails),   *)
(* and a last line without its newline decodes when its text is complete.  *)
(***************************************************************************)
EXTENDS Naturals, Sequences, FiniteSets, FiniteSetsExt

CONSTANTS
  Capsules, NoCapsule,
  MaxTorn    \* bound on short writes

ASSUME NoCapsuleAssumption == NoCapsule \notin Capsules
ASSUME MaxTornAssumption == MaxTorn \in Nat

VARIABLES
  file,
  tried,     \* capsules handed to Append
  torn       \* short writes so far

fileVars == <<file, tried, torn>>

Newline == [of |-> NoCapsule, part |-> "newline"]
Text(c) == <<[of |-> c, part |-> "head"], [of |-> c, part |-> "tail"]>>
LineOf(c) == Append(Text(c), Newline)

Cells == {Newline} \cup [of : Capsules, part : {"head", "tail"}]

(* What ReadBytes('\n') returns at an offset: up to the next newline, or   *)
(* to the end of the file.                                                 *)
LineEnd(f, offset) ==
  Min({i \in offset + 1 .. Len(f) : f[i] = Newline} \cup {Len(f)})

ReadLine(f, offset) == SubSeq(f, offset + 1, LineEnd(f, offset))

Terminated(line) == line # <<>> /\ line[Len(line)] = Newline

(* The capsule of a line, NoCapsule for a blank or corrupt one.            *)
Decode(line) ==
  IF \E c \in Capsules : line \in {Text(c), LineOf(c)} THEN line[1].of ELSE NoCapsule

-----------------------------------------------------------------------------
(* The capsules a reader from the start of the file finds on finished      *)
(* lines, in the order of the file.                                        *)
LineStarts(f) == {0} \cup {i \in DOMAIN f : f[i] = Newline}

StartsAt(f, c, offset) ==
  offset \in LineStarts(f) /\ ReadLine(f, offset) = LineOf(c)

Readable(f, c) == \E offset \in LineStarts(f) : StartsAt(f, c, offset)

Place(f, c) == CHOOSE offset \in LineStarts(f) : StartsAt(f, c, offset)

CapsuleStarts(f) == {o \in LineStarts(f) : o < Len(f) /\ StartsAt(f, f[o + 1].of, o)}

NthOf(T, k) == CHOOSE o \in T : Cardinality({p \in T : p <= o}) = k

ReadableCapsules(f) ==
  [k \in 1 .. Cardinality(CapsuleStarts(f)) |-> f[NthOf(CapsuleStarts(f), k) + 1].of]
=============================================================================
