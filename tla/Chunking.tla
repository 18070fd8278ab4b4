------------------------------- MODULE Chunking -------------------------------
(***************************************************************************)
(* internal/provider/whisper: where a video's timeline is cut into chunks, *)
(* and how the transcripts of neighbouring chunks are joined.  Times are   *)
(* ticks.  A unit is a word as the sidecar heard it: its text, the middle  *)
(* of its time, and (for the properties) which word of the film it is.     *)
(***************************************************************************)
EXTENDS Integers, Sequences, FiniteSets, FiniteSetsExt

CONSTANTS
  Target,        \* Config.ChunkLength
  SeamOverlap,   \* audio shared by the chunks at a fixed cut
  MaxDuplicate,  \* maxSeamDuplicate
  Nothing,       \* a bound that is not set
  Punctuation    \* texts that normalizeWord reduces to nothing

ASSUME ChunkingConstants ==
  /\ Target \in Nat \ {0} /\ SeamOverlap \in Nat /\ MaxDuplicate \in Nat
  /\ Nothing \notin Int

Window == Target \div 5
SeamSlack == SeamOverlap \div 4
SeamShare == SeamOverlap \div 2
DuplicateTolerance == SeamOverlap \div 2

Distance(a, b) == IF a < b THEN b - a ELSE a - b

-----------------------------------------------------------------------------
(* Silences. *)

Mid(s) == s.from + (s.to - s.from) \div 2
Length(s) == s.to - s.from

\* The longer silence, then the one nearer the target, then the earlier.
Preferred(s, r, target) ==
  \/ Length(s) > Length(r)
  \/ /\ Length(s) = Length(r)
     /\ \/ Distance(Mid(s), target) < Distance(Mid(r), target)
        \/ Distance(Mid(s), target) = Distance(Mid(r), target) /\ Mid(s) <= Mid(r)

InWindow(silences, start) ==
  {s \in silences : Mid(s) \in start + Target - Window .. start + Target + Window}

\* silenceCut: none or one cut.
SilenceCuts(silences, start) ==
  {Mid(s) : s \in {t \in InWindow(silences, start) :
                     \A r \in InWindow(silences, start) : Preferred(t, r, start + Target)}}

-----------------------------------------------------------------------------
(* Chunks: what is sent, [from, to), and the share of it that is kept. *)

Chunks == [from : Int, to : Int, keepFrom : Int \cup {Nothing}, keepUntil : Int \cup {Nothing}]

Chunk(from, to, keepFrom, keepUntil) ==
  [from |-> from, to |-> to, keepFrom |-> keepFrom, keepUntil |-> keepUntil]

-----------------------------------------------------------------------------
(* Joining transcripts. *)

\* keeping: the units at these places, in their order.
Keeping(units, places) ==
  LET kept[i \in 0 .. Len(units)] ==
        IF i = 0 THEN << >>
        ELSE IF i \in places THEN Append(kept[i - 1], units[i]) ELSE kept[i - 1]
  IN  kept[Len(units)]

\* trim
Trim(units, from, until) ==
  Keeping(units, {i \in DOMAIN units : /\ from # Nothing => units[i].at >= from
                                       /\ until # Nothing => units[i].at < until})

SameWord(a, b) ==
  /\ a.text \notin Punctuation
  /\ a.text = b.text
  /\ Distance(a.at, b.at) <= DuplicateTolerance

\* Do the last n units of the transcript open what comes next?
Repeats(transcript, next, n) ==
  \A i \in 1..n : SameWord(transcript[Len(transcript) - n + i], next[i])

Shortest(a, b, c) == Min({a, b, c})

\* Mutated: one unit at a time is compared.
DropRepeatedFirst(transcript, next) ==
  IF transcript # << >> /\ next # << >> /\ Repeats(transcript, next, 1) THEN Tail(next) ELSE next

\* dropRepeatedSeam
DropRepeatedSeam(transcript, next) ==
  LET shared == {n \in 1..Shortest(MaxDuplicate, Len(transcript), Len(next)) : Repeats(transcript, next, n)}
  IN  SubSeq(next, Max(shared \cup {0}) + 1, Len(next))
=============================================================================
