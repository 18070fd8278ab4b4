---------------------------- MODULE WhisperProofs ----------------------------
(***************************************************************************)
(* Theorems about Whisper, for films of any length with any silences, and  *)
(* any chunk length and overlap.                                           *)
(***************************************************************************)
EXTENDS Whisper, FiniteSetTheorems, WellFoundedInduction, TLAPS

-----------------------------------------------------------------------------
(* Where chunks are cut. *)

\* The bounds that integer division gives: the window is smaller than a chunk,
\* and a share kept lies within what is heard.
LEMMA Shares ==
  /\ Target \in Nat /\ Window \in Nat /\ Window < Target
  /\ SeamSlack \in Nat /\ SeamShare \in Nat /\ SeamSlack <= SeamShare
BY ChunkingConstants, SMT DEF Window, SeamSlack, SeamShare

\* A cut lies after the chunk's start.
LEMMA CutsAdvance ==
  ASSUME NEW silences, NEW s \in Int, NEW cut \in SilenceCuts(silences, s)
  PROVE  cut \in Int /\ cut > s
<1>1. PICK p \in InWindow(silences, s) : cut = Mid(p)
  BY DEF SilenceCuts
<1>2. Mid(p) \in s + Target - Window .. s + Target + Window
  BY <1>1 DEF InWindow
<1> QED BY <1>1, <1>2, Shares

-----------------------------------------------------------------------------
(* The plan under way: what ChunksCover says of the chunks so far, and of where *)
(* the next one will begin.                                                     *)

Adjacent ==
  \A k \in 1 .. Len(chunks) - 1 :
    /\ chunks[k].from < chunks[k].to
    /\ Joins(chunks[k], chunks[k + 1].from, chunks[k + 1].keepFrom)

First ==
  IF chunks = << >> THEN stage # "chunk" /\ extractStart = 0 /\ keepFrom = Nothing
  ELSE chunks[1].from = 0 /\ chunks[1].keepFrom = Nothing

Onward ==
  stage = "plan" =>
    /\ extractStart <= start
    /\ chunks # << >> =>
         /\ chunks[Len(chunks)].from < chunks[Len(chunks)].to
         /\ Joins(chunks[Len(chunks)], extractStart, keepFrom)

Whole ==
  stage = "chunk" => chunks[Len(chunks)].to = film.total /\ chunks[Len(chunks)].keepUntil = Nothing

Planning == TypeOK /\ Adjacent /\ First /\ Onward /\ Whole

\* A chunk appended where the plan goes on joins the others.
LEMMA Appended ==
  ASSUME Planning, stage = "plan", NEW to \in Int, NEW until \in Int \cup {Nothing},
         chunks' = Append(chunks, Chunk(extractStart, to, keepFrom, until))
  PROVE  /\ chunks' \in Seq(Chunks) /\ chunks' # << >> /\ Len(chunks') = Len(chunks) + 1
         /\ chunks'[Len(chunks')] = Chunk(extractStart, to, keepFrom, until)
         /\ chunks'[1].from = 0 /\ chunks'[1].keepFrom = Nothing
         /\ Adjacent'
<1> DEFINE c == Chunk(extractStart, to, keepFrom, until)
<1>1. c \in Chunks /\ c.from = extractStart /\ c.keepFrom = keepFrom
  BY DEF Chunk, Chunks, Planning, TypeOK
<1>2. chunks \in Seq(Chunks)
  BY DEF Planning, TypeOK
<1> HIDE DEF c
<1>3. chunks' = Append(chunks, c)
  BY DEF c
<1>4. /\ chunks' \in Seq(Chunks) /\ chunks' # << >> /\ Len(chunks') = Len(chunks) + 1
      /\ chunks'[Len(chunks) + 1] = c
      /\ \A k \in 1..Len(chunks) : chunks'[k] = chunks[k]
  BY <1>1, <1>2, <1>3
<1>5. chunks'[1].from = 0 /\ chunks'[1].keepFrom = Nothing
  <2>1. CASE chunks = << >>
    <3>1. Len(chunks) = 0
      BY <2>1
    <3> QED BY <2>1, <3>1, <1>1, <1>4 DEF Planning, First
  <2>2. CASE chunks # << >>
    <3>1. 1 \in 1..Len(chunks)
      BY <2>2, <1>2
    <3> QED BY <2>2, <3>1, <1>4 DEF Planning, First
  <2> QED BY <2>1, <2>2
<1>6. Adjacent'
  <2> SUFFICES ASSUME NEW k \in 1 .. Len(chunks)
               PROVE  /\ chunks'[k].from < chunks'[k].to
                      /\ Joins(chunks'[k], chunks'[k + 1].from, chunks'[k + 1].keepFrom)
    BY <1>2, <1>4 DEF Adjacent, Joins
  <2>0. Len(chunks) \in Nat /\ chunks'[k] = chunks[k]
    BY <1>2, <1>4
  <2>1. CASE k = Len(chunks)
    <3>1. chunks # << >>
      BY <2>1, <1>2
    <3> QED BY <2>0, <2>1, <3>1, <1>1, <1>4 DEF Planning, Onward
  <2>2. CASE k # Len(chunks)
    <3>1. k \in 1 .. Len(chunks) - 1 /\ k + 1 \in 1..Len(chunks)
      BY <2>0, <2>2
    <3> QED BY <2>0, <3>1, <1>4 DEF Planning, Adjacent
  <2> QED BY <2>1, <2>2
<1> QED BY <1>2, <1>4, <1>5, <1>6 DEF c

LEMMA NoChunks == << >> \in Seq(Chunks) /\ Len(<< >>) = 0 /\ 1 \in 1..Len(<< >>) + 1 /\ 1 \in 1..MaxAttempts
BY WhisperConstants

LEMMA InitPlanning == Init => Planning
<1> SUFFICES ASSUME Init PROVE Planning
  OBVIOUS
<1>0. chunks = << >> /\ index = 1 /\ attempt = 1
  BY DEF Init
<1>1. TypeOK
  <2>1. chunks \in Seq(Chunks) /\ index \in 1..Len(chunks) + 1 /\ attempt \in 1..MaxAttempts
    BY <1>0, NoChunks, Zenon
  <2>2. start \in Int /\ extractStart \in Int /\ keepFrom \in Int \cup {Nothing}
    BY DEF Init
  <2> QED BY <2>1, <2>2 DEF Init, TypeOK, Stage, Result
<1> QED BY <1>1, NoChunks DEF Init, Planning, Adjacent, First, Onward, Whole

\* The four steps of the plan.
LEMMA CutSteps ==
  ASSUME Planning, CutAtSilence \/ CutFixed \/ CutLast
  PROVE  Planning'
<1> USE DEF planVars, chunkVars
<1>0. /\ start \in Int /\ extractStart \in Int /\ keepFrom \in Int \cup {Nothing}
      /\ film \in Film /\ film.total \in Int /\ Nothing \notin Int
      /\ index \in 1..Len(chunks) + 1 /\ Len(chunks) \in Nat
  BY WhisperConstants, ChunkingConstants DEF Planning, TypeOK
<1>1. CASE CutAtSilence
  <2>1. PICK cut \in SilenceCuts(film.silences, start) :
          /\ chunks' = Append(chunks, Chunk(extractStart, cut, keepFrom, Nothing))
          /\ start' = cut /\ extractStart' = cut /\ keepFrom' = Nothing
    BY <1>1 DEF CutAtSilence
  <2>2. cut \in Int /\ cut > start
    BY <1>0, CutsAdvance
  <2>3. stage = "plan" /\ stage' = "plan" /\ extractStart <= start
    BY <1>1 DEF CutAtSilence, Planning, Onward
  <2>4. /\ chunks' \in Seq(Chunks) /\ chunks' # << >> /\ Len(chunks') = Len(chunks) + 1
        /\ chunks'[Len(chunks')] = Chunk(extractStart, cut, keepFrom, Nothing)
        /\ chunks'[1].from = 0 /\ chunks'[1].keepFrom = Nothing
        /\ Adjacent'
    BY <2>1, <2>2, <2>3, Appended
  <2>5. TypeOK'
    BY <1>0, <1>1, <2>1, <2>2, <2>4 DEF CutAtSilence, Planning, TypeOK
  <2>6. First' /\ Whole'
    BY <2>3, <2>4 DEF First, Whole
  <2>7. Onward'
    BY <1>0, <2>1, <2>2, <2>3, <2>4 DEF Onward, Joins, Chunk
  <2> QED BY <2>4, <2>5, <2>6, <2>7 DEF Planning
<1>2. CASE CutFixed
  <2> DEFINE cut == start + Target
  <2>1. /\ chunks' = Append(chunks, Chunk(extractStart, cut + SeamShare, keepFrom, cut + SeamSlack))
        /\ start' = cut /\ extractStart' = cut - SeamShare /\ keepFrom' = cut - SeamSlack
    BY <1>2 DEF CutFixed
  <2>2. /\ cut \in Int /\ cut > start /\ cut + SeamShare \in Int /\ cut + SeamSlack \in Int
        /\ cut - SeamShare \in Int /\ cut - SeamSlack \in Int
    BY <1>0, Shares
  <2>3. stage = "plan" /\ stage' = "plan" /\ extractStart <= start
    BY <1>2 DEF CutFixed, Planning, Onward
  <2> HIDE DEF cut
  <2>4. /\ chunks' \in Seq(Chunks) /\ chunks' # << >> /\ Len(chunks') = Len(chunks) + 1
        /\ chunks'[Len(chunks')] = Chunk(extractStart, cut + SeamShare, keepFrom, cut + SeamSlack)
        /\ chunks'[1].from = 0 /\ chunks'[1].keepFrom = Nothing
        /\ Adjacent'
    BY <2>1, <2>2, <2>3, Appended
  <2>5. TypeOK'
    BY <1>0, <1>2, <2>1, <2>2, <2>4 DEF CutFixed, Planning, TypeOK
  <2>6. First' /\ Whole'
    BY <2>3, <2>4 DEF First, Whole
  <2>7. Onward'
    BY <1>0, <2>1, <2>2, <2>3, <2>4, Shares DEF Onward, Joins, Chunk
  <2> QED BY <2>4, <2>5, <2>6, <2>7 DEF Planning
<1>3. CASE CutLast
  <2>1. /\ chunks' = Append(chunks, Chunk(extractStart, film.total, keepFrom, Nothing))
        /\ stage = "plan" /\ stage' = "chunk" /\ film' = film
    BY <1>3 DEF CutLast
  <2>4. /\ chunks' \in Seq(Chunks) /\ chunks' # << >> /\ Len(chunks') = Len(chunks) + 1
        /\ chunks'[Len(chunks')] = Chunk(extractStart, film.total, keepFrom, Nothing)
        /\ chunks'[1].from = 0 /\ chunks'[1].keepFrom = Nothing
        /\ Adjacent'
    BY <1>0, <2>1, Appended
  <2>5. TypeOK'
    BY <1>0, <1>3, <2>4 DEF CutLast, Planning, TypeOK, Stage
  <2>6. First' /\ Whole' /\ Onward'
    BY <2>1, <2>4 DEF First, Whole, Onward, Chunk
  <2> QED BY <2>4, <2>5, <2>6 DEF Planning
<1> QED BY <1>1, <1>2, <1>3

\* The steps that leave the plan as it is: those of the chunks and their end.
LEMMA PlanKept ==
  ASSUME Planning, TypeOK', UNCHANGED <<film, planVars>>, stage' \in {stage, "done"}
  PROVE  Planning'
BY DEF planVars, Planning, Adjacent, First, Onward, Whole, Joins

LEMMA ChunkStepTypes ==
  ASSUME TypeOK,
         \/ Heard \/ Loops \/ NothingHeard \/ NoAnswer \/ Refused \/ Unreachable \/ Broken
         \/ Assemble \/ ProbeFails \/ TurnedAway \/ Elsewhere
  PROVE  TypeOK' /\ UNCHANGED <<film, planVars>> /\ stage' \in {stage, "done"}
<1> USE DEF planVars, chunkVars, AtChunk, Return, TryAgain
<1>0. /\ Len(chunks) \in Nat /\ MaxAttempts \in Nat \ {0}
      /\ index \in 1..Len(chunks) + 1 /\ attempt \in 1..MaxAttempts
  BY WhisperConstants DEF TypeOK
<1>1. UNCHANGED <<film, planVars>> /\ stage' \in {stage, "done"}
  BY DEF Heard, Accept, Loops, NothingHeard, NoAnswer, Refused, Unreachable, Broken, Assemble,
         ProbeFails, TurnedAway, Elsewhere
<1>2. looped' \in BOOLEAN /\ suspended' \in BOOLEAN /\ result' \in Result
  BY DEF TypeOK, Result, Heard, Accept, Loops, NothingHeard, NoAnswer, Refused, Unreachable, Broken,
         Assemble, ProbeFails, TurnedAway, Elsewhere
<1>3. index' \in {index, index + 1} /\ (index' = index + 1 => index <= Len(chunks))
  BY <1>0 DEF Heard, Accept, Loops, NothingHeard, NoAnswer, Refused, Unreachable, Broken, Assemble,
         ProbeFails, TurnedAway, Elsewhere
<1>4. \/ attempt' \in {1, attempt}
      \/ attempt' = attempt + 1 /\ attempt < MaxAttempts
  BY DEF Heard, Accept, Loops, NothingHeard, NoAnswer, Refused, Unreachable, Broken, Assemble,
         ProbeFails, TurnedAway, Elsewhere
<1>5. index' \in 1..Len(chunks) + 1 /\ attempt' \in 1..MaxAttempts
  BY <1>0, <1>3, <1>4
<1> QED BY <1>1, <1>2, <1>5 DEF TypeOK, Stage

LEMMA NextPlanning == Planning /\ [Next]_vars => Planning'
<1> SUFFICES ASSUME Planning, [Next]_vars PROVE Planning'
  OBVIOUS
<1>1. CASE Download
  <2>0. chunks' = << >> /\ index' = 1 /\ attempt' = 1
    BY <1>1 DEF Download
  <2>1. TypeOK'
    <3>1. chunks' \in Seq(Chunks) /\ index' \in 1..Len(chunks') + 1 /\ attempt' \in 1..MaxAttempts
      BY <2>0, NoChunks, Zenon
    <3>2. start' \in Int /\ extractStart' \in Int /\ keepFrom' \in Int \cup {Nothing}
      BY <1>1 DEF Download
    <3> QED BY <1>1, <3>1, <3>2 DEF Download, Planning, TypeOK, Stage, Result
  <2> QED BY <1>1, <2>1, NoChunks DEF Download, Planning, Adjacent, First, Onward, Whole
<1>2. CASE CutAtSilence \/ CutFixed \/ CutLast
  BY <1>2, CutSteps
<1>3. CASE \/ Heard \/ Loops \/ NothingHeard \/ NoAnswer \/ Refused \/ Unreachable \/ Broken
           \/ Assemble \/ ProbeFails \/ TurnedAway \/ Elsewhere
  BY <1>3, ChunkStepTypes, PlanKept DEF Planning
<1>4. CASE UNCHANGED vars
  BY <1>4, PlanKept DEF vars, planVars, chunkVars, Planning, TypeOK
<1> QED BY <1>1, <1>2, <1>3, <1>4 DEF Next, Proceed

\* Types: attempts stay within MaxAttempts, and no index goes past the chunks
\* (whisper.go, transcribeChunk).
THEOREM WhisperTypeCorrect == Spec => []TypeOK
<1>1. Planning => TypeOK
  BY DEF Planning
<1> QED BY <1>1, InitPlanning, NextPlanning, PTL DEF Spec

\* No instant is left out of the chunks, whatever the film's length and silences
\* and however long chunks and overlaps are (chunking.go, planChunks).
THEOREM PlanCovers == Spec => []ChunksCover
<1>1. Planning => ChunksCover
  BY DEF Planning, Adjacent, First, Whole, ChunksCover
<1> QED BY <1>1, InitPlanning, NextPlanning, PTL DEF Spec

-----------------------------------------------------------------------------
(* Loops. *)

\* What NoHiddenLoop says at the end holds all along: `looped' is about the
\* chunk at hand, and chunks passed over lie behind.
LoopsKnown ==
  /\ looped <=> index \in loops
  /\ \A k \in loops : k \in Nat /\ k <= index
  /\ \A k \in wordless : k \in Nat /\ k < index /\ k \notin loops

LEMMA NextLoops == TypeOK /\ LoopsKnown /\ [Next]_vars => LoopsKnown'
<1> SUFFICES ASSUME TypeOK, LoopsKnown, [Next]_vars PROVE LoopsKnown'
  OBVIOUS
<1> USE DEF planVars, chunkVars, Return, TryAgain, LoopsKnown
<1>0. index \in Nat /\ looped \in BOOLEAN
  BY DEF TypeOK
<1>1. CASE Download
  BY <1>1 DEF Download
<1>2. CASE Heard
  <2>1. index' = index + 1 /\ looped' = FALSE /\ UNCHANGED <<loops, wordless>>
    BY <1>2 DEF Heard, Accept
  <2> QED BY <1>0, <2>1
<1>3. CASE Loops
  BY <1>0, <1>3 DEF Loops
<1>4. CASE NothingHeard
  BY <1>0, <1>4 DEF NothingHeard, Accept
<1>5. CASE NoAnswer \/ Refused \/ Unreachable \/ Broken \/ Assemble
  BY <1>5 DEF NoAnswer, Refused, Unreachable, Broken, Assemble
<1>6. CASE CutAtSilence \/ CutFixed \/ CutLast \/ ProbeFails \/ TurnedAway \/ Elsewhere \/ UNCHANGED vars
  BY <1>6 DEF CutAtSilence, CutFixed, CutLast, ProbeFails, TurnedAway, Elsewhere, vars
<1> QED BY <1>1, <1>2, <1>3, <1>4, <1>5, <1>6 DEF Next, Proceed

\* A subtitle never passes over a chunk for which the sidecar looped
\* (whisper.go, transcribeChunk).
THEOREM LoopsNotHidden == Spec => []NoHiddenLoop
<1>1. Init => LoopsKnown
  BY DEF Init, LoopsKnown
<1>2. LoopsKnown => NoHiddenLoop
  BY DEF LoopsKnown, NoHiddenLoop
<1> QED BY <1>1, <1>2, NextLoops, WhisperTypeCorrect, PTL DEF Spec

-----------------------------------------------------------------------------
(* Induction on numbers, as the absence of a least counterexample. *)

Below == {p \in Nat \X Nat : p[1] < p[2]}

LEMMA BelowIsWellFounded == IsWellFoundedOn(Below, Nat)
BY NatLessThanWellFounded DEF OpToRel, Below

LEMMA Least ==
  ASSUME NEW T, \A n \in T : n \in Nat, T # {}
  PROVE  \E n \in T : \A k \in T : n <= k
<1>1. PICK n \in T : \A k \in T : ~(<<k, n>> \in Below)
  <2>1. T \subseteq Nat
    OBVIOUS
  <2> QED BY <2>1, BelowIsWellFounded, WFMin
<1>2. ASSUME NEW k \in T
      PROVE  n <= k
  <2>1. n \in Nat /\ k \in Nat
    OBVIOUS
  <2>2. ~(k < n)
    BY <1>1, <2>1 DEF Below
  <2> QED BY <2>1, <2>2
<1> QED BY <1>2

-----------------------------------------------------------------------------
(* Words and what is kept of them. *)

\* In the order they are spoken in, none twice.
Ascending(units) == \A p, q \in DOMAIN units : p < q => units[p].word < units[q].word

Says(units, i) == \E p \in DOMAIN units : units[p].word = i

KeepingOf(units, places, n, kept) ==
  kept = [i \in 0 .. n |->
            IF i = 0 THEN << >>
            ELSE IF i \in places THEN Append(kept[i - 1], units[i]) ELSE kept[i - 1]]

LEMMA KeepingExists ==
  ASSUME NEW units, NEW places, NEW n \in Nat
  PROVE  \E kept : KeepingOf(units, places, n, kept)
<1> DEFINE T == {k \in Nat : ~\E kept : KeepingOf(units, places, k, kept)}
<1> SUFFICES ASSUME T # {} PROVE FALSE
  OBVIOUS
<1>1. PICK k \in T : \A j \in T : k <= j
  BY Least
<1>2. CASE k = 0
  <2>1. KeepingOf(units, places, 0, [i \in 0 .. 0 |-> << >>])
    BY DEF KeepingOf
  <2> QED BY <1>2, <2>1
<1>3. CASE k # 0
  <2>1. k \in Nat \ {0} /\ k - 1 \in Nat /\ k - 1 \notin T
    BY <1>1, <1>3
  <2>2. PICK f : KeepingOf(units, places, k - 1, f)
    BY <2>1
  <2> DEFINE Following(h, i) == IF i = 0 THEN << >>
                                ELSE IF i \in places THEN Append(h[i - 1], units[i]) ELSE h[i - 1]
             last == Following(f, k)
             g == [i \in 0 .. k |-> IF i < k THEN f[i] ELSE last]
  <2>3. \A i \in 0 .. k - 1 : f[i] = Following(f, i)
    BY <2>2 DEF KeepingOf
  <2> HIDE DEF last
  <2>4. \A i \in 0 .. k - 1 : g[i] = f[i]
    BY <2>1
  <2>5. g[k] = Following(f, k)
    <3>1. g[k] = last
      BY <2>1
    <3> QED BY <3>1 DEF last
  <2>6. \A i \in 0 .. k : i # 0 => g[i - 1] = f[i - 1]
    BY <2>1, <2>4
  <2>7. g = [i \in 0 .. k |-> g[i]]
    OBVIOUS
  <2> HIDE DEF g
  <2>8. \A i \in 0 .. k : g[i] = Following(g, i)
    <3> SUFFICES ASSUME NEW i \in 0 .. k
                 PROVE  g[i] = Following(g, i)
      OBVIOUS
    <3>1. Following(g, i) = Following(f, i)
      BY <2>6
    <3>2. i \in 0 .. k - 1 \/ i = k
      BY <2>1
    <3> QED BY <2>3, <2>4, <2>5, <3>1, <3>2
  <2>9. KeepingOf(units, places, k, g)
    BY <2>7, <2>8 DEF KeepingOf
  <2> QED BY <2>9
<1> QED BY <1>2, <1>3

\* What is kept of a sequence: the units at the places, and in their order.
LEMMA KeepingKeeps ==
  ASSUME NEW units \in Seq(Unit), NEW places, Ascending(units)
  PROVE  /\ Keeping(units, places) \in Seq(Unit)
         /\ Ascending(Keeping(units, places))
         /\ \A p \in DOMAIN Keeping(units, places) :
              \E i \in DOMAIN units : i \in places /\ Keeping(units, places)[p] = units[i]
         /\ \A i \in DOMAIN units : i \in places =>
              \E p \in DOMAIN Keeping(units, places) : Keeping(units, places)[p] = units[i]
<1> DEFINE n == Len(units)
           chosen == CHOOSE f : KeepingOf(units, places, n, f)
<1>1. n \in Nat /\ DOMAIN units = 1 .. n /\ \A i \in 1 .. n : units[i] \in Unit
  OBVIOUS
<1>2. KeepingOf(units, places, n, chosen)
  <2> HIDE DEF n
  <2> QED BY <1>1, KeepingExists
<1>3. Keeping(units, places) = chosen[n]
  BY DEF Keeping, KeepingOf
<1> HIDE DEF chosen, n
<1>4. PICK f : f = chosen
  OBVIOUS
<1> DEFINE Sound(k) ==
             /\ f[k] \in Seq(Unit) /\ Ascending(f[k])
             /\ \A p \in DOMAIN f[k] : \E i \in 1 .. k : i \in places /\ f[k][p] = units[i]
             /\ \A i \in 1 .. k : i \in places => \E p \in DOMAIN f[k] : f[k][p] = units[i]
           T == {k \in 0 .. n : ~Sound(k)}
<1>5. T = {}
  <2> SUFFICES ASSUME T # {} PROVE FALSE
    OBVIOUS
  <2>1. PICK k \in T : \A j \in T : k <= j
    <3> HIDE DEF Sound
    <3>1. \A j \in T : j \in Nat
      BY <1>1
    <3> HIDE DEF T
    <3> QED BY <3>1, Least
  <2>2. k \in 0 .. n /\ ~Sound(k)
    OBVIOUS
  <2>3. f[k] = IF k = 0 THEN << >>
               ELSE IF k \in places THEN Append(f[k - 1], units[k]) ELSE f[k - 1]
    BY <1>2, <1>4, <2>2 DEF KeepingOf
  <2>4. CASE k = 0
    <3>1. << >> \in Seq(Unit) /\ Ascending(<< >>) /\ DOMAIN << >> = {}
      BY DEF Ascending
    <3> QED BY <2>2, <2>3, <2>4, <3>1
  <2>5. CASE k # 0
    <3>1. k - 1 \in 0 .. n /\ k - 1 \notin T /\ k \in 1 .. n
      <4>1. k - 1 \in 0 .. n /\ k \in 1 .. n /\ ~(k <= k - 1)
        <5> HIDE DEF T
        <5> QED BY <1>1, <2>2, <2>5
      <4> HIDE DEF T
      <4> QED BY <2>1, <4>1
    <3>2. Sound(k - 1) /\ units[k] \in Unit
      BY <1>1, <3>1
    <3>3. CASE k \notin places
      <4>1. f[k] = f[k - 1]
        BY <2>3, <2>5, <3>3
      <4>2. \A i \in 1 .. k : i \in places => i \in 1 .. k - 1
        BY <3>1, <3>3
      <4>3. \A i \in 1 .. k - 1 : i \in 1 .. k
        BY <3>1
      <4> QED BY <2>2, <3>2, <4>1, <4>2, <4>3
    <3>4. CASE k \in places
      <4>1. PICK g, u : g = f[k - 1] /\ u = units[k]
        OBVIOUS
      <4>2. g \in Seq(Unit) /\ u \in Unit /\ f[k] = Append(g, u)
        BY <2>3, <2>5, <3>2, <3>4, <4>1
      <4>3. /\ f[k] \in Seq(Unit) /\ DOMAIN f[k] = 1 .. Len(g) + 1 /\ DOMAIN g = 1 .. Len(g)
            /\ f[k][Len(g) + 1] = u /\ \A p \in 1 .. Len(g) : f[k][p] = g[p]
            /\ Len(g) \in Nat
        BY <4>2
      <4>4. \A p \in 1 .. Len(g) : \E i \in 1 .. k - 1 : i \in places /\ g[p] = units[i]
        BY <3>2, <4>1, <4>3
      <4>5. \A p \in 1 .. Len(g) : g[p].word < u.word
        <5> SUFFICES ASSUME NEW p \in 1 .. Len(g) PROVE g[p].word < u.word
          OBVIOUS
        <5>1. PICK i \in 1 .. k - 1 : g[p] = units[i]
          BY <4>4
        <5>2. i \in DOMAIN units /\ k \in DOMAIN units /\ i < k
          <6> HIDE DEF T
          <6> QED BY <1>1, <3>1
        <5> QED BY <4>1, <5>1, <5>2 DEF Ascending
      <4>6. Ascending(f[k])
        <5> SUFFICES ASSUME NEW p \in 1 .. Len(g) + 1, NEW q \in 1 .. Len(g) + 1, p < q
                     PROVE  f[k][p].word < f[k][q].word
          BY <4>3 DEF Ascending
        <5>1. CASE q = Len(g) + 1
          <6>1. p \in 1 .. Len(g)
            BY <4>3, <5>1
          <6> QED BY <4>3, <4>5, <5>1, <6>1
        <5>2. CASE q # Len(g) + 1
          <6>1. p \in 1 .. Len(g) /\ q \in 1 .. Len(g)
            BY <4>3, <5>2
          <6>2. Ascending(g)
            BY <3>2, <4>1
          <6> QED BY <4>3, <6>1, <6>2 DEF Ascending
        <5> QED BY <5>1, <5>2
      <4>7. \A p \in DOMAIN f[k] : \E i \in 1 .. k : i \in places /\ f[k][p] = units[i]
        <5> SUFFICES ASSUME NEW p \in 1 .. Len(g) + 1
                     PROVE  \E i \in 1 .. k : i \in places /\ f[k][p] = units[i]
          BY <4>3
        <5>1. CASE p = Len(g) + 1
          <6>1. k \in 1 .. k
            BY <3>1
          <6> QED BY <3>4, <4>1, <4>3, <5>1, <6>1
        <5>2. CASE p # Len(g) + 1
          <6>1. p \in 1 .. Len(g) /\ \A i \in 1 .. k - 1 : i \in 1 .. k
            BY <3>1, <4>3, <5>2
          <6> QED BY <4>3, <4>4, <6>1
        <5> QED BY <5>1, <5>2
      <4>8. \A i \in 1 .. k : i \in places => \E p \in DOMAIN f[k] : f[k][p] = units[i]
        <5> SUFFICES ASSUME NEW i \in 1 .. k, i \in places
                     PROVE  \E p \in DOMAIN f[k] : f[k][p] = units[i]
          OBVIOUS
        <5>1. CASE i = k
          <6>1. Len(g) + 1 \in DOMAIN f[k]
            BY <4>3
          <6> QED BY <4>1, <4>3, <5>1, <6>1
        <5>2. CASE i # k
          <6>1. i \in 1 .. k - 1
            BY <3>1, <5>2
          <6>2. PICK p \in DOMAIN g : g[p] = units[i]
            BY <3>2, <4>1, <6>1
          <6>3. p \in DOMAIN f[k] /\ f[k][p] = g[p]
            BY <4>3
          <6> QED BY <6>2, <6>3
        <5> QED BY <5>1, <5>2
      <4> HIDE DEF T
      <4> QED BY <2>2, <4>3, <4>6, <4>7, <4>8
    <3> QED BY <3>3, <3>4
  <2> QED BY <2>4, <2>5
<1>6. n \in 0 .. n
  BY <1>1
<1>7. Sound(n)
  BY <1>5, <1>6
<1> HIDE DEF T
<1>8. PICK r : r = Keeping(units, places) /\ r = f[n]
  BY <1>3, <1>4
<1>9. r \in Seq(Unit) /\ Ascending(r)
  BY <1>7, <1>8
<1>10. \A p \in DOMAIN r : \E i \in 1 .. n : i \in places /\ r[p] = units[i]
  BY <1>7, <1>8
<1>11. \A i \in 1 .. n : i \in places => \E p \in DOMAIN r : r[p] = units[i]
  BY <1>7, <1>8
<1> HIDE DEF Sound
<1> QED BY <1>1, <1>8, <1>9, <1>10, <1>11

-----------------------------------------------------------------------------
(* Where neighbouring chunks meet. *)

\* The cuts that a chunk lies between.
Begin(c) == IF c.keepFrom = Nothing THEN c.from ELSE c.keepFrom + SeamSlack
End(c) == IF c.keepUntil = Nothing THEN c.to ELSE c.keepUntil - SeamSlack

\* What the next chunk's audio and share begin with: at a silence where the chunk
\* ends, at a fixed cut on the other side of it.
Seam(c, from, keep) ==
  IF c.keepUntil = Nothing THEN keep = Nothing /\ from = c.to
  ELSE /\ c.to = End(c) + SeamShare
       /\ from = End(c) - SeamShare /\ keep = End(c) - SeamSlack

FullLength(c) == End(c) >= Begin(c) + Target - Window

\* A film that is not cut.
OneChunk(f) == f.total <= Target + Window

SeamsBetween ==
  \A k \in 1 .. Len(chunks) - 1 :
    Seam(chunks[k], chunks[k + 1].from, chunks[k + 1].keepFrom) /\ FullLength(chunks[k])

\* The plan under way.
SeamAhead ==
  stage = "plan" =>
    IF chunks = << >> THEN start = 0
    ELSE /\ Seam(chunks[Len(chunks)], extractStart, keepFrom) /\ FullLength(chunks[Len(chunks)])
         /\ start = End(chunks[Len(chunks)]) /\ ~OneChunk(film)

\* The plan is made, and is not made anew before the next Download.
Ready == stage = "chunk" \/ result = "subtitle"

Complete ==
  Ready => /\ chunks # << >>
           /\ chunks[Len(chunks)].to = film.total /\ chunks[Len(chunks)].keepUntil = Nothing
           /\ Len(chunks) > 1 => ~OneChunk(film)

\* The transcript begins with the first chunk and ends with the last.
Framed ==
  /\ stage = "plan" => index = 1 /\ transcript = << >>
  /\ result = "subtitle" => stage = "done" /\ index = Len(chunks) + 1

Seams == SeamsBetween /\ SeamAhead /\ Complete /\ Framed

LEMMA CutsFar ==
  ASSUME NEW silences, NEW s \in Int, NEW cut \in SilenceCuts(silences, s)
  PROVE  cut \in Int /\ cut >= s + Target - Window
<1>1. PICK p \in InWindow(silences, s) : cut = Mid(p)
  BY DEF SilenceCuts
<1>2. Mid(p) \in s + Target - Window .. s + Target + Window
  BY <1>1 DEF InWindow
<1> QED BY <1>1, <1>2, Shares

LEMMA ChunkAt ==
  ASSUME TypeOK, NEW k \in 1 .. Len(chunks)
  PROVE  chunks[k] \in Chunks
BY DEF TypeOK

LEMMA LastChunk ==
  ASSUME TypeOK, chunks # << >>
  PROVE  Len(chunks) \in 1 .. Len(chunks) /\ chunks[Len(chunks)] \in Chunks
BY DEF TypeOK

\* The chunk that is planned next begins where the plan has got to.
LEMMA AppendedSeam ==
  ASSUME Planning, Seams, stage = "plan", NEW to \in Int, NEW until \in Int \cup {Nothing},
         NEW c, c = Chunk(extractStart, to, keepFrom, until), chunks' = Append(chunks, c)
  PROVE  /\ SeamsBetween' /\ chunks' # << >> /\ Len(chunks') = Len(chunks) + 1
         /\ chunks'[Len(chunks')] = c /\ c \in Chunks /\ Begin(c) = start
         /\ Len(chunks') > 1 => ~OneChunk(film)
<1>1. /\ chunks \in Seq(Chunks) /\ start \in Int /\ extractStart \in Int
      /\ keepFrom \in Int \cup {Nothing} /\ SeamSlack \in Nat /\ Nothing \notin Int
  BY Shares, ChunkingConstants DEF Planning, TypeOK
<1>2. /\ c \in Chunks /\ c.from = extractStart /\ c.keepFrom = keepFrom
  BY <1>1 DEF Chunk, Chunks
<1>3. Begin(c) = start
  <2>1. CASE chunks = << >>
    BY <1>2, <2>1 DEF Begin, Seams, SeamAhead, Planning, First
  <2>2. CASE chunks # << >>
    <3>1. /\ Seam(chunks[Len(chunks)], extractStart, keepFrom)
          /\ start = End(chunks[Len(chunks)]) /\ chunks[Len(chunks)] \in Chunks
      BY <2>2, LastChunk DEF Seams, SeamAhead, Planning
    <3>2. PICK d : d = chunks[Len(chunks)]
      OBVIOUS
    <3>3. /\ d.to \in Int /\ d.keepUntil \in Int \cup {Nothing}
          /\ Seam(d, extractStart, keepFrom) /\ start = End(d)
      BY <3>1, <3>2 DEF Chunks
    <3>4. CASE d.keepUntil = Nothing
      BY <1>2, <3>3, <3>4 DEF Begin, Seam, End
    <3>5. CASE d.keepUntil # Nothing
      <4>1. keepFrom = End(d) - SeamSlack /\ End(d) \in Int
        BY <1>1, <3>3, <3>5 DEF Seam, End
      <4>2. keepFrom # Nothing
        BY <1>1, <4>1
      <4> QED BY <1>1, <1>2, <3>3, <4>1, <4>2 DEF Begin
    <3> QED BY <3>4, <3>5
  <2> QED BY <2>1, <2>2
<1>4. /\ chunks' # << >> /\ Len(chunks') = Len(chunks) + 1 /\ chunks'[Len(chunks) + 1] = c
      /\ \A k \in 1 .. Len(chunks) : chunks'[k] = chunks[k]
      /\ Len(chunks) \in Nat
  BY <1>1, <1>2
<1>5. Len(chunks) # 0 => chunks # << >>
  OBVIOUS
<1>6. SeamsBetween'
  <2> SUFFICES ASSUME NEW k \in 1 .. Len(chunks)
               PROVE  /\ Seam(chunks'[k], chunks'[k + 1].from, chunks'[k + 1].keepFrom)
                      /\ FullLength(chunks'[k])
    BY <1>4 DEF SeamsBetween, Seam, FullLength, Begin, End
  <2>1. CASE k = Len(chunks)
    <3>1. Seam(chunks[k], extractStart, keepFrom) /\ FullLength(chunks[k])
      BY <1>4, <1>5, <2>1 DEF Seams, SeamAhead
    <3> QED BY <1>2, <1>4, <2>1, <3>1
  <2>2. CASE k # Len(chunks)
    <3>1. k \in 1 .. Len(chunks) - 1 /\ k + 1 \in 1 .. Len(chunks)
      BY <1>4, <2>2
    <3> QED BY <1>4, <3>1 DEF Seams, SeamsBetween
  <2> QED BY <2>1, <2>2
<1>7. Len(chunks') > 1 => ~OneChunk(film)
  BY <1>4, <1>5 DEF Seams, SeamAhead
<1> QED BY <1>2, <1>3, <1>4, <1>6, <1>7

LEMMA CutStepsSeams ==
  ASSUME Planning, Seams, CutAtSilence \/ CutFixed \/ CutLast
  PROVE  Seams'
<1> USE DEF planVars, chunkVars
<1>0. /\ start \in Int /\ extractStart \in Int /\ keepFrom \in Int \cup {Nothing}
      /\ film \in Film /\ film.total \in Int /\ Nothing \notin Int
  BY WhisperConstants, ChunkingConstants DEF Planning, TypeOK
<1>1. stage = "plan" /\ result # "subtitle" /\ result' = result /\ index = 1 /\ transcript = << >>
      /\ UNCHANGED <<film, index, transcript>>
  BY DEF CutAtSilence, CutFixed, CutLast, Seams, Framed
<1>2. Long => ~OneChunk(film)
  <2>1. chunks = << >> => start = 0
    BY <1>1 DEF Seams, SeamAhead
  <2>2. chunks # << >> => ~OneChunk(film)
    BY <1>1 DEF Seams, SeamAhead
  <2> QED BY <1>0, <2>1, <2>2, Shares DEF Long, OneChunk
<1>3. CASE CutAtSilence
  <2>1. PICK cut \in SilenceCuts(film.silences, start) :
          /\ chunks' = Append(chunks, Chunk(extractStart, cut, keepFrom, Nothing))
          /\ start' = cut /\ extractStart' = cut /\ keepFrom' = Nothing
    BY <1>3 DEF CutAtSilence
  <2>2. PICK c : c = Chunk(extractStart, cut, keepFrom, Nothing)
    OBVIOUS
  <2>3. cut \in Int /\ cut >= start + Target - Window
    BY <1>0, CutsFar
  <2>4. /\ SeamsBetween' /\ chunks' # << >> /\ chunks'[Len(chunks')] = c /\ Begin(c) = start
    BY <1>1, <2>1, <2>2, <2>3, AppendedSeam
  <2>5. c.to = cut /\ c.keepUntil = Nothing
    BY <2>2 DEF Chunk
  <2>6. Seam(c, cut, Nothing) /\ FullLength(c) /\ End(c) = cut
    BY <2>3, <2>4, <2>5 DEF Seam, FullLength, End
  <2>7. SeamAhead'
    <3>1. ~OneChunk(film)'
      BY <1>1, <1>2, <1>3 DEF CutAtSilence, OneChunk
    <3> QED BY <2>1, <2>4, <2>6, <3>1 DEF SeamAhead, Seam, FullLength, End, Begin
  <2>8. stage' = "plan"
    BY <1>3 DEF CutAtSilence
  <2> QED BY <1>1, <2>4, <2>7, <2>8 DEF Seams, Complete, Framed, Ready
<1>4. CASE CutFixed
  <2>1. PICK cut : cut = start + Target
    OBVIOUS
  <2>2. PICK c : c = Chunk(extractStart, cut + SeamShare, keepFrom, cut + SeamSlack)
    OBVIOUS
  <2>3. /\ chunks' = Append(chunks, c)
        /\ start' = cut /\ extractStart' = cut - SeamShare /\ keepFrom' = cut - SeamSlack
    BY <1>4, <2>1, <2>2 DEF CutFixed
  <2>4. cut \in Int /\ cut + SeamShare \in Int /\ cut + SeamSlack \in Int
    BY <1>0, <2>1, Shares
  <2>5. /\ SeamsBetween' /\ chunks' # << >> /\ chunks'[Len(chunks')] = c /\ Begin(c) = start
    BY <1>1, <2>2, <2>3, <2>4, AppendedSeam
  <2>6. c.to = cut + SeamShare /\ c.keepUntil = cut + SeamSlack /\ c.keepUntil # Nothing
    BY <1>0, <2>2, <2>4 DEF Chunk
  <2>7. End(c) = cut
    BY <2>4, <2>6, Shares DEF End
  <2>8. Seam(c, cut - SeamShare, cut - SeamSlack) /\ FullLength(c)
    BY <1>0, <2>1, <2>4, <2>5, <2>6, <2>7, Shares, SMTT(20) DEF Seam, FullLength
  <2>9. SeamAhead'
    <3>1. ~OneChunk(film)'
      BY <1>1, <1>2, <1>4 DEF CutFixed, OneChunk
    <3> QED BY <2>3, <2>5, <2>7, <2>8, <3>1 DEF SeamAhead, Seam, FullLength, End, Begin
  <2>10. stage' = "plan"
    BY <1>4 DEF CutFixed
  <2> QED BY <1>1, <2>5, <2>9, <2>10 DEF Seams, Complete, Framed, Ready
<1>5. CASE CutLast
  <2>1. PICK c : c = Chunk(extractStart, film.total, keepFrom, Nothing)
    OBVIOUS
  <2>2. chunks' = Append(chunks, c) /\ stage' = "chunk"
    BY <1>5, <2>1 DEF CutLast
  <2>3. /\ SeamsBetween' /\ chunks' # << >> /\ chunks'[Len(chunks')] = c
        /\ Len(chunks') > 1 => ~OneChunk(film)
    BY <1>0, <1>1, <2>1, <2>2, AppendedSeam
  <2>4. c.to = film.total /\ c.keepUntil = Nothing
    BY <2>1 DEF Chunk
  <2> QED BY <1>1, <2>2, <2>3, <2>4 DEF Seams, SeamAhead, Complete, Framed, OneChunk
<1> QED BY <1>3, <1>4, <1>5

LEMMA NextSeams ==
  ASSUME Planning, Seams, [Next]_vars
  PROVE  Seams'
<1>1. CASE Download
  <2>1. stage' = "plan" /\ result' = "none" /\ start' = 0 /\ chunks' = << >> /\ index' = 1 /\ transcript' = << >>
    BY <1>1 DEF Download
  <2> QED BY <2>1, NoChunks DEF Seams, SeamsBetween, SeamAhead, Complete, Framed, Ready
<1>2. CASE CutAtSilence \/ CutFixed \/ CutLast
  BY <1>2, CutStepsSeams
<1>3. CASE \/ Heard \/ Loops \/ NothingHeard \/ NoAnswer \/ Refused \/ Unreachable \/ Broken
           \/ Assemble \/ ProbeFails \/ TurnedAway \/ Elsewhere \/ UNCHANGED vars
  <2>1. UNCHANGED <<film, planVars>>
    BY <1>3, ChunkStepTypes DEF Planning, vars, planVars
  <2>2. Framed' /\ (Ready' => Ready) /\ (stage' = "plan" => stage = "plan")
    <3> USE DEF AtChunk, Return, TryAgain, Accept, Seams, Framed, Ready, chunkVars, planVars
    <3>1. CASE Heard \/ Loops \/ NothingHeard \/ NoAnswer
      BY <3>1 DEF Heard, Loops, NothingHeard, NoAnswer
    <3>2. CASE Refused \/ Unreachable \/ Broken \/ ProbeFails \/ TurnedAway \/ Elsewhere \/ UNCHANGED vars
      BY <3>2 DEF Refused, Unreachable, Broken, ProbeFails, TurnedAway, Elsewhere, vars
    <3>3. CASE Assemble
      <4>1. index = Len(chunks) + 1
        BY <3>3 DEF Assemble, Planning, TypeOK
      <4> QED BY <3>3, <4>1 DEF Assemble
    <3> QED BY <1>3, <3>1, <3>2, <3>3
  <2> QED BY <2>1, <2>2 DEF planVars, Seams, SeamsBetween, SeamAhead, Complete, Seam, FullLength, Begin, End, OneChunk
<1> QED BY <1>1, <1>2, <1>3 DEF Next, Proceed

LEMMA SeamsAlways == Spec => [](Planning /\ Seams)
<1>1. Init => Seams
  BY NoChunks DEF Init, Seams, SeamsBetween, SeamAhead, Complete, Framed, Ready
<1> QED BY <1>1, InitPlanning, NextPlanning, NextSeams, PTL DEF Spec

-----------------------------------------------------------------------------
(* What is heard of a chunk. *)

\* A word is heard at most twice SeamSlack late: half a share on either side.
Prompt == Lateness \subseteq 0 .. 2 * SeamSlack

\* The words of a film, in order.
Worded(words) ==
  /\ words \in Seq(Unit)
  /\ \A i \in DOMAIN words : words[i].word = i
  /\ \A i, j \in DOMAIN words : i < j => words[i].at <= words[j].at

\* Each unit is a word of the film, heard no more than that late.
Genuine(words, units) ==
  \A p \in DOMAIN units :
    /\ units[p].word \in DOMAIN words
    /\ units[p].text = words[units[p].word].text
    /\ units[p].at >= words[units[p].word].at
    /\ units[p].at <= words[units[p].word].at + 2 * SeamSlack

Inside(c, t) == t >= c.from /\ t < c.to

Places(words, c) == {i \in DOMAIN words : words[i].at \in c.from .. c.to - 1}

LEMMA UnitsOf ==
  ASSUME NEW units \in Seq(Unit)
  PROVE  /\ DOMAIN units = 1 .. Len(units) /\ Len(units) \in Nat
         /\ \A p \in DOMAIN units : units[p] \in Unit /\ units[p].at \in Int /\ units[p].word \in Nat
<1>1. /\ DOMAIN units = 1 .. Len(units) /\ Len(units) \in Nat
      /\ \A p \in 1 .. Len(units) : units[p] \in Unit
  OBVIOUS
<1> QED BY <1>1 DEF Unit

\* Everything that is spoken in the chunk is heard, in order.
LEMMA HeardTruly ==
  ASSUME NEW words, Worded(words), NEW c \in Chunks, c.to \in Int, c.from \in Int,
         NEW units \in Hearings(Keeping(words, Places(words, c)))
  PROVE  /\ units \in Seq(Unit) /\ Ascending(units)
         /\ \A p \in DOMAIN units :
              /\ units[p].word \in DOMAIN words /\ units[p].text = words[units[p].word].text
              /\ \E late \in Lateness : units[p].at = words[units[p].word].at + late
         /\ \A p \in DOMAIN units : Inside(c, words[units[p].word].at)
         /\ \A p, q \in DOMAIN units : p < q => units[p].at <= units[q].at
         /\ \A i \in DOMAIN words : Inside(c, words[i].at) => Says(units, i)
<1>1. PICK said : said = Keeping(words, Places(words, c))
  OBVIOUS
<1>2. words \in Seq(Unit) /\ Ascending(words)
  BY DEF Worded, Ascending
<1>3. /\ said \in Seq(Unit) /\ Ascending(said)
      /\ \A p \in DOMAIN said : \E i \in DOMAIN words : i \in Places(words, c) /\ said[p] = words[i]
      /\ \A i \in DOMAIN words : i \in Places(words, c) => \E p \in DOMAIN said : said[p] = words[i]
  BY <1>1, <1>2, KeepingKeeps
<1>4. PICK late \in [DOMAIN said -> Lateness] :
        /\ units = [i \in DOMAIN said |-> [said[i] EXCEPT !.at = @ + late[i]]]
        /\ \A i, j \in DOMAIN said : i < j => said[i].at + late[i] <= said[j].at + late[j]
  BY <1>1 DEF Hearings
<1>5. \A p \in DOMAIN said : said[p] \in Unit /\ late[p] \in Lateness /\ late[p] \in Nat
  BY <1>3, <1>4, UnitsOf, WhisperConstants
<1>6. DOMAIN units = DOMAIN said
  BY <1>4
<1>7. \A p \in DOMAIN said :
        /\ units[p] \in Unit /\ units[p].word = said[p].word /\ units[p].text = said[p].text
        /\ units[p].at = said[p].at + late[p]
  <2> SUFFICES ASSUME NEW p \in DOMAIN said
               PROVE  /\ units[p] \in Unit /\ units[p].word = said[p].word
                      /\ units[p].text = said[p].text /\ units[p].at = said[p].at + late[p]
    OBVIOUS
  <2>1. units[p] = [said[p] EXCEPT !.at = said[p].at + late[p]]
    BY <1>4
  <2>2. said[p] \in Unit /\ said[p].at + late[p] \in Int
    BY <1>5 DEF Unit
  <2> QED BY <2>1, <2>2 DEF Unit
<1>8. units \in Seq(Unit)
  <2>1. DOMAIN said = 1 .. Len(said) /\ Len(said) \in Nat
    BY <1>3
  <2>2. units \in [1 .. Len(said) -> Unit]
    BY <1>4, <1>7, <2>1
  <2> QED BY <2>1, <2>2
<1>9. \A p \in DOMAIN said :
        said[p].word \in DOMAIN words /\ said[p].word \in Places(words, c) /\ words[said[p].word] = said[p]
  BY <1>3 DEF Worded
<1>10. Ascending(units)
  BY <1>3, <1>6, <1>7 DEF Ascending
<1>11. ASSUME NEW p \in DOMAIN units
       PROVE  /\ units[p].word \in DOMAIN words /\ units[p].text = words[units[p].word].text
              /\ \E l \in Lateness : units[p].at = words[units[p].word].at + l
  <2>1. p \in DOMAIN said
    BY <1>6
  <2>2. words[units[p].word] = said[p] /\ units[p].word \in DOMAIN words
    BY <1>7, <1>9, <2>1
  <2> QED BY <1>5, <1>7, <2>1, <2>2
<1>12. \A p \in DOMAIN units : Inside(c, words[units[p].word].at)
  <2> SUFFICES ASSUME NEW p \in DOMAIN said PROVE Inside(c, words[units[p].word].at)
    BY <1>6
  <2>1. units[p].word \in Places(words, c)
    BY <1>7, <1>9
  <2> QED BY <2>1 DEF Places, Inside
<1>13. \A p, q \in DOMAIN units : p < q => units[p].at <= units[q].at
  <2> SUFFICES ASSUME NEW p \in DOMAIN said, NEW q \in DOMAIN said, p < q
               PROVE  units[p].at <= units[q].at
    BY <1>6
  <2>1. said[p].at + late[p] <= said[q].at + late[q]
    BY <1>4
  <2> QED BY <1>7, <2>1
<1>14. \A i \in DOMAIN words : Inside(c, words[i].at) => Says(units, i)
  <2> SUFFICES ASSUME NEW i \in DOMAIN words, Inside(c, words[i].at) PROVE Says(units, i)
    OBVIOUS
  <2>1. words[i].at \in Int
    BY <1>2, UnitsOf
  <2>2. i \in Places(words, c)
    BY <2>1 DEF Inside, Places
  <2>3. PICK p \in DOMAIN said : said[p] = words[i]
    BY <1>3, <2>2
  <2>4. units[p].word = i /\ p \in DOMAIN units
    BY <1>6, <1>7, <2>3 DEF Worded
  <2> QED BY <2>4 DEF Says
<1> QED BY <1>8, <1>10, <1>11, <1>12, <1>13, <1>14

\* And in time, if the sidecar is prompt.
LEMMA HeardInOrder ==
  ASSUME Prompt, NEW words, Worded(words), NEW c \in Chunks, c.to \in Int, c.from \in Int,
         NEW units \in Hearings(Keeping(words, Places(words, c)))
  PROVE  /\ units \in Seq(Unit) /\ Ascending(units) /\ Genuine(words, units)
         /\ \A p \in DOMAIN units : Inside(c, words[units[p].word].at)
         /\ \A p, q \in DOMAIN units : p < q => units[p].at <= units[q].at
         /\ \A i \in DOMAIN words : Inside(c, words[i].at) => Says(units, i)
<1>1. /\ units \in Seq(Unit) /\ Ascending(units)
      /\ \A p \in DOMAIN units : Inside(c, words[units[p].word].at)
      /\ \A p, q \in DOMAIN units : p < q => units[p].at <= units[q].at
      /\ \A i \in DOMAIN words : Inside(c, words[i].at) => Says(units, i)
      /\ \A p \in DOMAIN units :
           /\ units[p].word \in DOMAIN words /\ units[p].text = words[units[p].word].text
           /\ \E late \in Lateness : units[p].at = words[units[p].word].at + late
  BY HeardTruly
<1>2. ASSUME NEW p \in DOMAIN units
      PROVE  /\ units[p].at >= words[units[p].word].at
             /\ units[p].at <= words[units[p].word].at + 2 * SeamSlack
  <2>1. PICK l \in Lateness : units[p].at = words[units[p].word].at + l
    BY <1>1
  <2>2. l \in 0 .. 2 * SeamSlack /\ SeamSlack \in Nat
    BY Shares DEF Prompt
  <2>3. words[units[p].word].at \in Int
    BY <1>1, UnitsOf DEF Worded
  <2> QED BY <2>1, <2>2, <2>3
<1> QED BY <1>1, <1>2 DEF Genuine

\* What a chunk keeps of it: no word between two that are kept is left out, and
\* none that lies within its share by more than it may be late.
Kept(words, c, mine) ==
  \A i \in DOMAIN words :
    /\ Inside(c, words[i].at)
    /\ \/ c.keepFrom = Nothing \/ words[i].at >= c.keepFrom
       \/ \E p \in DOMAIN mine : mine[p].word <= i
    /\ \/ c.keepUntil = Nothing \/ words[i].at < c.keepUntil - 2 * SeamSlack
       \/ \E p \in DOMAIN mine : i <= mine[p].word
    => Says(mine, i)

LEMMA ShareOfChunk ==
  ASSUME Prompt, NEW words, Worded(words), NEW c \in Chunks,
         NEW units \in Hearings(Keeping(words, Places(words, c))),
         NEW mine, mine = Trim(units, c.keepFrom, c.keepUntil)
  PROVE  /\ mine \in Seq(Unit) /\ Ascending(mine) /\ Genuine(words, mine)
         /\ \A p \in DOMAIN mine :
              /\ Inside(c, words[mine[p].word].at)
              /\ c.keepUntil # Nothing => words[mine[p].word].at < c.keepUntil
         /\ Kept(words, c, mine)
<1>0. /\ c.from \in Int /\ c.to \in Int /\ c.keepFrom \in Int \cup {Nothing}
      /\ c.keepUntil \in Int \cup {Nothing} /\ SeamSlack \in Nat
  BY Shares DEF Chunks
<1>1. /\ units \in Seq(Unit) /\ Ascending(units) /\ Genuine(words, units)
      /\ \A p \in DOMAIN units : Inside(c, words[units[p].word].at)
      /\ \A p, q \in DOMAIN units : p < q => units[p].at <= units[q].at
      /\ \A i \in DOMAIN words : Inside(c, words[i].at) => Says(units, i)
  BY <1>0, HeardInOrder
<1>2. PICK places : places = {i \in DOMAIN units : /\ c.keepFrom # Nothing => units[i].at >= c.keepFrom
                                                   /\ c.keepUntil # Nothing => units[i].at < c.keepUntil}
  OBVIOUS
<1>3. mine = Keeping(units, places)
  BY <1>2 DEF Trim
<1>4. /\ mine \in Seq(Unit) /\ Ascending(mine)
      /\ \A p \in DOMAIN mine : \E i \in DOMAIN units : i \in places /\ mine[p] = units[i]
      /\ \A i \in DOMAIN units : i \in places => \E p \in DOMAIN mine : mine[p] = units[i]
  BY <1>1, <1>3, KeepingKeeps
<1>5. Genuine(words, mine)
  BY <1>1, <1>4 DEF Genuine
<1>6. \A i \in DOMAIN words : words[i].at \in Int
  BY UnitsOf DEF Worded
<1>6a. \A p \in DOMAIN units : units[p].at \in Int /\ units[p].word \in Nat
  BY <1>1, UnitsOf
<1>7. ASSUME NEW p \in DOMAIN mine
      PROVE  /\ Inside(c, words[mine[p].word].at)
             /\ c.keepUntil # Nothing => words[mine[p].word].at < c.keepUntil
  <2>1. PICK q \in DOMAIN units : q \in places /\ mine[p] = units[q]
    BY <1>4
  <2>2. Inside(c, words[mine[p].word].at)
    BY <1>1, <2>1
  <2>3. /\ units[q].at >= words[units[q].word].at /\ units[q].word \in DOMAIN words
        /\ units[q].at \in Int
    BY <1>1, <1>6a DEF Genuine
  <2>4. c.keepUntil # Nothing => units[q].at < c.keepUntil
    BY <1>2, <2>1
  <2>5. PICK w, t : w = words[units[q].word].at /\ t = units[q].at
    OBVIOUS
  <2>6. w \in Int /\ t \in Int /\ t >= w
    BY <1>6, <2>3, <2>5
  <2>7. c.keepUntil # Nothing => w < c.keepUntil
    BY <1>0, <2>4, <2>5, <2>6
  <2> QED BY <2>1, <2>2, <2>5, <2>7
<1>8. Kept(words, c, mine)
  <2> SUFFICES ASSUME NEW i \in DOMAIN words, Inside(c, words[i].at),
                      \/ c.keepFrom = Nothing \/ words[i].at >= c.keepFrom
                      \/ \E p \in DOMAIN mine : mine[p].word <= i,
                      \/ c.keepUntil = Nothing \/ words[i].at < c.keepUntil - 2 * SeamSlack
                      \/ \E p \in DOMAIN mine : i <= mine[p].word
               PROVE  Says(mine, i)
    BY DEF Kept
  <2>1. PICK q \in DOMAIN units : units[q].word = i
    BY <1>1 DEF Says
  <2>2. /\ units[q].at >= words[i].at /\ units[q].at <= words[i].at + 2 * SeamSlack
        /\ units[q].at \in Int /\ words[i].at \in Int /\ i \in Nat
    BY <1>1, <1>6, <1>6a, <2>1 DEF Genuine
  <2>3. c.keepFrom # Nothing => units[q].at >= c.keepFrom
    <3> SUFFICES ASSUME c.keepFrom # Nothing PROVE units[q].at >= c.keepFrom
      OBVIOUS
    <3>1. CASE words[i].at >= c.keepFrom
      BY <1>0, <2>2, <3>1
    <3>2. CASE \E p \in DOMAIN mine : mine[p].word <= i
      <4>1. PICK p \in DOMAIN mine : mine[p].word <= i
        BY <3>2
      <4>2. PICK r \in DOMAIN units : r \in places /\ mine[p] = units[r]
        BY <1>4
      <4>3. units[r].at >= c.keepFrom /\ units[r].word <= units[q].word
        BY <1>2, <2>1, <4>1, <4>2
      <4>4. r <= q
        BY <1>1, <1>6a, <4>3 DEF Ascending
      <4>5. r = q \/ units[r].at <= units[q].at
        BY <1>1, <4>4
      <4> QED BY <1>0, <1>6a, <2>2, <4>3, <4>5
    <3> QED BY <3>1, <3>2
  <2>4. c.keepUntil # Nothing => units[q].at < c.keepUntil
    <3> SUFFICES ASSUME c.keepUntil # Nothing PROVE units[q].at < c.keepUntil
      OBVIOUS
    <3>1. CASE words[i].at < c.keepUntil - 2 * SeamSlack
      BY <1>0, <2>2, <3>1
    <3>2. CASE \E p \in DOMAIN mine : i <= mine[p].word
      <4>1. PICK p \in DOMAIN mine : i <= mine[p].word
        BY <3>2
      <4>2. PICK r \in DOMAIN units : r \in places /\ mine[p] = units[r]
        BY <1>4
      <4>3. units[r].at < c.keepUntil /\ units[q].word <= units[r].word
        BY <1>2, <2>1, <4>1, <4>2
      <4>4. q <= r
        BY <1>1, <1>6a, <4>3 DEF Ascending
      <4>5. r = q \/ units[q].at <= units[r].at
        BY <1>1, <4>4
      <4> QED BY <1>0, <1>6a, <2>2, <4>3, <4>5
    <3> QED BY <3>1, <3>2
  <2>5. q \in places
    BY <1>2, <2>3, <2>4
  <2>6. PICK p \in DOMAIN mine : mine[p] = units[q]
    BY <1>4, <2>5
  <2> QED BY <2>1, <2>6 DEF Says
<1> QED BY <1>4, <1>5, <1>7, <1>8

-----------------------------------------------------------------------------
(* Joining a chunk's share to the transcript. *)

LEMMA LeastOfThree ==
  ASSUME NEW a \in Nat, NEW b \in Nat, NEW c \in Nat
  PROVE  /\ Shortest(a, b, c) \in {a, b, c}
         /\ Shortest(a, b, c) <= a /\ Shortest(a, b, c) <= b /\ Shortest(a, b, c) <= c
<1>1. \E x \in {a, b, c} : \A y \in {a, b, c} : x <= y
  <2>1. CASE a <= b /\ a <= c
    BY <2>1
  <2>2. CASE b <= a /\ b <= c
    BY <2>2
  <2>3. CASE c <= a /\ c <= b
    BY <2>3
  <2> QED BY <2>1, <2>2, <2>3
<1>2. PICK S : S = {a, b, c}
  OBVIOUS
<1>3. Min(S) \in S /\ \A y \in S : Min(S) <= y
  BY <1>1, <1>2 DEF Min
<1> QED BY <1>2, <1>3 DEF Shortest

\* A bounded set of numbers has a greatest.
LEMMA Greatest ==
  ASSUME NEW S, NEW n \in Nat, \A x \in S : x \in 0 .. n, S # {}
  PROVE  Max(S) \in S /\ \A y \in S : y <= Max(S)
<1> DEFINE T == {m \in 0 .. n : \A x \in S : x <= m}
<1>1. n \in T /\ \A m \in T : m \in Nat
  OBVIOUS
<1>2. PICK m \in T : \A k \in T : m <= k
  <2> HIDE DEF T
  <2> QED BY <1>1, Least
<1>3. m \in 0 .. n /\ \A x \in S : x <= m
  BY <1>2
<1>4. m \in S
  <2> SUFFICES ASSUME m \notin S PROVE FALSE
    OBVIOUS
  <2>1. \A x \in S : x <= m - 1 /\ x \in 0 .. n
    BY <1>3
  <2>2. m - 1 \in 0 .. n
    BY <1>3, <2>1
  <2>3. m - 1 \in T
    BY <2>1, <2>2
  <2> HIDE DEF T
  <2> QED BY <1>2, <1>3, <2>3
<1>5. \E x \in S : \A y \in S : x >= y
  BY <1>3, <1>4
<1>6. Max(S) \in S /\ \A y \in S : Max(S) >= y
  BY <1>5 DEF Max
<1> QED BY <1>6

\* The first n units of the share are left out: those the transcript ends with,
\* as many as there are.
LEMMA SeamDropped ==
  ASSUME NEW said \in Seq(Unit), NEW mine \in Seq(Unit)
  PROVE  \E n \in Nat :
           /\ n <= Len(said) /\ n <= Len(mine)
           /\ DropRepeatedSeam(said, mine) = SubSeq(mine, n + 1, Len(mine))
           /\ n = 0 \/ Repeats(said, mine, n)
           /\ \A s \in Nat \ {0} :
                s <= MaxDuplicate /\ s <= Len(said) /\ s <= Len(mine) /\ Repeats(said, mine, s) => s <= n
<1>1. PICK m : m = Shortest(MaxDuplicate, Len(said), Len(mine))
  OBVIOUS
<1>2. /\ m \in {MaxDuplicate, Len(said), Len(mine)}
      /\ m <= MaxDuplicate /\ m <= Len(said) /\ m <= Len(mine)
      /\ m \in Nat /\ Len(said) \in Nat /\ Len(mine) \in Nat /\ MaxDuplicate \in Nat
  BY <1>1, LeastOfThree, ChunkingConstants
<1>3. PICK shared : shared = {n \in 1 .. m : Repeats(said, mine, n)}
  OBVIOUS
<1>4. PICK S : S = shared \cup {0}
  OBVIOUS
<1>5. (\A x \in S : x \in 0 .. m) /\ S # {}
  BY <1>2, <1>3, <1>4
<1>6. PICK n : n = Max(S)
  OBVIOUS
<1>7. n \in S /\ \A y \in S : y <= n
  BY <1>2, <1>5, <1>6, Greatest
<1>8. n \in 0 .. m
  BY <1>5, <1>7
<1>9. DropRepeatedSeam(said, mine) = SubSeq(mine, n + 1, Len(mine))
  BY <1>1, <1>3, <1>4, <1>6 DEF DropRepeatedSeam
<1>10. n = 0 \/ Repeats(said, mine, n)
  BY <1>3, <1>4, <1>7
<1>11. ASSUME NEW s \in Nat \ {0}, s <= MaxDuplicate, s <= Len(said), s <= Len(mine), Repeats(said, mine, s)
       PROVE  s <= n
  <2>1. s \in 1 .. m
    BY <1>2, <1>11
  <2> QED BY <1>3, <1>4, <1>7, <1>11, <2>1
<1>12. n \in Nat /\ n <= Len(said) /\ n <= Len(mine)
  BY <1>2, <1>8
<1> QED BY <1>9, <1>10, <1>11, <1>12

\* A text that is said again is said again later than two hearings of one word
\* can be apart.
Distinct(f) ==
  \A i, j \in DOMAIN f.words :
    /\ i < j
    /\ f.words[i].text = f.words[j].text
    /\ f.words[i].text \notin Punctuation
    => f.words[j].at - f.words[i].at > DuplicateTolerance + 2 * SeamSlack

\* What is taken for one word is one word.
LEMMA SameWordIsOne ==
  ASSUME NEW f \in Film, Distinct(f), NEW a \in Unit, NEW b \in Unit, SameWord(a, b),
         NEW s, NEW t, s = <<a>>, t = <<b>>, Genuine(f.words, s), Genuine(f.words, t)
  PROVE  a.word = b.word
<1>1. Worded(f.words)
  BY WhisperFilms DEF Worded
<1>2. PICK i, j : i = a.word /\ j = b.word
  OBVIOUS
<1>3. s[1] = a /\ t[1] = b /\ 1 \in DOMAIN s /\ 1 \in DOMAIN t
  OBVIOUS
<1>4. /\ i \in DOMAIN f.words /\ j \in DOMAIN f.words
      /\ a.text = f.words[i].text /\ b.text = f.words[j].text
  BY <1>2, <1>3 DEF Genuine
<1>5. PICK x, y : x = f.words[i].at /\ y = f.words[j].at
  OBVIOUS
<1>6. /\ a.at >= x /\ a.at <= x + 2 * SeamSlack
      /\ b.at >= y /\ b.at <= y + 2 * SeamSlack
  BY <1>2, <1>3, <1>5 DEF Genuine
<1>7. /\ x \in Int /\ y \in Int /\ i \in Nat /\ j \in Nat /\ SeamSlack \in Nat
      /\ a.at \in Int /\ b.at \in Int
  <2>1. f.words \in Seq(Unit)
    BY <1>1 DEF Worded
  <2>2. f.words[i].at \in Int /\ f.words[j].at \in Int /\ i \in Nat /\ j \in Nat
    BY <1>4, <2>1, UnitsOf
  <2> QED BY <1>5, <2>2, Shares DEF Unit
<1>8. a.text \notin Punctuation /\ a.text = b.text /\ Distance(a.at, b.at) <= DuplicateTolerance
  BY DEF SameWord
<1>9. DuplicateTolerance \in Int
  BY ChunkingConstants, SMT DEF DuplicateTolerance
<1>10. ~(i < j)
  <2> SUFFICES ASSUME i < j PROVE FALSE
    OBVIOUS
  <2>1. y - x > DuplicateTolerance + 2 * SeamSlack
    BY <1>4, <1>5, <1>8 DEF Distinct
  <2> QED BY <1>6, <1>7, <1>8, <1>9, <2>1 DEF Distance
<1>11. ~(j < i)
  <2> SUFFICES ASSUME j < i PROVE FALSE
    OBVIOUS
  <2>1. x - y > DuplicateTolerance + 2 * SeamSlack
    BY <1>4, <1>5, <1>8 DEF Distinct
  <2> QED BY <1>6, <1>7, <1>8, <1>9, <2>1 DEF Distance
<1> QED BY <1>2, <1>7, <1>10, <1>11

LEMMA Joined ==
  ASSUME NEW s \in Seq(Unit), NEW t \in Seq(Unit)
  PROVE  \A p \in 1 .. Len(s) + Len(t) : (s \o t)[p] = IF p <= Len(s) THEN s[p] ELSE t[p - Len(s)]
OBVIOUS

LEMMA RestOf ==
  ASSUME NEW units \in Seq(Unit), NEW n \in Nat, n <= Len(units)
  PROVE  \E rest \in Seq(Unit) : /\ rest = SubSeq(units, n + 1, Len(units))
                                /\ Len(rest) = Len(units) - n
                                /\ \A p \in 1 .. Len(units) - n : rest[p] = units[n + p]
<1>1. PICK m : m = Len(units)
  OBVIOUS
<1>2. m \in Nat /\ n <= m /\ \A p \in 1 .. m : units[p] \in Unit
  BY <1>1
<1>3. PICK rest : rest = SubSeq(units, n + 1, m)
  OBVIOUS
<1>4. rest = [p \in 1 .. m - n |-> units[n + p]]
  BY <1>1, <1>2, <1>3
<1>5. m - n \in Nat /\ \A p \in 1 .. m - n : n + p \in 1 .. m
  BY <1>2
<1>6. rest \in Seq(Unit) /\ Len(rest) = m - n
  BY <1>2, <1>4, <1>5
<1>7. \A p \in 1 .. m - n : rest[p] = units[n + p]
  BY <1>4
<1> QED BY <1>1, <1>3, <1>6, <1>7, Zenon

\* What is left out is already said, and what is left is joined in its order.
LEMMA NothingDropped ==
  ASSUME NEW f \in Film, Distinct(f),
         NEW said \in Seq(Unit), NEW mine \in Seq(Unit), Genuine(f.words, said), Genuine(f.words, mine),
         NEW i, Says(mine, i)
  PROVE  Says(said \o DropRepeatedSeam(said, mine), i)
<1>1. PICK n \in Nat :
         /\ n <= Len(said) /\ n <= Len(mine)
         /\ DropRepeatedSeam(said, mine) = SubSeq(mine, n + 1, Len(mine))
         /\ n = 0 \/ Repeats(said, mine, n)
  BY SeamDropped
<1>2. PICK joined : joined = said \o SubSeq(mine, n + 1, Len(mine))
  OBVIOUS
<1>3. /\ Len(said) \in Nat /\ Len(mine) \in Nat /\ DOMAIN said = 1 .. Len(said) /\ DOMAIN mine = 1 .. Len(mine)
      /\ \A p \in DOMAIN said : said[p] \in Unit
      /\ \A p \in DOMAIN mine : mine[p] \in Unit
  BY UnitsOf
<1>4. /\ DOMAIN joined = 1 .. Len(said) + (Len(mine) - n)
      /\ \A p \in 1 .. Len(said) : joined[p] = said[p]
      /\ \A p \in 1 .. Len(mine) - n : joined[Len(said) + p] = mine[n + p]
  <2>1. n \in Nat /\ n <= Len(mine)
    BY <1>1
  <2>2. PICK rest \in Seq(Unit) : /\ rest = SubSeq(mine, n + 1, Len(mine))
                                  /\ Len(rest) = Len(mine) - n
                                  /\ \A p \in 1 .. Len(mine) - n : rest[p] = mine[n + p]
    BY <2>1, RestOf, Zenon
  <2>3. joined = said \o rest /\ joined \in Seq(Unit) /\ Len(joined) = Len(said) + Len(rest)
    BY <1>2, <2>2
  <2>4. \A p \in 1 .. Len(said) + Len(rest) :
          joined[p] = IF p <= Len(said) THEN said[p] ELSE rest[p - Len(said)]
    <3>1. said \in Seq(Unit) /\ rest \in Seq(Unit)
      BY <2>2
    <3>2. \A p \in 1 .. Len(said) + Len(rest) :
            (said \o rest)[p] = IF p <= Len(said) THEN said[p] ELSE rest[p - Len(said)]
      BY ONLY <3>1, Joined
    <3> QED BY ONLY <2>3, <3>2
  <2>5. PICK l, m : l = Len(said) /\ m = Len(rest)
    OBVIOUS
  <2>6. l \in Nat /\ m \in Nat /\ m = Len(mine) - n
    BY <1>1, <1>3, <2>2, <2>5
  <2>7. DOMAIN joined = 1 .. l + m
    BY <2>3, <2>5
  <2>8. \A p \in 1 .. l : joined[p] = said[p]
    BY <2>4, <2>5, <2>6
  <2>9. ASSUME NEW p \in 1 .. m
        PROVE  joined[l + p] = rest[p]
    <3>1. l + p \in 1 .. l + m /\ ~(l + p <= l) /\ (l + p) - l = p
      BY <2>6
    <3> QED BY <2>4, <2>5, <3>1
  <2> QED BY <2>2, <2>5, <2>6, <2>7, <2>8, <2>9
<1>5. PICK p \in DOMAIN mine : mine[p].word = i
  BY DEF Says
<1>6. CASE p > n
  <2>0. PICK r, l, m : r = p - n /\ l = Len(said) /\ m = Len(mine)
    OBVIOUS
  <2>1. r \in 1 .. m - n /\ n + r = p /\ l \in Nat /\ m \in Nat /\ n <= m
    <3>1. p \in 1 .. m /\ m \in Nat /\ l \in Nat /\ n <= m
      BY <1>1, <1>3, <2>0
    <3> QED BY <1>6, <2>0, <3>1
  <2>2. joined[l + r] = mine[p]
    BY <1>4, <2>0, <2>1
  <2>3. l + r \in 1 .. l + (m - n)
    BY <2>1
  <2>4. l + r \in DOMAIN joined
    BY <1>4, <2>0, <2>3
  <2> QED BY <1>1, <1>2, <1>5, <2>2, <2>4 DEF Says
<1>7. CASE p <= n
  <2>1. p \in 1 .. n /\ Repeats(said, mine, n)
    BY <1>1, <1>3, <1>7
  <2>2. PICK q : q = Len(said) - n + p
    OBVIOUS
  <2>3. q \in 1 .. Len(said) /\ SameWord(said[q], mine[p])
    BY <1>1, <1>3, <2>1, <2>2 DEF Repeats
  <2>4. Genuine(f.words, <<said[q]>>) /\ Genuine(f.words, <<mine[p]>>)
    BY <1>3, <2>3 DEF Genuine
  <2>5. said[q].word = mine[p].word
    BY <1>3, <2>3, <2>4, SameWordIsOne
  <2>6. joined[q] = said[q] /\ q \in DOMAIN joined
    BY <1>1, <1>3, <1>4, <2>3
  <2> QED BY <1>1, <1>2, <1>5, <2>5, <2>6 DEF Says
<1> QED BY <1>1, <1>3, <1>6, <1>7

-----------------------------------------------------------------------------
(* Nothing is lost. *)

\* Up to here every word that was heard is in the transcript of k chunks.
Sure(k) ==
  IF k = 0 THEN 0
  ELSE IF chunks[k].keepUntil = Nothing THEN chunks[k].to
  ELSE chunks[k].keepUntil - 2 * SeamSlack

\* A film that is cut says no text twice within the reach of a seam.
Apart == \A f \in Film : OneChunk(f) \/ Distinct(f)

Listening ==
  Ready =>
    /\ transcript \in Seq(Unit) /\ Genuine(film.words, transcript)
    /\ \A i \in Audible : film.words[i].at < Sure(index - 1) => Says(transcript, i)

\* The chunk at hand begins where the ones before it are sure to have come to.
LEMMA SeamHere ==
  ASSUME Planning, Seams, AtChunk, NEW c, c = Here
  PROVE  /\ c \in Chunks
         /\ c.keepFrom = Nothing => c.from = Sure(index - 1)
         /\ c.keepFrom # Nothing => c.from <= c.keepFrom /\ c.keepFrom = Sure(index - 1) /\ Len(chunks) > 1
         /\ Sure(index) <= c.to
         /\ c.keepUntil # Nothing => Sure(index) = c.keepUntil - 2 * SeamSlack
         /\ c.keepUntil = Nothing => Sure(index) = c.to
         /\ Sure(index - 1) \in Int /\ Sure(index) \in Int
<1>1. /\ index \in 1 .. Len(chunks) /\ Len(chunks) \in Nat /\ TypeOK /\ chunks # << >>
      /\ SeamSlack \in Nat /\ SeamShare \in Nat /\ SeamSlack <= SeamShare /\ Nothing \notin Int
  BY Shares, ChunkingConstants DEF AtChunk, Planning, TypeOK
<1>2. c \in Chunks
  BY <1>1, ChunkAt DEF Here
<1>3. /\ c.from \in Int /\ c.to \in Int /\ c.keepFrom \in Int \cup {Nothing}
      /\ c.keepUntil \in Int \cup {Nothing}
  BY <1>2 DEF Chunks
<1>4. Sure(index) = IF c.keepUntil = Nothing THEN c.to ELSE c.keepUntil - 2 * SeamSlack
  BY <1>1 DEF Sure, Here
<1>5. c.keepUntil # Nothing => c.to = End(c) + SeamShare
  <2> SUFFICES ASSUME c.keepUntil # Nothing PROVE c.to = End(c) + SeamShare
    OBVIOUS
  <2>1. index # Len(chunks)
    BY DEF Seams, Complete, Ready, AtChunk, Here
  <2>2. index \in 1 .. Len(chunks) - 1
    BY <1>1, <2>1
  <2> QED BY <2>2 DEF Seams, SeamsBetween, Seam, Here
<1>6. Sure(index) <= c.to /\ Sure(index) \in Int
  BY <1>1, <1>3, <1>4, <1>5 DEF End
<1>7. CASE index = 1
  <2>1. c.from = 0 /\ c.keepFrom = Nothing /\ Sure(index - 1) = 0
    BY <1>1, <1>7 DEF Planning, First, Here, Sure
  <2> QED BY <1>2, <1>4, <1>6, <2>1
<1>8. CASE index # 1
  <2>1. PICK k : k = index - 1
    OBVIOUS
  <2>2. k \in 1 .. Len(chunks) - 1 /\ k \in 1 .. Len(chunks) /\ index = k + 1 /\ k # 0
    BY <1>1, <1>8, <2>1
  <2>3. PICK d : d = chunks[k]
    OBVIOUS
  <2>4. Seam(d, c.from, c.keepFrom) /\ d \in Chunks
    BY <1>1, <2>2, <2>3, ChunkAt DEF Seams, SeamsBetween, Here
  <2>5. d.to \in Int /\ d.keepUntil \in Int \cup {Nothing}
    BY <2>4 DEF Chunks
  <2>6. Sure(k) = IF d.keepUntil = Nothing THEN d.to ELSE d.keepUntil - 2 * SeamSlack
    BY <2>2, <2>3 DEF Sure
  <2>7. CASE d.keepUntil = Nothing
    <3>1. c.keepFrom = Nothing /\ c.from = Sure(index - 1) /\ Sure(index - 1) \in Int
      BY <2>1, <2>4, <2>5, <2>6, <2>7 DEF Seam
    <3> QED BY <1>2, <1>4, <1>6, <3>1
  <2>8. CASE d.keepUntil # Nothing
    <3>1. /\ c.from = d.keepUntil - SeamSlack - SeamShare
          /\ c.keepFrom = d.keepUntil - SeamSlack - SeamSlack /\ d.keepUntil \in Int
      BY <2>4, <2>5, <2>8 DEF Seam, End
    <3>2. c.from <= c.keepFrom /\ c.keepFrom = Sure(index - 1) /\ Sure(index - 1) \in Int /\ c.keepFrom # Nothing
      BY <1>1, <1>3, <2>1, <2>6, <2>8, <3>1
    <3>3. Len(chunks) > 1
      BY <1>1, <2>2
    <3> QED BY <1>2, <1>4, <1>6, <3>2, <3>3
  <2> QED BY <2>7, <2>8
<1> QED BY <1>7, <1>8

LEMMA FilmsWords ==
  ASSUME NEW f \in Film
  PROVE  /\ Worded(f.words)
         /\ \A i \in DOMAIN f.words : f.words[i].at \in Int /\ f.words[i].at >= 0 /\ f.words[i].at < f.total
         /\ f.total \in Nat
<1>1. f.total \in Nat
  BY WhisperConstants
<1>2. \A i \in DOMAIN f.words : f.words[i].at \in 0 .. f.total - 1
  BY WhisperFilms
<1> QED BY <1>1, <1>2, WhisperFilms DEF Worded

\* What the transcript of a chunk adds: its share without the first n units, and
\* nothing of its share is unsaid then.
LEMMA HeardShare ==
  ASSUME Prompt, Apart, Planning, Seams, Listening, Heard, NEW c, c = Here
  PROVE  \E mine : \E n \in Nat :
           /\ mine \in Seq(Unit) /\ Ascending(mine) /\ Genuine(film.words, mine)
           /\ Kept(film.words, c, mine)
           /\ \A p \in DOMAIN mine :
                /\ Inside(c, film.words[mine[p].word].at)
                /\ c.keepUntil # Nothing => film.words[mine[p].word].at < c.keepUntil
           /\ n <= Len(mine)
           /\ transcript' = transcript \o SubSeq(mine, n + 1, Len(mine))
           /\ c.keepFrom = Nothing => n = 0
           /\ c.keepFrom # Nothing =>
                \A s \in Nat \ {0} :
                  s <= MaxDuplicate /\ s <= Len(transcript) /\ s <= Len(mine) /\ Repeats(transcript, mine, s)
                  => s <= n
           /\ transcript' \in Seq(Unit)
           /\ \A p \in DOMAIN transcript' :
                \/ p \in DOMAIN transcript /\ transcript'[p] = transcript[p]
                \/ \E q \in DOMAIN mine : transcript'[p] = mine[q]
           /\ \A i : Says(transcript, i) \/ Says(mine, i) => Says(transcript', i)
<1> DEFINE words == film.words
<1>0. film \in Film /\ AtChunk /\ Ready
  BY DEF Heard, Accept, planVars, Planning, TypeOK, AtChunk, Ready
<1>1. Worded(words)
  BY <1>0, FilmsWords
<1>2. c \in Chunks /\ (c.keepFrom # Nothing => Len(chunks) > 1)
  BY <1>0, SeamHere
<1>3. PICK units \in Hearings(SpokenIn(c)) :
        transcript' = transcript \o
          (IF c.keepFrom = Nothing THEN Trim(units, c.keepFrom, c.keepUntil)
           ELSE DropRepeatedSeam(transcript, Trim(units, c.keepFrom, c.keepUntil)))
  BY DEF Heard, Accept
<1>4. PICK mine : mine = Trim(units, c.keepFrom, c.keepUntil)
  OBVIOUS
<1>5. units \in Hearings(Keeping(words, Places(words, c)))
  BY <1>3 DEF SpokenIn, Places
<1>6. /\ mine \in Seq(Unit) /\ Ascending(mine) /\ Genuine(words, mine) /\ Kept(words, c, mine)
      /\ \A p \in DOMAIN mine :
           /\ Inside(c, words[mine[p].word].at)
           /\ c.keepUntil # Nothing => words[mine[p].word].at < c.keepUntil
  BY <1>1, <1>2, <1>4, <1>5, ShareOfChunk
<1>7. transcript \in Seq(Unit) /\ Genuine(words, transcript)
  BY <1>0 DEF Listening
<1>8. PICK n \in Nat :
        /\ n <= Len(mine)
        /\ transcript' = transcript \o SubSeq(mine, n + 1, Len(mine))
        /\ c.keepFrom = Nothing => n = 0
        /\ c.keepFrom # Nothing =>
             \A s \in Nat \ {0} :
               s <= MaxDuplicate /\ s <= Len(transcript) /\ s <= Len(mine) /\ Repeats(transcript, mine, s)
               => s <= n
  <2>1. CASE c.keepFrom = Nothing
    <3>1. mine = SubSeq(mine, 0 + 1, Len(mine)) /\ 0 <= Len(mine)
      BY <1>6
    <3> QED BY <1>3, <1>4, <2>1, <3>1
  <2>2. CASE c.keepFrom # Nothing
    <3>1. PICK n \in Nat :
            /\ n <= Len(mine) /\ DropRepeatedSeam(transcript, mine) = SubSeq(mine, n + 1, Len(mine))
            /\ \A s \in Nat \ {0} :
                 s <= MaxDuplicate /\ s <= Len(transcript) /\ s <= Len(mine) /\ Repeats(transcript, mine, s)
                 => s <= n
      BY <1>6, <1>7, SeamDropped
    <3>2. transcript' = transcript \o SubSeq(mine, n + 1, Len(mine))
      BY <1>3, <1>4, <2>2, <3>1
    <3> QED BY <2>2, <3>1, <3>2
  <2> QED BY <2>1, <2>2
<1>9. PICK new : new = SubSeq(mine, n + 1, Len(mine))
  OBVIOUS
<1>10. /\ Len(mine) \in Nat /\ DOMAIN mine = 1 .. Len(mine) /\ new \in Seq(Unit)
       /\ DOMAIN new = 1 .. Len(mine) - n /\ Len(new) = Len(mine) - n
       /\ \A p \in DOMAIN new : p + n \in DOMAIN mine /\ new[p] = mine[p + n]
  BY <1>6, <1>8, <1>9
<1>11. /\ transcript' \in Seq(Unit)
       /\ \A p \in DOMAIN transcript' :
            \/ p \in DOMAIN transcript /\ transcript'[p] = transcript[p]
            \/ \E q \in DOMAIN new : transcript'[p] = new[q]
       /\ \A p \in DOMAIN transcript : p \in DOMAIN transcript' /\ transcript'[p] = transcript[p]
  <2>1. transcript' = transcript \o new
    BY <1>8, <1>9
  <2>2. transcript \in Seq(Unit) /\ new \in Seq(Unit)
    BY <1>7, <1>10
  <2>3. PICK s, t : s = transcript /\ t = transcript'
    OBVIOUS
  <2>4. t = s \o new /\ s \in Seq(Unit)
    BY <2>1, <2>2, <2>3
  <2>5. t \in Seq(Unit) /\ Len(t) = Len(s) + Len(new) /\ Len(s) \in Nat /\ Len(new) \in Nat
    BY <2>2, <2>4
  <2>6. \A p \in 1 .. Len(t) : t[p] = IF p <= Len(s) THEN s[p] ELSE new[p - Len(s)]
    BY <2>2, <2>4
  <2>7. DOMAIN t = 1 .. Len(t) /\ DOMAIN s = 1 .. Len(s) /\ DOMAIN new = 1 .. Len(new)
    BY <2>2, <2>4, <2>5
  <2>8. \A p \in 1 .. Len(t) : p <= Len(s) \/ p - Len(s) \in 1 .. Len(new)
    BY <2>5
  <2> QED BY <2>3, <2>5, <2>6, <2>7, <2>8
<1>12. \A p \in DOMAIN transcript' :
         \/ p \in DOMAIN transcript /\ transcript'[p] = transcript[p]
         \/ \E q \in DOMAIN mine : transcript'[p] = mine[q]
  BY <1>10, <1>11
<1>13. ASSUME NEW i, Says(mine, i)
       PROVE  Says(transcript', i)
  <2>1. CASE c.keepFrom = Nothing
    <3>1. transcript' = transcript \o mine
      BY <1>3, <1>4, <2>1
    <3>2. PICK p \in DOMAIN mine : mine[p].word = i
      BY <1>13 DEF Says
    <3>3. PICK s, t : s = transcript /\ t = transcript'
      OBVIOUS
    <3>4. t = s \o mine /\ s \in Seq(Unit) /\ Len(s) \in Nat
      BY <1>7, <3>1, <3>3
    <3>5. p \in 1 .. Len(mine) /\ Len(mine) \in Nat
      BY <1>6, <3>2
    <3>6. t[Len(s) + p] = mine[p] /\ Len(s) + p \in DOMAIN t
      BY <1>6, <3>4, <3>5
    <3> QED BY <3>2, <3>3, <3>6 DEF Says
  <2>2. CASE c.keepFrom # Nothing
    <3>1. ~OneChunk(film)
      BY <1>0, <1>2, <2>2 DEF Seams, Complete
    <3>2. Distinct(film)
      BY <1>0, <3>1 DEF Apart
    <3> QED BY <1>0, <1>3, <1>4, <1>6, <1>7, <1>13, <2>2, <3>2, NothingDropped
  <2> QED BY <2>1, <2>2
<1>14. ASSUME NEW i, Says(transcript, i)
       PROVE  Says(transcript', i)
  BY <1>11, <1>14 DEF Says
<1> HIDE DEF words
<1>15. words = film.words
  BY DEF words
<1> QED BY <1>6, <1>8, <1>11, <1>12, <1>13, <1>14, <1>15

LEMMA HeardListening ==
  ASSUME Prompt, Apart, Planning, Seams, Listening, Heard
  PROVE  Listening'
<1> DEFINE words == film.words
<1>0. /\ film \in Film /\ AtChunk /\ Ready /\ index \in Nat \ {0} /\ Len(chunks) \in Nat
      /\ UNCHANGED <<film, chunks, wordless>> /\ index' = index + 1
  BY DEF Heard, Accept, planVars, Planning, TypeOK, AtChunk, Ready
<1>1. \A i \in DOMAIN words : words[i].at \in Int
  BY <1>0, FilmsWords
<1>2. PICK c : c = Here
  OBVIOUS
<1>3. /\ c \in Chunks
      /\ c.keepFrom = Nothing => c.from = Sure(index - 1)
      /\ c.keepFrom # Nothing => c.from <= c.keepFrom /\ c.keepFrom = Sure(index - 1)
      /\ Sure(index) <= c.to
      /\ c.keepUntil # Nothing => Sure(index) = c.keepUntil - 2 * SeamSlack
      /\ Sure(index - 1) \in Int /\ Sure(index) \in Int
  BY <1>0, <1>2, SeamHere
<1>4. PICK mine : \E n \in Nat :
        /\ Genuine(words, mine) /\ Kept(words, c, mine)
        /\ transcript' \in Seq(Unit)
        /\ \A p \in DOMAIN transcript' :
             \/ p \in DOMAIN transcript /\ transcript'[p] = transcript[p]
             \/ \E q \in DOMAIN mine : transcript'[p] = mine[q]
        /\ \A i : Says(transcript, i) \/ Says(mine, i) => Says(transcript', i)
  BY <1>2, HeardShare
<1>5. Genuine(words, transcript')
  <2>1. Genuine(words, transcript)
    BY <1>0 DEF Listening
  <2> QED BY <1>4, <2>1 DEF Genuine
<1>6. ASSUME NEW i \in Audible, words[i].at < Sure(index)
       PROVE  Says(transcript', i)
  <2>0. i \in DOMAIN words /\ words[i].at \in Int
    BY <1>1 DEF Audible
  <2>1. CASE words[i].at < Sure(index - 1)
    BY <1>0, <1>4, <2>0, <2>1 DEF Listening
  <2>2. CASE words[i].at >= Sure(index - 1)
    <3>1. c.from \in Int /\ c.to \in Int /\ c.keepFrom \in Int \cup {Nothing}
      BY <1>3 DEF Chunks
    <3>2. words[i].at >= c.from /\ (c.keepFrom = Nothing \/ words[i].at >= c.keepFrom)
      BY <1>3, <2>0, <2>2, <3>1
    <3>3. words[i].at < c.to
      BY <1>3, <1>6, <2>0, <3>1
    <3>4. c.keepUntil = Nothing \/ words[i].at < c.keepUntil - 2 * SeamSlack
      BY <1>3, <1>6
    <3>5. Says(mine, i)
      BY <1>4, <2>0, <3>2, <3>3, <3>4 DEF Kept, Inside
    <3> QED BY <1>4, <2>0, <3>5
  <2> QED BY <1>3, <2>0, <2>1, <2>2
<1>7. Sure(index - 1)' = Sure(index)
  <2>1. index' - 1 = index
    BY <1>0
  <2> QED BY <1>0, <2>1 DEF Sure
<1>8. Audible' = Audible
  BY <1>0 DEF Audible
<1> HIDE DEF words
<1>9. words = film'.words /\ words = film.words
  BY <1>0 DEF words
<1> QED BY <1>4, <1>5, <1>6, <1>7, <1>8, <1>9 DEF Listening

LEMMA NothingHeardListening ==
  ASSUME Planning, Seams, Listening, NothingHeard
  PROVE  Listening'
<1>0. /\ film \in Film /\ AtChunk /\ Ready /\ index \in Nat \ {0}
      /\ UNCHANGED <<film, chunks>> /\ stage' \in {"chunk", "done"}
  BY DEF NothingHeard, Accept, TryAgain, Return, planVars, chunkVars, Planning, TypeOK, AtChunk, Ready
<1>1. \/ UNCHANGED <<transcript, index, wordless>>
      \/ /\ index' = index + 1 /\ transcript' = transcript \o << >>
         /\ wordless' = wordless \cup {index}
  BY DEF NothingHeard, Accept, TryAgain, Return, chunkVars
<1>2. CASE UNCHANGED <<transcript, index, wordless>>
  BY <1>0, <1>2 DEF Listening, Audible, Sure
<1>3. CASE /\ index' = index + 1 /\ transcript' = transcript \o << >>
           /\ wordless' = wordless \cup {index}
  <2>1. transcript \in Seq(Unit)
    BY <1>0 DEF Listening
  <2>2. transcript' = transcript
    BY <1>3, <2>1
  <2>3. PICK c : c = Here
    OBVIOUS
  <2>4. /\ c \in Chunks
        /\ c.keepFrom = Nothing => c.from = Sure(index - 1)
        /\ c.keepFrom # Nothing => c.from <= c.keepFrom /\ c.keepFrom = Sure(index - 1)
        /\ Sure(index) <= c.to
        /\ Sure(index - 1) \in Int /\ Sure(index) \in Int
    BY <1>0, <2>3, SeamHere
  <2>5. c.from \in Int /\ c.to \in Int /\ c.keepFrom \in Int \cup {Nothing}
    BY <2>4 DEF Chunks
  <2>6. ASSUME NEW i \in Audible', film.words[i].at < Sure(index)
        PROVE  Says(transcript, i)
    <3>1. i \in DOMAIN film.words
      BY <1>0 DEF Audible
    <3>2. film.words[i].at \in Int
      BY <1>0, <3>1, FilmsWords
    <3>3. i \in Audible
      BY <1>0, <1>3, <3>1 DEF Audible
    <3>4. film.words[i].at \notin c.from .. c.to - 1
      BY <1>0, <1>3, <2>3 DEF Audible, Here
    <3>5. film.words[i].at < c.from
      BY <2>4, <2>5, <2>6, <3>2, <3>4
    <3>6. c.from <= Sure(index - 1)
      BY <2>4, <2>5
    <3>7. film.words[i].at < Sure(index - 1)
      BY <2>4, <2>5, <3>2, <3>5, <3>6
    <3> QED BY <1>0, <3>3, <3>7 DEF Listening
  <2>7. Sure(index - 1)' = Sure(index)
    <3>1. index' - 1 = index
      BY <1>0, <1>3
    <3> QED BY <1>0, <3>1 DEF Sure
  <2>8. Genuine(film.words, transcript)
    BY <1>0 DEF Listening
  <2> QED BY <1>0, <2>1, <2>2, <2>6, <2>7, <2>8 DEF Listening
<1> QED BY <1>1, <1>2, <1>3

\* Before the first chunk nothing is said, and nothing need be.
LEMMA CutListening ==
  ASSUME Planning, Seams, CutAtSilence \/ CutFixed \/ CutLast
  PROVE  Listening'
<1>1. index' = 1 /\ transcript' = << >> /\ film' = film /\ film \in Film
  BY DEF CutAtSilence, CutFixed, CutLast, Seams, Framed, Planning, TypeOK, chunkVars
<1>2. Sure(index - 1)' = 0
  BY <1>1 DEF Sure
<1>3. << >> \in Seq(Unit) /\ Genuine(film.words, << >>)
  BY DEF Genuine
<1>4. \A i \in Audible' : film.words[i].at >= 0 /\ film.words[i].at \in Int
  BY <1>1, FilmsWords DEF Audible
<1>5. \A i \in Audible' : ~(film.words[i].at < 0)
  BY <1>4
<1> QED BY <1>1, <1>2, <1>3, <1>5 DEF Listening

LEMMA NextListening ==
  ASSUME Prompt, Apart, Planning, Seams, Listening, [Next]_vars
  PROVE  Listening'
<1>1. CASE Download
  <2>1. ~Ready'
    BY <1>1 DEF Download, Ready
  <2> QED BY <2>1 DEF Listening
<1>2. CASE CutAtSilence \/ CutFixed \/ CutLast
  BY <1>2, CutListening
<1>3. CASE Heard
  BY <1>3, HeardListening
<1>4. CASE NothingHeard
  BY <1>4, NothingHeardListening
<1>5. CASE \/ Loops \/ NoAnswer \/ Refused \/ Unreachable \/ Broken
           \/ Assemble \/ ProbeFails \/ TurnedAway \/ Elsewhere \/ UNCHANGED vars
  <2>1. UNCHANGED <<film, chunks, index, transcript, wordless>>
    <3> USE DEF Return, TryAgain, chunkVars, planVars
    <3>1. CASE Loops \/ NoAnswer \/ Refused \/ Unreachable \/ Broken
      BY <3>1 DEF Loops, NoAnswer, Refused, Unreachable, Broken
    <3>2. CASE Assemble \/ ProbeFails \/ TurnedAway \/ Elsewhere \/ UNCHANGED vars
      BY <3>2 DEF Assemble, ProbeFails, TurnedAway, Elsewhere, vars
    <3> QED BY <1>5, <3>1, <3>2
  <2>2. Ready' => Ready
    <3> USE DEF Return, TryAgain, AtChunk, Ready
    <3>1. CASE Loops \/ NoAnswer \/ Refused \/ Unreachable \/ Broken
      BY <3>1 DEF Loops, NoAnswer, Refused, Unreachable, Broken
    <3>2. CASE Assemble \/ ProbeFails \/ TurnedAway \/ Elsewhere \/ UNCHANGED vars
      BY <3>2 DEF Assemble, ProbeFails, TurnedAway, Elsewhere, vars
    <3> QED BY <1>5, <3>1, <3>2
  <2> QED BY <2>1, <2>2 DEF Listening, Audible, Sure
<1> QED BY <1>1, <1>2, <1>3, <1>4, <1>5 DEF Next, Proceed

\* A word that the transcript says is counted.
LEMMA SaidCounts ==
  ASSUME transcript \in Seq(Unit), NEW i, Says(transcript, i)
  PROVE  Times(i) >= 1
<1>1. PICK S : S = {k \in DOMAIN transcript : transcript[k].word = i}
  OBVIOUS
<1>2. DOMAIN transcript = 1 .. Len(transcript) /\ Len(transcript) \in Nat
  BY UnitsOf
<1>3. IsFiniteSet(1 .. Len(transcript))
  BY <1>2, FS_Interval
<1>4. IsFiniteSet(S)
  BY <1>1, <1>2, <1>3, FS_Subset
<1>5. S # {}
  BY <1>1 DEF Says
<1>6. Cardinality(S) \in Nat /\ Cardinality(S) # 0
  BY <1>4, <1>5, FS_CardinalityType, FS_EmptySet
<1> QED BY <1>1, <1>6 DEF Times

\* Every word that is heard reaches the subtitle, at whatever seams and however
\* late up to half a share, if no text is said again within reach of its first
\* saying (seams.go, dropRepeatedSeam: a word that sounds the same and is close
\* is taken for the same).
THEOREM NoWordLost ==
  ASSUME Prompt, Apart
  PROVE  Spec => []NothingLost
<1>1. Init => Listening
  BY DEF Init, Listening, Ready
<1>2. ASSUME Planning, Seams, Listening
      PROVE  NothingLost
  <2> SUFFICES ASSUME result = "subtitle", NEW i \in Audible PROVE Times(i) >= 1
    BY DEF NothingLost
  <2>1. Ready /\ index = Len(chunks) + 1 /\ chunks # << >> /\ chunks \in Seq(Chunks) /\ film \in Film
    BY <1>2 DEF Ready, Seams, Framed, Complete, Planning, TypeOK
  <2>2. index - 1 = Len(chunks) /\ Len(chunks) # 0
    BY <2>1
  <2>3. Sure(index - 1) = film.total
    BY <1>2, <2>1, <2>2 DEF Seams, Complete, Sure
  <2>4. i \in DOMAIN film.words /\ film.words[i].at < film.total
    BY <2>1, FilmsWords DEF Audible
  <2>5. Says(transcript, i) /\ transcript \in Seq(Unit)
    BY <1>2, <2>1, <2>3, <2>4 DEF Listening
  <2> QED BY <2>5, SaidCounts
<1>3. Planning /\ Seams /\ Listening /\ [Next]_vars => Listening'
  BY NextListening
<1>4. Spec => [](Planning /\ Seams)
  BY SeamsAlways
<1> QED BY <1>1, <1>2, <1>3, <1>4, PTL DEF Spec

-----------------------------------------------------------------------------
(* Nothing is said twice. *)

SaysAll(units, a, z) == \A i \in a .. z : Says(units, i)

\* The words that follow one at a place.
FollowOn(units, p, m) ==
  \A j \in 0 .. m : p + j \in DOMAIN units /\ units[p + j].word = units[p].word + j

\* What follows a word of an ascending sequence that says the next ones as well.
LEMMA Consecutive ==
  ASSUME NEW said \in Seq(Unit), Ascending(said), NEW p \in DOMAIN said, NEW m \in Nat,
         SaysAll(said, said[p].word, said[p].word + m)
  PROVE  FollowOn(said, p, m)
<1>a. PICK v : v = said[p].word
  OBVIOUS
<1>b. v \in Nat
  BY <1>a, UnitsOf
<1>c. \A j \in 0 .. m : Says(said, v + j)
  <2> SUFFICES ASSUME NEW j \in 0 .. m PROVE Says(said, v + j)
    OBVIOUS
  <2>1. v + j \in v .. v + m
    BY <1>b
  <2> QED BY <1>a, <2>1 DEF SaysAll
<1> DEFINE T == {j \in 0 .. m : ~(p + j \in DOMAIN said /\ said[p + j].word = v + j)}
<1> SUFFICES ASSUME T # {} PROVE FALSE
  BY <1>a DEF FollowOn
<1>1. PICK j \in T : \A k \in T : j <= k
  <2>1. \A k \in T : k \in Nat
    OBVIOUS
  <2> HIDE DEF T
  <2> QED BY <2>1, Least
<1>2. j \in 0 .. m /\ ~(p + j \in DOMAIN said /\ said[p + j].word = v + j)
  OBVIOUS
<1>3. /\ DOMAIN said = 1 .. Len(said) /\ Len(said) \in Nat /\ p \in Nat /\ v \in Nat
      /\ \A q \in DOMAIN said : said[q].word \in Nat
  BY <1>b, UnitsOf
<1>4. j # 0
  BY <1>a, <1>2, <1>3
<1>5. j - 1 \in 0 .. m /\ ~(j <= j - 1)
  BY <1>2, <1>4
<1>6. j - 1 \notin T
  <2> HIDE DEF T
  <2> QED BY <1>1, <1>5
<1>7. p + (j - 1) \in DOMAIN said /\ said[p + (j - 1)].word = v + (j - 1)
  BY <1>5, <1>6
<1> HIDE DEF T
<1>8. PICK q, r : q = p + (j - 1) /\ r = p + j
  OBVIOUS
<1>9. q \in 1 .. Len(said) /\ r = q + 1 /\ said[q].word = v + j - 1
  <2>1. p + (j - 1) = q /\ q \in DOMAIN said /\ said[q].word = v + (j - 1)
    BY <1>7, <1>8
  <2> QED BY <1>2, <1>3, <1>8, <2>1
<1>10. PICK t \in DOMAIN said : said[t].word = v + j
  BY <1>c, <1>2 DEF Says
<1>11. q < t
  <2> SUFFICES ASSUME t <= q PROVE FALSE
    BY <1>3, <1>9
  <2>1. t = q \/ said[t].word < said[q].word
    BY <1>3, <1>9 DEF Ascending
  <2> QED BY <1>2, <1>3, <1>9, <1>10, <2>1
<1>12. r \in DOMAIN said /\ r <= t
  BY <1>3, <1>9, <1>11
<1>13. said[q].word < said[r].word
  BY <1>3, <1>9, <1>12 DEF Ascending
<1>14. said[r].word <= said[t].word
  <2>1. r = t \/ said[r].word < said[t].word
    BY <1>3, <1>12 DEF Ascending
  <2> QED BY <1>3, <1>12, <2>1
<1>15. said[r].word = v + j
  <2>1. PICK x : x = said[r].word
    OBVIOUS
  <2>2. x \in Nat /\ v + j - 1 < x /\ x <= v + j
    BY <1>3, <1>9, <1>10, <1>12, <1>13, <1>14, <2>1
  <2>3. v \in Nat /\ j \in Nat
    BY <1>2, <1>3
  <2> QED BY <2>1, <2>2, <2>3
<1> QED BY <1>2, <1>8, <1>12, <1>15

\* The last s words of the one are the first of the other.
EndOpens(said, mine, s) ==
  \A i \in 1 .. s : /\ Len(said) - s + i \in DOMAIN said /\ i \in DOMAIN mine
                    /\ said[Len(said) - s + i].word = mine[i].word

\* One that says all of a .. z and ends with z, and one that does and begins with a,
\* share these words.
LEMMA EndsAsOpens ==
  ASSUME NEW said \in Seq(Unit), Ascending(said), NEW mine \in Seq(Unit), Ascending(mine),
         NEW a \in Nat, NEW z \in Nat, a <= z, said # << >>, mine # << >>,
         said[Len(said)].word = z, mine[1].word = a,
         SaysAll(said, a, z), SaysAll(mine, a, z),
         NEW s, s = z - a + 1
  PROVE  /\ s \in Nat \ {0} /\ s <= Len(said) /\ s <= Len(mine) /\ mine[s].word = z
         /\ EndOpens(said, mine, s)
<1>1. /\ DOMAIN said = 1 .. Len(said) /\ Len(said) \in Nat
      /\ DOMAIN mine = 1 .. Len(mine) /\ Len(mine) \in Nat
  BY UnitsOf
<1>2. PICK L : L = Len(said)
  OBVIOUS
<1>3. L \in DOMAIN said /\ 1 \in DOMAIN mine /\ L \in Nat \ {0}
  BY <1>1, <1>2
<1>4. PICK m : m = z - a
  OBVIOUS
<1>5. m \in Nat /\ a + m = z
  BY <1>4
<1>6. \A j \in 0 .. m : 1 + j \in DOMAIN mine /\ mine[1 + j].word = a + j
  <2>1. SaysAll(mine, mine[1].word, mine[1].word + m)
    BY <1>5
  <2>2. FollowOn(mine, 1, m)
    BY <1>3, <1>5, <2>1, Consecutive
  <2> QED BY <2>2 DEF FollowOn
<1>7. PICK b \in DOMAIN said : said[b].word = a
  <2>1. a \in a .. z
    OBVIOUS
  <2> QED BY <2>1 DEF SaysAll, Says
<1>8. \A j \in 0 .. m : b + j \in DOMAIN said /\ said[b + j].word = a + j
  <2>1. SaysAll(said, said[b].word, said[b].word + m)
    BY <1>5, <1>7
  <2>2. FollowOn(said, b, m)
    BY <1>5, <1>7, <2>1, Consecutive
  <2> QED BY <1>7, <2>2 DEF FollowOn
<1>9. b + m = L
  <2>1. m \in 0 .. m /\ a + m = z
    BY <1>4, <1>5
  <2>2. b + m \in DOMAIN said /\ said[b + m].word = z
    BY <1>8, <2>1
  <2>3. PICK r : r = b + m
    OBVIOUS
  <2>4. ~(r < L)
    <3> SUFFICES ASSUME r < L PROVE FALSE
      OBVIOUS
    <3>1. said[r].word < said[L].word
      BY <1>3, <2>2, <2>3 DEF Ascending
    <3> QED BY <1>2, <2>2, <2>3, <3>1
  <2>5. r \in 1 .. L
    BY <1>1, <1>2, <2>2, <2>3
  <2> QED BY <1>3, <2>3, <2>4, <2>5
<1>10. s \in Nat \ {0} /\ b \in Nat \ {0} /\ b = L - m /\ s = 1 + m
  BY <1>1, <1>3, <1>4, <1>5, <1>9
<1>11. s <= Len(said)
  BY <1>2, <1>3, <1>5, <1>10
<1>12. m \in 0 .. m /\ 1 + m \in 1 .. Len(mine) /\ mine[1 + m].word = a + m
  BY <1>1, <1>5, <1>6
<1>13. s <= Len(mine) /\ mine[s].word = z
  BY <1>1, <1>4, <1>10, <1>12
<1>14. ASSUME NEW i \in 1 .. s
       PROVE  /\ Len(said) - s + i \in DOMAIN said /\ i \in DOMAIN mine
              /\ said[Len(said) - s + i].word = mine[i].word
  <2>1. PICK j : j = i - 1
    OBVIOUS
  <2>2. j \in 0 .. m /\ i = 1 + j
    BY <1>5, <1>10, <2>1
  <2>3. Len(said) - s + i = b + j
    BY <1>2, <1>3, <1>5, <1>10, <2>2
  <2> QED BY <1>6, <1>8, <2>2, <2>3
<1> QED BY <1>10, <1>11, <1>13, <1>14 DEF EndOpens

\* A word's text is more than punctuation.
Sayable(f) == \A i \in DOMAIN f.words : f.words[i].text \notin Punctuation

\* No more words are spoken within the reach of a seam than are compared.
Few(f) ==
  \A i, j \in DOMAIN f.words :
    i <= j /\ f.words[j].at - f.words[i].at < SeamShare + SeamSlack => j - i < MaxDuplicate

\* Two hearings of one word sound the same.
LEMMA OneIsSameWord ==
  ASSUME NEW f \in Film, Sayable(f), NEW s \in Seq(Unit), NEW t \in Seq(Unit),
         Genuine(f.words, s), Genuine(f.words, t), NEW p \in DOMAIN s, NEW q \in DOMAIN t,
         s[p].word = t[q].word
  PROVE  SameWord(s[p], t[q])
<1>1. PICK i : i = s[p].word
  OBVIOUS
<1>2. PICK a, b, x : a = s[p].at /\ b = t[q].at /\ x = f.words[i].at
  OBVIOUS
<1>3. i \in DOMAIN f.words /\ s[p].text = f.words[i].text /\ t[q].text = f.words[i].text
  BY <1>1 DEF Genuine
<1>4. a >= x /\ a <= x + 2 * SeamSlack /\ b >= x /\ b <= x + 2 * SeamSlack
  BY <1>1, <1>2 DEF Genuine
<1>5. a \in Int /\ b \in Int /\ x \in Int
  BY <1>2, <1>3, UnitsOf, FilmsWords
<1>6. SeamSlack \in Nat /\ DuplicateTolerance \in Nat /\ 2 * SeamSlack <= DuplicateTolerance
  BY ChunkingConstants, SMT DEF SeamSlack, DuplicateTolerance
<1>7. Distance(a, b) <= DuplicateTolerance
  BY <1>4, <1>5, <1>6 DEF Distance
<1> QED BY <1>2, <1>3, <1>7 DEF SameWord, Sayable

\* Every word from an instant on, up to the last that is said, is said.
Dense(words, said, instant) ==
  \A i \in DOMAIN words :
    words[i].at >= instant /\ (\E p \in DOMAIN said : i <= said[p].word) => Says(said, i)

LEMMA InTime ==
  ASSUME NEW f \in Film, NEW i \in DOMAIN f.words, NEW j \in DOMAIN f.words, i <= j
  PROVE  f.words[i].at <= f.words[j].at
<1>1. Worded(f.words) /\ f.words[i].at \in Int
  BY FilmsWords
<1>2. i \in Nat /\ j \in Nat
  BY <1>1, UnitsOf DEF Worded
<1> QED BY <1>1, <1>2 DEF Worded

\* All that the transcript has of the next chunk's share is dropped from it: both
\* say every word from the share's first to the transcript's last.
LEMMA RestFollows ==
  ASSUME NEW f \in Film, Sayable(f), Few(f), NEW c \in Chunks, NEW cut \in Int,
         c.from = cut - SeamShare,
         c.to >= cut + SeamSlack \/ c.to = f.total,
         c.keepUntil = Nothing \/ c.keepUntil - 2 * SeamSlack >= cut + SeamSlack,
         NEW said \in Seq(Unit), Ascending(said), Genuine(f.words, said),
         \A p \in DOMAIN said : f.words[said[p].word].at < cut + SeamSlack,
         Dense(f.words, said, cut - SeamShare),
         NEW mine \in Seq(Unit), Ascending(mine), Genuine(f.words, mine), Kept(f.words, c, mine),
         \A p \in DOMAIN mine : Inside(c, f.words[mine[p].word].at),
         NEW n \in Nat,
         \A s \in Nat \ {0} :
           s <= MaxDuplicate /\ s <= Len(said) /\ s <= Len(mine) /\ Repeats(said, mine, s) => s <= n,
         NEW q \in DOMAIN mine, q > n, NEW p \in DOMAIN said
  PROVE  said[p].word < mine[q].word
<1> DEFINE words == f.words
<1>1. /\ DOMAIN said = 1 .. Len(said) /\ Len(said) \in Nat
      /\ \A k \in DOMAIN said : said[k].word \in Nat
      /\ DOMAIN mine = 1 .. Len(mine) /\ Len(mine) \in Nat
      /\ \A k \in DOMAIN mine : mine[k].word \in Nat
  BY UnitsOf
<1>2. /\ SeamSlack \in Nat /\ SeamShare \in Nat /\ MaxDuplicate \in Nat
      /\ c.from \in Int /\ c.to \in Int /\ c.keepUntil \in Int \cup {Nothing} /\ Nothing \notin Int
  BY Shares, ChunkingConstants DEF Chunks
<1>3. /\ Worded(words) /\ DOMAIN words = 1 .. Len(words) /\ Len(words) \in Nat
      /\ \A i \in DOMAIN words : words[i].at \in Int /\ words[i].at < f.total
      /\ f.total \in Nat
  <2>1. Worded(words)
    BY FilmsWords
  <2> QED BY <2>1, FilmsWords, UnitsOf DEF Worded
<1> SUFFICES ASSUME mine[q].word <= said[p].word PROVE FALSE
  BY <1>1
<1>4. PICK L : L = Len(said)
  OBVIOUS
<1>5. PICK a, z : a = mine[1].word /\ z = said[L].word
  OBVIOUS
<1>6. /\ L \in DOMAIN said /\ 1 \in DOMAIN mine /\ L \in Nat \ {0}
      /\ p \in Nat /\ q \in Nat /\ p <= L /\ 1 <= q
  BY <1>1, <1>4
<1>7. said[p].word <= z
  <2>1. p = L \/ said[p].word < said[L].word
    BY <1>6 DEF Ascending
  <2> QED BY <1>1, <1>5, <1>6, <2>1
<1>8. a <= mine[q].word
  <2>1. q = 1 \/ mine[1].word < mine[q].word
    BY <1>6 DEF Ascending
  <2> QED BY <1>1, <1>5, <1>6, <2>1
<1>9. a \in Nat /\ z \in Nat /\ a <= z /\ mine[q].word <= z
  BY <1>1, <1>5, <1>6, <1>7, <1>8
<1>10. a \in DOMAIN words /\ z \in DOMAIN words
  BY <1>5, <1>6 DEF Genuine
<1>11. words[a].at >= cut - SeamShare /\ words[z].at < cut + SeamSlack
  BY <1>5, <1>6 DEF Inside
<1>12. ASSUME NEW i \in a .. z
       PROVE  Says(said, i) /\ Says(mine, i)
  <2>1. i \in DOMAIN words /\ a <= i /\ i <= z
    BY <1>3, <1>9, <1>10
  <2>2. words[a].at <= words[i].at /\ words[i].at <= words[z].at
    BY <1>10, <2>1, InTime
  <2>3. PICK x, y, t : x = words[a].at /\ y = words[z].at /\ t = words[i].at
    OBVIOUS
  <2>4. /\ x \in Int /\ y \in Int /\ t \in Int /\ x >= cut - SeamShare /\ y < cut + SeamSlack
        /\ x <= t /\ t <= y /\ t < f.total
    <3>1. x \in Int /\ y \in Int /\ t \in Int /\ t < f.total
      BY <1>3, <1>10, <2>1, <2>3
    <3>2. x >= cut - SeamShare /\ y < cut + SeamSlack /\ x <= t /\ t <= y
      BY <1>11, <2>2, <2>3
    <3> QED BY <3>1, <3>2
  <2>5. t >= cut - SeamShare /\ t >= c.from /\ t < c.to
    <3>1. t >= cut - SeamShare
      BY <1>2, <2>4
    <3>2. t >= c.from
      BY <3>1
    <3>3. t < c.to
      <4>1. CASE c.to >= cut + SeamSlack
        BY <1>2, <2>4, <4>1
      <4>2. CASE c.to = f.total
        BY <2>4, <4>2
      <4> QED BY <4>1, <4>2
    <3> QED BY <3>1, <3>2, <3>3
  <2>6. c.keepUntil = Nothing \/ t < c.keepUntil - 2 * SeamSlack
    BY <1>2, <2>4
  <2>7. Says(said, i)
    BY <1>5, <1>6, <2>1, <2>3, <2>5 DEF Dense
  <2>8. Says(mine, i)
    BY <1>5, <1>6, <2>1, <2>3, <2>5, <2>6 DEF Kept, Inside
  <2> QED BY <2>7, <2>8
<1>13. PICK s : s = z - a + 1
  OBVIOUS
<1>14. /\ s \in Nat \ {0} /\ s <= Len(said) /\ s <= Len(mine) /\ mine[s].word = z
       /\ EndOpens(said, mine, s)
  <2>1. said # << >> /\ mine # << >> /\ said[Len(said)].word = z /\ mine[1].word = a
    BY <1>4, <1>5, <1>6
  <2>2. SaysAll(said, a, z) /\ SaysAll(mine, a, z)
    BY <1>12 DEF SaysAll
  <2> HIDE DEF words
  <2> QED BY <1>9, <1>13, <2>1, <2>2, EndsAsOpens
<1>15. s <= MaxDuplicate
  <2>1. PICK x, y : x = words[a].at /\ y = words[z].at
    OBVIOUS
  <2>2. x \in Int /\ y \in Int /\ x >= cut - SeamShare /\ y < cut + SeamSlack
    BY <1>3, <1>10, <1>11, <2>1
  <2>3. y - x < SeamShare + SeamSlack
    BY <1>2, <2>2
  <2>4. z - a < MaxDuplicate
    BY <1>9, <1>10, <2>1, <2>3 DEF Few
  <2> QED BY <1>2, <1>9, <1>13, <2>4
<1>16. Repeats(said, mine, s)
  <2> SUFFICES ASSUME NEW i \in 1 .. s
               PROVE  SameWord(said[Len(said) - s + i], mine[i])
    BY DEF Repeats
  <2> QED BY <1>14, OneIsSameWord DEF EndOpens
<1>17. s <= n
  BY <1>14, <1>15, <1>16
<1>18. s \in DOMAIN mine /\ s < q
  BY <1>1, <1>6, <1>14, <1>17
<1>19. mine[s].word < mine[q].word
  BY <1>18 DEF Ascending
<1> QED BY <1>1, <1>9, <1>14, <1>18, <1>19

LEMMA Halves ==
  /\ SeamSlack \in Nat /\ SeamShare \in Nat /\ SeamOverlap \in Nat
  /\ 2 * SeamSlack <= SeamShare /\ 2 * SeamShare <= SeamOverlap
BY ChunkingConstants, SMT DEF SeamSlack, SeamShare

\* Chunks, without what may be taken from them at either side, are longer than
\* what neighbours share.
Roomy == SeamOverlap <= Target - Window

\* The transcript of k chunks says no word that is spoken from here on.
Reach(k) ==
  IF k = 0 THEN 0 ELSE IF chunks[k].keepUntil = Nothing THEN chunks[k].to ELSE chunks[k].keepUntil

\* In a film that is cut, what neighbours share can be told apart, and compared.
Clear == \A f \in Film : OneChunk(f) \/ (Distinct(f) /\ Sayable(f) /\ Few(f))

Ordered ==
  Ready =>
    /\ Ascending(transcript)
    /\ \A p \in DOMAIN transcript : film.words[transcript[p].word].at < Reach(index - 1)
    /\ index > 1 /\ chunks[index - 1].keepUntil # Nothing =>
         Dense(film.words, transcript, End(chunks[index - 1]) - SeamShare)

\* The chunk at hand begins, at a silence, where the transcript ends, and at a
\* fixed cut on either side of it.
LEMMA ReachHere ==
  ASSUME Planning, Seams, AtChunk, Roomy, NEW c, c = Here
  PROVE  /\ c \in Chunks /\ Begin(c) \in Int
         /\ Reach(index - 1) \in Int /\ Reach(index) \in Int
         /\ Reach(index) = IF c.keepUntil = Nothing THEN c.to ELSE c.keepUntil
         /\ index < Len(chunks) =>
              /\ Reach(index - 1) <= Reach(index)
              /\ c.to >= Begin(c) + SeamSlack
              /\ c.keepUntil = Nothing \/ c.keepUntil - 2 * SeamSlack >= Begin(c) + SeamSlack
         /\ index = Len(chunks) => c.to = film.total /\ c.keepUntil = Nothing
         /\ c.keepFrom = Nothing => c.from = Reach(index - 1)
         /\ c.keepFrom # Nothing =>
              /\ index > 1 /\ chunks[index - 1].keepUntil # Nothing
              /\ End(chunks[index - 1]) = Begin(c)
              /\ c.from = Begin(c) - SeamShare /\ Reach(index - 1) = Begin(c) + SeamSlack
              /\ c.keepFrom <= Reach(index - 1) /\ c.from <= Reach(index - 1)
         /\ c.keepUntil # Nothing => End(c) \in Int /\ End(c) - SeamShare >= Reach(index - 1)
<1>1. /\ index \in 1 .. Len(chunks) /\ Len(chunks) \in Nat /\ TypeOK /\ chunks # << >>
      /\ Nothing \notin Int /\ Target \in Nat /\ Window \in Nat /\ Window < Target
  BY Shares, ChunkingConstants DEF AtChunk, Planning, TypeOK
<1>2. c \in Chunks
  BY <1>1, ChunkAt DEF Here
<1>3. /\ c.from \in Int /\ c.to \in Int /\ c.keepFrom \in Int \cup {Nothing}
      /\ c.keepUntil \in Int \cup {Nothing}
  BY <1>2 DEF Chunks
<1>4. Reach(index) = IF c.keepUntil = Nothing THEN c.to ELSE c.keepUntil
  BY <1>1 DEF Reach, Here
<1>5. Reach(index) \in Int
  BY <1>3, <1>4
<1>6. index = Len(chunks) => c.to = film.total /\ c.keepUntil = Nothing
  BY DEF Seams, Complete, Ready, AtChunk, Here
<1>7. PICK b, e, r : b = Begin(c) /\ e = End(c) /\ r = Reach(index - 1)
  OBVIOUS
<1>8. /\ b \in Int /\ b = IF c.keepFrom = Nothing THEN c.from ELSE c.keepFrom + SeamSlack
      /\ e \in Int /\ e = IF c.keepUntil = Nothing THEN c.to ELSE c.keepUntil - SeamSlack
  BY <1>3, <1>7, Halves DEF Begin, End
<1>9. /\ c.keepFrom = Nothing => c.from = r
      /\ c.keepFrom # Nothing =>
           /\ index > 1 /\ chunks[index - 1].keepUntil # Nothing
           /\ End(chunks[index - 1]) = b
           /\ c.from = b - SeamShare /\ r = b + SeamSlack
      /\ r \in Int
  <2>1. CASE index = 1
    <3>1. c.from = 0 /\ c.keepFrom = Nothing /\ r = 0
      BY <1>1, <1>7, <2>1 DEF Planning, First, Here, Reach
    <3> QED BY <3>1
  <2>2. CASE index # 1
    <3>1. PICK k : k = index - 1
      OBVIOUS
    <3>2. k \in 1 .. Len(chunks) - 1 /\ k \in 1 .. Len(chunks) /\ index = k + 1 /\ k # 0
      BY <1>1, <2>2, <3>1
    <3>3. PICK d : d = chunks[k]
      OBVIOUS
    <3>4. Seam(d, c.from, c.keepFrom) /\ d \in Chunks
      BY <1>1, <3>2, <3>3, ChunkAt DEF Seams, SeamsBetween, Here
    <3>5. d.to \in Int /\ d.keepUntil \in Int \cup {Nothing}
      BY <3>4 DEF Chunks
    <3>6. r = IF d.keepUntil = Nothing THEN d.to ELSE d.keepUntil
      BY <1>7, <3>1, <3>2, <3>3 DEF Reach
    <3>7. CASE d.keepUntil = Nothing
      <4>1. c.keepFrom = Nothing /\ c.from = d.to
        BY <3>4, <3>7 DEF Seam
      <4> QED BY <3>5, <3>6, <3>7, <4>1
    <3>8. CASE d.keepUntil # Nothing
      <4>1. PICK x : x = End(d)
        OBVIOUS
      <4>2. /\ x = d.keepUntil - SeamSlack /\ c.from = x - SeamShare /\ c.keepFrom = x - SeamSlack
            /\ x \in Int /\ d.keepUntil \in Int
        BY <3>4, <3>5, <3>8, <4>1, Halves DEF Seam, End
      <4>3. c.keepFrom # Nothing
        BY <1>1, <4>2, Halves
      <4>4. b = x /\ r = x + SeamSlack
        BY <1>8, <3>6, <3>8, <4>2, <4>3, Halves
      <4>5. index > 1 /\ chunks[index - 1].keepUntil # Nothing /\ End(chunks[index - 1]) = b
        BY <1>1, <2>2, <3>1, <3>3, <3>8, <4>1, <4>4
      <4>6. r \in Int
        BY <4>2, <4>4, Halves
      <4> QED BY <4>2, <4>3, <4>4, <4>5, <4>6
    <3> QED BY <3>7, <3>8
  <2> QED BY <2>1, <2>2
<1>10. c.keepFrom # Nothing => c.keepFrom <= r /\ c.from <= r
  BY <1>3, <1>8, <1>9, Halves
<1>11. r <= b + SeamSlack
  BY <1>3, <1>8, <1>9, Halves
<1>12. index < Len(chunks) => e >= b + SeamOverlap
  <2> SUFFICES ASSUME index < Len(chunks) PROVE e >= b + SeamOverlap
    OBVIOUS
  <2>1. index \in 1 .. Len(chunks) - 1
    BY <1>1
  <2>2. FullLength(c)
    BY <2>1 DEF Seams, SeamsBetween, Here
  <2>3. e >= b + Target - Window
    BY <1>7, <2>2 DEF FullLength
  <2>4. /\ b \in Int /\ e \in Int /\ Target \in Nat /\ Window \in Nat /\ SeamOverlap \in Nat
        /\ SeamOverlap <= Target - Window
    BY <1>1, <1>8, Halves DEF Roomy
  <2> QED BY ONLY <2>3, <2>4
<1>13. index < Len(chunks) =>
         /\ r <= Reach(index)
         /\ c.to >= b + SeamSlack
         /\ c.keepUntil = Nothing \/ c.keepUntil - 2 * SeamSlack >= b + SeamSlack
  <2> SUFFICES ASSUME index < Len(chunks)
               PROVE  /\ r <= Reach(index)
                      /\ c.to >= b + SeamSlack
                      /\ c.keepUntil = Nothing \/ c.keepUntil - 2 * SeamSlack >= b + SeamSlack
    OBVIOUS
  <2>1. e >= b + SeamOverlap
    BY <1>12
  <2>2. CASE c.keepUntil = Nothing
    <3>1. e = c.to /\ Reach(index) = c.to
      BY <1>4, <1>8, <2>2
    <3>2. /\ b \in Int /\ r \in Int /\ e \in Int /\ c.to \in Int /\ r <= b + SeamSlack
      BY ONLY <1>3, <1>8, <1>9, <1>11
    <3> QED BY ONLY <2>1, <2>2, <3>1, <3>2, Halves
  <2>3. CASE c.keepUntil # Nothing
    <3>1. e = c.keepUntil - SeamSlack /\ Reach(index) = c.keepUntil /\ c.keepUntil \in Int
      BY <1>3, <1>4, <1>8, <2>3
    <3>2. c.to = e + SeamShare
      <4>1. index \in 1 .. Len(chunks) - 1
        BY <1>1
      <4> QED BY <1>7, <2>3, <4>1 DEF Seams, SeamsBetween, Seam, Here
    <3>a. b \in Int /\ e \in Int /\ r \in Int
      BY <1>8, <1>9
    <3>b. r <= e + SeamSlack
      BY <1>11, <2>1, <3>a, Halves
    <3>c. Reach(index) = e + SeamSlack
      <4>1. PICK u : u = c.keepUntil
        OBVIOUS
      <4>2. e = u - SeamSlack /\ u \in Int /\ Reach(index) = u
        BY <3>1, <4>1
      <4> QED BY <4>2, Halves
    <3>3. r <= Reach(index)
      BY <3>b, <3>c
    <3>4. c.to >= b + SeamSlack
      <4>1. e + SeamShare >= b + SeamSlack
        BY <2>1, <3>a, Halves
      <4> QED BY <3>2, <4>1
    <3>5. c.keepUntil - 2 * SeamSlack >= b + SeamSlack
      <4>1. PICK u : u = c.keepUntil
        OBVIOUS
      <4>2. e = u - SeamSlack /\ u \in Int
        BY <3>1, <4>1
      <4>3. u - 2 * SeamSlack >= b + SeamSlack
        BY <2>1, <3>a, <4>2, Halves
      <4> QED BY <4>1, <4>3
    <3> QED BY <3>3, <3>4, <3>5
  <2> QED BY <2>2, <2>3
<1>14. c.keepUntil # Nothing => e - SeamShare >= r
  <2> SUFFICES ASSUME c.keepUntil # Nothing PROVE e - SeamShare >= r
    OBVIOUS
  <2>1. index < Len(chunks)
    BY <1>1, <1>6
  <2>2. e >= b + SeamOverlap
    BY <1>12, <2>1
  <2> QED BY <1>8, <1>9, <1>11, <2>2, Halves
<1> QED BY <1>2, <1>4, <1>5, <1>6, <1>7, <1>8, <1>9, <1>10, <1>13, <1>14

LEMMA JoinAscends ==
  ASSUME NEW said \in Seq(Unit), Ascending(said), NEW mine \in Seq(Unit), Ascending(mine),
         NEW n \in Nat, n <= Len(mine),
         \A p \in DOMAIN said : \A q \in DOMAIN mine : q > n => said[p].word < mine[q].word,
         NEW joined, joined = said \o SubSeq(mine, n + 1, Len(mine))
  PROVE  Ascending(joined)
<1>1. PICK new, l, m : new = SubSeq(mine, n + 1, Len(mine)) /\ l = Len(said) /\ m = Len(mine) - n
  OBVIOUS
<1>2. /\ DOMAIN said = 1 .. l /\ l \in Nat /\ DOMAIN mine = 1 .. Len(mine) /\ Len(mine) \in Nat
  BY <1>1, UnitsOf
<1>3. m \in Nat
  BY <1>1, <1>2
<1>4. /\ new \in Seq(Unit) /\ Len(new) = m /\ DOMAIN new = 1 .. m
      /\ \A q \in 1 .. m : q + n \in DOMAIN mine /\ q + n > n /\ new[q] = mine[q + n]
  BY <1>1, <1>2
<1>5. /\ DOMAIN joined = 1 .. l + m
      /\ \A p \in 1 .. l + m : joined[p] = IF p <= l THEN said[p] ELSE new[p - l]
  <2>1. joined = said \o new
    BY <1>1
  <2>2. joined \in Seq(Unit) /\ Len(joined) = Len(said) + Len(new)
    BY <1>4, <2>1
  <2>3. \A p \in 1 .. Len(said) + Len(new) :
          joined[p] = IF p <= Len(said) THEN said[p] ELSE new[p - Len(said)]
    <3>1. said \in Seq(Unit) /\ new \in Seq(Unit)
      BY <1>4
    <3>2. \A p \in 1 .. Len(said) + Len(new) :
            (said \o new)[p] = IF p <= Len(said) THEN said[p] ELSE new[p - Len(said)]
      BY ONLY <3>1, Joined
    <3> QED BY ONLY <2>1, <3>2
  <2>4. DOMAIN joined = 1 .. Len(joined)
    BY <2>2
  <2> QED BY <1>1, <1>4, <2>2, <2>3, <2>4
<1> SUFFICES ASSUME NEW p \in 1 .. l + m, NEW q \in 1 .. l + m, p < q
             PROVE  joined[p].word < joined[q].word
  BY <1>5 DEF Ascending
<1>6. CASE q <= l
  <2>1. p \in DOMAIN said /\ q \in DOMAIN said /\ p <= l
    BY <1>2, <1>3, <1>6
  <2> QED BY <1>5, <1>6, <2>1 DEF Ascending
<1>7. CASE p <= l /\ ~(q <= l)
  <2>1. p \in DOMAIN said /\ q - l \in 1 .. m
    BY <1>2, <1>3, <1>7
  <2>2. joined[p] = said[p] /\ joined[q] = new[q - l]
    BY <1>5, <1>7
  <2>3. PICK k : k = q - l
    OBVIOUS
  <2>4. k + n \in DOMAIN mine /\ k + n > n /\ new[k] = mine[k + n]
    BY <1>4, <2>1, <2>3
  <2> QED BY <2>1, <2>2, <2>3, <2>4
<1>8. CASE ~(p <= l)
  <2>1. PICK j, k : j = p - l /\ k = q - l
    OBVIOUS
  <2>2. j \in 1 .. m /\ k \in 1 .. m /\ j < k /\ ~(q <= l)
    BY <1>2, <1>3, <1>8, <2>1
  <2>3. joined[p] = new[j] /\ joined[q] = new[k]
    BY <1>5, <1>8, <2>1, <2>2
  <2>4. j + n \in DOMAIN mine /\ k + n \in DOMAIN mine /\ j + n < k + n
        /\ new[j] = mine[j + n] /\ new[k] = mine[k + n]
    BY <1>4, <2>2
  <2> QED BY <2>3, <2>4 DEF Ascending
<1>9. q <= l \/ (p <= l /\ ~(q <= l)) \/ ~(p <= l)
  OBVIOUS
<1> QED BY <1>6, <1>7, <1>8, <1>9

LEMMA ClearIsApart == Clear => Apart
BY DEF Clear, Apart

LEMMA HeardOrdered ==
  ASSUME Prompt, Clear, Roomy, Planning, Seams, Listening, Ordered, Heard
  PROVE  Ordered'
<1>0. /\ film \in Film /\ AtChunk /\ Ready /\ index \in 1 .. Len(chunks) /\ Len(chunks) \in Nat
      /\ UNCHANGED <<film, chunks>> /\ index' = index + 1
  BY DEF Heard, Accept, planVars, Planning, TypeOK, AtChunk, Ready
<1>1. PICK words : words = film.words
  OBVIOUS
<1>2. PICK c : c = Here
  OBVIOUS
<1>3. PICK b, r, next : b = Begin(c) /\ r = Reach(index - 1) /\ next = Reach(index)
  OBVIOUS
<1>4. /\ c \in Chunks /\ b \in Int /\ r \in Int /\ next \in Int
      /\ next = IF c.keepUntil = Nothing THEN c.to ELSE c.keepUntil
      /\ index < Len(chunks) =>
           /\ r <= next
           /\ c.to >= b + SeamSlack
           /\ c.keepUntil = Nothing \/ c.keepUntil - 2 * SeamSlack >= b + SeamSlack
      /\ index = Len(chunks) => c.to = film.total /\ c.keepUntil = Nothing
      /\ c.keepFrom = Nothing => c.from = r
      /\ c.keepFrom # Nothing =>
           /\ index > 1 /\ chunks[index - 1].keepUntil # Nothing
           /\ End(chunks[index - 1]) = b
           /\ c.from = b - SeamShare /\ r = b + SeamSlack
           /\ c.keepFrom <= r /\ c.from <= r
      /\ c.keepUntil # Nothing => End(c) \in Int /\ End(c) - SeamShare >= r
  BY <1>0, <1>2, <1>3, ReachHere
<1>5. PICK mine : \E n \in Nat :
           /\ mine \in Seq(Unit) /\ Ascending(mine) /\ Genuine(words, mine)
           /\ Kept(words, c, mine)
           /\ \A p \in DOMAIN mine :
                /\ Inside(c, words[mine[p].word].at)
                /\ c.keepUntil # Nothing => words[mine[p].word].at < c.keepUntil
           /\ n <= Len(mine)
           /\ transcript' = transcript \o SubSeq(mine, n + 1, Len(mine))
           /\ c.keepFrom # Nothing =>
                \A s \in Nat \ {0} :
                  s <= MaxDuplicate /\ s <= Len(transcript) /\ s <= Len(mine) /\ Repeats(transcript, mine, s)
                  => s <= n
           /\ \A p \in DOMAIN transcript' :
                \/ p \in DOMAIN transcript /\ transcript'[p] = transcript[p]
                \/ \E q \in DOMAIN mine : transcript'[p] = mine[q]
           /\ \A i : Says(transcript, i) \/ Says(mine, i) => Says(transcript', i)
  BY <1>1, <1>2, ClearIsApart, HeardShare
<1>6. PICK n \in Nat :
           /\ n <= Len(mine)
           /\ transcript' = transcript \o SubSeq(mine, n + 1, Len(mine))
           /\ c.keepFrom # Nothing =>
                \A s \in Nat \ {0} :
                  s <= MaxDuplicate /\ s <= Len(transcript) /\ s <= Len(mine) /\ Repeats(transcript, mine, s)
                  => s <= n
  BY <1>5
<1>7. /\ transcript \in Seq(Unit) /\ Genuine(words, transcript) /\ Ascending(transcript)
      /\ \A p \in DOMAIN transcript : words[transcript[p].word].at < r
      /\ c.keepFrom # Nothing => Dense(words, transcript, b - SeamShare)
  BY <1>0, <1>1, <1>3, <1>4 DEF Listening, Ordered
<1>8. \A i \in DOMAIN words : words[i].at \in Int /\ words[i].at < film.total /\ i \in Nat
  <2>1. words \in Seq(Unit)
    BY <1>0, <1>1, FilmsWords DEF Worded
  <2> QED BY <1>0, <1>1, <2>1, FilmsWords, UnitsOf
<1>9. c.from \in Int /\ c.to \in Int /\ film.total \in Int
  BY <1>0, <1>4, FilmsWords DEF Chunks
<1>10. \A p \in DOMAIN transcript : transcript[p].word \in DOMAIN words
  BY <1>7 DEF Genuine
<1>11. \A q \in DOMAIN mine : mine[q].word \in DOMAIN words
  BY <1>5 DEF Genuine
<1>12. ASSUME NEW p \in DOMAIN transcript, NEW q \in DOMAIN mine, q > n
       PROVE  transcript[p].word < mine[q].word
  <2>1. CASE c.keepFrom = Nothing
    <3>1. PICK i, j : i = mine[q].word /\ j = transcript[p].word
      OBVIOUS
    <3>2. /\ i \in DOMAIN words /\ j \in DOMAIN words /\ i \in Nat /\ j \in Nat
      BY <1>8, <1>10, <1>11, <3>1
    <3>3. words[j].at < r /\ c.from = r
      BY <1>4, <1>7, <2>1, <3>1
    <3>4. words[i].at >= c.from
      BY <1>5, <3>1 DEF Inside
    <3>5. ~(words[i].at <= words[j].at)
      BY <1>4, <1>8, <3>2, <3>3, <3>4
    <3>6. ~(i <= j)
      BY <1>0, <1>1, <3>2, <3>5, InTime
    <3> QED BY <3>1, <3>2, <3>6
  <2>2. CASE c.keepFrom # Nothing
    <3>1. Sayable(film) /\ Few(film)
      <4>1. Len(chunks) > 1
        BY <1>0, <1>4, <2>2
      <4> QED BY <1>0, <4>1 DEF Seams, Complete, Clear
    <3>2. c.to >= b + SeamSlack \/ c.to = film.total
      BY <1>0, <1>4
    <3>3. c.keepUntil = Nothing \/ c.keepUntil - 2 * SeamSlack >= b + SeamSlack
      BY <1>0, <1>4
    <3>4. c.from = b - SeamShare /\ \A k \in DOMAIN transcript : words[transcript[k].word].at < b + SeamSlack
      BY <1>4, <1>7, <2>2
    <3>5. /\ Dense(words, transcript, b - SeamShare)
          /\ \A s \in Nat \ {0} :
               s <= MaxDuplicate /\ s <= Len(transcript) /\ s <= Len(mine) /\ Repeats(transcript, mine, s)
               => s <= n
      BY <1>6, <1>7, <2>2
    <3>6. PICK said : said = transcript
      OBVIOUS
    <3>7. \A k \in DOMAIN mine : Inside(c, words[mine[k].word].at)
      BY <1>5
    <3>8. /\ mine \in Seq(Unit) /\ Ascending(mine) /\ Genuine(words, mine) /\ Kept(words, c, mine)
      BY <1>5
    <3>9. /\ said \in Seq(Unit) /\ Genuine(words, said) /\ Ascending(said) /\ p \in DOMAIN said
      BY <1>7, <3>6
    <3>10. said[p].word < mine[q].word
      BY <1>0, <1>1, <1>4, <1>12, <3>1, <3>2, <3>3, <3>4, <3>5, <3>6, <3>7, <3>8, <3>9, RestFollows
    <3> QED BY <3>6, <3>10
  <2> QED BY <2>1, <2>2
<1>13. Ascending(transcript')
  <2>1. PICK s, t : s = transcript /\ t = transcript'
    OBVIOUS
  <2>2. /\ s \in Seq(Unit) /\ Ascending(s) /\ mine \in Seq(Unit) /\ Ascending(mine)
        /\ t = s \o SubSeq(mine, n + 1, Len(mine))
    BY <1>5, <1>6, <1>7, <2>1
  <2>3. \A p \in DOMAIN s : \A q \in DOMAIN mine : q > n => s[p].word < mine[q].word
    BY <1>12, <2>1
  <2>4. Ascending(t)
    BY <1>6, <2>2, <2>3, JoinAscends
  <2> QED BY <2>1, <2>4
<1>14. \A p \in DOMAIN transcript : words[transcript[p].word].at < next
  <2> SUFFICES ASSUME NEW p \in DOMAIN transcript PROVE words[transcript[p].word].at < next
    OBVIOUS
  <2>1. PICK t : t = words[transcript[p].word].at
    OBVIOUS
  <2>2. t \in Int /\ t < r /\ t < film.total
    BY <1>7, <1>8, <1>10, <2>1
  <2>3. CASE index < Len(chunks)
    <3>1. r <= next
      BY <1>4, <2>3
    <3> QED BY <1>4, <2>1, <2>2, <3>1
  <2>4. CASE index = Len(chunks)
    <3>1. next = film.total
      BY <1>4, <2>4
    <3> QED BY <2>1, <2>2, <3>1
  <2> QED BY <1>0, <2>3, <2>4
<1>15. \A q \in DOMAIN mine : words[mine[q].word].at < next
  BY <1>4, <1>5 DEF Inside
<1>16. ASSUME NEW p \in DOMAIN transcript'
       PROVE  words[transcript'[p].word].at < next
  BY <1>5, <1>14, <1>15
<1>17. ASSUME c.keepUntil # Nothing
       PROVE  Dense(words, transcript', End(c) - SeamShare)
  <2> SUFFICES ASSUME NEW i \in DOMAIN words, words[i].at >= End(c) - SeamShare,
                      NEW p \in DOMAIN transcript', i <= transcript'[p].word
               PROVE  Says(transcript', i)
    BY DEF Dense
  <2>1. words[i].at >= r
    <3>1. PICK x, e : x = words[i].at /\ e = End(c) - SeamShare
      OBVIOUS
    <3>2. x \in Int /\ e \in Int /\ x >= e /\ e >= r
      BY <1>4, <1>8, <1>17, <3>1, Halves
    <3> QED BY <1>4, <3>1, <3>2
  <2>2. ASSUME NEW k \in DOMAIN transcript, transcript'[p] = transcript[k]
        PROVE  FALSE
    <3>1. transcript[k].word \in DOMAIN words /\ i <= transcript[k].word
      BY <1>10, <2>2
    <3>2. words[i].at <= words[transcript[k].word].at
      BY <1>0, <1>1, <3>1, InTime
    <3>3. words[transcript[k].word].at < r /\ words[transcript[k].word].at \in Int
      BY <1>7, <1>8, <3>1
    <3> QED BY <1>4, <1>8, <2>1, <3>2, <3>3
  <2>3. PICK q \in DOMAIN mine : transcript'[p] = mine[q]
    BY <1>5, <2>2
  <2>4. mine[q].word \in DOMAIN words /\ i <= mine[q].word
    BY <1>11, <2>3
  <2>5. words[i].at <= words[mine[q].word].at
    BY <1>0, <1>1, <2>4, InTime
  <2>6. words[mine[q].word].at < c.to /\ words[mine[q].word].at \in Int
    BY <1>5, <1>8, <2>4 DEF Inside
  <2>7. c.from <= r /\ (c.keepFrom # Nothing => c.keepFrom <= r)
    BY <1>4
  <2>8. Inside(c, words[i].at)
    <3>1. PICK x, y : x = words[i].at /\ y = words[mine[q].word].at
      OBVIOUS
    <3>2. /\ x \in Int /\ y \in Int /\ r \in Int /\ c.from \in Int /\ c.to \in Int
      BY <1>4, <1>8, <1>9, <2>6, <3>1
    <3>3. x >= r /\ x <= y /\ y < c.to /\ c.from <= r
      BY ONLY <2>1, <2>5, <2>6, <2>7, <3>1
    <3> QED BY ONLY <3>1, <3>2, <3>3 DEF Inside
  <2>9. c.keepFrom = Nothing \/ words[i].at >= c.keepFrom
    <3>1. c.keepFrom \in Int \cup {Nothing}
      BY <1>4 DEF Chunks
    <3> QED BY <1>4, <1>8, <2>1, <2>7, <3>1
  <2>10. Says(mine, i)
    BY <1>5, <2>4, <2>8, <2>9 DEF Kept
  <2> QED BY <1>5, <2>10
<1>18. Reach(index - 1)' = next
  <2>1. index' - 1 = index
    BY <1>0
  <2> QED BY <1>0, <1>3, <2>1 DEF Reach
<1>19. (index' - 1 = index) /\ chunks'[index] = c /\ film'.words = words
  BY <1>0, <1>1, <1>2 DEF Here
<1>20. chunks'[index' - 1].keepUntil # Nothing =>
         Dense(film'.words, transcript', End(chunks'[index' - 1]) - SeamShare)
  BY <1>17, <1>19
<1> QED BY <1>13, <1>16, <1>18, <1>19, <1>20 DEF Ordered, Dense, End

LEMMA NothingHeardOrdered ==
  ASSUME Roomy, Planning, Seams, Listening, Ordered, NothingHeard
  PROVE  Ordered'
<1>0. /\ film \in Film /\ AtChunk /\ Ready /\ index \in 1 .. Len(chunks) /\ Len(chunks) \in Nat
      /\ UNCHANGED <<film, chunks>> /\ stage' \in {"chunk", "done"}
  BY DEF NothingHeard, Accept, TryAgain, Return, planVars, chunkVars, Planning, TypeOK, AtChunk, Ready
<1>1. \/ UNCHANGED <<transcript, index>>
      \/ index' = index + 1 /\ transcript' = transcript \o << >>
  BY DEF NothingHeard, Accept, TryAgain, Return, chunkVars
<1>2. CASE UNCHANGED <<transcript, index>>
  BY <1>0, <1>2 DEF Ordered, Dense, Reach, End
<1>3. CASE index' = index + 1 /\ transcript' = transcript \o << >>
  <2>1. transcript' = transcript /\ transcript \in Seq(Unit) /\ Genuine(film.words, transcript)
    <3>1. transcript \in Seq(Unit) /\ Genuine(film.words, transcript)
      BY <1>0 DEF Listening
    <3> QED BY <1>3, <3>1
  <2>2. PICK c, r, next : c = Here /\ r = Reach(index - 1) /\ next = Reach(index)
    OBVIOUS
  <2>3. /\ c \in Chunks /\ r \in Int /\ next \in Int
        /\ next = IF c.keepUntil = Nothing THEN c.to ELSE c.keepUntil
        /\ index < Len(chunks) => r <= next
        /\ index = Len(chunks) => c.to = film.total /\ c.keepUntil = Nothing
        /\ c.keepUntil # Nothing => End(c) \in Int /\ End(c) - SeamShare >= r
    BY <1>0, <2>2, ReachHere
  <2>4. /\ Ascending(transcript)
        /\ \A p \in DOMAIN transcript : film.words[transcript[p].word].at < r
    BY <1>0, <2>2 DEF Ordered
  <2>5. \A p \in DOMAIN transcript : transcript[p].word \in DOMAIN film.words
    BY <2>1 DEF Genuine
  <2>6. \A i \in DOMAIN film.words : film.words[i].at \in Int /\ film.words[i].at < film.total
    BY <1>0, FilmsWords
  <2>7. ASSUME NEW p \in DOMAIN transcript
        PROVE  film.words[transcript[p].word].at < next
    <3>1. PICK t : t = film.words[transcript[p].word].at
      OBVIOUS
    <3>2. t \in Int /\ t < r /\ t < film.total
      BY <2>4, <2>5, <2>6, <3>1
    <3>3. CASE index < Len(chunks)
      <4>1. r <= next
        BY <2>3, <3>3
      <4> QED BY <2>3, <3>1, <3>2, <4>1
    <3>4. CASE index = Len(chunks)
      <4>1. next = film.total
        BY <2>3, <3>4
      <4> QED BY <3>1, <3>2, <4>1
    <3> QED BY <1>0, <3>3, <3>4
  <2>8. ASSUME c.keepUntil # Nothing
        PROVE  Dense(film.words, transcript, End(c) - SeamShare)
    <3> SUFFICES ASSUME NEW i \in DOMAIN film.words, film.words[i].at >= End(c) - SeamShare,
                        NEW p \in DOMAIN transcript, i <= transcript[p].word
                 PROVE  FALSE
      BY DEF Dense
    <3>1. film.words[i].at <= film.words[transcript[p].word].at
      BY <1>0, <2>5, InTime
    <3>2. PICK x, y, e : x = film.words[i].at /\ y = film.words[transcript[p].word].at /\ e = End(c) - SeamShare
      OBVIOUS
    <3>3. x \in Int /\ y \in Int /\ e \in Int /\ x >= e /\ e >= r /\ x <= y /\ y < r
      BY <2>3, <2>4, <2>5, <2>6, <2>8, <3>1, <3>2, Halves
    <3> QED BY <2>3, <3>3
  <2>9. Reach(index - 1)' = next
    <3>1. index' - 1 = index
      BY <1>0, <1>3
    <3> QED BY <1>0, <2>2, <3>1 DEF Reach
  <2>10. index' - 1 = index /\ chunks'[index] = c
    BY <1>0, <1>3, <2>2 DEF Here
  <2>11. chunks'[index' - 1].keepUntil # Nothing =>
           Dense(film'.words, transcript', End(chunks'[index' - 1]) - SeamShare)
    BY <1>0, <2>1, <2>8, <2>10
  <2> QED BY <1>0, <2>1, <2>4, <2>7, <2>9, <2>11 DEF Ordered, Dense, End
<1> QED BY <1>1, <1>2, <1>3

LEMMA CutOrdered ==
  ASSUME Planning, Seams, CutAtSilence \/ CutFixed \/ CutLast
  PROVE  Ordered'
<1>1. index' = 1 /\ transcript' = << >>
  BY DEF CutAtSilence, CutFixed, CutLast, Seams, Framed, chunkVars
<1>2. Ascending(<< >>) /\ DOMAIN << >> = {}
  BY DEF Ascending
<1> QED BY <1>1, <1>2 DEF Ordered

LEMMA NextOrdered ==
  ASSUME Prompt, Clear, Roomy, Planning, Seams, Listening, Ordered, [Next]_vars
  PROVE  Ordered'
<1>1. CASE Download
  <2>1. ~Ready'
    BY <1>1 DEF Download, Ready
  <2> QED BY <2>1 DEF Ordered
<1>2. CASE CutAtSilence \/ CutFixed \/ CutLast
  BY <1>2, CutOrdered
<1>3. CASE Heard
  BY <1>3, HeardOrdered
<1>4. CASE NothingHeard
  BY <1>4, NothingHeardOrdered
<1>5. CASE \/ Loops \/ NoAnswer \/ Refused \/ Unreachable \/ Broken
           \/ Assemble \/ ProbeFails \/ TurnedAway \/ Elsewhere \/ UNCHANGED vars
  <2>1. UNCHANGED <<film, chunks, index, transcript>>
    <3> USE DEF Return, TryAgain, chunkVars, planVars
    <3>1. CASE Loops \/ NoAnswer \/ Refused \/ Unreachable \/ Broken
      BY <3>1 DEF Loops, NoAnswer, Refused, Unreachable, Broken
    <3>2. CASE Assemble \/ ProbeFails \/ TurnedAway \/ Elsewhere \/ UNCHANGED vars
      BY <3>2 DEF Assemble, ProbeFails, TurnedAway, Elsewhere, vars
    <3> QED BY <1>5, <3>1, <3>2
  <2>2. Ready' => Ready
    <3> USE DEF Return, TryAgain, AtChunk, Ready
    <3>1. CASE Loops \/ NoAnswer \/ Refused \/ Unreachable \/ Broken
      BY <3>1 DEF Loops, NoAnswer, Refused, Unreachable, Broken
    <3>2. CASE Assemble \/ ProbeFails \/ TurnedAway \/ Elsewhere \/ UNCHANGED vars
      BY <3>2 DEF Assemble, ProbeFails, TurnedAway, Elsewhere, vars
    <3> QED BY <1>5, <3>1, <3>2
  <2> QED BY <2>1, <2>2 DEF Ordered, Ascending, Dense, Says, Reach, End
<1> QED BY <1>1, <1>2, <1>3, <1>4, <1>5 DEF Next, Proceed

\* What is ascending has each word once.
LEMMA SaidOnce ==
  ASSUME transcript \in Seq(Unit), Ascending(transcript), NEW i
  PROVE  Times(i) <= 1
<1>1. PICK S : S = {k \in DOMAIN transcript : transcript[k].word = i}
  OBVIOUS
<1>2. /\ DOMAIN transcript = 1 .. Len(transcript) /\ Len(transcript) \in Nat
      /\ \A k \in DOMAIN transcript : transcript[k].word \in Nat
  BY UnitsOf
<1>3. \A p, q \in S : p = q
  <2> SUFFICES ASSUME NEW p \in S, NEW q \in S, p < q PROVE FALSE
    BY <1>1, <1>2
  <2>1. transcript[p].word < transcript[q].word /\ transcript[p].word = i /\ transcript[q].word = i
    BY <1>1 DEF Ascending
  <2>2. i \in Nat
    BY <1>1, <1>2
  <2> QED BY <2>1, <2>2
<1>4. CASE S = {}
  <2>1. Cardinality(S) = 0
    BY <1>4, FS_EmptySet
  <2> QED BY <1>1, <2>1 DEF Times
<1>5. CASE S # {}
  <2>a. PICK p \in S : TRUE
    BY <1>5
  <2>1. S = {p}
    BY <1>3, <2>a
  <2>2. Cardinality(S) = 1
    BY <2>1, FS_Singleton
  <2> QED BY <1>1, <2>2 DEF Times
<1> QED BY <1>4, <1>5

\* No word reaches the subtitle twice, if chunks are long enough for what they
\* share, no text is said again within reach of its first saying, no word is only
\* punctuation and no more words are spoken at a seam than are compared (seams.go,
\* dropRepeatedSeam: the longest run that ends the one and begins the other).
THEOREM NoWordTwice ==
  ASSUME Prompt, Clear, Roomy
  PROVE  Spec => []NothingTwice
<1>1. Init => Listening /\ Ordered
  BY DEF Init, Listening, Ordered, Ready
<1>2. ASSUME Listening, Ordered
      PROVE  NothingTwice
  <2> SUFFICES ASSUME result = "subtitle", NEW i \in DOMAIN film.words PROVE Times(i) <= 1
    BY DEF NothingTwice
  <2>1. transcript \in Seq(Unit) /\ Ascending(transcript)
    BY <1>2 DEF Listening, Ordered, Ready
  <2> QED BY <2>1, SaidOnce
<1>3. Planning /\ Seams /\ Listening /\ Ordered /\ [Next]_vars => Listening' /\ Ordered'
  BY ClearIsApart, NextListening, NextOrdered
<1>4. Spec => [](Planning /\ Seams)
  BY SeamsAlways
<1> QED BY <1>1, <1>2, <1>3, <1>4, PTL DEF Spec
=============================================================================
