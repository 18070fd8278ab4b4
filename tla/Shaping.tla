-------------------------------- MODULE Shaping --------------------------------
(***************************************************************************)
(* internal/provider/whisper, shape.go: the transcript's tokens become     *)
(* words, the words groups, and each group a cue of one or two lines.      *)
(* A token has a text, a start and an end in ticks, and (for the           *)
(* properties) its place in what was said.  What the code reads from the   *)
(* text's characters is given by operators.                                *)
(***************************************************************************)
EXTENDS Integers, Sequences, SequencesExt

CONSTANTS
  Chars(_),      \* length of a text
  Continues(_),  \* it has no leading space: it belongs to the word before
  Mark(_),       \* punctuation it ends in: "none", "clause" or "sentence"
  MaxLineChars,
  Second         \* in ticks

ASSUME ShapingConstants == MaxLineChars \in Nat \ {0} /\ Second \in Nat \ {0}

MinCue == Second
MaxCue == 7 * Second
PauseSplit == Second
MaxWord == 3 * Second
RepeatGap == Second
MaxCharsPerSecond == 17

-----------------------------------------------------------------------------
(* mergeTokens: a word is the texts of its tokens. *)

WordOf(t) == [texts |-> << t.text >>, start |-> t.start, end |-> t.end, said |-> t.said]

\* The token belongs to the word.
Longer(w, t) == [w EXCEPT !.texts = Append(@, t.text), !.end = t.end]

MergeToken(words, t) ==
  IF Continues(t.text) /\ words # <<>>
  THEN [words EXCEPT ![Len(words)] = Longer(@, t)]
  ELSE Append(words, WordOf(t))

\* Whisper stretches a word over the silence after it.
Clipped(w) == [w EXCEPT !.end = IF @ - w.start > MaxWord THEN w.start + MaxWord ELSE @]

MergeTokens(tokens) ==
  LET merged[k \in 0 .. Len(tokens)] ==
        IF k = 0 THEN <<>> ELSE MergeToken(merged[k - 1], tokens[k])
      words == merged[Len(tokens)]
  IN  [i \in DOMAIN words |-> Clipped(words[i])]

Ends(w) == Mark(Last(w.texts))

Total(numbers) ==
  LET total[k \in 0 .. Len(numbers)] == IF k = 0 THEN 0 ELSE total[k - 1] + numbers[k]
  IN  total[Len(numbers)]

Size(w) == Total([i \in DOMAIN w.texts |-> Chars(w.texts[i])])

\* The length of the words on one line, with a space between them.
Width(words) == Total([i \in DOMAIN words |-> Size(words[i]) + 1]) - 1

-----------------------------------------------------------------------------
(* layoutLines, fits. *)

FirstPart(words, i) == SubSeq(words, 1, i)
Rest(words, i) == SubSeq(words, i + 1, Len(words))

Breaks(words) ==
  {i \in 1 .. Len(words) - 1 : /\ Width(FirstPart(words, i)) <= MaxLineChars
                               /\ Width(Rest(words, i)) <= MaxLineChars}

\* Even lines are better, and a break after a clause.
Unevenness(words, i) ==
  LET d == Width(FirstPart(words, i)) - Width(Rest(words, i))
  IN  (IF d < 0 THEN -d ELSE d) - (IF Ends(words[i]) = "clause" THEN 8 ELSE 0)

OneLine(words) == Len(words) = 1 \/ Width(words) <= MaxLineChars

\* None, if the words do not fit.
Lines(words) ==
  IF OneLine(words) THEN << words >>
  ELSE IF Breaks(words) = {} THEN <<>>
  ELSE LET i == CHOOSE i \in Breaks(words) :
                  \A j \in Breaks(words) :
                    \/ Unevenness(words, i) < Unevenness(words, j)
                    \/ Unevenness(words, i) = Unevenness(words, j) /\ i <= j
       IN  << FirstPart(words, i), Rest(words, i) >>

Fits(words) ==
  \/ Len(words) = 1
  \/ /\ Last(words).end - words[1].start <= MaxCue
     /\ OneLine(words) \/ Breaks(words) # {}

-----------------------------------------------------------------------------
(* groupWords *)

\* splitAtClause: after the last clause that leaves no runt before it.
ClauseEnd(words) ==
  LET ends == {i \in 1 .. Len(words) - 1 : /\ Ends(words[i]) = "clause"
                                           /\ 3 * (Width(FirstPart(words, i)) + 1) >= Width(words)}
  IN  IF ends = {} THEN Len(words) ELSE CHOOSE i \in ends : \A j \in ends : j <= i

\* The words so far: whole groups, and the one that is being filled.
EndsGroup(current, w) ==
  \/ w.start - Last(current).end >= PauseSplit
  \/ Ends(Last(current)) = "sentence" /\ Last(current).end - current[1].start >= MinCue

\* Mutated: what is left after the clause is not measured again.
GroupUnmeasured(g, w) ==
  LET full == ClauseEnd(g.current)
  IN  IF g.current # <<>> /\ EndsGroup(g.current, w)
      THEN [groups |-> Append(g.groups, g.current), current |-> << w >>]
      ELSE IF g.current = <<>> \/ Fits(Append(g.current, w))
      THEN [g EXCEPT !.current = Append(@, w)]
      ELSE [groups |-> Append(g.groups, FirstPart(g.current, full)),
            current |-> Append(Rest(g.current, full), w)]

\* The next word joins the group, or ends it, at its last clause if that helps.
Group(g, w) ==
  LET full == ClauseEnd(g.current)
      tail == Rest(g.current, full)
  IN  IF g.current # <<>> /\ EndsGroup(g.current, w)
      THEN [groups |-> Append(g.groups, g.current), current |-> << w >>]
      ELSE IF g.current = <<>> \/ Fits(Append(g.current, w))
      THEN [g EXCEPT !.current = Append(@, w)]
      ELSE IF tail = <<>> \/ Fits(Append(tail, w))
      THEN [groups |-> Append(g.groups, FirstPart(g.current, full)), current |-> Append(tail, w)]
      ELSE [groups |-> g.groups \o << FirstPart(g.current, full), tail >>, current |-> << w >>]

GroupWords(words) ==
  LET grouped[k \in 0 .. Len(words)] ==
        IF k = 0 THEN [groups |-> <<>>, current |-> <<>>] ELSE Group(grouped[k - 1], words[k])
      all == grouped[Len(words)]
  IN  IF all.current = <<>> THEN all.groups ELSE Append(all.groups, all.current)

-----------------------------------------------------------------------------
(* Cues. *)

CueOf(group) ==
  [lines |-> Lines(group), start |-> group[1].start, end |-> Last(group).end]

\* One line or two; none if the words did not fit.
Words(cue) ==
  IF cue.lines = <<>> THEN <<>>
  ELSE IF Len(cue.lines) = 1 THEN cue.lines[1] ELSE cue.lines[1] \o cue.lines[2]
Text(cue) == [i \in DOMAIN Words(cue) |-> Words(cue)[i].texts]

\* A cue that repeats the one before, closely, extends it.  (Texts that differ in
\* case alone are one text to the code; here texts are equal or not.)
Collapse(cues, c) ==
  IF cues # <<>> /\ c.start - Last(cues).end < RepeatGap /\ Text(c) = Text(Last(cues))
  THEN [cues EXCEPT ![Len(cues)] = [Last(cues) EXCEPT !.end = Min({c.end, Last(cues).start + MaxCue})]]
  ELSE Append(cues, c)

CollapseRepeats(cues) ==
  LET shown[k \in 0 .. Len(cues)] == IF k = 0 THEN <<>> ELSE Collapse(shown[k - 1], cues[k])
  IN  shown[Len(cues)]

\* Long enough to be read, if the next cue allows it.
Retime(cues) ==
  [i \in DOMAIN cues |->
     LET c == cues[i]
         need == Max({MinCue, (Width(Words(c)) * Second) \div MaxCharsPerSecond})
         next == IF i < Len(cues) THEN {cues[i + 1].start} ELSE {}
     IN  [c EXCEPT !.end = Max({@, Min({c.start + need, c.start + MaxCue} \cup next)})]]

ShapeCues(tokens) ==
  LET groups == GroupWords(MergeTokens(tokens))
  IN  Retime(CollapseRepeats([i \in DOMAIN groups |-> CueOf(groups[i])]))

-----------------------------------------------------------------------------
(* What cues are to be. *)

\* Every token is in a word, at its place, and nothing else is.
Spells(words, tokens) ==
  /\ \A j \in DOMAIN words : \A n \in DOMAIN words[j].texts :
       words[j].said + n - 1 \in DOMAIN tokens /\ words[j].texts[n] = tokens[words[j].said + n - 1].text
  /\ \A i \in DOMAIN tokens : \E j \in DOMAIN words :
       i - words[j].said + 1 \in DOMAIN words[j].texts

\* Where in what is spoken a cue begins and ends.
Begins(words, cue) == CHOOSE i \in DOMAIN words : words[i] = Words(cue)[1]
Stops(words, cue) == Begins(words, cue) + Len(Words(cue)) - 1

\* A cue shows words that are spoken one after another, and cues keep their order.
\* A word that no cue shows came without a pause, and says again what the cue before
\* it shows.
SayAll(words, cues) ==
  /\ \A k \in DOMAIN cues :
       /\ Words(cues[k]) # <<>>
       /\ \E i \in DOMAIN words : words[i] = Words(cues[k])[1]
       /\ Words(cues[k]) = SubSeq(words, Begins(words, cues[k]), Stops(words, cues[k]))
  /\ words # <<>> => cues # <<>> /\ Begins(words, cues[1]) = 1
  /\ \A k \in 1 .. Len(cues) - 1 : Stops(words, cues[k]) < Begins(words, cues[k + 1])
  /\ \A k \in DOMAIN cues : \A i \in DOMAIN words :
       Stops(words, cues[k]) < i /\ (k < Len(cues) => i < Begins(words, cues[k + 1])) =>
         /\ words[i].start - words[i - 1].end < RepeatGap
         /\ words[i].texts = words[i - Len(Words(cues[k]))].texts

Disjoint(words) == \A i, j \in DOMAIN words : i < j => words[i].end <= words[j].start

\* Cues fit the screen, stay long enough and not too long, and do not overlap
\* where the words do not.
Readable(words, cues) ==
  \A k \in DOMAIN cues :
    LET c == cues[k]
        nextStarts == k < Len(cues) /\ cues[k + 1].start <= c.end
    IN  /\ \A l \in DOMAIN c.lines : Width(c.lines[l]) <= MaxLineChars \/ Len(Words(c)) = 1
        /\ c.end - c.start <= MaxCue
        /\ c.end - c.start >= MinCue \/ nextStarts
        /\ Disjoint(words) /\ k < Len(cues) => c.end <= cues[k + 1].start
=============================================================================
