------------------------------ MODULE MCWhisper ------------------------------
(* Whisper on short films: ticks of half a second, chunks of five seconds, two *)
(* seconds of overlap, so that the first fixed cut is at tick 10.              *)
EXTENDS Subtitles

CONSTANTS
  Texts, Instants, MaxWords,
  Echo   \* the same text is spoken again no sooner than after this many ticks

ASSUME MaxWords \in Nat /\ Echo \in Nat

Pause(from, to) == [from |-> from, to |-> to]

SpokenFilm(total, silences, words) == [total |-> total, silences |-> silences, words |-> words]

\* Up to MaxWords words at different instants, in order.
Speech ==
  UNION {{[i \in 1..n |-> [text |-> text[i], at |-> at[i], word |-> i]] :
            text \in [1..n -> Texts],
            at \in {a \in [1..n -> Instants] : \A i, j \in 1..n : i < j => a[i] < a[j]}} :
         n \in 1..MaxWords}

Distinguishable ==
  {words \in Speech :
     \A i, j \in DOMAIN words :
        i < j /\ words[i].text = words[j].text => words[j].at - words[i].at >= Echo}

\* Films with a fixed cut at tick 10 and words around it.
AtFixedCut == {SpokenFilm(14, {}, words) : words \in Distinguishable}

\* Films of all lengths around one to three chunks, with pauses of equal and of
\* different lengths in and out of the windows; one word at each end.
Planned ==
  {SpokenFilm(total, silences, <<[text |-> "go", at |-> 1, word |-> 1],
                                 [text |-> "go", at |-> total - 3, word |-> 2]>>) :
     total \in {11, 12, 13, 14, 22, 23, 24, 25, 34, 38},
     silences \in SUBSET {Pause(3, 6), Pause(8, 10), Pause(10, 11), Pause(11, 13), Pause(19, 24), Pause(30, 32)}}

\* Words without a pause between them, of every kind that shaping tells apart,
\* in one chunk: pauses come from how late they are heard.  Here a tick is a second.
ShortTexts == {"a", "b,", "c.", "dddd", "e", "!"}

MCChars(t) == CASE t = "dddd" -> 4 [] t \in {"b,", "c.", "go", "no"} -> 2 [] OTHER -> 1
MCContinues(t) == t = "!"
MCMark(t) == CASE t = "b," -> "clause" [] t \in {"c.", "!"} -> "sentence" [] OTHER -> "none"
Spoken(t) == CASE t = "e" -> 3 [] t \in {"c.", "dddd"} -> 2 [] t = "!" -> 0 [] OTHER -> 1

Starts(texts) ==
  LET at[i \in DOMAIN texts] == IF i = 1 THEN 0 ELSE at[i - 1] + Spoken(texts[i - 1])
  IN  at

Said(texts) ==
  [i \in DOMAIN texts |-> [text |-> texts[i], at |-> Starts(texts)[i], word |-> i]]

Fluent ==
  {SpokenFilm(12, {}, Said(texts)) : texts \in UNION {[1..n -> ShortTexts] : n \in 1..4}}

Films == AtFixedCut \cup Planned \cup Fluent
\* (TLC evaluates Films once, and what a constant is replaced by every time.)
AllFilms == Films
=============================================================================
