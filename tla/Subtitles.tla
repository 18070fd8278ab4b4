------------------------------ MODULE Subtitles ------------------------------
(***************************************************************************)
(* What Download makes of its transcript (whisper.go, Download): cues.     *)
(***************************************************************************)
EXTENDS Whisper, Shaping

CONSTANT Lasts(_)   \* how long, in ticks, a text is spoken

\* Of the texts that are spoken, Lasts and Chars are numbers.
ASSUME SubtitlesTexts ==
  \A f \in Film : \A i \in DOMAIN f.words :
    Lasts(f.words[i].text) \in Nat /\ Chars(f.words[i].text) \in Nat

Tokens == [i \in DOMAIN transcript |->
             [text |-> transcript[i].text, start |-> transcript[i].at,
              end |-> transcript[i].at + Lasts(transcript[i].text), said |-> i]]

\* A subtitle says all that was heard, in cues that can be read on a screen
\* (shape.go, shapeCues).
WellShaped ==
  result = "subtitle" =>
    LET words == MergeTokens(Tokens)
        cues == ShapeCues(Tokens)
    IN  Spells(words, Tokens) /\ SayAll(words, cues) /\ Readable(words, cues)
=============================================================================
