-------------------------------- MODULE Scoring --------------------------------
(***************************************************************************)
(* internal/scoring: what a file name says of its video, and the Candidate *)
(* that fits it best.  A file name is the sequence of tokens that tokenize *)
(* makes of it, with media.Classify's verdict and the release group.       *)
(***************************************************************************)
EXTENDS Naturals, Sequences, SequencesExt

CONSTANTS
  Key(_),    \* a title as foldTitle and EqualFold see it
  Lower(_),  \* a cosmetic attribute as EqualFold sees it
  NoText     \* the empty attribute

-----------------------------------------------------------------------------
(* media.Classify, and Parse. *)

Episode(s, e) == [type |-> "episode", season |-> s, episode |-> e]
Movie == [type |-> "movie", season |-> 0, episode |-> 0]

Tag == {"source", "resolution", "codec"}
IsRecognizedTag(token) == token.kind \in Tag

Describes(token) == IsRecognizedTag(token) \/ token.kind = "episode"

\* Where the description of the release begins.
MetaStart(tokens) == SelectInSeq(tokens \o << [kind |-> "episode"] >>, Describes)

\* Mutated: the first year.
FirstYear(tokens) == SelectInSeq(SubSeq(tokens, 1, MetaStart(tokens) - 1), LAMBDA t : t.kind = "year")

\* The last year before it; 0 for none.
YearIndex(tokens) ==
  SelectLastInSeq(SubSeq(tokens, 1, MetaStart(tokens) - 1), LAMBDA t : t.kind = "year")

Texts(tokens) == [i \in DOMAIN tokens |-> tokens[i].text]

Title(tokens) ==
  Texts(SubSeq(tokens, 1, (IF YearIndex(tokens) # 0 THEN YearIndex(tokens) ELSE MetaStart(tokens)) - 1))

Year(tokens) == IF YearIndex(tokens) = 0 THEN 0 ELSE tokens[YearIndex(tokens)].number

\* The first token of a kind is the attribute.
Attribute(tokens, kind) ==
  LET i == SelectInSeq(tokens, LAMBDA t : t.kind = kind)
  IN  IF i = 0 THEN NoText ELSE tokens[i].text

Parseable(name) ==
  /\ name.class # Episode(0, 0)
  /\ name.class.type = "movie" => YearIndex(name.tokens) # 0
  /\ Title(name.tokens) # <<>>

Parse(name) ==
  [type |-> name.class.type, season |-> name.class.season, episode |-> name.class.episode,
   title |-> Title(name.tokens), year |-> Year(name.tokens), group |-> name.group,
   source |-> Attribute(name.tokens, "source"),
   resolution |-> Attribute(name.tokens, "resolution"),
   codec |-> Attribute(name.tokens, "codec")]

-----------------------------------------------------------------------------
(* Score. *)

weightTitle == 64
weightYear == 32
weightSeasonEpisode == 16
weightSource == 8
weightReleaseGroup == 4
weightResolution == 2
weightCodec == 1

maxScore ==
  weightTitle + weightYear + weightSeasonEpisode
    + weightSource + weightReleaseGroup + weightResolution + weightCodec

TitleMatches(info, c) == info.title # <<>> /\ Key(info.title) = Key(c.title)
YearMatches(info, c) == info.year # 0 /\ info.year = c.year
EpisodeMatches(info, c) ==
  info.type = "episode" /\ info.season = c.season /\ info.episode = c.episode
CosmeticMatches(v, c) == v # NoText /\ c # NoText /\ Lower(v) = Lower(c)

Points(weight, matches) == IF matches THEN weight ELSE 0

Score(info, c) ==
  IF c.hashMatch THEN maxScore
  ELSE Points(weightTitle, TitleMatches(info, c))
         + Points(weightYear, YearMatches(info, c))
         + Points(weightSeasonEpisode, EpisodeMatches(info, c))
         + Points(weightSource, CosmeticMatches(info.source, c.source))
         + Points(weightReleaseGroup, CosmeticMatches(info.group, c.group))
         + Points(weightResolution, CosmeticMatches(info.resolution, c.resolution))
         + Points(weightCodec, CosmeticMatches(info.codec, c.codec))

\* Mutated: the year of a film is not asked for.
CutoffWithoutYear(info) == weightTitle + Points(weightSeasonEpisode, info.type = "episode")

\* What is known of the identity has to match.
identityCutoff(info) ==
  weightTitle + (IF info.type = "episode"
                 THEN weightSeasonEpisode + Points(weightYear, info.year # 0)
                 ELSE weightYear)

Eligible(info, c) == c.hashMatch \/ Score(info, c) >= identityCutoff(info)

\* bestOf, candidate by candidate: the first of those with the highest score; 0
\* if there is none.
Takes(info, candidates, eligibleOnly, i, best) ==
  /\ eligibleOnly => Eligible(info, candidates[i])
  /\ best # 0 => Score(info, candidates[i]) > Score(info, candidates[best])

BestOf(info, candidates, eligibleOnly) ==
  LET best[i \in 0 .. Len(candidates)] ==
        IF i = 0 THEN 0
        ELSE IF Takes(info, candidates, eligibleOnly, i, best[i - 1]) THEN i ELSE best[i - 1]
  IN  best[Len(candidates)]

Select(info, candidates) == BestOf(info, candidates, TRUE)

-----------------------------------------------------------------------------
(* What names and scores are to mean (CONTEXT.md, Candidate). *)

\* The tokens name a title, then its year (0 for none), then what describes the
\* release.  There may be years in the title, and anything in the description.
Names(tokens, title, year) ==
  \E n \in 1 .. Len(tokens) :
    LET m == IF year = 0 THEN n ELSE n + 1
    IN  /\ m <= Len(tokens)
        /\ title = Texts(SubSeq(tokens, 1, n))
        /\ IF year = 0 THEN \A i \in 1 .. n : tokens[i].kind # "year"
           ELSE tokens[m].kind = "year" /\ tokens[m].number = year
        /\ \A i \in 1 .. m : ~Describes(tokens[i])
        /\ m = Len(tokens) \/ Describes(tokens[m + 1])

\* Every identity attribute that is known of the video is the Candidate's too.
SameIdentity(info, c) ==
  /\ TitleMatches(info, c)
  /\ info.type = "movie" \/ info.year # 0 => YearMatches(info, c)
  /\ info.type = "episode" => EpisodeMatches(info, c)

\* The attributes in order of importance.
Matches(info, c) ==
  << TitleMatches(info, c), YearMatches(info, c), EpisodeMatches(info, c),
     CosmeticMatches(info.source, c.source), CosmeticMatches(info.group, c.group),
     CosmeticMatches(info.resolution, c.resolution), CosmeticMatches(info.codec, c.codec) >>

\* c is better than d: it wins at the most important attribute they differ in.
Better(info, c, d) ==
  \E i \in 1 .. 7 :
    /\ Matches(info, c)[i] /\ ~Matches(info, d)[i]
    /\ \A j \in 1 .. i - 1 : Matches(info, c)[j] = Matches(info, d)[j]
=============================================================================
