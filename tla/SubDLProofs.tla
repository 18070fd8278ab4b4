------------------------------ MODULE SubDLProofs ------------------------------
(***************************************************************************)
(* Theorems about Scoring and SubDL, for any videos, listings and          *)
(* archives, and any number of workers.                                    *)
(***************************************************************************)
EXTENDS SubDL, WellFoundedInduction, TLAPS

-----------------------------------------------------------------------------
(* Scores. *)

Weights ==
  <<weightTitle, weightYear, weightSeasonEpisode, weightSource, weightReleaseGroup,
    weightResolution, weightCodec>>

USE DEF weightTitle, weightYear, weightSeasonEpisode, weightSource, weightReleaseGroup,
        weightResolution, weightCodec

\* Cosmetics together weigh less than any attribute of the identity.
LEMMA CosmeticsWeighLess ==
  ASSUME NEW a, NEW b, NEW c, NEW d
  PROVE  LET sum == Points(weightSource, a) + Points(weightReleaseGroup, b)
                      + Points(weightResolution, c) + Points(weightCodec, d)
         IN  sum \in 0 .. 15
BY DEF Points

\* Score.  A Candidate without a hash match clears the cutoff exactly if it has
\* the identity that is known of the video: no cosmetics, and no shared year,
\* make up for a wrong title, year or episode (CONTEXT.md, Candidate).
THEOREM EligibleIsIdentity ==
  ASSUME NEW info, info.type \in {"movie", "episode"}, NEW c, ~c.hashMatch
  PROVE  Eligible(info, c) <=> SameIdentity(info, c)
<1> DEFINE cosmetics == Points(weightSource, CosmeticMatches(info.source, c.source))
                          + Points(weightReleaseGroup, CosmeticMatches(info.group, c.group))
                          + Points(weightResolution, CosmeticMatches(info.resolution, c.resolution))
                          + Points(weightCodec, CosmeticMatches(info.codec, c.codec))
           identity == Points(weightTitle, TitleMatches(info, c))
                         + Points(weightYear, YearMatches(info, c))
                         + Points(weightSeasonEpisode, EpisodeMatches(info, c))
<1>1. cosmetics \in 0 .. 15
  BY CosmeticsWeighLess
<1>2. Score(info, c) = identity + cosmetics
  BY DEF Score, Points
<1>3. Eligible(info, c) <=> Score(info, c) >= identityCutoff(info)
  BY DEF Eligible
<1> HIDE DEF cosmetics
<1>4. YearMatches(info, c) => info.year # 0
  BY DEF YearMatches
<1>5. EpisodeMatches(info, c) => info.type = "episode"
  BY DEF EpisodeMatches
<1>6. CASE info.type = "movie"
  <2>1. ~EpisodeMatches(info, c) /\ identityCutoff(info) = 96
    BY <1>5, <1>6 DEF identityCutoff
  <2>2. Score(info, c) >= 96 <=> TitleMatches(info, c) /\ YearMatches(info, c)
    BY <1>1, <1>2, <2>1 DEF Points
  <2> QED BY <1>3, <1>6, <2>1, <2>2 DEF SameIdentity
<1>7. CASE info.type = "episode" /\ info.year = 0
  <2>1. ~YearMatches(info, c) /\ identityCutoff(info) = 80
    BY <1>4, <1>7 DEF identityCutoff, Points
  <2>2. Score(info, c) >= 80 <=> TitleMatches(info, c) /\ EpisodeMatches(info, c)
    BY <1>1, <1>2, <2>1 DEF Points
  <2> QED BY <1>3, <1>7, <2>1, <2>2 DEF SameIdentity
<1>8. CASE info.type = "episode" /\ info.year # 0
  <2>1. identityCutoff(info) = 112
    BY <1>8 DEF identityCutoff, Points
  <2>2. Score(info, c) >= 112
          <=> TitleMatches(info, c) /\ YearMatches(info, c) /\ EpisodeMatches(info, c)
    BY <1>1, <1>2 DEF Points
  <2> QED BY <1>3, <1>8, <2>1, <2>2 DEF SameIdentity
<1> QED BY <1>6, <1>7, <1>8

\* The weights.  Of two Candidates the one that wins at the most important
\* attribute they differ in has the higher score, and those that differ in none
\* have the same.
THEOREM ScoreIsLexicographic ==
  ASSUME NEW info, NEW c, ~c.hashMatch, NEW d, ~d.hashMatch
  PROVE  /\ Better(info, c, d) => Score(info, c) > Score(info, d)
         /\ Matches(info, c) = Matches(info, d) => Score(info, c) = Score(info, d)
         /\ Score(info, c) \in 0 .. 127
<1> DEFINE P(x, i, weight) == IF Matches(info, x)[i] THEN weight ELSE 0
<1>1. ASSUME NEW x, ~x.hashMatch
      PROVE  Score(info, x) = P(x, 1, 64) + P(x, 2, 32) + P(x, 3, 16) + P(x, 4, 8)
                                + P(x, 5, 4) + P(x, 6, 2) + P(x, 7, 1)
  <2>1. /\ P(x, 1, 64) = Points(weightTitle, TitleMatches(info, x))
        /\ P(x, 2, 32) = Points(weightYear, YearMatches(info, x))
        /\ P(x, 3, 16) = Points(weightSeasonEpisode, EpisodeMatches(info, x))
        /\ P(x, 4, 8) = Points(weightSource, CosmeticMatches(info.source, x.source))
        /\ P(x, 5, 4) = Points(weightReleaseGroup, CosmeticMatches(info.group, x.group))
        /\ P(x, 6, 2) = Points(weightResolution, CosmeticMatches(info.resolution, x.resolution))
        /\ P(x, 7, 1) = Points(weightCodec, CosmeticMatches(info.codec, x.codec))
    BY DEF Points, Matches, TitleMatches, YearMatches, EpisodeMatches, CosmeticMatches
  <2>2. Score(info, x) =
          Points(weightTitle, TitleMatches(info, x)) + Points(weightYear, YearMatches(info, x))
            + Points(weightSeasonEpisode, EpisodeMatches(info, x))
            + Points(weightSource, CosmeticMatches(info.source, x.source))
            + Points(weightReleaseGroup, CosmeticMatches(info.group, x.group))
            + Points(weightResolution, CosmeticMatches(info.resolution, x.resolution))
            + Points(weightCodec, CosmeticMatches(info.codec, x.codec))
    BY <1>1, Zenon DEF Score
  <2> HIDE DEF P
  <2> QED BY <2>1, <2>2
<1>2. ASSUME NEW x
      PROVE  /\ P(x, 1, 64) \in 0 .. 64 /\ P(x, 2, 32) \in 0 .. 32 /\ P(x, 3, 16) \in 0 .. 16
             /\ P(x, 4, 8) \in 0 .. 8 /\ P(x, 5, 4) \in 0 .. 4 /\ P(x, 6, 2) \in 0 .. 2
             /\ P(x, 7, 1) \in 0 .. 1
  OBVIOUS
<1>3. ASSUME NEW i, NEW weight, Matches(info, c)[i] = Matches(info, d)[i]
      PROVE  P(c, i, weight) = P(d, i, weight)
  BY <1>3
<1>4. ASSUME NEW i, NEW weight, Matches(info, c)[i], ~Matches(info, d)[i]
      PROVE  P(c, i, weight) = weight /\ P(d, i, weight) = 0
  BY <1>4
<1> HIDE DEF P
<1>5. /\ Score(info, c) = P(c, 1, 64) + P(c, 2, 32) + P(c, 3, 16) + P(c, 4, 8)
                            + P(c, 5, 4) + P(c, 6, 2) + P(c, 7, 1)
      /\ Score(info, d) = P(d, 1, 64) + P(d, 2, 32) + P(d, 3, 16) + P(d, 4, 8)
                            + P(d, 5, 4) + P(d, 6, 2) + P(d, 7, 1)
  BY <1>1
<1>6. /\ P(c, 1, 64) \in 0 .. 64 /\ P(c, 2, 32) \in 0 .. 32 /\ P(c, 3, 16) \in 0 .. 16
      /\ P(c, 4, 8) \in 0 .. 8 /\ P(c, 5, 4) \in 0 .. 4 /\ P(c, 6, 2) \in 0 .. 2
      /\ P(c, 7, 1) \in 0 .. 1
  BY <1>2
<1>7. /\ P(d, 1, 64) \in 0 .. 64 /\ P(d, 2, 32) \in 0 .. 32 /\ P(d, 3, 16) \in 0 .. 16
      /\ P(d, 4, 8) \in 0 .. 8 /\ P(d, 5, 4) \in 0 .. 4 /\ P(d, 6, 2) \in 0 .. 2
      /\ P(d, 7, 1) \in 0 .. 1
  BY <1>2
<1> DEFINE Identity(x) == P(x, 1, 64) + P(x, 2, 32) + P(x, 3, 16)
           Cosmetics(x) == P(x, 4, 8) + P(x, 5, 4) + P(x, 6, 2) + P(x, 7, 1)
<1>8. /\ Score(info, c) = Identity(c) + Cosmetics(c)
      /\ Score(info, d) = Identity(d) + Cosmetics(d)
  <2>1. Score(info, c) = Identity(c) + Cosmetics(c)
    <3>1. Identity(c) \in Nat
      BY <1>6
    <3>2. Score(info, c) = Identity(c) + P(c, 4, 8) + P(c, 5, 4) + P(c, 6, 2) + P(c, 7, 1)
      BY <1>5
    <3> HIDE DEF Identity
    <3> QED BY <1>6, <3>1, <3>2
  <2>2. Score(info, d) = Identity(d) + Cosmetics(d)
    <3>1. Identity(d) \in Nat
      BY <1>7
    <3>2. Score(info, d) = Identity(d) + P(d, 4, 8) + P(d, 5, 4) + P(d, 6, 2) + P(d, 7, 1)
      BY <1>5
    <3> HIDE DEF Identity
    <3> QED BY <1>7, <3>1, <3>2
  <2> QED BY <2>1, <2>2
<1>9. /\ Identity(c) \in 0 .. 112 /\ Identity(d) \in 0 .. 112
      /\ Cosmetics(c) \in 0 .. 15 /\ Cosmetics(d) \in 0 .. 15
  <2>1. Identity(c) \in 0 .. 112 /\ Cosmetics(c) \in 0 .. 15
    BY <1>6
  <2>2. Identity(d) \in 0 .. 112 /\ Cosmetics(d) \in 0 .. 15
    BY <1>7
  <2> QED BY ONLY <2>1, <2>2
<1>10. Score(info, c) \in 0 .. 127
  <2> HIDE DEF Identity, Cosmetics
  <2> QED BY <1>8, <1>9
<1>11. ASSUME Matches(info, c) = Matches(info, d)
       PROVE  Score(info, c) = Score(info, d)
  BY <1>3, <1>5, <1>11
<1>12. ASSUME Better(info, c, d)
       PROVE  Score(info, c) > Score(info, d)
  <2>1. PICK i \in 1 .. 7 : /\ Matches(info, c)[i] /\ ~Matches(info, d)[i]
                            /\ \A j \in 1 .. i - 1 : Matches(info, c)[j] = Matches(info, d)[j]
    BY <1>12 DEF Better
  <2>2. \A weight : P(c, i, weight) = weight /\ P(d, i, weight) = 0
    BY <1>4, <2>1
  <2>3. \A j \in 1 .. i - 1 : \A weight : P(c, j, weight) = P(d, j, weight)
    BY <1>3, <2>1
  <2>4. i = 1 \/ i = 2 \/ i = 3 \/ i = 4 \/ i = 5 \/ i = 6 \/ i = 7
    BY <2>1
  <2>5. CASE i \in 1 .. 3
    <3>1. Identity(c) >= Identity(d) + 16
      <4>1. CASE i = 1
        <5>1. P(c, 1, 64) = 64 /\ P(d, 1, 64) = 0
          BY <2>2, <4>1
        <5> QED BY <1>6, <1>7, <5>1
      <4>2. CASE i = 2
        <5>1. P(c, 1, 64) = P(d, 1, 64) /\ P(c, 2, 32) = 32 /\ P(d, 2, 32) = 0
          BY <2>2, <2>3, <4>2
        <5> QED BY <1>6, <1>7, <5>1
      <4>3. CASE i = 3
        <5>1. /\ P(c, 1, 64) = P(d, 1, 64) /\ P(c, 2, 32) = P(d, 2, 32)
              /\ P(c, 3, 16) = 16 /\ P(d, 3, 16) = 0
          BY <2>2, <2>3, <4>3
        <5> QED BY <1>6, <1>7, <5>1
      <4> QED BY <2>5, <4>1, <4>2, <4>3
    <3> HIDE DEF Identity, Cosmetics
    <3>2. Score(info, c) >= Identity(c) /\ Score(info, d) <= Identity(d) + 15
      BY <1>8, <1>9
    <3>3. Score(info, c) \in Int /\ Score(info, d) \in Int
      BY <1>8, <1>9
    <3> QED BY <1>9, <3>1, <3>2, <3>3
  <2>6. CASE i \in 4 .. 7
    <3>1. Identity(c) = Identity(d)
      BY <2>3, <2>6
    <3>2. Cosmetics(c) > Cosmetics(d)
      <4>1. i = 4 => P(c, 4, 8) = 8 /\ P(d, 4, 8) = 0
        BY <2>2
      <4>2. i > 4 => P(c, 4, 8) = P(d, 4, 8)
        BY <2>3, <2>6
      <4>3. i = 5 => P(c, 5, 4) = 4 /\ P(d, 5, 4) = 0
        BY <2>2
      <4>4. i > 5 => P(c, 5, 4) = P(d, 5, 4)
        BY <2>3, <2>6
      <4>5. i = 6 => P(c, 6, 2) = 2 /\ P(d, 6, 2) = 0
        BY <2>2
      <4>6. i > 6 => P(c, 6, 2) = P(d, 6, 2)
        BY <2>3, <2>6
      <4>7. i = 7 => P(c, 7, 1) = 1 /\ P(d, 7, 1) = 0
        BY <2>2
      <4> QED BY <1>6, <1>7, <2>4, <2>6, <4>1, <4>2, <4>3, <4>4, <4>5, <4>6, <4>7
    <3> HIDE DEF Identity, Cosmetics
    <3> QED BY <1>8, <1>9, <3>1, <3>2
  <2> QED BY <2>4, <2>5, <2>6
<1> QED BY <1>10, <1>11, <1>12

LEMMA ScoreType ==
  ASSUME NEW info, NEW c, ~c.hashMatch
  PROVE  Score(info, c) \in Int
<1>1. Score(info, c) \in 0 .. 127
  BY ScoreIsLexicographic
<1> QED BY <1>1

-----------------------------------------------------------------------------
(* Induction on numbers, as the absence of a least counterexample. *)

Below == {p \in Nat \X Nat : p[1] < p[2]}

LEMMA BelowIsWellFounded == IsWellFoundedOn(Below, Nat)
BY NatLessThanWellFounded DEF OpToRel, Below

LEMMA Least ==
  ASSUME NEW T, \A n \in T : n \in Nat, T # {}
  PROVE  \E n \in T : \A k \in T : n <= k
<1>1. PICK n \in T : \A k \in T : ~(<<k, n>> \in Below)
  <2>1. T \subseteq Nat
    OBVIOUS
  <2> QED BY <2>1, BelowIsWellFounded, WFMin
<1>2. ASSUME NEW k \in T
      PROVE  n <= k
  <2>1. n \in Nat /\ k \in Nat
    OBVIOUS
  <2>2. ~(k < n)
    BY <1>1, <2>1 DEF Below
  <2> QED BY <2>1, <2>2
<1> QED BY <1>2

-----------------------------------------------------------------------------
(* bestOf. *)

\* best[k] is the best of the first k Candidates.
Walk(info, cs, n, best) ==
  best = [i \in 0 .. n |->
            IF i = 0 THEN 0
            ELSE IF Takes(info, cs, TRUE, i, best[i - 1]) THEN i ELSE best[i - 1]]

LEMMA WalkExists ==
  ASSUME NEW info, NEW cs, NEW n \in Nat
  PROVE  \E best : Walk(info, cs, n, best)
<1> DEFINE T == {k \in Nat : ~\E best : Walk(info, cs, k, best)}
<1> SUFFICES ASSUME T # {} PROVE FALSE
  OBVIOUS
<1>1. PICK k \in T : \A j \in T : k <= j
  BY Least
<1>2. CASE k = 0
  <2>1. Walk(info, cs, 0, [i \in 0 .. 0 |-> 0])
    BY DEF Walk
  <2> QED BY <1>2, <2>1
<1>3. CASE k # 0
  <2>1. k \in Nat \ {0} /\ k - 1 \in Nat /\ k - 1 \notin T
    BY <1>1, <1>3
  <2>2. PICK f : Walk(info, cs, k - 1, f)
    BY <2>1
  <2> DEFINE Following(h, i) == IF i = 0 THEN 0
                                ELSE IF Takes(info, cs, TRUE, i, h[i - 1]) THEN i ELSE h[i - 1]
             last == Following(f, k)
             g == [i \in 0 .. k |-> IF i < k THEN f[i] ELSE last]
  <2>3. \A i \in 0 .. k - 1 : f[i] = Following(f, i)
    BY <2>2 DEF Walk
  <2> HIDE DEF last
  <2>4. \A i \in 0 .. k - 1 : g[i] = f[i]
    BY <2>1
  <2>5. g[k] = Following(f, k)
    <3>1. g[k] = last
      BY <2>1
    <3> QED BY <3>1 DEF last
  <2>6. \A i \in 0 .. k : i # 0 => g[i - 1] = f[i - 1]
    BY <2>1, <2>4
  <2>7. g = [i \in 0 .. k |-> g[i]]
    OBVIOUS
  <2> HIDE DEF g
  <2>8. \A i \in 0 .. k : g[i] = Following(g, i)
    <3> SUFFICES ASSUME NEW i \in 0 .. k
                 PROVE  g[i] = Following(g, i)
      OBVIOUS
    <3>1. Following(g, i) = Following(f, i)
      BY <2>6
    <3>2. i \in 0 .. k - 1 \/ i = k
      BY <2>1
    <3> QED BY <2>3, <2>4, <2>5, <3>1, <3>2
  <2>9. Walk(info, cs, k, g)
    BY <2>7, <2>8 DEF Walk
  <2> QED BY <2>9
<1> QED BY <1>2, <1>3

LEMMA SelectWalks ==
  ASSUME NEW info, NEW cs, Len(cs) \in Nat
  PROVE  \E best : Walk(info, cs, Len(cs), best) /\ Select(info, cs) = best[Len(cs)]
<1> DEFINE best == CHOOSE f : Walk(info, cs, Len(cs), f)
<1>1. Walk(info, cs, Len(cs), best)
  BY WalkExists
<1>2. Select(info, cs) = best[Len(cs)]
  BY DEF Select, BestOf, Walk
<1> QED BY <1>1, <1>2

\* What bestOf has after k Candidates.
BestOfFirst(info, cs, k, b) ==
  /\ b \in 0 .. k
  /\ b = 0 => \A i \in 1 .. k : ~Eligible(info, cs[i])
  /\ b # 0 => /\ Eligible(info, cs[b])
              /\ \A i \in 1 .. k : Eligible(info, cs[i]) =>
                   /\ Score(info, cs[i]) <= Score(info, cs[b])
                   /\ Score(info, cs[i]) = Score(info, cs[b]) => b <= i

LEMMA WalkFindsBest ==
  ASSUME NEW info, NEW cs, NEW n \in Nat, NEW best, Walk(info, cs, n, best),
         \A i \in 1 .. n : Score(info, cs[i]) \in Int
  PROVE  BestOfFirst(info, cs, n, best[n])
<1> DEFINE T == {k \in Nat : k <= n /\ ~BestOfFirst(info, cs, k, best[k])}
<1> SUFFICES ASSUME T # {} PROVE FALSE
  OBVIOUS
<1>1. PICK k \in T : \A j \in T : k <= j
  BY Least
<1>2. k \in 0 .. n /\ ~BestOfFirst(info, cs, k, best[k])
  OBVIOUS
<1>3. CASE k = 0
  <2>1. best[0] = 0
    BY DEF Walk
  <2> QED BY <1>2, <1>3, <2>1 DEF BestOfFirst
<1>4. CASE k # 0
  <2>1. k \in Nat \ {0} /\ k - 1 \in 0 .. n /\ k - 1 \notin T
    BY <1>1, <1>2, <1>4
  <2> DEFINE a == best[k - 1]
             b == best[k]
  <2>2. BestOfFirst(info, cs, k - 1, a)
    BY <2>1
  <2>3. b = IF Takes(info, cs, TRUE, k, a) THEN k ELSE a
    BY <1>2, <2>1 DEF Walk
  <2>4. \A i \in 1 .. k : i \in 1 .. k - 1 \/ i = k
    BY <2>1
  <2> HIDE DEF T, a, b
  <2>5. CASE Takes(info, cs, TRUE, k, a)
    <3>1. b = k /\ Eligible(info, cs[k])
      BY <2>3, <2>5 DEF Takes
    <3>2. a # 0 => Score(info, cs[k]) > Score(info, cs[a])
      BY <2>5 DEF Takes
    <3>3. ASSUME NEW i \in 1 .. k - 1, Eligible(info, cs[i])
          PROVE  Score(info, cs[i]) < Score(info, cs[k])
      <4>1. a # 0 /\ a \in 1 .. n /\ Score(info, cs[i]) <= Score(info, cs[a])
        BY <1>2, <2>2, <3>3 DEF BestOfFirst
      <4>2. i \in 1 .. n /\ k \in 1 .. n
        BY <1>2, <2>1
      <4> QED BY <3>2, <4>1, <4>2
    <3>4. ASSUME NEW i \in 1 .. k, Eligible(info, cs[i])
          PROVE  /\ Score(info, cs[i]) <= Score(info, cs[k])
                 /\ Score(info, cs[i]) = Score(info, cs[k]) => k <= i
      <4>1. i \in 1 .. n /\ k \in 1 .. n
        BY <1>2, <2>1
      <4>2. CASE i \in 1 .. k - 1
        BY <3>3, <3>4, <4>1, <4>2
      <4>3. CASE i = k
        BY <4>1, <4>3
      <4> QED BY <2>4, <4>2, <4>3
    <3> QED BY <1>2, <2>1, <3>1, <3>4 DEF BestOfFirst, b
  <2>6. CASE ~Takes(info, cs, TRUE, k, a)
    <3>1. b = a
      BY <2>3, <2>6
    <3>2. a \in 0 .. k - 1
      BY <2>2 DEF BestOfFirst
    <3>3. CASE a = 0
      <4>1. ~Eligible(info, cs[k])
        BY <2>6, <3>3 DEF Takes
      <4>2. \A i \in 1 .. k : ~Eligible(info, cs[i])
        BY <2>2, <2>4, <3>3, <4>1 DEF BestOfFirst
      <4> QED BY <1>2, <2>1, <3>1, <3>3, <4>2 DEF BestOfFirst, b
    <3>4. CASE a # 0
      <4>1. /\ Eligible(info, cs[a])
            /\ \A i \in 1 .. k - 1 : Eligible(info, cs[i]) =>
                 /\ Score(info, cs[i]) <= Score(info, cs[a])
                 /\ Score(info, cs[i]) = Score(info, cs[a]) => a <= i
        BY <2>2, <3>4 DEF BestOfFirst
      <4>2. Eligible(info, cs[k]) => Score(info, cs[k]) <= Score(info, cs[a])
        <5>1. k \in 1 .. n /\ a \in 1 .. n
          BY <1>2, <2>1, <3>2, <3>4
        <5> QED BY <2>6, <3>4, <5>1 DEF Takes
      <4>3. a \in 0 .. k /\ a <= k
        BY <2>1, <3>2
      <4>4. \A i \in 1 .. k : Eligible(info, cs[i]) =>
              /\ Score(info, cs[i]) <= Score(info, cs[a])
              /\ Score(info, cs[i]) = Score(info, cs[a]) => a <= i
        BY <2>4, <4>1, <4>2, <4>3
      <4> QED BY <1>2, <3>1, <3>4, <4>1, <4>3, <4>4 DEF BestOfFirst, b
    <3> QED BY <3>3, <3>4
  <2> QED BY <2>5, <2>6
<1> QED BY <1>3, <1>4

\* Select.  For a film or an episode the choice is the best of the Candidates
\* that have its identity, and the first of those that are as good; there is
\* none exactly if no Candidate has the identity (CONTEXT.md, Candidate).
THEOREM SelectTakesBest ==
  ASSUME NEW info, info.type \in {"movie", "episode"},
         NEW cs, Len(cs) \in Nat, \A i \in 1 .. Len(cs) : ~cs[i].hashMatch
  PROVE  LET best == Select(info, cs)
         IN  /\ best \in 0 .. Len(cs)
             /\ best = 0 => \A i \in 1 .. Len(cs) : ~SameIdentity(info, cs[i])
             /\ best # 0 => /\ SameIdentity(info, cs[best])
                            /\ \A i \in 1 .. Len(cs) : SameIdentity(info, cs[i]) =>
                                 /\ ~Better(info, cs[i], cs[best])
                                 /\ Matches(info, cs[i]) = Matches(info, cs[best]) => best <= i
<1> DEFINE n == Len(cs)
           best == Select(info, cs)
<1>1. ASSUME NEW i \in 1 .. n
      PROVE  Score(info, cs[i]) \in Int
  BY ScoreType
<1>2. BestOfFirst(info, cs, n, best)
  <2>1. PICK walk : Walk(info, cs, n, walk) /\ best = walk[n]
    BY SelectWalks
  <2> QED BY <1>1, <2>1, WalkFindsBest
<1>3. ASSUME NEW i \in 1 .. n
      PROVE  Eligible(info, cs[i]) <=> SameIdentity(info, cs[i])
  BY EligibleIsIdentity
<1> HIDE DEF n, best
<1>4. best \in 0 .. n
  BY <1>2 DEF BestOfFirst
<1>5. CASE best = 0
  <2>1. \A i \in 1 .. n : ~SameIdentity(info, cs[i])
    BY <1>2, <1>3, <1>5 DEF BestOfFirst
  <2> QED BY <1>4, <1>5, <2>1 DEF n, best
<1>6. CASE best # 0
  <2>1. /\ Eligible(info, cs[best])
        /\ \A i \in 1 .. n : Eligible(info, cs[i]) =>
             /\ Score(info, cs[i]) <= Score(info, cs[best])
             /\ Score(info, cs[i]) = Score(info, cs[best]) => best <= i
    BY <1>2, <1>6 DEF BestOfFirst
  <2>2. best \in 1 .. n
    BY <1>4, <1>6
  <2>3. SameIdentity(info, cs[best])
    BY <1>3, <2>1, <2>2
  <2>4. ASSUME NEW i \in 1 .. n, SameIdentity(info, cs[i])
        PROVE  /\ ~Better(info, cs[i], cs[best])
               /\ Matches(info, cs[i]) = Matches(info, cs[best]) => best <= i
    <3>1. /\ Score(info, cs[i]) <= Score(info, cs[best])
          /\ Score(info, cs[i]) = Score(info, cs[best]) => best <= i
      BY <1>3, <2>1, <2>4
    <3>2. /\ Better(info, cs[i], cs[best]) => Score(info, cs[i]) > Score(info, cs[best])
          /\ Matches(info, cs[i]) = Matches(info, cs[best])
               => Score(info, cs[i]) = Score(info, cs[best])
      <4>1. ~cs[i].hashMatch /\ ~cs[best].hashMatch
        BY <2>2 DEF n
      <4> QED BY <4>1, ScoreIsLexicographic
    <3>3. Score(info, cs[i]) \in Int /\ Score(info, cs[best]) \in Int
      BY <1>1, <2>2
    <3> QED BY <3>1, <3>2, <3>3
  <2> QED BY <1>4, <1>6, <2>3, <2>4 DEF n, best
<1> QED BY <1>5, <1>6

-----------------------------------------------------------------------------
(* FlattenSeq. *)

Flattening(seqs, n, flat) ==
  flat = [i \in 1 .. n |-> IF i = 1 THEN seqs[i] ELSE flat[i - 1] \o seqs[i]]

LEMMA FlatteningExists ==
  ASSUME NEW seqs, NEW n \in Nat
  PROVE  \E flat : Flattening(seqs, n, flat)
<1> DEFINE T == {k \in Nat : ~\E flat : Flattening(seqs, k, flat)}
<1> SUFFICES ASSUME T # {} PROVE FALSE
  OBVIOUS
<1>1. PICK k \in T : \A j \in T : k <= j
  BY Least
<1>2. CASE k = 0
  <2>1. Flattening(seqs, 0, [i \in 1 .. 0 |-> 0])
    BY DEF Flattening
  <2> QED BY <1>2, <2>1
<1>3. CASE k # 0
  <2>1. k \in Nat \ {0} /\ k - 1 \in Nat /\ k - 1 \notin T
    BY <1>1, <1>3
  <2>2. PICK f : Flattening(seqs, k - 1, f)
    BY <2>1
  <2> DEFINE Following(h, i) == IF i = 1 THEN seqs[i] ELSE h[i - 1] \o seqs[i]
             last == Following(f, k)
             g == [i \in 1 .. k |-> IF i < k THEN f[i] ELSE last]
  <2>3. \A i \in 1 .. k - 1 : f[i] = Following(f, i)
    BY <2>2 DEF Flattening
  <2> HIDE DEF last
  <2>4. \A i \in 1 .. k - 1 : g[i] = f[i]
    BY <2>1
  <2>5. g[k] = Following(f, k)
    <3>1. g[k] = last
      BY <2>1
    <3> QED BY <3>1 DEF last
  <2>6. \A i \in 1 .. k : i # 1 => g[i - 1] = f[i - 1]
    BY <2>1, <2>4
  <2>7. g = [i \in 1 .. k |-> g[i]]
    OBVIOUS
  <2> HIDE DEF g
  <2>8. \A i \in 1 .. k : g[i] = Following(g, i)
    <3> SUFFICES ASSUME NEW i \in 1 .. k
                 PROVE  g[i] = Following(g, i)
      OBVIOUS
    <3>1. Following(g, i) = Following(f, i)
      BY <2>6
    <3>2. i \in 1 .. k - 1 \/ i = k
      BY <2>1
    <3> QED BY <2>3, <2>4, <2>5, <3>1, <3>2
  <2>9. Flattening(seqs, k, g)
    BY <2>7, <2>8 DEF Flattening
  <2> QED BY <2>9
<1> QED BY <1>2, <1>3

LEMMA FlattenSeqIsLast ==
  ASSUME NEW S, NEW seqs \in Seq(Seq(S)), Len(seqs) # 0
  PROVE  /\ Len(seqs) \in Nat \ {0}
         /\ \E flat : Flattening(seqs, Len(seqs), flat) /\ FlattenSeq(seqs) = flat[Len(seqs)]
<1> DEFINE n == Len(seqs)
           flat == CHOOSE f : Flattening(seqs, n, f)
<1>1. Flattening(seqs, n, flat)
  <2>1. n \in Nat
    OBVIOUS
  <2> HIDE DEF n
  <2> QED BY <2>1, FlatteningExists
<1>2. FlattenSeq(seqs) = flat[n]
  BY DEF FlattenSeq, Flattening
<1>3. n \in Nat \ {0}
  OBVIOUS
<1> HIDE DEF flat
<1> QED BY <1>1, <1>2, <1>3

LEMMA FlatteningType ==
  ASSUME NEW S, NEW seqs \in Seq(Seq(S)), NEW flat, Flattening(seqs, Len(seqs), flat),
         NEW i \in 1 .. Len(seqs)
  PROVE  flat[i] \in Seq(S)
<1> DEFINE n == Len(seqs)
<1>1. n \in Nat /\ \A k \in 1 .. n : seqs[k] \in Seq(S)
  OBVIOUS
<1> DEFINE T == {k \in Nat : k \in 1 .. n /\ flat[k] \notin Seq(S)}
<1>2. T = {}
  <2> SUFFICES ASSUME T # {} PROVE FALSE
    OBVIOUS
  <2>1. PICK k \in T : \A j \in T : k <= j
    BY Least
  <2>2. k \in Nat /\ k \in 1 .. n /\ flat[k] \notin Seq(S)
    OBVIOUS
  <2>3. flat[k] = IF k = 1 THEN seqs[k] ELSE flat[k - 1] \o seqs[k]
    BY <2>2 DEF Flattening
  <2>4. CASE k = 1
    BY <1>1, <2>2, <2>3, <2>4
  <2>5. CASE k # 1
    <3>1. k - 1 \in Nat /\ k - 1 \in 1 .. n /\ k - 1 \notin T
      BY <1>1, <2>1, <2>2, <2>5
    <3>2. flat[k - 1] \in Seq(S)
      BY <3>1
    <3> QED BY <1>1, <2>2, <2>3, <2>5, <3>2
  <2> QED BY <2>4, <2>5
<1>3. i \in Nat /\ i \in 1 .. n
  BY <1>1
<1> QED BY <1>2, <1>3

LEMMA FlattenSeqType ==
  ASSUME NEW S, NEW seqs \in Seq(Seq(S))
  PROVE  FlattenSeq(seqs) \in Seq(S)
<1>1. CASE Len(seqs) = 0
  BY <1>1 DEF FlattenSeq
<1>2. CASE Len(seqs) # 0
  <2>1. PICK flat : Flattening(seqs, Len(seqs), flat) /\ FlattenSeq(seqs) = flat[Len(seqs)]
    BY <1>2, FlattenSeqIsLast
  <2>2. Len(seqs) \in 1 .. Len(seqs)
    BY <1>2, FlattenSeqIsLast
  <2> QED BY <2>1, <2>2, FlatteningType
<1> QED BY <1>1, <1>2

\* x is an element of the sequence s.
Has(s, x) == \E i \in DOMAIN s : s[i] = x

LEMMA HasConcat ==
  ASSUME NEW S, NEW s \in Seq(S), NEW t \in Seq(S), NEW x
  PROVE  /\ Has(s, x) => Has(s \o t, x)
         /\ Has(t, x) => Has(s \o t, x)
<1>1. ASSUME NEW i \in DOMAIN s, s[i] = x
      PROVE  Has(s \o t, x)
  <2>1. i \in DOMAIN (s \o t) /\ (s \o t)[i] = x
    BY <1>1
  <2> QED BY <2>1 DEF Has
<1>2. ASSUME NEW i \in DOMAIN t, t[i] = x
      PROVE  Has(s \o t, x)
  <2>1. Len(s) + i \in DOMAIN (s \o t) /\ (s \o t)[Len(s) + i] = x
    BY <1>2
  <2> QED BY <2>1 DEF Has
<1> QED BY <1>1, <1>2 DEF Has

LEMMA FlattenSeqHas ==
  ASSUME NEW S, NEW seqs \in Seq(Seq(S)), NEW a \in DOMAIN seqs, NEW x, Has(seqs[a], x)
  PROVE  Has(FlattenSeq(seqs), x)
<1> DEFINE n == Len(seqs)
<1>1. /\ n \in Nat /\ a \in 1 .. n /\ Len(seqs) # 0
      /\ \A k \in 1 .. n : seqs[k] \in Seq(S)
  OBVIOUS
<1>2. PICK flat : Flattening(seqs, n, flat) /\ FlattenSeq(seqs) = flat[n]
  BY <1>1, FlattenSeqIsLast
<1>3. \A k \in 1 .. n : flat[k] \in Seq(S)
  BY <1>2, FlatteningType
<1> DEFINE T == {k \in Nat : k \in a .. n /\ ~Has(flat[k], x)}
<1>4. T = {}
  <2> SUFFICES ASSUME T # {} PROVE FALSE
    OBVIOUS
  <2>1. PICK k \in T : \A j \in T : k <= j
    BY Least
  <2>2. k \in Nat /\ k \in 1 .. n /\ k \in a .. n /\ ~Has(flat[k], x)
    BY <1>1
  <2>3. flat[k] = IF k = 1 THEN seqs[k] ELSE flat[k - 1] \o seqs[k]
    BY <1>2, <2>2 DEF Flattening
  <2>4. k # 1 => flat[k - 1] \in Seq(S) /\ seqs[k] \in Seq(S)
    BY <1>1, <1>3, <2>2
  <2>5. CASE k = a
    BY <2>2, <2>3, <2>4, <2>5, HasConcat
  <2>6. CASE k # a
    <3>1. k # 1 /\ k - 1 \in Nat /\ k - 1 \in a .. n /\ k - 1 \notin T
      BY <1>1, <2>1, <2>2, <2>6
    <3>2. Has(flat[k - 1], x)
      BY <3>1
    <3> QED BY <2>2, <2>3, <2>4, <3>1, <3>2, HasConcat
  <2> QED BY <2>5, <2>6
<1>5. n \in a .. n
  BY <1>1
<1> QED BY <1>1, <1>2, <1>4, <1>5

-----------------------------------------------------------------------------
(* The inductive invariant: what every fetch looks like. *)

BestIn(c) ==
  /\ SameIdentity(c.info, c.gathered[c.best])
  /\ \A i \in DOMAIN c.gathered : SameIdentity(c.info, c.gathered[i]) =>
       /\ ~Better(c.info, c.gathered[i], c.gathered[c.best])
       /\ Matches(c.info, c.gathered[i]) = Matches(c.info, c.gathered[c.best]) => c.best <= i

\* The choice is made once, of all that was gathered, and before the download.
Sound(c) ==
  /\ c \in Calls
  /\ c.info = Info(c.video) /\ c.listing \in Listing[c.video]
  /\ c.best \in 0 .. Len(c.gathered)
  /\ c.outcome # "none" <=> c.pc = "done"
  /\ c.pc \in {"idle", "search", "choose"} => c.best = NoBest
  /\ c.pc = "download" => c.best # NoBest
  /\ c.best # NoBest => BestIn(c)

Scalars ==
  /\ paid \in BOOLEAN
  /\ now \in 1 .. Horizon /\ suspendedUntil \in Nat /\ fetches \in 0 .. Fetches

Inv == Scalars /\ call \in [Worker -> Calls] /\ \A w \in Worker : Sound(call[w])

LEMMA InvGives == Inv => TypeOK /\ BestTaken
BY DEF Inv, Scalars, Sound, TypeOK, BestIn, BestTaken, NoBest

LEMMA StepKeepsSound ==
  ASSUME Inv, NEW w \in Worker, NEW c, Sound(c), Step(w, c)
  PROVE  call' \in [Worker -> Calls] /\ \A u \in Worker : Sound(call'[u])
<1>1. c \in Calls
  BY DEF Sound
<1>2. call' = [call EXCEPT ![w] = c]
  BY DEF Step
<1>3. ASSUME NEW u \in Worker
      PROVE  call'[u] = IF u = w THEN c ELSE call[u]
  BY <1>2 DEF Inv
<1> QED BY <1>1, <1>2, <1>3 DEF Inv

LEMMA FetchIsSound ==
  ASSUME NEW v \in Video, NEW l \in Listing[v]
  PROVE  /\ Sound(Fetch("idle", v, l)) /\ Sound(Fetch("search", v, l))
         /\ Sound([Fetch("done", v, l) EXCEPT !.outcome = "suspended"])
<1>1. /\ Info(v) \in {Info(u) : u \in Video} /\ l \in UNION {Listing[u] : u \in Video}
      /\ 1 \in 1 .. searchMaxPages /\ 0 \in 0 .. MaxRetries /\ <<>> \in Seq(Candidates)
      /\ NoBest \in Nat /\ Movie \in Class
  BY SubDLConstants DEF searchMaxPages, NoBest, Movie, Class
<1>2. \A pc \in {"idle", "search"} : Fetch(pc, v, l) \in Calls
  BY <1>1 DEF Fetch, Calls, Label, Outcome
<1>3. [Fetch("done", v, l) EXCEPT !.outcome = "suspended"] \in Calls
  BY <1>1 DEF Fetch, Calls, Label, Outcome
<1> QED BY <1>2, <1>3 DEF Sound, Fetch, NoBest

LEMMA IdleIsSound == Sound(Idle)
BY SubDLConstants, SubDLListings, FetchIsSound DEF Idle

LEMMA ElementType ==
  ASSUME NEW S, NEW s \in Seq(S), NEW i \in DOMAIN s
  PROVE  s[i] \in S
OBVIOUS

LEMMA FunctionIsSeq ==
  ASSUME NEW S, NEW n \in Nat, NEW f \in [1 .. n -> S]
  PROVE  f \in Seq(S)
OBVIOUS

LEMMA CandidateType ==
  ASSUME NEW page \in PageOfListing, NEW id \in Url, NEW season \in Nat, NEW episode \in Nat,
         NEW release \in Release
  PROVE  << Candidate(page, id, season, episode, release) >> \in Seq(Candidates)
<1>1. Candidate(page, id, season, episode, release) \in Candidates
  BY DEF Candidate, Candidates, Release, PageOfListing
<1>2. ASSUME NEW c \in Candidates
      PROVE  <<c>> \in Seq(Candidates)
  OBVIOUS
<1> QED BY <1>1, <1>2

LEMMA FilesType ==
  ASSUME NEW page \in PageOfListing, NEW files \in Seq(FileEntry)
  PROVE  [i \in DOMAIN files |-> CandidatesFromFile(page, files[i])] \in Seq(Seq(Candidates))
<1>1. ASSUME NEW file \in FileEntry
      PROVE  CandidatesFromFile(page, file) \in Seq(Candidates)
  <2>1. Resolve(file) \in Class
    BY DEF Resolve, FileEntry
  <2>2. Resolve(file).season \in Nat /\ Resolve(file).episode \in Nat
    BY <2>1 DEF Class
  <2>3. file.url \in Url /\ file.cosmetics \in Release
    BY DEF FileEntry
  <2> QED BY <2>2, <2>3, CandidateType DEF CandidatesFromFile
<1> DEFINE each == [i \in DOMAIN files |-> CandidatesFromFile(page, files[i])]
<1>2. each \in [1 .. Len(files) -> Seq(Candidates)] /\ Len(files) \in Nat
  BY <1>1
<1> HIDE DEF each
<1>3. each \in Seq(Seq(Candidates))
  BY <1>2, FunctionIsSeq
<1> QED BY <1>3 DEF each

LEMMA ItemsType ==
  ASSUME NEW page \in PageOfListing, NEW unpack
  PROVE  [i \in DOMAIN page.items |-> CandidatesFromItem(page, page.items[i], unpack)]
           \in Seq(Seq(Candidates))
<1>1. ASSUME NEW files \in Seq(FileEntry)
      PROVE  CandidatesFromUnpackFiles(page, files) \in Seq(Candidates)
  BY FilesType, FlattenSeqType DEF CandidatesFromUnpackFiles
<1>2. ASSUME NEW item \in Item
      PROVE  CandidatesFromItem(page, item, unpack) \in Seq(Candidates)
  <2>1. CASE item.fullSeason
    <3>1. (IF unpack THEN item.files ELSE <<>>) \in Seq(FileEntry)
      BY DEF Item
    <3> QED BY <1>1, <2>1, <3>1 DEF CandidatesFromItem
  <2>2. CASE ~item.fullSeason
    <3>1. /\ item.url \in Url /\ item.season \in Nat /\ item.episode \in Nat
          /\ item.cosmetics \in Release
      BY DEF Item
    <3> QED BY <2>2, <3>1, CandidateType DEF CandidatesFromItem
  <2> QED BY <2>1, <2>2
<1>3. page.items \in Seq(Item)
  BY DEF PageOfListing
<1> DEFINE each == [i \in DOMAIN page.items |-> CandidatesFromItem(page, page.items[i], unpack)]
<1>4. each \in [1 .. Len(page.items) -> Seq(Candidates)] /\ Len(page.items) \in Nat
  BY <1>2, <1>3
<1> HIDE DEF each
<1>5. each \in Seq(Seq(Candidates))
  BY <1>4, FunctionIsSeq
<1> QED BY <1>5 DEF each

LEMMA ResponseType ==
  ASSUME NEW page \in PageOfListing, NEW unpack
  PROVE  CandidatesFromResponse(page, unpack) \in Seq(Candidates)
BY ItemsType, FlattenSeqType DEF CandidatesFromResponse

-----------------------------------------------------------------------------
(* Every step keeps it. *)

LEMMA ReturnsIsSound ==
  ASSUME NEW c, Sound(c), NEW outcome \in Outcome \ {"none"}
  PROVE  Sound([c EXCEPT !.pc = "done", !.outcome = outcome])
<1> DEFINE d == [c EXCEPT !.pc = "done", !.outcome = outcome]
<1>1. d \in Calls
  BY DEF Sound, Calls, Label
<1>2. /\ d.pc = "done" /\ d.outcome = outcome /\ d.info = c.info /\ d.video = c.video
      /\ d.listing = c.listing /\ d.best = c.best /\ d.gathered = c.gathered
  BY DEF Sound, Calls
<1> HIDE DEF d
<1>3. Sound(d)
  BY <1>1, <1>2 DEF Sound, BestIn
<1> QED BY <1>3 DEF d

LEMMA LookedType == Scalars /\ Looked => suspendedUntil' \in Nat
BY DEF Scalars, Looked

LEMMA SuspendType ==
  ASSUME Scalars, Suspend
  PROVE  suspendedUntil' \in Nat
<1>1. now \in Nat /\ Day \in Nat \ {0}
  BY SubDLConstants DEF Scalars
<1>2. now \div Day + 1 \in Nat
  BY <1>1
<1>3. NextUTCMidnight \in Nat
  <2> DEFINE days == now \div Day + 1
  <2> HIDE DEF days
  <2>1. days * Day \in Nat
    BY <1>1, <1>2 DEF days
  <2> QED BY <2>1 DEF NextUTCMidnight, days
<1> QED BY <1>3, SubDLConstants DEF Suspend

LEMMA BeginFetchSound ==
  ASSUME Inv, NEW w \in Worker, NEW v \in Video, NEW l \in Listing[v], BeginFetch(w, v, l)
  PROVE  Inv'
<1> DEFINE c == IF Suspended THEN [Fetch("done", v, l) EXCEPT !.outcome = "suspended"]
                ELSE Fetch("search", v, l)
<1>1. Sound(c)
  BY FetchIsSound
<1>2. Step(w, c)
  BY DEF BeginFetch
<1>3. call' \in [Worker -> Calls] /\ \A u \in Worker : Sound(call'[u])
  <2> HIDE DEF c
  <2> QED BY <1>1, <1>2, StepKeepsSound
<1>4. Scalars'
  BY LookedType, SubDLConstants DEF Inv, Scalars, BeginFetch
<1> QED BY <1>3, <1>4 DEF Inv

LEMMA PageArrivesSound ==
  ASSUME Inv, NEW w \in Worker, PageArrives(w)
  PROVE  Inv'
<1>1. Sound(call[w]) /\ call[w].pc = "search"
  BY DEF Inv, PageArrives
<1>2. Page(w) \in PageOfListing
  <2>1. NoPage \in PageOfListing
    BY DEF NoPage, PageOfListing
  <2>2. Pages[call[w].listing] \in Seq(PageOfListing)
    BY <1>1, SubDLListings DEF Sound, Calls
  <2> QED BY <2>1, <2>2 DEF Page
<1> DEFINE more == CandidatesFromResponse(Page(w), call[w].info.episode # 0)
           all == call[w].gathered \o more
           c == [call[w] EXCEPT !.gathered = all]
           d == [c EXCEPT !.pc = "choose"]
           e == [c EXCEPT !.page = @ + 1, !.attempt = 0]
<1>3. all \in Seq(Candidates)
  <2>1. more \in Seq(Candidates)
    BY <1>2, ResponseType
  <2> HIDE DEF more
  <2> QED BY <1>1, <2>1 DEF Sound, Calls
<1>4. Step(w, IF LastPage(Page(w)) \/ c.page = searchMaxPages THEN d ELSE e)
  BY DEF PageArrives
<1> HIDE DEF all
<1>5. c \in Calls /\ c.page = call[w].page
  BY <1>1, <1>3 DEF Sound, Calls
<1>6. Sound(d)
  <2>1. d \in Calls
    BY <1>5 DEF Calls, Label
  <2> QED BY <1>1, <1>3, <2>1 DEF Sound, Calls, NoBest
<1>7. c.page # searchMaxPages => Sound(e)
  <2> SUFFICES ASSUME c.page # searchMaxPages PROVE Sound(e)
    OBVIOUS
  <2>1. c.page + 1 \in 1 .. searchMaxPages /\ 0 \in 0 .. MaxRetries
    BY <1>5, SubDLConstants DEF Calls, searchMaxPages
  <2>2. e \in Calls
    BY <1>5, <2>1 DEF Calls
  <2> QED BY <1>1, <1>3, <2>2 DEF Sound, Calls, NoBest
<1>8. call' \in [Worker -> Calls] /\ \A u \in Worker : Sound(call'[u])
  <2> HIDE DEF c, d, e
  <2> QED BY <1>4, <1>6, <1>7, StepKeepsSound
<1>9. Scalars'
  BY DEF Inv, Scalars, PageArrives, Server
<1> QED BY <1>8, <1>9 DEF Inv

LEMMA GatheredHaveNoHash ==
  ASSUME NEW cs \in Seq(Candidates), NEW i \in 1 .. Len(cs)
  PROVE  ~cs[i].hashMatch
<1>1. cs[i] \in Candidates
  OBVIOUS
<1> QED BY <1>1 DEF Candidates

LEMMA ChooseSound ==
  ASSUME Inv, NEW w \in Worker, Choose(w)
  PROVE  Inv'
<1>1. Sound(call[w]) /\ call[w].pc = "choose" /\ call[w].best = NoBest
  BY DEF Inv, Choose, Sound
<1> DEFINE info == call[w].info
           cs == call[w].gathered
           best == Select(info, cs)
           done == [call[w] EXCEPT !.pc = "done", !.best = best, !.outcome = "suspended"]
           next == [call[w] EXCEPT !.pc = "download", !.best = best, !.attempt = 0]
<1>2. Sound([call[w] EXCEPT !.pc = "done", !.outcome = "failed"])
      /\ Sound([call[w] EXCEPT !.pc = "done", !.outcome = "miss"])
  BY <1>1, ReturnsIsSound DEF Outcome
<1>3. ASSUME info # Unparsed, best # NoBest
      PROVE  Sound(done) /\ Sound(next)
  <2>1. info.type \in {"movie", "episode"}
    <3>1. PICK v \in Video : info = Info(v)
      BY <1>1 DEF Sound, Calls
    <3>2. info = Parse(Name[v])
      BY <1>3, <3>1 DEF Info
    <3> QED BY <3>2, SubDLListings DEF Parse, Class
  <2>2. cs \in Seq(Candidates)
    BY <1>1 DEF Sound, Calls
  <2>3. Len(cs) \in Nat /\ \A i \in 1 .. Len(cs) : ~cs[i].hashMatch
    BY <2>2, GatheredHaveNoHash
  <2>4. /\ best \in 0 .. Len(cs)
        /\ SameIdentity(info, cs[best])
        /\ \A i \in 1 .. Len(cs) : SameIdentity(info, cs[i]) =>
             /\ ~Better(info, cs[i], cs[best])
             /\ Matches(info, cs[i]) = Matches(info, cs[best]) => best <= i
    BY <1>3, <2>1, <2>3, SelectTakesBest DEF NoBest
  <2>5. DOMAIN cs = 1 .. Len(cs) /\ best \in Nat /\ 0 \in 0 .. MaxRetries
    BY <2>2, <2>3, <2>4, SubDLConstants
  <2> HIDE DEF best
  <2>6. done \in Calls /\ next \in Calls
    BY <1>1, <2>5 DEF Sound, Calls, Label, Outcome
  <2>7. ASSUME NEW c \in {done, next}
        PROVE  /\ c.info = call[w].info /\ c.gathered = cs /\ c.best = best
               /\ c.video = call[w].video /\ c.listing = call[w].listing
               /\ c.pc \in {"done", "download"}
               /\ c.outcome # "none" <=> c.pc = "done"
    BY <1>1, <2>7 DEF Sound, Calls
  <2>8. ASSUME NEW c \in {done, next}
        PROVE  Sound(c)
    <3>1. c \in Calls
      BY <2>6
    <3> HIDE DEF done, next
    <3>2. BestIn(c)
      BY <2>4, <2>5, <2>7 DEF BestIn
    <3> QED BY <1>1, <1>3, <2>4, <2>7, <3>1, <3>2 DEF Sound
  <2> QED BY <2>8
<1>4. call' \in [Worker -> Calls] /\ \A u \in Worker : Sound(call'[u])
  <2>1. PICK c : Sound(c) /\ Step(w, c)
    <3> HIDE DEF best
    <3> QED BY <1>2, <1>3 DEF Choose, Returns, best
  <2> QED BY <2>1, StepKeepsSound
<1>5. Scalars'
  BY LookedType DEF Inv, Scalars, Choose, Server
<1> QED BY <1>4, <1>5 DEF Inv

LEMMA BodyArrivesSound ==
  ASSUME Inv, NEW w \in Worker, BodyArrives(w)
  PROVE  Inv'
<1>1. Sound(call[w]) /\ call[w].pc = "download"
  BY DEF Inv, BodyArrives
<1>2. Best(w).id \in Url
  <2>1. call[w].gathered \in Seq(Candidates) /\ call[w].best \in 1 .. Len(call[w].gathered)
    BY <1>1 DEF Sound, Calls, NoBest
  <2>2. Best(w) \in Candidates
    BY <2>1 DEF Best
  <2> QED BY <2>2 DEF Candidates
<1> DEFINE body == Body[Best(w).id]
           fits == IF body.zip THEN Matching(Best(w), body.entries) ELSE DOMAIN body.entries
           taken(i) == [call[w] EXCEPT !.pc = "done", !.outcome = "fetched",
                                       !.got = body.entries[i].class]
<1>3. ASSUME NEW i \in fits
      PROVE  body.entries[i].class \in Class
  <2>1. i \in DOMAIN body.entries
    BY DEF Matching
  <2>2. body.entries \in Seq([srt : BOOLEAN, class : Class])
    BY <1>2, SubDLBodies
  <2>3. body.entries[i] \in [srt : BOOLEAN, class : Class]
    BY <2>1, <2>2, ElementType
  <2> QED BY <2>3
<1>4. ASSUME NEW i \in fits
      PROVE  Sound(taken(i))
  <2> DEFINE c == [call[w] EXCEPT !.got = body.entries[i].class]
  <2> HIDE DEF fits, body
  <2>1. Sound(c)
    BY <1>1, <1>3 DEF Sound, Calls, BestIn
  <2>2. taken(i) = [c EXCEPT !.pc = "done", !.outcome = "fetched"]
    BY <1>1 DEF Sound, Calls
  <2> HIDE DEF c
  <2> QED BY <2>1, <2>2, ReturnsIsSound DEF Outcome
<1>5. Sound([call[w] EXCEPT !.pc = "done", !.outcome = "failed"])
  BY <1>1, ReturnsIsSound DEF Outcome
<1>6. PICK c : Sound(c) /\ Step(w, c)
  <2>1. \/ \E i \in fits : Step(w, taken(i))
        \/ Returns(w, "failed")
    BY DEF BodyArrives
  <2> HIDE DEF fits, taken
  <2> QED BY <1>4, <1>5, <2>1 DEF Returns
<1>7. Scalars'
  BY DEF Inv, Scalars, BodyArrives, Server
<1> QED BY <1>6, <1>7, StepKeepsSound DEF Inv

LEMMA AnotherAnswerSound ==
  ASSUME Inv, NEW w \in Worker, Busy(w) \/ Refused(w) \/ QuotaExceeded(w)
  PROVE  Inv'
<1>1. Sound(call[w]) /\ call[w].pc \in {"search", "download"}
  BY DEF Inv, Busy, Refused, QuotaExceeded, Asking
<1>2. \A outcome \in {"failed", "suspended"} :
        Sound([call[w] EXCEPT !.pc = "done", !.outcome = outcome])
  BY <1>1, ReturnsIsSound DEF Outcome
<1>3. call[w].attempt < MaxRetries => Sound([call[w] EXCEPT !.attempt = @ + 1])
  <2> SUFFICES ASSUME call[w].attempt < MaxRetries
               PROVE  Sound([call[w] EXCEPT !.attempt = @ + 1])
    OBVIOUS
  <2>1. call[w].attempt + 1 \in 0 .. MaxRetries
    BY <1>1, SubDLConstants DEF Sound, Calls
  <2> QED BY <1>1, <2>1 DEF Sound, Calls, BestIn
<1>4. PICK c : Sound(c) /\ Step(w, c)
  BY <1>2, <1>3 DEF Busy, Refused, QuotaExceeded, Returns
<1>5. Scalars'
  BY SuspendType DEF Inv, Scalars, Busy, Refused, QuotaExceeded, Server
<1> QED BY <1>4, <1>5, StepKeepsSound DEF Inv

LEMMA EndFetchSound ==
  ASSUME Inv, NEW w \in Worker, EndFetch(w)
  PROVE  Inv'
<1>1. call' \in [Worker -> Calls] /\ \A u \in Worker : Sound(call'[u])
  BY IdleIsSound, StepKeepsSound DEF EndFetch
<1>2. Scalars'
  BY DEF Inv, Scalars, EndFetch, Server
<1> QED BY <1>1, <1>2 DEF Inv

LEMMA InvInductive == Inv /\ [Next]_vars => Inv'
<1> SUFFICES ASSUME Inv, [Next]_vars PROVE Inv'
  OBVIOUS
<1>1. CASE UNCHANGED vars
  BY <1>1 DEF vars, Inv, Scalars, Sound
<1>2. CASE Tick
  <2>1. Scalars' /\ call' = call
    BY <1>2, SubDLConstants DEF Tick, Inv, Scalars
  <2> QED BY <2>1 DEF Inv
<1>3. ASSUME NEW w \in Worker, WorkerStep(w)
      PROVE  Inv'
  BY <1>3, EndFetchSound, AnotherAnswerSound, PageArrivesSound, BodyArrivesSound, ChooseSound
     DEF WorkerStep, Answer
<1>4. ASSUME NEW w \in Worker, NEW v \in Video, NEW l \in Listing[v], BeginFetch(w, v, l)
      PROVE  Inv'
  BY <1>4, BeginFetchSound
<1> QED BY <1>1, <1>2, <1>3, <1>4 DEF Next

LEMMA InitInv == Init => Inv
<1> SUFFICES ASSUME Init PROVE Inv
  OBVIOUS
<1>1. call \in [Worker -> Calls] /\ \A w \in Worker : Sound(call[w])
  <2>1. Idle \in Calls /\ \A w \in Worker : call[w] = Idle
    BY IdleIsSound DEF Init, Sound
  <2> QED BY <2>1, IdleIsSound DEF Init
<1>2. Scalars
  BY SubDLConstants DEF Init, Scalars
<1> QED BY <1>1, <1>2 DEF Inv

\* A fetch of the SubDL Provider is well formed, whatever the server sends and
\* however the fetches of several workers interleave; a download in particular
\* has a Candidate.
THEOREM SubDLTypeCorrect == Spec => []TypeOK
<1>1. Inv => TypeOK
  BY InvGives
<1> QED BY <1>1, InitInv, InvInductive, PTL DEF Spec

\* SubDL and scoring.  What is downloaded has the video's identity, and nothing
\* else that was listed with it is better, or as good and listed before.
THEOREM SubDLTakesBest == Spec => []BestTaken
<1>1. Inv => BestTaken
  BY InvGives
<1> QED BY <1>1, InitInv, InvInductive, PTL DEF Spec

\* quotaOrWrap.  Only the exhausted quota of a search, or of a paid download,
\* suspends the Provider (ADR 0007).
THEOREM SubDLSuspensionEarned == Spec => SuspensionEarned
<1>1. ASSUME Inv, [Next]_vars, ~UNCHANGED vars, suspendedUntil' \notin {0, suspendedUntil}
      PROVE  \E w \in Worker : /\ call[w].pc = "search" \/ (call[w].pc = "download" /\ paid)
                               /\ call'[w].outcome = "suspended"
  <2>1. PICK w \in Worker : QuotaExceeded(w) /\ (call[w].pc = "search" \/ paid)
    BY <1>1 DEF Next, vars, WorkerStep, Answer, Tick, Looked, BeginFetch, Choose, PageArrives,
                BodyArrives, Busy, Refused, QuotaExceeded, EndFetch
  <2>2. call'[w].outcome = "suspended"
    BY <1>1, <2>1 DEF QuotaExceeded, Returns, Step, Inv, Calls
  <2> QED BY <2>1, <2>2 DEF QuotaExceeded, Asking
<1>2. Inv /\ [Next]_vars
        => [suspendedUntil' \notin {0, suspendedUntil} =>
              \E w \in Worker : /\ call[w].pc = "search" \/ (call[w].pc = "download" /\ paid)
                                /\ call'[w].outcome = "suspended"]_vars
  BY <1>1
<1> QED BY <1>2, InitInv, InvInductive, PTL DEF Spec, SuspensionEarned
-----------------------------------------------------------------------------
(* Misses. *)

\* No video is an episode 0, which the code takes for no episode at all.
NumberedEpisodes == \A v \in Video : Name[v].class.type = "episode" => Name[v].class.episode # 0

\* The listings say truly which page is the last, and no video is an episode 0.
HonestListings ==
  /\ \A v \in Video : \A l \in Listing[v] : \A k \in DOMAIN Pages[l] :
       LastPage(Pages[l][k]) => \A j \in DOMAIN Pages[l] : j <= k
  /\ NumberedEpisodes

\* The Candidates of page k are among those gathered.
Gathered(c, k) ==
  \A candidate : Has(CandidatesFromResponse(Pages[c.listing][k], c.info.episode # 0), candidate)
                   => Has(c.gathered, candidate)

\* Up to where the search has read, and what a miss means.
Read(c) ==
  /\ c.pc = "search" => \A k \in DOMAIN Pages[c.listing] : k < c.page => Gathered(c, k)
  /\ c.pc = "choose" => \A k \in DOMAIN Pages[c.listing] : k <= 3 => Gathered(c, k)
  /\ c.outcome = "miss" => ~Offers(c.info, Pages[c.listing])

ReadInv == \A w \in Worker : Read(call[w])

\* What the server lists for the video's identity is turned into a Candidate.
LEMMA OfferedIsCandidate ==
  ASSUME NEW info, NEW unpack, info.type = "episode" => unpack,
         NEW pages \in Seq(PageOfListing), Offers(info, pages)
  PROVE  \E k \in DOMAIN pages : k <= 3 /\
           \E candidate : /\ Has(CandidatesFromResponse(pages[k], unpack), candidate)
                          /\ SameIdentity(info, candidate)
<1> DEFINE Fits(page, season, episode) ==
             SameIdentity(info, [title |-> page.title, year |-> page.year,
                                 season |-> season, episode |-> episode])
           Offered(page, f) ==
             \/ f.name.type = "episode" /\ Fits(page, f.name.season, f.name.episode)
             \/ /\ f.name.type = "movie" /\ f.release.type = "episode"
                /\ Fits(page, f.release.season, f.release.episode)
<1>1. PICK k \in DOMAIN pages : k <= 3 /\
        \E i \in DOMAIN pages[k].items :
          LET item == pages[k].items[i]
          IN  \/ ~item.fullSeason /\ Fits(pages[k], item.season, item.episode)
              \/ /\ item.fullSeason /\ info.type = "episode"
                 /\ \E j \in DOMAIN item.files : Offered(pages[k], item.files[j])
  BY Zenon DEF Offers
<1> DEFINE page == pages[k]
<1>2. PICK i \in DOMAIN page.items :
          LET item == page.items[i]
          IN  \/ ~item.fullSeason /\ Fits(page, item.season, item.episode)
              \/ /\ item.fullSeason /\ info.type = "episode"
                 /\ \E j \in DOMAIN item.files : Offered(page, item.files[j])
  BY <1>1
<1> DEFINE item == page.items[i]
<1>3. page \in PageOfListing
  BY ElementType
<1> HIDE DEF page
<1>4. page.items \in Seq(Item)
  BY <1>3 DEF PageOfListing
<1>5. item \in Item
  BY <1>4, ElementType
<1>6. ASSUME NEW id, NEW season, NEW episode, NEW release, Fits(page, season, episode)
      PROVE  SameIdentity(info, Candidate(page, id, season, episode, release))
  BY <1>6 DEF SameIdentity, TitleMatches, YearMatches, EpisodeMatches, Candidate
<1> HIDE DEF Fits, item
<1>7. PICK candidate : /\ Has(CandidatesFromItem(page, item, unpack), candidate)
                       /\ SameIdentity(info, candidate)
  <2>1. CASE ~item.fullSeason
    <3> DEFINE c == Candidate(page, item.url, item.season, item.episode, item.cosmetics)
    <3>1. Fits(page, item.season, item.episode)
      BY <1>2, <2>1 DEF item
    <3>2. SameIdentity(info, c)
      BY <1>6, <3>1
    <3> HIDE DEF c
    <3>3. CandidatesFromItem(page, item, unpack) = <<c>>
      BY <2>1 DEF CandidatesFromItem, c
    <3>4. Has(<<c>>, c)
      BY DEF Has
    <3> QED BY <3>2, <3>3, <3>4
  <2>2. CASE item.fullSeason
    <3>1. PICK j \in DOMAIN item.files : Offered(page, item.files[j])
      BY <1>2, <2>2 DEF item
    <3>2. info.type = "episode" /\ unpack
      BY <1>2, <2>2 DEF item
    <3> DEFINE f == item.files[j]
               c == Candidate(page, f.url, Resolve(f).season, Resolve(f).episode, f.cosmetics)
               each == [m \in DOMAIN item.files |-> CandidatesFromFile(page, item.files[m])]
    <3>3. item.files \in Seq(FileEntry)
      BY <1>5 DEF Item
    <3>4. Resolve(f).type = "episode" /\ Fits(page, Resolve(f).season, Resolve(f).episode)
      BY <3>1 DEF Resolve
    <3>5. CandidatesFromFile(page, f) = <<c>>
      BY <3>4 DEF CandidatesFromFile
    <3>6. SameIdentity(info, c)
      BY <1>6, <3>4
    <3>7. each \in Seq(Seq(Candidates))
      BY <1>3, <3>3, FilesType
    <3>8. j \in DOMAIN each /\ each[j] = <<c>>
      BY <3>5
    <3> HIDE DEF c, each
    <3>9. Has(<<c>>, c)
      BY DEF Has
    <3>10. Has(FlattenSeq(each), c)
      BY <3>7, <3>8, <3>9, FlattenSeqHas
    <3>11. CandidatesFromItem(page, item, unpack) = FlattenSeq(each)
      BY <2>2, <3>2 DEF CandidatesFromItem, CandidatesFromUnpackFiles, each
    <3> QED BY <3>6, <3>10, <3>11
  <2> QED BY <2>1, <2>2
<1>8. Has(CandidatesFromResponse(page, unpack), candidate)
  <2> DEFINE each == [m \in DOMAIN page.items |-> CandidatesFromItem(page, page.items[m], unpack)]
  <2>1. each \in Seq(Seq(Candidates))
    BY <1>3, ItemsType
  <2>2. i \in DOMAIN each /\ each[i] = CandidatesFromItem(page, item, unpack)
    BY DEF item
  <2> HIDE DEF each
  <2>3. Has(FlattenSeq(each), candidate)
    BY <1>7, <2>1, <2>2, FlattenSeqHas
  <2> QED BY <2>3 DEF CandidatesFromResponse, each
<1> QED BY <1>1, <1>7, <1>8 DEF page
LEMMA StepKeepsRead ==
  ASSUME Inv, ReadInv, NEW w \in Worker, NEW c, Read(c), Step(w, c)
  PROVE  ReadInv'
<1>1. ASSUME NEW u \in Worker
      PROVE  call'[u] = IF u = w THEN c ELSE call[u]
  BY DEF Step, Inv
<1>2. ASSUME NEW u \in Worker
      PROVE  Read(call'[u])
  BY <1>1, <1>2 DEF ReadInv
<1> QED BY <1>2 DEF ReadInv, Read, Gathered

LEMMA PageArrivesRead ==
  ASSUME HonestListings, Inv, ReadInv, NEW w \in Worker, PageArrives(w)
  PROVE  ReadInv'
<1> DEFINE unpack == call[w].info.episode # 0
           pages == Pages[call[w].listing]
           p == call[w].page
           more == CandidatesFromResponse(Page(w), unpack)
           all == call[w].gathered \o more
           c == [call[w] EXCEPT !.gathered = all]
           d == [c EXCEPT !.pc = "choose"]
           e == [c EXCEPT !.page = @ + 1, !.attempt = 0]
<1>1. /\ call[w] \in Calls /\ call[w].pc = "search" /\ call[w].outcome = "none"
      /\ call[w].listing \in Listing[call[w].video]
  BY DEF Inv, Sound, PageArrives
<1>2. \A k \in DOMAIN pages : k < p => Gathered(call[w], k)
  BY <1>1 DEF ReadInv, Read
<1>3. pages \in Seq(PageOfListing) /\ p \in 1 .. 3 /\ call[w].gathered \in Seq(Candidates)
  BY <1>1, SubDLListings DEF Calls, searchMaxPages
<1>4. Page(w) \in PageOfListing
  <2>1. NoPage \in PageOfListing
    BY DEF NoPage, PageOfListing
  <2> QED BY <1>3, <2>1 DEF Page
<1>5. more \in Seq(Candidates)
  BY <1>4, ResponseType
<1>6. Step(w, IF LastPage(Page(w)) \/ c.page = 3 THEN d ELSE e)
  BY DEF PageArrives, searchMaxPages
<1>7. /\ c.page = p /\ c.listing = call[w].listing /\ c.info = call[w].info
      /\ c.gathered = all /\ c.outcome = "none" /\ c.pc = "search"
      /\ d.page = p /\ d.listing = call[w].listing /\ d.info = call[w].info
      /\ d.gathered = all /\ d.outcome = "none" /\ d.pc = "choose"
      /\ e.page = p + 1 /\ e.listing = call[w].listing /\ e.info = call[w].info
      /\ e.gathered = all /\ e.outcome = "none" /\ e.pc = "search"
  BY <1>1 DEF Calls
<1> HIDE DEF more, c, d, e
<1>8. \A candidate : Has(call[w].gathered, candidate) => Has(all, candidate)
  BY <1>3, <1>5, HasConcat
<1>9. \A candidate : Has(more, candidate) => Has(all, candidate)
  BY <1>3, <1>5, HasConcat
<1>10. ASSUME NEW x \in {d, e}, NEW k \in DOMAIN pages, k <= p
       PROVE  Gathered(x, k)
  <2>1. x.listing = call[w].listing /\ x.info = call[w].info /\ x.gathered = all
    BY <1>7
  <2>2. CASE k < p
    BY <1>2, <1>8, <2>1, <2>2 DEF Gathered
  <2>3. CASE k = p
    <3>1. more = CandidatesFromResponse(pages[k], unpack)
      BY <2>3 DEF more, Page
    <3> QED BY <1>9, <2>1, <3>1 DEF Gathered
  <2>4. k \in Nat
    BY <1>3
  <2> QED BY <1>3, <1>10, <2>2, <2>3, <2>4
<1>11. LastPage(Page(w)) \/ p = 3 => \A k \in DOMAIN pages : k <= 3 => k <= p
  <2> SUFFICES ASSUME LastPage(Page(w)) \/ p = 3, NEW k \in DOMAIN pages, k <= 3
               PROVE  k <= p
    OBVIOUS
  <2>1. k \in Nat /\ DOMAIN pages = 1 .. Len(pages) /\ Len(pages) \in Nat
    BY <1>3
  <2>2. CASE p \in DOMAIN pages /\ LastPage(Page(w))
    <3>1. Page(w) = pages[p]
      BY <2>2 DEF Page
    <3>2. call[w].video \in Video
      BY <1>1 DEF Calls
    <3> QED BY <1>1, <2>2, <3>1, <3>2 DEF HonestListings
  <2>3. CASE p \notin DOMAIN pages
    BY <1>3, <2>1, <2>3
  <2> QED BY <2>2, <2>3
<1>12. LastPage(Page(w)) \/ p = 3 => Read(d)
  BY <1>7, <1>10, <1>11 DEF Read
<1>13. Read(e)
  <2>1. \A k \in DOMAIN pages : k < p + 1 => k <= p
    BY <1>3
  <2> QED BY <1>7, <1>10, <2>1 DEF Read
<1> QED BY <1>6, <1>7, <1>12, <1>13, StepKeepsRead

LEMMA ChooseRead ==
  ASSUME HonestListings, Inv, ReadInv, NEW w \in Worker, Choose(w)
  PROVE  ReadInv'
<1> DEFINE info == call[w].info
           cs == call[w].gathered
           pages == Pages[call[w].listing]
           best == Select(info, cs)
<1>1. /\ call[w] \in Calls /\ call[w].pc = "choose" /\ call[w].outcome = "none"
      /\ info = Info(call[w].video) /\ call[w].video \in Video
      /\ call[w].listing \in Listing[call[w].video]
  BY DEF Inv, Sound, Choose, Calls
<1>2. \A k \in DOMAIN pages : k <= 3 => Gathered(call[w], k)
  BY <1>1 DEF ReadInv, Read
<1>3. ASSUME info # Unparsed, best = NoBest
      PROVE  ~Offers(info, pages)
  <2> SUFFICES ASSUME Offers(info, pages) PROVE FALSE
    OBVIOUS
  <2>1. /\ info.type \in {"movie", "episode"}
        /\ info.type = "episode" => info.episode # 0
    <3>1. info = Parse(Name[call[w].video])
      BY <1>1, <1>3 DEF Info
    <3>2. PICK v \in Video : v = call[w].video
      BY <1>1
    <3>3. /\ Name[v].class \in Class
          /\ Name[v].class.type = "episode" => Name[v].class.episode # 0
      BY ONLY <3>2, v \in Video, SubDLListings, HonestListings DEF HonestListings, NumberedEpisodes
    <3>4. info.type = Name[v].class.type /\ info.episode = Name[v].class.episode
      BY <3>1, <3>2 DEF Parse
    <3>5. \A class \in Class : class.type \in {"movie", "episode"}
      BY DEF Class
    <3> HIDE DEF info
    <3> QED BY ONLY <3>3, <3>4, <3>5
  <2>2. pages \in Seq(PageOfListing)
    BY <1>1, SubDLListings
  <2>3. PICK k \in DOMAIN pages : k <= 3 /\
          \E candidate : /\ Has(CandidatesFromResponse(pages[k], info.episode # 0), candidate)
                         /\ SameIdentity(info, candidate)
    BY <2>1, <2>2, OfferedIsCandidate
  <2>4. PICK candidate : Has(cs, candidate) /\ SameIdentity(info, candidate)
    BY <1>2, <2>3 DEF Gathered
  <2>5. PICK i \in DOMAIN cs : SameIdentity(info, cs[i])
    BY <2>4 DEF Has
  <2>6. cs \in Seq(Candidates)
    BY <1>1 DEF Calls
  <2>7. Len(cs) \in Nat /\ DOMAIN cs = 1 .. Len(cs)
    BY <2>6
  <2>8. \A j \in 1 .. Len(cs) : ~cs[j].hashMatch
    BY <2>6, GatheredHaveNoHash
  <2>9. \A j \in 1 .. Len(cs) : ~SameIdentity(info, cs[j])
    <3>1. PICK all, about : all = cs /\ about = info
      OBVIOUS
    <3>2. /\ about.type \in {"movie", "episode"} /\ Len(all) \in Nat
          /\ \A j \in 1 .. Len(all) : ~all[j].hashMatch
      BY <2>1, <2>7, <2>8, <3>1
    <3>3. Select(about, all) = 0 => \A j \in 1 .. Len(all) : ~SameIdentity(about, all[j])
      BY ONLY <3>2, SelectTakesBest
    <3> QED BY <1>3, <3>1, <3>3 DEF NoBest
  <2> QED BY <2>5, <2>7, <2>9
<1> DEFINE returns(outcome) == [call[w] EXCEPT !.pc = "done", !.outcome = outcome]
           suspended == [call[w] EXCEPT !.pc = "done", !.best = best, !.outcome = "suspended"]
           next == [call[w] EXCEPT !.pc = "download", !.best = best, !.attempt = 0]
<1>4. /\ returns("failed").pc = "done" /\ returns("failed").outcome = "failed"
      /\ returns("miss").pc = "done" /\ returns("miss").outcome = "miss"
      /\ returns("miss").info = info /\ returns("miss").listing = call[w].listing
      /\ suspended.pc = "done" /\ suspended.outcome = "suspended"
      /\ next.pc = "download" /\ next.outcome = "none"
  BY <1>1 DEF Calls
<1>5. Read(returns("failed")) /\ Read(suspended) /\ Read(next)
  BY <1>4 DEF Read
<1>6. info # Unparsed /\ best = NoBest => Read(returns("miss"))
  <2> HIDE DEF best, returns
  <2> QED BY <1>3, <1>4 DEF Read
<1>7. PICK c : Read(c) /\ Step(w, c)
  <2> HIDE DEF best
  <2> QED BY <1>5, <1>6 DEF Choose, Returns, best
<1> QED BY <1>7, StepKeepsRead

LEMMA OtherStepRead ==
  ASSUME Inv, ReadInv, NEW w \in Worker,
         \/ EndFetch(w) \/ Busy(w) \/ Refused(w) \/ QuotaExceeded(w) \/ BodyArrives(w)
         \/ \E v \in Video : \E l \in Listing[v] : BeginFetch(w, v, l)
  PROVE  ReadInv'
<1> DEFINE returns(outcome) == [call[w] EXCEPT !.pc = "done", !.outcome = outcome]
           again == [call[w] EXCEPT !.attempt = @ + 1]
<1>1. call[w] \in Calls /\ Read(call[w])
  BY DEF Inv, Sound, ReadInv
<1>2. \A outcome \in {"failed", "suspended", "fetched"} : Read(returns(outcome))
  BY <1>1 DEF Calls, Read
<1>3. Read(again)
  BY <1>1 DEF Calls, Read, Gathered
<1>4. ASSUME NEW i
      PROVE  Read([call[w] EXCEPT !.pc = "done", !.outcome = "fetched", !.got = i])
  BY <1>1 DEF Calls, Read
<1>5. ASSUME NEW v \in Video, NEW l \in Listing[v]
      PROVE  /\ Read(Fetch("idle", v, l)) /\ Read(Fetch("search", v, l))
             /\ Read([Fetch("done", v, l) EXCEPT !.outcome = "suspended"])
  <2>1. \A k \in DOMAIN Pages[l] : ~(k < 1)
    <3>1. Pages[l] \in Seq(PageOfListing)
      BY SubDLListings
    <3> QED BY <3>1
  <2> QED BY <2>1 DEF Read, Fetch
<1>6. Read(Idle)
  BY <1>5, SubDLConstants, SubDLListings DEF Idle
<1>7. CASE EndFetch(w)
  BY <1>6, <1>7, StepKeepsRead DEF EndFetch
<1>8. CASE Busy(w) \/ Refused(w) \/ QuotaExceeded(w)
  <2>1. PICK c : Read(c) /\ Step(w, c)
    BY <1>2, <1>3, <1>8 DEF Busy, Refused, QuotaExceeded, Returns
  <2> QED BY <2>1, StepKeepsRead
<1>9. CASE BodyArrives(w)
  <2>1. PICK c : Read(c) /\ Step(w, c)
    <3>1. \/ Returns(w, "failed")
          \/ \E class : Step(w, [call[w] EXCEPT !.pc = "done", !.outcome = "fetched", !.got = class])
      BY <1>9 DEF BodyArrives
    <3> QED BY <1>2, <1>4, <3>1 DEF Returns
  <2> QED BY <2>1, StepKeepsRead
<1>10. ASSUME NEW v \in Video, NEW l \in Listing[v], BeginFetch(w, v, l)
       PROVE  ReadInv'
  <2>1. PICK c : Read(c) /\ Step(w, c)
    BY <1>5, <1>10 DEF BeginFetch
  <2> QED BY <2>1, StepKeepsRead
<1> QED BY <1>7, <1>8, <1>9, <1>10

LEMMA ReadInductive ==
  ASSUME HonestListings, Inv, ReadInv, [Next]_vars
  PROVE  ReadInv'
<1>1. CASE UNCHANGED vars \/ Tick
  BY <1>1 DEF vars, Tick, ReadInv, Read, Gathered
<1>2. ASSUME NEW w \in Worker, WorkerStep(w)
      PROVE  ReadInv'
  BY <1>2, PageArrivesRead, ChooseRead, OtherStepRead DEF WorkerStep, Answer
<1>3. ASSUME NEW w \in Worker, NEW v \in Video, NEW l \in Listing[v], BeginFetch(w, v, l)
      PROVE  ReadInv'
  BY <1>3, OtherStepRead
<1> QED BY <1>1, <1>2, <1>3 DEF Next

LEMMA InitRead == Init => ReadInv
<1> SUFFICES ASSUME Init, NEW w \in Worker PROVE Read(call[w])
  BY DEF ReadInv
<1>1. call[w] = Idle
  BY DEF Init
<1>2. Idle.pc = "idle" /\ Idle.outcome = "none"
  BY DEF Idle, Fetch
<1> QED BY <1>1, <1>2 DEF Read

\* Search and Select.  When the listings say truly which page is their last, a
\* miss means that the server lists nothing for the video's identity on the
\* pages a search may ask for, alone or in a pack.  An episode 0 is left out:
\* Search never asks for packs to be broken down for one (subdl.go:328-331).
THEOREM SubDLMissJustified ==
  ASSUME HonestListings
  PROVE  Spec => []MissJustified
<1>1. Inv /\ ReadInv /\ [Next]_vars => Inv' /\ ReadInv'
  BY InvInductive, ReadInductive
<1>2. Init => Inv /\ ReadInv
  BY InitInv, InitRead
<1>3. ReadInv => MissJustified
  BY DEF ReadInv, Read, MissJustified
<1> QED BY <1>1, <1>2, <1>3, PTL DEF Spec

-----------------------------------------------------------------------------
(* Episodes. *)

\* The Candidate is made of a page that the server has for the video.
Listed(v, l, candidate) ==
  \E k \in DOMAIN Pages[l] :
    Has(CandidatesFromResponse(Pages[l][k], Info(v).episode # 0), candidate)

\* What is sent without an archive is the episode its Candidate says: Download has
\* nothing else to judge it by.
RawBodiesAsListed ==
  \A v \in Video : \A l \in Listing[v] : \A c \in Candidates :
    Listed(v, l, c) /\ c.episode # 0 /\ ~Body[c.id].zip
      => \A i \in DOMAIN Body[c.id].entries :
           Body[c.id].entries[i].class = Episode(c.season, c.episode)

\* What was gathered is listed, only a name that could be parsed has led to a
\* download, and what was fetched for an episode is that episode's.
Sourced(c) ==
  /\ \A i \in DOMAIN c.gathered : Listed(c.video, c.listing, c.gathered[i])
  /\ c.pc = "download" => c.info # Unparsed
  /\ c.outcome = "fetched" /\ Name[c.video].class.type = "episode"
       => c.got = Name[c.video].class

SourcedInv == \A w \in Worker : Sourced(call[w])

LEMMA StepKeepsSourced ==
  ASSUME Inv, SourcedInv, NEW w \in Worker, NEW c, Sourced(c), Step(w, c)
  PROVE  SourcedInv'
<1>1. ASSUME NEW u \in Worker
      PROVE  call'[u] = IF u = w THEN c ELSE call[u]
  BY DEF Step, Inv
<1>2. ASSUME NEW u \in Worker
      PROVE  Sourced(call'[u])
  BY <1>1, <1>2 DEF SourcedInv
<1> QED BY <1>2 DEF SourcedInv, Sourced, Listed

\* A page that is not there has no Candidates.
LEMMA NoPageIsEmpty ==
  ASSUME NEW unpack
  PROVE  CandidatesFromResponse(NoPage, unpack) = <<>>
<1> DEFINE each == [i \in DOMAIN NoPage.items |-> CandidatesFromItem(NoPage, NoPage.items[i], unpack)]
<1>1. NoPage.items = <<>>
  BY DEF NoPage
<1>2. each = <<>>
  BY <1>1
<1> HIDE DEF each
<1>3. FlattenSeq(each) = <<>>
  BY <1>2 DEF FlattenSeq
<1> QED BY <1>3 DEF CandidatesFromResponse, each

LEMMA PageArrivesSourced ==
  ASSUME Inv, SourcedInv, NEW w \in Worker, PageArrives(w)
  PROVE  SourcedInv'
<1> DEFINE v == call[w].video
           l == call[w].listing
           more == CandidatesFromResponse(Page(w), call[w].info.episode # 0)
           all == call[w].gathered \o more
           c == [call[w] EXCEPT !.gathered = all]
           d == [c EXCEPT !.pc = "choose"]
           e == [c EXCEPT !.page = @ + 1, !.attempt = 0]
<1>1. /\ call[w] \in Calls /\ call[w].pc = "search" /\ call[w].outcome = "none"
      /\ call[w].info = Info(v) /\ v \in Video /\ l \in Listing[v]
  BY DEF Inv, Sound, PageArrives, Calls
<1>2. \A i \in DOMAIN call[w].gathered : Listed(v, l, call[w].gathered[i])
  BY DEF SourcedInv, Sourced
<1>3. Pages[l] \in Seq(PageOfListing) /\ call[w].gathered \in Seq(Candidates)
  BY <1>1, SubDLListings DEF Calls
<1>4. Page(w) \in PageOfListing
  <2>1. NoPage \in PageOfListing
    BY DEF NoPage, PageOfListing
  <2> QED BY <1>3, <2>1 DEF Page
<1>5. more \in Seq(Candidates)
  BY <1>4, ResponseType
<1>6. \A i \in DOMAIN more : Listed(v, l, more[i])
  <2> SUFFICES ASSUME NEW i \in DOMAIN more PROVE Listed(v, l, more[i])
    OBVIOUS
  <2>1. CASE call[w].page \in DOMAIN Pages[l]
    <3>1. more = CandidatesFromResponse(Pages[l][call[w].page], Info(v).episode # 0)
      BY <1>1, <2>1 DEF Page
    <3> HIDE DEF more
    <3> QED BY <2>1, <3>1 DEF Listed, Has
  <2>2. CASE call[w].page \notin DOMAIN Pages[l]
    BY <2>2, NoPageIsEmpty DEF Page
  <2> QED BY <2>1, <2>2
<1> HIDE DEF more
<1>7. \A i \in DOMAIN all : Listed(v, l, all[i])
  <2> SUFFICES ASSUME NEW i \in DOMAIN all PROVE Listed(v, l, all[i])
    OBVIOUS
  <2>1. \/ i \in DOMAIN call[w].gathered /\ all[i] = call[w].gathered[i]
        \/ i - Len(call[w].gathered) \in DOMAIN more /\ all[i] = more[i - Len(call[w].gathered)]
    BY <1>3, <1>5
  <2> QED BY <1>2, <1>6, <2>1
<1>8. \A x \in {d, e} : /\ x.gathered = all /\ x.video = v /\ x.listing = l
                        /\ x.pc # "download" /\ x.outcome = "none"
  BY <1>1 DEF Calls
<1>9. Step(w, IF LastPage(Page(w)) \/ c.page = searchMaxPages THEN d ELSE e)
  BY DEF PageArrives, more
<1> HIDE DEF all, c, d, e, v, l
<1>10. Sourced(d) /\ Sourced(e)
  BY <1>7, <1>8 DEF Sourced
<1> QED BY <1>9, <1>10, StepKeepsSourced

\* The Candidate that is downloaded is the video's episode, and is listed.
LEMMA BestIsEpisode ==
  ASSUME Inv, SourcedInv, NEW w \in Worker, call[w].pc = "download",
         Name[call[w].video].class.type = "episode"
  PROVE  /\ Best(w) \in Candidates /\ Listed(call[w].video, call[w].listing, Best(w))
         /\ Name[call[w].video].class = Episode(Best(w).season, Best(w).episode)
<1> DEFINE v == call[w].video
<1>1. /\ call[w] \in Calls /\ call[w].info = Info(v) /\ v \in Video
      /\ call[w].best \in 1 .. Len(call[w].gathered) /\ BestIn(call[w])
      /\ call[w].gathered \in Seq(Candidates)
  BY DEF Inv, Sound, Calls, NoBest
<1>2. call[w].info = Parse(Name[v])
  BY <1>1 DEF SourcedInv, Sourced, Info
<1>3. SameIdentity(Parse(Name[v]), Best(w))
  BY <1>1, <1>2 DEF BestIn, Best
<1>4. EpisodeMatches(Parse(Name[v]), Best(w))
  BY <1>3 DEF SameIdentity, Parse
<1>5. Name[v].class.season = Best(w).season /\ Name[v].class.episode = Best(w).episode
  BY <1>4 DEF EpisodeMatches, Parse
<1>6. Name[v].class \in Class
  BY <1>1, SubDLListings
<1>7. Name[v].class = Episode(Best(w).season, Best(w).episode)
  BY <1>5, <1>6 DEF Class, Episode
<1>8. call[w].best \in DOMAIN call[w].gathered
  BY <1>1
<1> QED BY <1>1, <1>7, <1>8 DEF Best, SourcedInv, Sourced

LEMMA BodyArrivesSourced ==
  ASSUME NumberedEpisodes, RawBodiesAsListed, Inv, SourcedInv, NEW w \in Worker, BodyArrives(w)
  PROVE  SourcedInv'
<1> DEFINE v == call[w].video
           body == Body[Best(w).id]
           fits == IF body.zip THEN Matching(Best(w), body.entries) ELSE DOMAIN body.entries
           taken(i) == [call[w] EXCEPT !.pc = "done", !.outcome = "fetched",
                                       !.got = body.entries[i].class]
           failed == [call[w] EXCEPT !.pc = "done", !.outcome = "failed"]
<1>1. /\ call[w] \in Calls /\ call[w].pc = "download" /\ v \in Video
      /\ call[w].listing \in Listing[v] /\ Sourced(call[w])
  BY DEF Inv, Sound, Calls, BodyArrives, SourcedInv
<1>2. ASSUME Name[v].class.type = "episode", NEW i \in fits
      PROVE  body.entries[i].class = Name[v].class
  <2>1. /\ Best(w) \in Candidates /\ Listed(v, call[w].listing, Best(w))
        /\ Name[v].class = Episode(Best(w).season, Best(w).episode)
    BY <1>1, <1>2, BestIsEpisode
  <2>2. Best(w).episode # 0
    BY <1>1, <1>2, <2>1 DEF NumberedEpisodes, Episode
  <2>3. CASE body.zip
    BY <2>1, <2>2, <2>3 DEF Matching
  <2>4. CASE ~body.zip
    BY <1>1, <2>1, <2>2, <2>4 DEF RawBodiesAsListed
  <2> QED BY <2>3, <2>4
<1>3. ASSUME NEW i \in fits
      PROVE  Sourced(taken(i))
  <2> HIDE DEF fits, body
  <2>1. /\ taken(i).pc = "done" /\ taken(i).got = body.entries[i].class
        /\ taken(i).video = v /\ taken(i).listing = call[w].listing
        /\ taken(i).gathered = call[w].gathered
    BY <1>1 DEF Calls
  <2> HIDE DEF taken, v
  <2> QED BY <1>1, <1>2, <2>1 DEF Sourced, v
<1>4. Sourced(failed)
  <2>1. /\ failed.pc = "done" /\ failed.outcome = "failed"
        /\ failed.video = v /\ failed.listing = call[w].listing
        /\ failed.gathered = call[w].gathered
    BY <1>1 DEF Calls
  <2> HIDE DEF failed, v
  <2> QED BY <1>1, <2>1 DEF Sourced, v
<1>5. PICK c : Sourced(c) /\ Step(w, c)
  <2>1. \/ \E i \in fits : Step(w, taken(i))
        \/ Returns(w, "failed")
    BY DEF BodyArrives
  <2> HIDE DEF fits, taken
  <2> QED BY <1>3, <1>4, <2>1 DEF Returns
<1> QED BY <1>5, StepKeepsSourced

LEMMA ChooseSourced ==
  ASSUME Inv, SourcedInv, NEW w \in Worker, Choose(w)
  PROVE  SourcedInv'
<1> DEFINE best == Select(call[w].info, call[w].gathered)
           returns(outcome) == [call[w] EXCEPT !.pc = "done", !.outcome = outcome]
           suspended == [call[w] EXCEPT !.pc = "done", !.best = best, !.outcome = "suspended"]
           next == [call[w] EXCEPT !.pc = "download", !.best = best, !.attempt = 0]
<1>1. call[w] \in Calls /\ Sourced(call[w]) /\ call[w].outcome = "none"
  BY DEF Inv, Sound, Choose, SourcedInv
<1> HIDE DEF best
<1>2. \A c \in {returns("failed"), returns("miss"), suspended, next} :
        /\ c.gathered = call[w].gathered /\ c.video = call[w].video
        /\ c.listing = call[w].listing /\ c.info = call[w].info /\ c.outcome # "fetched"
        /\ c.pc = "download" => c = next
  BY <1>1 DEF Calls
<1>3. /\ Sourced(returns("failed")) /\ Sourced(returns("miss")) /\ Sourced(suspended)
      /\ call[w].info # Unparsed => Sourced(next)
  <2> HIDE DEF returns, suspended, next
  <2>1. returns("failed").pc = "done" /\ returns("miss").pc = "done" /\ suspended.pc = "done"
    <3>1. "pc" \in DOMAIN call[w]
      BY <1>1 DEF Calls
    <3> QED BY ONLY <3>1 DEF returns, suspended
  <2> QED BY <1>1, <1>2, <2>1 DEF Sourced
<1>4. PICK c : Sourced(c) /\ Step(w, c)
  BY <1>3 DEF Choose, Returns, best
<1> QED BY <1>4, StepKeepsSourced

LEMMA OtherStepSourced ==
  ASSUME Inv, SourcedInv, NEW w \in Worker,
         \/ EndFetch(w) \/ Busy(w) \/ Refused(w) \/ QuotaExceeded(w)
         \/ \E v \in Video : \E l \in Listing[v] : BeginFetch(w, v, l)
  PROVE  SourcedInv'
<1> DEFINE returns(outcome) == [call[w] EXCEPT !.pc = "done", !.outcome = outcome]
           again == [call[w] EXCEPT !.attempt = @ + 1]
<1>1. call[w] \in Calls /\ Sourced(call[w])
  BY DEF Inv, Sound, SourcedInv
<1>2. \A outcome \in {"failed", "suspended"} : Sourced(returns(outcome))
  BY <1>1 DEF Calls, Sourced
<1>3. Sourced(again)
  BY <1>1 DEF Calls, Sourced
<1>4. ASSUME NEW v \in Video, NEW l \in Listing[v]
      PROVE  /\ Sourced(Fetch("idle", v, l)) /\ Sourced(Fetch("search", v, l))
             /\ Sourced([Fetch("done", v, l) EXCEPT !.outcome = "suspended"])
  BY DEF Sourced, Fetch
<1>5. Sourced(Idle)
  BY <1>4, SubDLConstants, SubDLListings DEF Idle
<1>6. CASE EndFetch(w)
  BY <1>5, <1>6, StepKeepsSourced DEF EndFetch
<1>7. CASE Busy(w) \/ Refused(w) \/ QuotaExceeded(w)
  <2>1. PICK c : Sourced(c) /\ Step(w, c)
    BY <1>2, <1>3, <1>7 DEF Busy, Refused, QuotaExceeded, Returns
  <2> QED BY <2>1, StepKeepsSourced
<1>8. ASSUME NEW v \in Video, NEW l \in Listing[v], BeginFetch(w, v, l)
      PROVE  SourcedInv'
  <2>1. PICK c : Sourced(c) /\ Step(w, c)
    BY <1>4, <1>8 DEF BeginFetch
  <2> QED BY <2>1, StepKeepsSourced
<1> QED BY <1>6, <1>7, <1>8

LEMMA SourcedInductive ==
  ASSUME NumberedEpisodes, RawBodiesAsListed, Inv, SourcedInv, [Next]_vars
  PROVE  SourcedInv'
<1>1. CASE UNCHANGED vars \/ Tick
  BY <1>1 DEF vars, Tick, SourcedInv, Sourced, Listed
<1>2. ASSUME NEW w \in Worker, WorkerStep(w)
      PROVE  SourcedInv'
  BY <1>2, PageArrivesSourced, BodyArrivesSourced, ChooseSourced, OtherStepSourced
     DEF WorkerStep, Answer
<1>3. ASSUME NEW w \in Worker, NEW v \in Video, NEW l \in Listing[v], BeginFetch(w, v, l)
      PROVE  SourcedInv'
  BY <1>3, OtherStepSourced
<1> QED BY <1>1, <1>2, <1>3 DEF Next

LEMMA InitSourced == Init => SourcedInv
<1> SUFFICES ASSUME Init, NEW w \in Worker PROVE Sourced(call[w])
  BY DEF SourcedInv
<1>1. call[w] = Idle
  BY DEF Init
<1>2. Idle.pc = "idle" /\ Idle.outcome = "none" /\ Idle.gathered = <<>>
  BY DEF Idle, Fetch
<1> QED BY <1>1, <1>2 DEF Sourced

\* Download.  An episode gets its own subtitle, whatever else is listed beside it,
\* however wrongly its pack's entries are labelled and whatever else its archive
\* holds.  Bytes sent without an archive have to be what their Candidate says, and
\* an episode 0 is left out: no entry is chosen by its number (subdl.go:424-452).
THEOREM SubDLRightEpisode ==
  ASSUME NumberedEpisodes, RawBodiesAsListed
  PROVE  Spec => []RightEpisode
<1>1. Inv /\ SourcedInv /\ [Next]_vars => Inv' /\ SourcedInv'
  BY InvInductive, SourcedInductive
<1>2. Init => Inv /\ SourcedInv
  BY InitInv, InitSourced
<1>3. SourcedInv => RightEpisode
  BY DEF SourcedInv, Sourced, RightEpisode
<1> QED BY <1>1, <1>2, <1>3, PTL DEF Spec

-----------------------------------------------------------------------------
(* What Parse makes of a name. *)

LEMMA DescribesTokens ==
  /\ Describes([kind |-> "episode"])
  /\ \A t : t.kind = "year" => ~Describes(t)
BY DEF Describes, IsRecognizedTag, Tag

\* The description begins with the first token that describes.
LEMMA MetaStartIs ==
  ASSUME NEW tokens \in Seq(Token), NEW m \in Nat, m <= Len(tokens),
         \A i \in 1 .. m : ~Describes(tokens[i]),
         m = Len(tokens) \/ Describes(tokens[m + 1])
  PROVE  MetaStart(tokens) = m + 1
<1>1. PICK e : e = [kind |-> "episode"]
  OBVIOUS
<1>2. PICK s : s = tokens \o << e >>
  OBVIOUS
<1>3. /\ Len(tokens) \in Nat /\ Len(s) = Len(tokens) + 1 /\ s[Len(tokens) + 1] = e
      /\ \A i \in 1 .. Len(tokens) : s[i] = tokens[i]
  BY <1>2
<1>4. Describes(e)
  BY <1>1, DescribesTokens
<1>5. PICK I : I = {i \in 1 .. Len(s) : Describes(s[i])}
  OBVIOUS
<1>6. m + 1 \in I
  BY <1>3, <1>4, <1>5
<1>7. \A i \in I : i \in Nat /\ m + 1 <= i
  BY <1>3, <1>5
<1>8. Min(I) = m + 1
  <2>1. \A x \in I : (\A y \in I : x <= y) => x = m + 1
    BY <1>6, <1>7
  <2> QED BY <1>6, <1>7, <2>1 DEF Min
<1>9. MetaStart(tokens) = IF I # {} THEN Min(I) ELSE 0
  BY <1>1, <1>2, <1>5 DEF MetaStart, SelectInSeq
<1> QED BY <1>6, <1>8, <1>9

\* The year is the last one before it.
LEMMA YearIndexIs ==
  ASSUME NEW tokens \in Seq(Token), NEW m \in Nat, m <= Len(tokens), MetaStart(tokens) = m + 1
  PROVE  /\ (\A i \in 1 .. m : tokens[i].kind # "year") => YearIndex(tokens) = 0
         /\ m # 0 /\ tokens[m].kind = "year" => YearIndex(tokens) = m
<1>1. PICK s : s = SubSeq(tokens, 1, m)
  OBVIOUS
<1>2. Len(s) = m /\ \A i \in 1 .. m : s[i] = tokens[i]
  BY <1>1
<1>3. PICK I : I = {i \in 1 .. Len(s) : s[i].kind = "year"}
  OBVIOUS
<1>4. YearIndex(tokens) = IF I # {} THEN Max(I) ELSE 0
  <2>1. MetaStart(tokens) - 1 = m
    OBVIOUS
  <2>2. SubSeq(tokens, 1, MetaStart(tokens) - 1) = s
    BY <1>1, <2>1
  <2> QED BY <1>3, <2>2 DEF YearIndex, SelectLastInSeq
<1>5. ASSUME m # 0, tokens[m].kind = "year"
      PROVE  YearIndex(tokens) = m
  <2>1. m \in I /\ \A i \in I : i \in Nat /\ i <= m
    BY <1>2, <1>3, <1>5
  <2>2. \A x \in I : (\A y \in I : x >= y) => x = m
    BY <2>1
  <2>3. Max(I) = m
    BY <2>1, <2>2 DEF Max
  <2> QED BY <1>4, <2>1, <2>3
<1>6. ASSUME \A i \in 1 .. m : tokens[i].kind # "year"
      PROVE  YearIndex(tokens) = 0
  BY <1>2, <1>3, <1>4, <1>6
<1> QED BY <1>5, <1>6

\* Parse finds the title and the year of every name that is made of them and a
\* description, whatever years are in the title and whatever follows.
THEOREM ParseFindsNames ==
  ASSUME NEW tokens \in Seq(Token), NEW title, NEW year, Names(tokens, title, year)
  PROVE  Title(tokens) = title /\ Year(tokens) = year /\ title # <<>> /\ (YearIndex(tokens) = 0 <=> year = 0)
<1> DEFINE Split(n, m) ==
             /\ m = IF year = 0 THEN n ELSE n + 1
             /\ m <= Len(tokens)
             /\ title = Texts(SubSeq(tokens, 1, n))
             /\ IF year = 0 THEN \A i \in 1 .. n : tokens[i].kind # "year"
                ELSE tokens[m].kind = "year" /\ tokens[m].number = year
             /\ \A i \in 1 .. m : ~Describes(tokens[i])
             /\ m = Len(tokens) \/ Describes(tokens[m + 1])
<1>0. PICK n \in 1 .. Len(tokens) : Split(n, IF year = 0 THEN n ELSE n + 1)
  BY DEF Names
<1>1. PICK m : Split(n, m)
  BY <1>0
<1>2. n \in Nat /\ n # 0 /\ m \in Nat /\ m # 0 /\ n <= Len(tokens)
  BY <1>1
<1>3. MetaStart(tokens) = m + 1
  BY <1>1, <1>2, MetaStartIs
<1>4. title # <<>>
  <2>1. DOMAIN SubSeq(tokens, 1, n) = 1 .. n
    BY <1>2
  <2>2. DOMAIN title = 1 .. n
    BY <1>1, <2>1 DEF Texts
  <2> QED BY <1>2, <2>2
<1>5. CASE year = 0
  <2>1. m = n /\ YearIndex(tokens) = 0
    BY <1>1, <1>2, <1>3, <1>5, YearIndexIs
  <2>2. m + 1 - 1 = n
    BY <1>2, <2>1
  <2> QED BY <1>1, <1>3, <1>4, <1>5, <2>1, <2>2 DEF Title, Year
<1>6. CASE year # 0
  <2>1. m = n + 1 /\ YearIndex(tokens) = m /\ tokens[m].number = year
    BY <1>1, <1>2, <1>3, <1>6, YearIndexIs
  <2>2. m - 1 = n
    BY <1>2, <2>1
  <2> QED BY <1>1, <1>2, <1>4, <1>6, <2>1, <2>2 DEF Title, Year
<1> QED BY <1>5, <1>6

\* A well-named video is looked for by its title and year, at every step of every
\* fetch (parse.go; subdl.go, Search).
THEOREM SubDLTitleRecovered == Spec => []TitleRecovered
<1>1. TypeOK => TitleRecovered
  <2> SUFFICES ASSUME TypeOK, NEW w \in Worker, NEW v, v = call[w].video, v \in DOMAIN Titled
               PROVE  /\ call[w].info # Unparsed
                      /\ call[w].info.title = Titled[v].title /\ call[w].info.year = Titled[v].year
    BY DEF TitleRecovered
  <2>1. /\ Name[v].tokens \in Seq(Token) /\ Name[v].class # Episode(0, 0) /\ Name[v].class \in Class
        /\ Names(Name[v].tokens, Titled[v].title, Titled[v].year)
        /\ Name[v].class.type = "movie" => Titled[v].year # 0
    BY SubDLNames, SubDLListings
  <2>2. /\ Title(Name[v].tokens) = Titled[v].title /\ Year(Name[v].tokens) = Titled[v].year
        /\ Titled[v].title # <<>> /\ (YearIndex(Name[v].tokens) = 0 <=> Titled[v].year = 0)
    BY <2>1, ParseFindsNames
  <2>3. Parseable(Name[v])
    BY <2>1, <2>2 DEF Parseable
  <2>4. call[w].info = Parse(Name[v])
    BY <2>3 DEF TypeOK, Info
  <2>5. Name[v].class.type # "none"
    BY <2>1 DEF Class
  <2>6. Parse(Name[v]).title = Titled[v].title /\ Parse(Name[v]).year = Titled[v].year
        /\ Parse(Name[v]).type = Name[v].class.type
    BY <2>2 DEF Parse
  <2>7. Unparsed.type = "none"
    BY DEF Unparsed
  <2> QED BY <2>4, <2>5, <2>6, <2>7
<1> QED BY <1>1, SubDLTypeCorrect, PTL
=============================================================================
