---------------------------- MODULE SubtitleProofs ----------------------------
(***************************************************************************)
(* Theorems about what Download's transcript is shaped to, for transcripts *)
(* of any length, any texts and any width of the screen.                   *)
(***************************************************************************)
EXTENDS Subtitles, WhisperProofs

-----------------------------------------------------------------------------
(* Shaping's recursive functions exist. *)

TotalOf(numbers, n, total) ==
  total = [k \in 0 .. n |-> IF k = 0 THEN 0 ELSE total[k - 1] + numbers[k]]

MergedOf(tokens, n, merged) ==
  merged = [k \in 0 .. n |-> IF k = 0 THEN <<>> ELSE MergeToken(merged[k - 1], tokens[k])]

GroupedOf(words, n, grouped) ==
  grouped = [k \in 0 .. n |->
               IF k = 0 THEN [groups |-> <<>>, current |-> <<>>] ELSE Group(grouped[k - 1], words[k])]

ShownOf(cues, n, shown) ==
  shown = [k \in 0 .. n |-> IF k = 0 THEN <<>> ELSE Collapse(shown[k - 1], cues[k])]

LEMMA TotalExists ==
  ASSUME NEW numbers, NEW n \in Nat
  PROVE  \E merged : TotalOf(numbers, n, merged)
<1> DEFINE T == {k \in Nat : ~\E merged : TotalOf(numbers, k, merged)}
<1> SUFFICES ASSUME T # {} PROVE FALSE
  OBVIOUS
<1>1. PICK k \in T : \A j \in T : k <= j
  BY Least
<1>2. CASE k = 0
  <2>1. TotalOf(numbers, 0, [i \in 0 .. 0 |-> 0])
    BY DEF TotalOf
  <2> QED BY <1>2, <2>1
<1>3. CASE k # 0
  <2>1. k \in Nat \ {0} /\ k - 1 \in Nat /\ k - 1 \notin T
    BY <1>1, <1>3
  <2>2. PICK f : TotalOf(numbers, k - 1, f)
    BY <2>1
  <2> DEFINE g == [i \in 0 .. k |-> IF i < k THEN f[i] ELSE f[k - 1] + numbers[k]]
  <2>3. \A i \in 0 .. k - 1 : f[i] = IF i = 0 THEN 0 ELSE f[i - 1] + numbers[i]
    BY <2>2 DEF TotalOf
  <2>4. g = [i \in 0 .. k |-> IF i = 0 THEN 0 ELSE g[i - 1] + numbers[i]]
    BY <2>1, <2>3
  <2>5. TotalOf(numbers, k, g)
    BY <2>4 DEF TotalOf
  <2> QED BY <2>5
<1> QED BY <1>2, <1>3

LEMMA MergedExists ==
  ASSUME NEW tokens, NEW n \in Nat
  PROVE  \E merged : MergedOf(tokens, n, merged)
<1> DEFINE T == {k \in Nat : ~\E merged : MergedOf(tokens, k, merged)}
<1> SUFFICES ASSUME T # {} PROVE FALSE
  OBVIOUS
<1>1. PICK k \in T : \A j \in T : k <= j
  BY Least
<1>2. CASE k = 0
  <2>1. MergedOf(tokens, 0, [i \in 0 .. 0 |-> <<>>])
    BY DEF MergedOf
  <2> QED BY <1>2, <2>1
<1>3. CASE k # 0
  <2>1. k \in Nat \ {0} /\ k - 1 \in Nat /\ k - 1 \notin T
    BY <1>1, <1>3
  <2>2. PICK f : MergedOf(tokens, k - 1, f)
    BY <2>1
  <2> DEFINE g == [i \in 0 .. k |-> IF i < k THEN f[i] ELSE MergeToken(f[k - 1], tokens[k])]
  <2>3. \A i \in 0 .. k - 1 : f[i] = IF i = 0 THEN <<>> ELSE MergeToken(f[i - 1], tokens[i])
    BY <2>2 DEF MergedOf
  <2>4. g = [i \in 0 .. k |-> IF i = 0 THEN <<>> ELSE MergeToken(g[i - 1], tokens[i])]
    BY <2>1, <2>3
  <2>5. MergedOf(tokens, k, g)
    BY <2>4 DEF MergedOf
  <2> QED BY <2>5
<1> QED BY <1>2, <1>3

LEMMA GroupedExists ==
  ASSUME NEW words, NEW n \in Nat
  PROVE  \E merged : GroupedOf(words, n, merged)
<1> DEFINE T == {k \in Nat : ~\E merged : GroupedOf(words, k, merged)}
<1> SUFFICES ASSUME T # {} PROVE FALSE
  OBVIOUS
<1>1. PICK k \in T : \A j \in T : k <= j
  BY Least
<1>2. CASE k = 0
  <2>1. GroupedOf(words, 0, [i \in 0 .. 0 |-> [groups |-> <<>>, current |-> <<>>]])
    BY DEF GroupedOf
  <2> QED BY <1>2, <2>1
<1>3. CASE k # 0
  <2>1. k \in Nat \ {0} /\ k - 1 \in Nat /\ k - 1 \notin T
    BY <1>1, <1>3
  <2>2. PICK f : GroupedOf(words, k - 1, f)
    BY <2>1
  <2> DEFINE g == [i \in 0 .. k |-> IF i < k THEN f[i] ELSE Group(f[k - 1], words[k])]
  <2>3. \A i \in 0 .. k - 1 : f[i] = IF i = 0 THEN [groups |-> <<>>, current |-> <<>>] ELSE Group(f[i - 1], words[i])
    BY <2>2 DEF GroupedOf
  <2>4. g = [i \in 0 .. k |-> IF i = 0 THEN [groups |-> <<>>, current |-> <<>>] ELSE Group(g[i - 1], words[i])]
    BY <2>1, <2>3
  <2>5. GroupedOf(words, k, g)
    BY <2>4 DEF GroupedOf
  <2> QED BY <2>5
<1> QED BY <1>2, <1>3

LEMMA ShownExists ==
  ASSUME NEW cues, NEW n \in Nat
  PROVE  \E merged : ShownOf(cues, n, merged)
<1> DEFINE T == {k \in Nat : ~\E merged : ShownOf(cues, k, merged)}
<1> SUFFICES ASSUME T # {} PROVE FALSE
  OBVIOUS
<1>1. PICK k \in T : \A j \in T : k <= j
  BY Least
<1>2. CASE k = 0
  <2>1. ShownOf(cues, 0, [i \in 0 .. 0 |-> <<>>])
    BY DEF ShownOf
  <2> QED BY <1>2, <2>1
<1>3. CASE k # 0
  <2>1. k \in Nat \ {0} /\ k - 1 \in Nat /\ k - 1 \notin T
    BY <1>1, <1>3
  <2>2. PICK f : ShownOf(cues, k - 1, f)
    BY <2>1
  <2> DEFINE g == [i \in 0 .. k |-> IF i < k THEN f[i] ELSE Collapse(f[k - 1], cues[k])]
  <2>3. \A i \in 0 .. k - 1 : f[i] = IF i = 0 THEN <<>> ELSE Collapse(f[i - 1], cues[i])
    BY <2>2 DEF ShownOf
  <2>4. g = [i \in 0 .. k |-> IF i = 0 THEN <<>> ELSE Collapse(g[i - 1], cues[i])]
    BY <2>1, <2>3
  <2>5. ShownOf(cues, k, g)
    BY <2>4 DEF ShownOf
  <2> QED BY <2>5
<1> QED BY <1>2, <1>3

-----------------------------------------------------------------------------
(* Widths. *)

LEMMA TotalIs ==
  ASSUME NEW numbers, NEW n \in Nat, Len(numbers) = n
  PROVE  \E total : TotalOf(numbers, n, total) /\ Total(numbers) = total[n]
<1> DEFINE f == CHOOSE total : TotalOf(numbers, n, total)
<1>1. TotalOf(numbers, n, f)
  BY TotalExists
<1>2. Total(numbers) = f[n]
  BY DEF Total, TotalOf
<1> QED BY <1>1, <1>2

LEMMA UpTo ==
  ASSUME NEW n \in Nat, NEW S, 0 \in S, \A k \in 1 .. n : k - 1 \in S => k \in S
  PROVE  \A k \in 0 .. n : k \in S
<1> DEFINE T == {k \in 0 .. n : k \notin S}
<1> SUFFICES ASSUME T # {} PROVE FALSE
  OBVIOUS
<1>1. PICK k \in T : \A j \in T : k <= j
  <2>1. \A j \in T : j \in Nat
    OBVIOUS
  <2> HIDE DEF T
  <2> QED BY <2>1, Least
<1>2. k \in 1 .. n /\ k - 1 \in 0 .. n /\ k - 1 \notin T
  BY <1>1
<1> QED BY <1>2

-----------------------------------------------------------------------------
(* Words from one place up to another. *)

Word == [texts : Seq(STRING), start : Int, end : Int, said : Nat]

Span(words, a, b) == SubSeq(words, a + 1, b)

LEMMA SpanIs ==
  ASSUME NEW words \in Seq(Word), NEW a \in Nat, NEW b \in Nat, a <= b, b <= Len(words)
  PROVE  /\ Span(words, a, b) \in Seq(Word) /\ Len(Span(words, a, b)) = b - a
         /\ DOMAIN Span(words, a, b) = 1 .. b - a
         /\ \A i \in 1 .. b - a : Span(words, a, b)[i] = words[a + i]
BY DEF Span

\* A sequence of the same length and with the same words is the span.
LEMMA IsSpan ==
  ASSUME NEW words \in Seq(Word), NEW a \in Nat, NEW b \in Nat, a <= b, b <= Len(words),
         NEW s \in Seq(Word), Len(s) = b - a, \A i \in 1 .. b - a : s[i] = words[a + i]
  PROVE  s = Span(words, a, b)
<1>1. PICK t : t = Span(words, a, b)
  OBVIOUS
<1>2. t \in Seq(Word) /\ Len(t) = b - a /\ \A i \in 1 .. b - a : t[i] = words[a + i]
  BY <1>1, SpanIs
<1>3. Len(t) = Len(s) /\ \A i \in 1 .. Len(s) : t[i] = s[i]
  BY <1>2
<1>4. t = s
  BY ONLY <1>2, <1>3, s \in Seq(Word)
<1> QED BY <1>1, <1>4

LEMMA SpanParts ==
  ASSUME NEW words \in Seq(Word), NEW a \in Nat, NEW b \in Nat, a <= b, b <= Len(words)
  PROVE  /\ \A i \in 0 .. b - a : /\ FirstPart(Span(words, a, b), i) = Span(words, a, a + i)
                                  /\ Rest(Span(words, a, b), i) = Span(words, a + i, b)
         /\ b < Len(words) => Append(Span(words, a, b), words[b + 1]) = Span(words, a, b + 1)
         /\ a < b => Last(Span(words, a, b)) = words[b] /\ Span(words, a, b)[1] = words[a + 1]
<1>0. PICK s : s = Span(words, a, b)
  OBVIOUS
<1>1. s \in Seq(Word) /\ Len(s) = b - a /\ \A i \in 1 .. b - a : s[i] = words[a + i]
  BY <1>0, SpanIs
<1>2. ASSUME NEW i \in 0 .. b - a
      PROVE  FirstPart(s, i) = Span(words, a, a + i)
  <2>1. PICK t : t = FirstPart(s, i)
    OBVIOUS
  <2>2. t \in Seq(Word) /\ Len(t) = i /\ \A j \in 1 .. i : t[j] = s[j]
    BY <1>1, <2>1 DEF FirstPart
  <2>3. PICK c : c = a + i
    OBVIOUS
  <2>4. c \in Nat /\ a <= c /\ c <= Len(words) /\ i = c - a
    BY <2>3
  <2>5. \A j \in 1 .. c - a : t[j] = words[a + j]
    BY <1>1, <2>2, <2>4
  <2>6. t = Span(words, a, c)
    BY <2>2, <2>4, <2>5, IsSpan
  <2> QED BY <2>1, <2>3, <2>6
<1>3. ASSUME NEW i \in 0 .. b - a
      PROVE  Rest(s, i) = Span(words, a + i, b)
  <2>1. PICK t : t = Rest(s, i)
    OBVIOUS
  <2>2. t \in Seq(Word) /\ Len(t) = b - a - i /\ \A j \in 1 .. b - a - i : t[j] = s[i + j]
    BY <1>1, <2>1 DEF Rest
  <2>3. PICK c : c = a + i
    OBVIOUS
  <2>4. c \in Nat /\ c <= b /\ b - a - i = b - c
    BY <2>3
  <2>5. \A j \in 1 .. b - c : i + j \in 1 .. b - a /\ a + (i + j) = c + j
    BY <2>3
  <2>6. \A j \in 1 .. b - c : t[j] = words[c + j]
    BY <1>1, <2>2, <2>4, <2>5
  <2>7. t = Span(words, c, b)
    BY <2>2, <2>4, <2>6, IsSpan
  <2> QED BY <2>1, <2>3, <2>7
<1>4. ASSUME b < Len(words)
      PROVE  Append(s, words[b + 1]) = Span(words, a, b + 1)
  <2>1. PICK w, c : w = words[b + 1] /\ c = b + 1
    OBVIOUS
  <2>2. c \in Nat /\ a <= c /\ c <= Len(words) /\ w \in Word /\ w = words[c]
    BY <1>4, <2>1
  <2>3. PICK t : t = Append(s, w)
    OBVIOUS
  <2>a. /\ t \in Seq(Word) /\ Len(t) = Len(s) + 1
        /\ \A i \in 1 .. Len(s) : t[i] = s[i]
        /\ t[Len(s) + 1] = w
    BY <1>1, <2>2, <2>3
  <2>4. /\ t \in Seq(Word) /\ Len(t) = c - a
        /\ \A i \in 1 .. b - a : t[i] = s[i]
        /\ t[c - a] = w
    BY <1>1, <2>1, <2>a
  <2>5. ASSUME NEW i \in 1 .. c - a PROVE t[i] = words[a + i]
    <3>1. CASE i = c - a
      <4>1. a + i = c
        BY <2>1, <3>1
      <4> QED BY <2>2, <2>4, <3>1, <4>1
    <3>2. CASE i # c - a
      <4>1. i \in 1 .. b - a
        BY <2>1, <3>2
      <4> QED BY <1>1, <2>4, <4>1
    <3> QED BY <3>1, <3>2
  <2>6. t = Span(words, a, c)
    BY <2>2, <2>4, <2>5, IsSpan
  <2> QED BY <2>1, <2>3, <2>6
<1>5. ASSUME a < b PROVE Last(s) = words[b] /\ s[1] = words[a + 1]
  BY <1>1, <1>5 DEF Last
<1> QED BY <1>0, <1>2, <1>3, <1>4, <1>5

LEMMA SpanJoins ==
  ASSUME NEW words \in Seq(Word), NEW a \in Nat, NEW b \in Nat, NEW m \in Nat,
         a <= m, m <= b, b <= Len(words)
  PROVE  Span(words, a, m) \o Span(words, m, b) = Span(words, a, b)
<1>0. PICK s, t : s = Span(words, a, m) /\ t = Span(words, m, b)
  OBVIOUS
<1>a. m <= Len(words)
  OBVIOUS
<1>1. s \in Seq(Word) /\ Len(s) = m - a /\ \A i \in 1 .. m - a : s[i] = words[a + i]
  <2>1. /\ Span(words, a, m) \in Seq(Word) /\ Len(Span(words, a, m)) = m - a
        /\ \A i \in 1 .. m - a : Span(words, a, m)[i] = words[a + i]
    BY <1>a DEF Span
  <2> QED BY <1>0, <2>1, Zenon
<1>2. t \in Seq(Word) /\ Len(t) = b - m /\ \A i \in 1 .. b - m : t[i] = words[m + i]
  <2>1. /\ Span(words, m, b) \in Seq(Word) /\ Len(Span(words, m, b)) = b - m
        /\ \A i \in 1 .. b - m : Span(words, m, b)[i] = words[m + i]
    BY DEF Span
  <2> QED BY <1>0, <2>1, Zenon
<1>3. PICK u : u = s \o t
  OBVIOUS
<1>b. /\ u \in Seq(Word) /\ Len(u) = Len(s) + Len(t)
      /\ \A i \in 1 .. Len(s) + Len(t) : u[i] = IF i <= Len(s) THEN s[i] ELSE t[i - Len(s)]
  <2>1. s \in Seq(Word) /\ t \in Seq(Word)
    BY <1>1, <1>2
  <2> QED BY <1>3, <2>1
<1>4. /\ u \in Seq(Word) /\ Len(u) = b - a
      /\ \A i \in 1 .. b - a : u[i] = IF i <= m - a THEN s[i] ELSE t[i - (m - a)]
  BY <1>1, <1>2, <1>b
<1>5. ASSUME NEW i \in 1 .. b - a PROVE u[i] = words[a + i]
  <2>1. CASE i <= m - a
    BY <1>1, <1>4, <2>1
  <2>2. CASE ~(i <= m - a)
    <3>1. PICK j : j = i - (m - a)
      OBVIOUS
    <3>2. j \in 1 .. b - m /\ m + j = a + i
      BY <2>2, <3>1
    <3> QED BY <1>2, <1>4, <2>2, <3>1, <3>2
  <2> QED BY <2>1, <2>2
<1>6. u = Span(words, a, b)
  BY <1>4, <1>5, IsSpan
<1> QED BY <1>0, <1>3, <1>6

-----------------------------------------------------------------------------
(* Widths. *)

Costs(words) == [i \in DOMAIN words |-> Size(words[i]) + 1]

LEMMA Lengths ==
  ASSUME NEW words \in Seq(Word)
  PROVE  Costs(words) = [i \in 1 .. Len(words) |-> Size(words[i]) + 1] /\ Len(Costs(words)) = Len(words)
<1>1. DOMAIN words = 1 .. Len(words) /\ Len(words) \in Nat
  OBVIOUS
<1> QED BY <1>1 DEF Costs

LEMMA TotalSteps ==
  ASSUME NEW n \in Nat, NEW numbers, NEW f, TotalOf(numbers, n, f)
  PROVE  f[0] = 0 /\ \A k \in 1 .. n : f[k] = f[k - 1] + numbers[k]
<1>1. \A k \in 0 .. n : f[k] = IF k = 0 THEN 0 ELSE f[k - 1] + numbers[k]
  BY DEF TotalOf
<1> QED BY <1>1

LEMMA TotalNatural ==
  ASSUME NEW n \in Nat, NEW numbers, NEW f, TotalOf(numbers, n, f),
         \A i \in 1 .. n : numbers[i] \in Nat
  PROVE  \A k \in 0 .. n : f[k] \in Nat
<1>0. \A k \in 0 .. n : f[k] = IF k = 0 THEN 0 ELSE f[k - 1] + numbers[k]
  BY DEF TotalOf
<1> DEFINE S == {k \in 0 .. n : f[k] \in Nat}
<1>1. 0 \in S
  BY <1>0
<1>2. ASSUME NEW k \in 1 .. n, k - 1 \in S PROVE k \in S
  BY <1>0, <1>2
<1>3. \A k \in 0 .. n : k \in S
  <2> HIDE DEF S
  <2> QED BY <1>1, <1>2, UpTo
<1> QED BY <1>3

\* What the words of a span take up is the difference of what those up to its end
\* and to its beginning do.
LEMMA WidthOfSpan ==
  ASSUME NEW words \in Seq(Word), \A i \in 1 .. Len(words) : Size(words[i]) \in Nat,
         NEW f, TotalOf(Costs(words), Len(words), f),
         NEW a \in Nat, NEW b \in Nat, a <= b, b <= Len(words)
  PROVE  f[a] \in Nat /\ f[b] \in Nat /\ Width(Span(words, a, b)) = f[b] - f[a] - 1
<1> DEFINE n == Len(words)
<1>1. n \in Nat /\ \A i \in 1 .. n : Costs(words)[i] \in Nat /\ Costs(words)[i] = Size(words[i]) + 1
  BY Lengths
<1>2. \A k \in 0 .. n : f[k] \in Nat
  BY <1>1, TotalNatural
<1>3. \A k \in 1 .. n : f[k] = f[k - 1] + Costs(words)[k]
  BY <1>1, TotalSteps
<1>4. PICK s : s = Span(words, a, b)
  OBVIOUS
<1>5. s \in Seq(Word) /\ Len(s) = b - a /\ \A i \in 1 .. b - a : s[i] = words[a + i]
  BY <1>4 DEF Span
<1>6. b - a \in Nat /\ Len(Costs(s)) = b - a /\ \A i \in 1 .. b - a : Costs(s)[i] = Size(words[a + i]) + 1
  BY <1>5, Lengths
<1>7. PICK g : TotalOf(Costs(s), b - a, g) /\ Total(Costs(s)) = g[b - a]
  BY <1>6, TotalIs
<1>8. g[0] = 0 /\ \A k \in 1 .. b - a : g[k] = g[k - 1] + Costs(s)[k]
  BY <1>6, <1>7, TotalSteps
<1> DEFINE S == {k \in 0 .. b - a : g[k] = f[a + k] - f[a]}
<1>9. 0 \in S
  BY <1>2, <1>8
<1>10. ASSUME NEW k \in 1 .. b - a, k - 1 \in S PROVE k \in S
  <2>1. a + k \in 1 .. n /\ a + (k - 1) = a + k - 1 /\ a + k - 1 \in 0 .. n /\ a \in 0 .. n
    OBVIOUS
  <2>2. g[k - 1] = f[a + k - 1] - f[a]
    BY <1>10, <2>1
  <2>3. f[a + k] = f[a + k - 1] + Costs(words)[a + k] /\ Costs(s)[k] = Costs(words)[a + k]
    BY <1>1, <1>3, <1>6, <2>1
  <2>4. /\ f[a + k] \in Nat /\ f[a + k - 1] \in Nat /\ f[a] \in Nat /\ Costs(words)[a + k] \in Nat
        /\ g[k] = g[k - 1] + Costs(s)[k]
    BY <1>1, <1>2, <1>8, <2>1
  <2>5. ASSUME NEW x \in Nat, NEW y \in Nat, NEW z \in Nat, NEW w \in Nat, NEW u, NEW v,
               u = v + w, v = y - z, x = y + w
        PROVE  u = x - z
    BY <2>5
  <2>6. g[k] = f[a + k] - f[a]
    BY ONLY <2>2, <2>3, <2>4, <2>5
  <2> QED BY <2>6
<1>11. b - a \in S
  <2> HIDE DEF S
  <2>1. \A k \in 0 .. b - a : k \in S
    BY <1>6, <1>9, <1>10, UpTo
  <2> QED BY <1>6, <2>1
<1>12. g[b - a] = f[b] - f[a]
  BY <1>11
<1>13. Width(s) = g[b - a] - 1
  BY <1>7 DEF Width, Costs
<1> QED BY <1>2, <1>4, <1>12, <1>13

\* A span within another is no wider.
LEMMA WidthShrinks ==
  ASSUME NEW words \in Seq(Word), \A i \in 1 .. Len(words) : Size(words[i]) \in Nat,
         NEW a \in Nat, NEW b \in Nat, NEW c \in Nat, NEW d \in Nat,
         a <= c, c <= d, d <= b, b <= Len(words)
  PROVE  /\ Width(Span(words, c, d)) \in Int /\ Width(Span(words, a, b)) \in Int
         /\ Width(Span(words, c, d)) <= Width(Span(words, a, b))
<1>0. Len(words) \in Nat /\ d <= Len(words)
  OBVIOUS
<1>1. PICK f : TotalOf(Costs(words), Len(words), f)
  BY <1>0, TotalExists
<1>2. \A k \in 1 .. Len(words) : f[k] = f[k - 1] + Costs(words)[k] /\ Costs(words)[k] \in Nat
  <2>1. \A k \in 1 .. Len(words) : Costs(words)[k] \in Nat
    BY Lengths
  <2> QED BY <1>0, <1>1, <2>1, TotalSteps
<1>3. \A k \in 0 .. Len(words) : f[k] \in Nat
  BY <1>0, <1>1, <1>2, TotalNatural
<1>4. ASSUME NEW p \in Nat, NEW q \in Nat, p <= q, q <= Len(words)
      PROVE  f[p] <= f[q]
  <2> DEFINE S == {k \in 0 .. q - p : f[p] <= f[p + k]}
  <2>1. 0 \in S
    BY <1>3, <1>4
  <2>2. ASSUME NEW k \in 1 .. q - p, k - 1 \in S PROVE k \in S
    <3>1. p + k \in 1 .. Len(words) /\ p + (k - 1) = p + k - 1 /\ p \in 0 .. Len(words)
          /\ p + k - 1 \in 0 .. Len(words) /\ p + k \in 0 .. Len(words)
      BY <1>4
    <3>2. f[p] <= f[p + k - 1]
      BY <2>2, <3>1
    <3>3. f[p + k] = f[p + k - 1] + Costs(words)[p + k] /\ Costs(words)[p + k] \in Nat
      BY <1>2, <3>1
    <3>4. f[p] \in Nat /\ f[p + k - 1] \in Nat /\ f[p + k] \in Nat
      BY <1>3, <3>1
    <3>5. f[p] <= f[p + k]
      BY <3>2, <3>3, <3>4
    <3> QED BY <3>5
  <2>3. q - p \in S
    <3>1. q - p \in Nat
      BY <1>4
    <3> HIDE DEF S
    <3>2. \A k \in 0 .. q - p : k \in S
      BY <2>1, <2>2, <3>1, UpTo
    <3> QED BY <3>1, <3>2
  <2> QED BY <2>3
<1>5. Width(Span(words, c, d)) = f[d] - f[c] - 1
  BY <1>0, <1>1, WidthOfSpan
<1>6. Width(Span(words, a, b)) = f[b] - f[a] - 1
  BY <1>0, <1>1, WidthOfSpan
<1>7. f[a] \in Nat /\ f[b] \in Nat /\ f[c] \in Nat /\ f[d] \in Nat
  BY <1>0, <1>3
<1>8. f[a] <= f[c] /\ f[d] <= f[b]
  BY <1>0, <1>4
<1>9. ASSUME NEW x \in Nat, NEW y \in Nat, NEW z \in Nat, NEW w \in Nat, x <= z, w <= y
      PROVE  w - z - 1 \in Int /\ y - x - 1 \in Int /\ w - z - 1 <= y - x - 1
  BY ONLY <1>9
<1>10. /\ f[d] - f[c] - 1 \in Int /\ f[b] - f[a] - 1 \in Int
       /\ f[d] - f[c] - 1 <= f[b] - f[a] - 1
  BY ONLY <1>7, <1>8, <1>9
<1> QED BY ONLY <1>5, <1>6, <1>10

-----------------------------------------------------------------------------
(* Lines. *)

\* Words whose texts can be measured.
Measured(words) == words \in Seq(Word) /\ \A i \in 1 .. Len(words) : Size(words[i]) \in Nat

Within(words, a, b) == a \in Nat /\ b \in Nat /\ a < b /\ b <= Len(words)

LaidOut(words) == OneLine(words) \/ Breaks(words) # {}

LEMMA BreaksOfSpan ==
  ASSUME NEW words, Measured(words), NEW a, NEW b, Within(words, a, b)
  PROVE  Breaks(Span(words, a, b)) = {i \in 1 .. b - a - 1 :
                                        /\ Width(Span(words, a, a + i)) <= MaxLineChars
                                        /\ Width(Span(words, a + i, b)) <= MaxLineChars}
<1>0. /\ a \in Nat /\ b \in Nat /\ a <= b /\ b <= Len(words) /\ words \in Seq(Word)
  BY DEF Within, Measured
<1>1. Len(Span(words, a, b)) = b - a
  BY <1>0, SpanIs
<1>2. \A i \in 1 .. b - a - 1 : /\ FirstPart(Span(words, a, b), i) = Span(words, a, a + i)
                                /\ Rest(Span(words, a, b), i) = Span(words, a + i, b)
  <2>1. \A i \in 1 .. b - a - 1 : i \in 0 .. b - a
    BY <1>0
  <2> QED BY <1>0, <2>1, SpanParts
<1> QED BY <1>1, <1>2 DEF Breaks

\* What fits still does with fewer words.
LEMMA LaidOutShrinks ==
  ASSUME NEW words, Measured(words), NEW a, NEW b, Within(words, a, b),
         NEW c, NEW d, Within(words, c, d), a <= c, d <= b, LaidOut(Span(words, a, b))
  PROVE  LaidOut(Span(words, c, d))
<1>0. /\ a \in Nat /\ b \in Nat /\ a < b /\ b <= Len(words) /\ words \in Seq(Word)
      /\ c \in Nat /\ d \in Nat /\ c < d /\ d <= Len(words)
      /\ \A i \in 1 .. Len(words) : Size(words[i]) \in Nat
  BY DEF Within, Measured
<1>1. ASSUME NEW p \in Nat, NEW q \in Nat, NEW r \in Nat, NEW t \in Nat,
             p <= r, r <= t, t <= q, q <= Len(words), Width(Span(words, p, q)) <= MaxLineChars
      PROVE  Width(Span(words, r, t)) <= MaxLineChars
  <2>1. /\ Width(Span(words, r, t)) \in Int /\ Width(Span(words, p, q)) \in Int
        /\ Width(Span(words, r, t)) <= Width(Span(words, p, q))
    BY <1>0, <1>1, WidthShrinks
  <2> QED BY <1>1, <2>1, ShapingConstants
<1>2. CASE Len(Span(words, a, b)) = 1
  <2>0. Len(Span(words, a, b)) = b - a
    <3>1. a <= b
      BY <1>0
    <3> QED BY ONLY <1>0, <3>1, SpanIs
  <2>1. b - a = 1
    BY <1>2, <2>0
  <2>2. a = c /\ b = d
    BY <1>0, <2>1
  <2> QED BY <2>2
<1>3. CASE Width(Span(words, a, b)) <= MaxLineChars
  <2>1. Width(Span(words, c, d)) <= MaxLineChars
    BY <1>0, <1>1, <1>3
  <2> QED BY <2>1 DEF LaidOut, OneLine
<1>4. CASE Breaks(Span(words, a, b)) # {}
  <2>1. PICK i \in 1 .. b - a - 1 : /\ Width(Span(words, a, a + i)) <= MaxLineChars
                                    /\ Width(Span(words, a + i, b)) <= MaxLineChars
    BY <1>4, BreaksOfSpan
  <2>2. PICK m : m = a + i
    OBVIOUS
  <2>3. m \in Nat /\ a < m /\ m < b /\ m <= Len(words)
    BY <1>0, <2>2
  <2>4. CASE d <= m
    <3>1. Width(Span(words, c, d)) <= MaxLineChars
      BY <1>0, <1>1, <2>1, <2>2, <2>3, <2>4
    <3> QED BY <3>1 DEF LaidOut, OneLine
  <2>5. CASE m <= c
    <3>1. Width(Span(words, c, d)) <= MaxLineChars
      BY <1>0, <1>1, <2>1, <2>2, <2>3, <2>5
    <3> QED BY <3>1 DEF LaidOut, OneLine
  <2>6. CASE c < m /\ m < d
    <3>1. Width(Span(words, c, m)) <= MaxLineChars
      BY <1>0, <1>1, <2>1, <2>2, <2>3, <2>6
    <3>2. Width(Span(words, m, d)) <= MaxLineChars
      BY <1>0, <1>1, <2>1, <2>2, <2>3, <2>6
    <3>3. m - c \in 1 .. d - c - 1 /\ c + (m - c) = m
      BY <1>0, <2>3, <2>6
    <3>4. m - c \in Breaks(Span(words, c, d))
      BY <3>1, <3>2, <3>3, BreaksOfSpan
    <3> QED BY <3>4 DEF LaidOut
  <2> QED BY <1>0, <2>3, <2>4, <2>5, <2>6
<1> QED BY <1>2, <1>3, <1>4 DEF LaidOut, OneLine

\* Of the breaks one is best.
LEMMA BestBreak ==
  ASSUME NEW words, Measured(words), NEW a, NEW b, Within(words, a, b),
         NEW s, s = Span(words, a, b), Breaks(s) # {}
  PROVE  \E i \in Breaks(s) : \A j \in Breaks(s) :
           \/ Unevenness(s, i) < Unevenness(s, j)
           \/ Unevenness(s, i) = Unevenness(s, j) /\ i <= j
<1>0. /\ a \in Nat /\ b \in Nat /\ a < b /\ b <= Len(words) /\ words \in Seq(Word)
      /\ \A i \in 1 .. Len(words) : Size(words[i]) \in Nat
  BY DEF Within, Measured
<1>1. ASSUME NEW i \in Breaks(s) PROVE i \in Nat /\ Unevenness(s, i) + 8 \in Nat /\ Unevenness(s, i) \in Int
  <2>1. i \in 1 .. b - a - 1
    BY <1>1, BreaksOfSpan
  <2>2. FirstPart(s, i) = Span(words, a, a + i) /\ Rest(s, i) = Span(words, a + i, b)
    <3>1. i \in 0 .. b - a /\ a <= b
      BY <1>0, <2>1
    <3> QED BY <1>0, <3>1, SpanParts
  <2>3. a + i \in Nat /\ a <= a + i /\ a + i <= b
    BY <1>0, <2>1
  <2>4. Width(FirstPart(s, i)) \in Int /\ Width(Rest(s, i)) \in Int
    BY <1>0, <2>2, <2>3, WidthShrinks
  <2> QED BY <2>1, <2>4 DEF Unevenness
<1> DEFINE U == {Unevenness(s, i) + 8 : i \in Breaks(s)}
<1>2. PICK u \in U : \A v \in U : u <= v
  <2>1. U # {} /\ \A v \in U : v \in Nat
    BY <1>1
  <2> HIDE DEF U
  <2> QED BY <2>1, Least
<1> DEFINE T == {i \in Breaks(s) : Unevenness(s, i) + 8 = u}
<1>3. PICK i \in T : \A j \in T : i <= j
  <2>1. T # {} /\ \A j \in T : j \in Nat
    BY <1>1
  <2> HIDE DEF T
  <2> QED BY <2>1, Least
<1>4. ASSUME NEW j \in Breaks(s)
      PROVE  \/ Unevenness(s, i) < Unevenness(s, j)
             \/ Unevenness(s, i) = Unevenness(s, j) /\ i <= j
  <2>1. u <= Unevenness(s, j) + 8 /\ Unevenness(s, i) + 8 = u
    BY <1>2, <1>3
  <2>2. Unevenness(s, j) + 8 = u => i <= j
    BY <1>3
  <2>3. Unevenness(s, j) + 8 \in Nat /\ Unevenness(s, i) + 8 \in Nat
    BY <1>1, <1>3
  <2>4. Unevenness(s, j) \in Int /\ Unevenness(s, i) \in Int
    BY <1>1, <1>3
  <2> QED BY <2>1, <2>2, <2>3, <2>4
<1> QED BY <1>3, <1>4

LEMMA Latest ==
  ASSUME NEW n \in Nat, NEW T, T \subseteq 1 .. n, T # {}
  PROVE  \E i \in T : \A j \in T : j <= i
<1> DEFINE U == {n - i : i \in T}
<1>1. PICK u \in U : \A v \in U : u <= v
  <2>1. U # {} /\ \A v \in U : v \in Nat
    OBVIOUS
  <2> HIDE DEF U
  <2> QED BY <2>1, Least
<1>2. PICK i \in T : u = n - i
  OBVIOUS
<1>3. \A j \in T : n - i <= n - j
  BY <1>1, <1>2
<1> QED BY <1>2, <1>3

\* The lines of words that fit: all of them, in their order, each line within the
\* width, unless it is a single word.
LEMMA LinesShow ==
  ASSUME NEW words, Measured(words), NEW a, NEW b, Within(words, a, b),
         NEW s, s = Span(words, a, b), LaidOut(s), NEW cue, cue.lines = Lines(s)
  PROVE  /\ Words(cue) = s /\ cue.lines \in Seq(Seq(Word))
         /\ \A l \in DOMAIN cue.lines : Width(cue.lines[l]) <= MaxLineChars \/ Len(s) = 1
<1>0. /\ a \in Nat /\ b \in Nat /\ a <= b /\ b <= Len(words) /\ words \in Seq(Word)
  BY DEF Within, Measured
<1>a. s \in Seq(Word)
  BY <1>0, SpanIs
<1>1. CASE OneLine(s)
  <2>1. cue.lines = << s >>
    BY <1>1 DEF Lines
  <2>2. cue.lines \in Seq(Seq(Word))
    BY <1>a, <2>1
  <2> QED BY <1>1, <2>1, <2>2 DEF Words, OneLine
<1>2. CASE ~OneLine(s)
  <2>1. Breaks(s) # {}
    BY <1>2 DEF LaidOut
  <2>2. PICK i \in Breaks(s) : cue.lines = << FirstPart(s, i), Rest(s, i) >>
    <3> DEFINE best == CHOOSE i \in Breaks(s) :
                         \A j \in Breaks(s) :
                           \/ Unevenness(s, i) < Unevenness(s, j)
                           \/ Unevenness(s, i) = Unevenness(s, j) /\ i <= j
    <3>1. best \in Breaks(s)
      BY <2>1, BestBreak
    <3>2. cue.lines = << FirstPart(s, best), Rest(s, best) >>
      BY <1>2, <2>1 DEF Lines
    <3> QED BY <3>1, <3>2
  <2>3. i \in 1 .. b - a - 1 /\ Width(FirstPart(s, i)) <= MaxLineChars /\ Width(Rest(s, i)) <= MaxLineChars
    <3>1. i \in 1 .. b - a - 1
      BY BreaksOfSpan
    <3> QED BY <3>1 DEF Breaks
  <2>4. FirstPart(s, i) \o Rest(s, i) = s
    <3>1. i \in 0 .. b - a
      BY <1>0, <2>3
    <3>2. FirstPart(s, i) = Span(words, a, a + i) /\ Rest(s, i) = Span(words, a + i, b)
      BY <1>0, <3>1, SpanParts
    <3>3. PICK c : c = a + i
      OBVIOUS
    <3>4. c \in Nat /\ a <= c /\ c <= b
      BY ONLY <1>0, <2>3, <3>3
    <3>5. Span(words, a, c) \o Span(words, c, b) = Span(words, a, b)
      BY ONLY <1>0, <3>4, SpanJoins
    <3> QED BY <3>2, <3>3, <3>5
  <2>5. PICK p, q : p = FirstPart(s, i) /\ q = Rest(s, i)
    OBVIOUS
  <2>6. cue.lines = << p, q >>
    BY <2>2, <2>5
  <2>7. Words(cue) = p \o q
    BY <2>6 DEF Words
  <2>8. p \in Seq(Word) /\ q \in Seq(Word)
    <3>1. Len(s) = b - a
      BY <1>0, SpanIs
    <3>2. i \in 1 .. Len(s)
      BY <2>3, <3>1, <1>0
    <3> QED BY <1>a, <2>5, <3>2 DEF FirstPart, Rest
  <2>9. cue.lines \in Seq(Seq(Word))
    BY <2>6, <2>8
  <2> QED BY <2>3, <2>4, <2>5, <2>6, <2>7, <2>9
<1> QED BY <1>1, <1>2

LEMMA ClauseEndWithin ==
  ASSUME NEW words \in Seq(Word), words # <<>>
  PROVE  ClauseEnd(words) \in 1 .. Len(words)
<1> DEFINE ends == {i \in 1 .. Len(words) - 1 : /\ Ends(words[i]) = "clause"
                                                /\ 3 * (Width(FirstPart(words, i)) + 1) >= Width(words)}
<1>0. Len(words) \in Nat \ {0}
  OBVIOUS
<1>1. CASE ends = {}
  BY <1>0, <1>1 DEF ClauseEnd
<1>2. CASE ends # {}
  <2>1. ends \subseteq 1 .. Len(words)
    BY <1>0
  <2>2. \E i \in ends : \A j \in ends : j <= i
    <3> HIDE DEF ends
    <3> QED BY <1>0, <1>2, <2>1, Latest
  <2>3. ClauseEnd(words) = CHOOSE i \in ends : \A j \in ends : j <= i
    BY <1>2 DEF ClauseEnd
  <2> HIDE DEF ends
  <2> QED BY <2>1, <2>2, <2>3
<1> QED BY <1>1, <1>2

-----------------------------------------------------------------------------
(* Tokens become words. *)

Token == [text : STRING, start : Int, end : Int, said : Nat]

\* As Tokens makes them: numbered.
Numbered(tokens) == tokens \in Seq(Token) /\ \A i \in 1 .. Len(tokens) : tokens[i].said = i

\* The place after a word's last token.
Past(w) == w.said + Len(w.texts)

\* A word has the texts of the tokens at its place.
Quotes(w, tokens, k) ==
  /\ w.texts # <<>> /\ w.said >= 1 /\ Past(w) <= k + 1
  /\ w.start = tokens[w.said].start
  /\ \A n \in 1 .. Len(w.texts) : w.texts[n] = tokens[w.said + n - 1].text

Merged(tokens, words, k) ==
  /\ words \in Seq(Word)
  /\ \A j \in 1 .. Len(words) : Quotes(words[j], tokens, k)
  /\ \A i, j \in 1 .. Len(words) : i < j => Past(words[i]) <= words[j].said
  /\ \A i \in 1 .. k : \E j \in 1 .. Len(words) : words[j].said <= i /\ i < Past(words[j])
  /\ words # <<>> => Past(words[Len(words)]) = k + 1

LEMMA MergeStep ==
  ASSUME NEW tokens, Numbered(tokens), NEW k \in 1 .. Len(tokens), NEW words, Merged(tokens, words, k - 1)
  PROVE  Merged(tokens, MergeToken(words, tokens[k]), k)
<1> DEFINE t == tokens[k]
           m == Len(words)
           n == Len(tokens)
<1>0. n \in Nat /\ k \in Nat /\ k >= 1 /\ m \in Nat /\ words \in Seq(Word) /\ k - 1 + 1 = k
  BY DEF Numbered, Merged
<1>1. t \in Token /\ t.said = k /\ t.text \in STRING /\ t.start \in Int /\ t.end \in Int
  <2>1. t \in Token /\ t.said = k
    BY <1>0 DEF Numbered
  <2> HIDE DEF t
  <2> QED BY <2>1 DEF Token
<1>2. \A j \in 1 .. m : /\ words[j] \in Word /\ words[j].texts \in Seq(STRING) /\ words[j].said \in Nat
                        /\ Len(words[j].texts) \in Nat
  <2>1. \A j \in 1 .. m : words[j] \in Word
    BY <1>0
  <2>2. \A w \in Word : w.texts \in Seq(STRING) /\ w.said \in Nat
    BY DEF Word
  <2>3. \A j \in 1 .. m : words[j].texts \in Seq(STRING) /\ words[j].said \in Nat
    BY <2>1, <2>2
  <2> QED BY <2>1, <2>3
<1>3. \A j \in 1 .. m : Quotes(words[j], tokens, k)
  <2> TAKE j \in 1 .. m
  <2>1. Quotes(words[j], tokens, k - 1)
    BY DEF Merged
  <2>2. Past(words[j]) \in Int /\ Past(words[j]) <= k
    BY <1>0, <1>2, <2>1 DEF Quotes, Past
  <2>3. Past(words[j]) <= k + 1
    BY ONLY <1>0, <2>2
  <2> QED BY ONLY <2>1, <2>3 DEF Quotes
<1>4. CASE ~(Continues(t.text) /\ words # <<>>)
  <2>1. PICK w : w = WordOf(t)
    OBVIOUS
  <2>2. /\ w \in Word /\ w.texts = << t.text >> /\ w.start = t.start /\ w.said = k
        /\ Len(w.texts) = 1 /\ w.texts[1] = t.text
    BY <1>0, <1>1, <2>1 DEF WordOf, Word
  <2>3. PICK all : all = Append(words, w)
    OBVIOUS
  <2>4. /\ all \in Seq(Word) /\ Len(all) = m + 1 /\ all[m + 1] = w
        /\ \A j \in 1 .. m : all[j] = words[j]
    BY <1>0, <2>2, <2>3
  <2>5. Past(w) = k + 1 /\ Quotes(w, tokens, k)
    <3>1. \A i \in 1 .. Len(w.texts) : i = 1 /\ w.said + i - 1 = k
      BY <1>0, <2>2
    <3> QED BY <1>0, <2>2, <3>1 DEF Past, Quotes
  <2>6. \A j \in 1 .. m : Past(words[j]) <= k
    BY <1>0 DEF Merged, Quotes
  <2>7. \A j \in 1 .. m + 1 : Quotes(all[j], tokens, k)
    BY <1>0, <1>3, <2>4, <2>5
  <2>8. \A i, j \in 1 .. m + 1 : i < j => Past(all[i]) <= all[j].said
    <3> TAKE i, j \in 1 .. m + 1
    <3> HAVE i < j
    <3>1. CASE j = m + 1
      <4>1. i \in 1 .. m
        BY <1>0, <3>1
      <4> QED BY <2>2, <2>4, <2>6, <3>1, <4>1
    <3>2. CASE j # m + 1
      <4>1. i \in 1 .. m /\ j \in 1 .. m
        BY <1>0, <3>2
      <4> QED BY <2>4, <4>1 DEF Merged
    <3> QED BY <3>1, <3>2
  <2>9. \A i \in 1 .. k : \E j \in 1 .. m + 1 : all[j].said <= i /\ i < Past(all[j])
    <3> TAKE i \in 1 .. k
    <3>1. CASE i = k
      <4>1. m + 1 \in 1 .. m + 1
        BY <1>0
      <4> QED BY <1>0, <2>2, <2>4, <2>5, <3>1, <4>1
    <3>2. CASE i # k
      <4>1. i \in 1 .. k - 1
        BY <1>0, <3>2
      <4>2. PICK j \in 1 .. m : words[j].said <= i /\ i < Past(words[j])
        BY <4>1 DEF Merged
      <4>3. j \in 1 .. m + 1
        BY <1>0
      <4> QED BY <2>4, <4>2, <4>3
    <3> QED BY <3>1, <3>2
  <2>10. Merged(tokens, all, k)
    BY <2>4, <2>5, <2>7, <2>8, <2>9 DEF Merged
  <2>11. MergeToken(words, t) = all
    BY <1>4, <2>1, <2>3 DEF MergeToken
  <2> QED BY <2>10, <2>11
<1>5. CASE Continues(t.text) /\ words # <<>>
  <2>0. m \in 1 .. m /\ m >= 1
    BY <1>0, <1>5
  <2>1. PICK v, w : v = words[m] /\ w = Longer(v, t)
    OBVIOUS
  <2>2. v \in Word /\ v.texts \in Seq(STRING) /\ Len(v.texts) \in Nat /\ v.said \in Nat
    BY <1>2, <2>0, <2>1
  <2>3. PICK u : u = Append(v.texts, t.text)
    OBVIOUS
  <2>4. /\ u \in Seq(STRING) /\ Len(u) = Len(v.texts) + 1 /\ u[Len(v.texts) + 1] = t.text
        /\ \A i \in 1 .. Len(v.texts) : u[i] = v.texts[i]
    BY <1>1, <2>2, <2>3
  <2>5. w \in Word /\ w.texts = u /\ w.said = v.said /\ w.start = v.start
    BY <1>1, <2>1, <2>2, <2>3, <2>4 DEF Word, Longer
  <2>6. PICK all : all = [words EXCEPT ![m] = w]
    OBVIOUS
  <2>7. /\ all \in Seq(Word) /\ Len(all) = m /\ all[m] = w
        /\ \A j \in 1 .. m : j # m => all[j] = words[j]
    BY <1>0, <2>0, <2>5, <2>6
  <2>8. Past(v) = k /\ Past(w) = k + 1 /\ Quotes(v, tokens, k)
    <3>1. Past(v) = k /\ Quotes(v, tokens, k)
      BY <1>0, <1>3, <1>5, <2>0, <2>1 DEF Merged
    <3>2. Past(v) = v.said + Len(v.texts) /\ Past(w) = v.said + (Len(v.texts) + 1)
      BY <2>4, <2>5 DEF Past
    <3> HIDE DEF Past
    <3> QED BY <1>0, <2>2, <3>1, <3>2
  <2>9. Quotes(w, tokens, k)
    <3>1. ASSUME NEW i \in 1 .. Len(u) PROVE u[i] = tokens[w.said + i - 1].text
      <4>1. CASE i = Len(u)
        <5>1. w.said + i - 1 = k
          BY <1>0, <2>2, <2>4, <2>5, <2>8, <4>1 DEF Past
        <5> QED BY <2>4, <4>1, <5>1
      <4>2. CASE i # Len(u)
        <5>1. i \in 1 .. Len(v.texts)
          BY <2>2, <2>4, <4>2
        <5> QED BY <2>4, <2>5, <2>8, <5>1 DEF Quotes
      <4> QED BY <4>1, <4>2
    <3>2. u # <<>>
      BY <2>2, <2>4
    <3>3. w.said >= 1 /\ w.start = tokens[w.said].start
      BY <2>5, <2>8 DEF Quotes
    <3> QED BY <1>0, <2>5, <2>8, <3>1, <3>2, <3>3 DEF Quotes
  <2>10. \A j \in 1 .. m : Quotes(all[j], tokens, k)
    BY <1>3, <2>7, <2>9
  <2>11. \A i, j \in 1 .. m : i < j => Past(all[i]) <= all[j].said
    <3> TAKE i, j \in 1 .. m
    <3> HAVE i < j
    <3>1. i # m /\ Past(words[i]) <= words[j].said
      BY <1>0 DEF Merged
    <3>2. all[j].said = words[j].said
      BY <2>1, <2>5, <2>7
    <3> QED BY <2>7, <3>1, <3>2
  <2>12. \A i \in 1 .. k : \E j \in 1 .. m : all[j].said <= i /\ i < Past(all[j])
    <3> TAKE i \in 1 .. k
    <3>1. CASE i = k
      <4>1. w.said <= k
        BY <1>0, <2>2, <2>5, <2>8 DEF Past
      <4> QED BY <1>0, <2>0, <2>7, <2>8, <3>1, <4>1
    <3>2. CASE i # k
      <4>1. i \in 1 .. k - 1
        BY <1>0, <3>2
      <4>2. PICK j \in 1 .. m : words[j].said <= i /\ i < Past(words[j])
        BY <4>1 DEF Merged
      <4>3. CASE j = m
        <5>1. all[m].said <= i /\ i < Past(all[m])
          BY <1>0, <2>1, <2>5, <2>7, <2>8, <4>1, <4>2, <4>3
        <5> QED BY <2>0, <5>1
      <4>4. CASE j # m
        BY <2>7, <4>2, <4>4
      <4> QED BY <4>3, <4>4
    <3> QED BY <3>1, <3>2
  <2>13. Merged(tokens, all, k)
    BY <2>7, <2>8, <2>10, <2>11, <2>12 DEF Merged
  <2>14. MergeToken(words, t) = all
    <3>1. MergeToken(words, t) = [words EXCEPT ![m] = Longer(words[m], t)]
      BY <1>5 DEF MergeToken
    <3> QED BY <2>1, <2>6, <3>1, Zenon
  <2> QED BY <2>13, <2>14
<1> QED BY <1>4, <1>5

LEMMA MergedWords ==
  ASSUME NEW tokens, Numbered(tokens)
  PROVE  \E words : /\ Merged(tokens, words, Len(tokens))
                    /\ MergeTokens(tokens) = [i \in DOMAIN words |-> Clipped(words[i])]
<1> DEFINE n == Len(tokens)
           f == CHOOSE merged : MergedOf(tokens, n, merged)
<1>0. n \in Nat
  BY DEF Numbered
<1>1. MergedOf(tokens, n, f)
  BY <1>0, MergedExists
<1>2. MergeTokens(tokens) = [i \in DOMAIN f[n] |-> Clipped(f[n][i])]
  BY DEF MergeTokens, MergedOf
<1> HIDE DEF f
<1>3. f[0] = <<>> /\ \A k \in 1 .. n : f[k] = MergeToken(f[k - 1], tokens[k])
  <2>1. \A k \in 0 .. n : f[k] = IF k = 0 THEN <<>> ELSE MergeToken(f[k - 1], tokens[k])
    BY <1>1 DEF MergedOf
  <2> QED BY <1>0, <2>1
<1> DEFINE S == {k \in 0 .. n : Merged(tokens, f[k], k)}
<1>4. 0 \in S
  <2>1. <<>> \in Seq(Word) /\ Len(<<>>) = 0
    OBVIOUS
  <2>2. Merged(tokens, <<>>, 0)
    BY <2>1 DEF Merged
  <2> QED BY <1>0, <1>3, <2>2
<1>5. ASSUME NEW k \in 1 .. n, k - 1 \in S PROVE k \in S
  <2>1. Merged(tokens, f[k - 1], k - 1)
    BY <1>5
  <2>2. Merged(tokens, f[k], k)
    BY <1>3, <2>1, MergeStep
  <2> QED BY <2>2
<1>6. n \in S
  <2> HIDE DEF S
  <2>1. \A k \in 0 .. n : k \in S
    BY <1>0, <1>4, <1>5, UpTo
  <2> QED BY <1>0, <2>1
<1>7. Merged(tokens, f[n], n)
  BY <1>6
<1> QED BY <1>2, <1>7

\* What shaping relies on.
Spoken(words) ==
  /\ Measured(words)
  /\ \A i, j \in 1 .. Len(words) : i < j => words[i].said < words[j].said
  /\ \A i \in 1 .. Len(words) : words[i].end - words[i].start <= MaxWord

\* The words of a transcript.
LEMMA WordsSpoken ==
  ASSUME NEW tokens, Numbered(tokens), \A i \in 1 .. Len(tokens) : Chars(tokens[i].text) \in Nat
  PROVE  /\ Spoken(MergeTokens(tokens)) /\ Spells(MergeTokens(tokens), tokens)
         /\ \A i \in 1 .. Len(MergeTokens(tokens)) :
              LET w == MergeTokens(tokens)[i]
              IN  w.said \in 1 .. Len(tokens) /\ w.start = tokens[w.said].start
<1>1. PICK merged : /\ Merged(tokens, merged, Len(tokens))
                    /\ MergeTokens(tokens) = [i \in DOMAIN merged |-> Clipped(merged[i])]
  BY MergedWords
<1>2. PICK words : words = MergeTokens(tokens)
  OBVIOUS
<1>3. merged \in Seq(Word) /\ DOMAIN merged = 1 .. Len(merged) /\ Len(merged) \in Nat
      /\ Len(tokens) \in Nat /\ DOMAIN tokens = 1 .. Len(tokens)
  BY <1>1 DEF Merged, Numbered
<1>4. ASSUME NEW w \in Word
      PROVE  /\ Clipped(w) \in Word /\ Clipped(w).texts = w.texts /\ Clipped(w).said = w.said
             /\ Clipped(w).start = w.start /\ Clipped(w).end - w.start <= MaxWord
  BY ShapingConstants DEF Clipped, Word, MaxWord
<1>5. \A i \in 1 .. Len(merged) : merged[i] \in Word /\ words[i] = Clipped(merged[i])
  BY <1>1, <1>2, <1>3
<1>6. /\ words \in Seq(Word) /\ Len(words) = Len(merged) /\ DOMAIN words = 1 .. Len(merged)
      /\ \A i \in 1 .. Len(merged) :
           /\ words[i] \in Word /\ words[i].texts = merged[i].texts /\ words[i].said = merged[i].said
           /\ words[i].start = merged[i].start /\ words[i].end - words[i].start <= MaxWord
  <2>1. \A i \in 1 .. Len(merged) :
           /\ words[i] \in Word /\ words[i].texts = merged[i].texts /\ words[i].said = merged[i].said
           /\ words[i].start = merged[i].start /\ words[i].end - words[i].start <= MaxWord
    BY <1>4, <1>5
  <2>2. words = [i \in 1 .. Len(merged) |-> words[i]]
    BY <1>1, <1>2, <1>3
  <2>3. words \in Seq(Word) /\ Len(words) = Len(merged)
    BY <1>3, <2>1, <2>2
  <2> QED BY <1>3, <2>1, <2>3
<1>7. \A i \in 1 .. Len(merged) : /\ words[i].texts \in Seq(STRING) /\ words[i].said \in Nat
                                  /\ Len(words[i].texts) \in Nat
  <2>1. \A w \in Word : w.texts \in Seq(STRING) /\ w.said \in Nat /\ Len(w.texts) \in Nat
    BY DEF Word
  <2> QED BY <1>6, <2>1
<1>8. ASSUME NEW i \in 1 .. Len(merged)
      PROVE  /\ words[i].said >= 1 /\ words[i].said + Len(words[i].texts) <= Len(tokens) + 1
             /\ Len(words[i].texts) >= 1 /\ words[i].start = tokens[words[i].said].start
             /\ \A n \in 1 .. Len(words[i].texts) : words[i].texts[n] = tokens[words[i].said + n - 1].text
  <2>1. Quotes(merged[i], tokens, Len(tokens))
    BY <1>1 DEF Merged
  <2> QED BY <1>6, <1>7, <2>1 DEF Quotes, Past
<1>9. ASSUME NEW i \in 1 .. Len(merged) PROVE Size(words[i]) \in Nat
  <2> DEFINE w == words[i]
             sizes == [n \in DOMAIN w.texts |-> Chars(w.texts[n])]
             m == Len(w.texts)
  <2>1. m \in Nat /\ DOMAIN w.texts = 1 .. m
    BY <1>7
  <2>2. Len(sizes) = m /\ \A n \in 1 .. m : sizes[n] \in Nat
    <3>1. ASSUME NEW n \in 1 .. m PROVE Chars(w.texts[n]) \in Nat
      <4>1. /\ w.said \in Nat /\ w.said >= 1 /\ m \in Nat /\ Len(tokens) \in Nat
            /\ w.said + m <= Len(tokens) + 1
        BY <1>3, <1>7, <1>8
      <4>2. PICK at, last : at = w.said /\ last = Len(tokens)
        OBVIOUS
      <4>3. at \in Nat /\ at >= 1 /\ m \in Nat /\ last \in Nat /\ at + m <= last + 1
        BY ONLY <4>1, <4>2
      <4>4. PICK e : e = m
        OBVIOUS
      <4>5. e \in Nat /\ n \in 1 .. e /\ at + e <= last + 1
        BY ONLY <4>3, <4>4, n \in 1 .. m
      <4>6. at + n - 1 \in 1 .. last
        BY ONLY <4>3, <4>5
      <4> QED BY <1>8, <4>2, <4>6
    <3> QED BY <2>1, <3>1
  <2>3. Size(w) = Total(sizes)
    BY DEF Size
  <2> HIDE DEF sizes, w
  <2>4. PICK f : TotalOf(sizes, m, f) /\ Total(sizes) = f[m]
    BY <2>1, <2>2, TotalIs
  <2>5. f[m] \in Nat
    BY <2>1, <2>2, <2>4, TotalNatural
  <2> QED BY <2>3, <2>4, <2>5 DEF w
<1>10. \A i, j \in 1 .. Len(merged) : i < j => words[i].said < words[j].said
  <2> TAKE i, j \in 1 .. Len(merged)
  <2> HAVE i < j
  <2>1. words[i].said + Len(words[i].texts) <= words[j].said
    BY <1>1, <1>6 DEF Merged, Past
  <2> QED BY <1>7, <1>8, <2>1
<1>11. Spoken(words)
  BY <1>6, <1>9, <1>10 DEF Spoken, Measured
<1>12. Spells(words, tokens)
  <2>1. \A j \in 1 .. Len(merged) : \A n \in DOMAIN words[j].texts :
          /\ words[j].said + n - 1 \in DOMAIN tokens
          /\ words[j].texts[n] = tokens[words[j].said + n - 1].text
    <3> TAKE j \in 1 .. Len(merged)
    <3>1. DOMAIN words[j].texts = 1 .. Len(words[j].texts)
      BY <1>7
    <3> TAKE n \in DOMAIN words[j].texts
    <3>2. words[j].texts[n] = tokens[words[j].said + n - 1].text
      BY <1>8, <3>1
    <3>3. words[j].said + n - 1 \in 1 .. Len(tokens)
      <4>1. PICK at, m, last : at = words[j].said /\ m = Len(words[j].texts) /\ last = Len(tokens)
        OBVIOUS
      <4>2. at \in Nat /\ at >= 1 /\ m \in Nat /\ last \in Nat /\ at + m <= last + 1
        BY <1>3, <1>7, <1>8, <4>1
      <4>3. n \in 1 .. m
        BY ONLY <3>1, <4>1, n \in DOMAIN words[j].texts
      <4>4. at + n - 1 \in 1 .. last
        BY ONLY <4>2, <4>3
      <4> QED BY ONLY <4>1, <4>4
    <3> QED BY <1>3, <3>2, <3>3
  <2>2. ASSUME NEW i \in 1 .. Len(tokens)
        PROVE  \E j \in 1 .. Len(merged) : i - words[j].said + 1 \in DOMAIN words[j].texts
    <3>1. PICK j \in 1 .. Len(merged) : merged[j].said <= i /\ i < Past(merged[j])
      BY <1>1, <2>2 DEF Merged
    <3>2. words[j].said <= i /\ i < words[j].said + Len(words[j].texts)
      BY <1>6, <3>1 DEF Past
    <3>3. i - words[j].said + 1 \in 1 .. Len(words[j].texts)
      BY <1>7, <3>2
    <3>4. DOMAIN words[j].texts = 1 .. Len(words[j].texts)
      BY <1>7
    <3> QED BY <3>3, <3>4
  <2> QED BY <1>3, <1>6, <2>1, <2>2 DEF Spells
<1>13. \A i \in 1 .. Len(words) : words[i].said \in 1 .. Len(tokens) /\ words[i].start = tokens[words[i].said].start
  BY <1>3, <1>6, <1>7, <1>8
<1> QED BY <1>2, <1>11, <1>12, <1>13

-----------------------------------------------------------------------------
(* Words become groups. *)

\* The words come in the order of their starts.
Sorted(words) == \A i, j \in 1 .. Len(words) : i < j => words[i].start <= words[j].start

\* A cue can be made of these words: they fit on the screen, without a pause between
\* them, and for no longer than a cue may stay.
Good(words, a, b) ==
  /\ Within(words, a, b) /\ LaidOut(Span(words, a, b))
  /\ \A i \in a + 2 .. b : words[i].start - words[i - 1].end < PauseSplit
  /\ Sorted(words) => \A i \in a + 1 .. b : words[i].end - words[a + 1].start <= MaxCue

LEMMA WordTypes ==
  ASSUME NEW words, Measured(words)
  PROVE  /\ words \in Seq(Word) /\ Len(words) \in Nat /\ DOMAIN words = 1 .. Len(words)
         /\ \A i \in 1 .. Len(words) : /\ words[i] \in Word /\ words[i].start \in Int /\ words[i].end \in Int
                                       /\ words[i].said \in Nat /\ words[i].texts \in Seq(STRING)
<1>1. words \in Seq(Word)
  BY DEF Measured
<1>2. \A w \in Word : w.start \in Int /\ w.end \in Int /\ w.said \in Nat /\ w.texts \in Seq(STRING)
  BY DEF Word
<1>3. \A i \in 1 .. Len(words) : words[i] \in Word
  BY <1>1
<1>4. Len(words) \in Nat /\ DOMAIN words = 1 .. Len(words)
  BY <1>1
<1> QED BY <1>1, <1>2, <1>3, <1>4

LEMMA Spans == Second \in Nat \ {0} /\ PauseSplit = Second /\ RepeatGap = Second /\ MaxWord = 3 * Second
               /\ MaxCue = 7 * Second /\ MinCue = Second /\ MaxCue \in Nat /\ MinCue \in Nat
BY ShapingConstants DEF PauseSplit, RepeatGap, MaxWord, MaxCue, MinCue

LEMMA GoodShrinks ==
  ASSUME NEW words, Spoken(words), NEW a, NEW b, Good(words, a, b),
         NEW c \in Nat, NEW d \in Nat, a <= c, c < d, d <= b
  PROVE  Good(words, c, d)
<1>0. /\ a \in Nat /\ b \in Nat /\ a < b /\ b <= Len(words) /\ Measured(words)
      /\ Within(words, a, b) /\ LaidOut(Span(words, a, b))
  BY DEF Good, Within, Spoken
<1>1. Len(words) \in Nat /\ \A i \in 1 .. Len(words) : words[i].start \in Int /\ words[i].end \in Int
  BY <1>0, WordTypes
<1>2. Within(words, c, d)
  BY <1>0, <1>1 DEF Within
<1>3. LaidOut(Span(words, c, d))
  BY <1>0, <1>2, LaidOutShrinks
<1>4. \A i \in c + 2 .. d : words[i].start - words[i - 1].end < PauseSplit
  <2>1. \A i \in c + 2 .. d : i \in a + 2 .. b
    BY <1>0
  <2> QED BY <2>1 DEF Good
<1>5. ASSUME Sorted(words), NEW i \in c + 1 .. d
      PROVE  words[i].end - words[c + 1].start <= MaxCue
  <2>1. i \in a + 1 .. b /\ i \in 1 .. Len(words) /\ c + 1 \in 1 .. Len(words) /\ a + 1 \in 1 .. Len(words)
    BY <1>0, <1>1
  <2>2. words[i].end - words[a + 1].start <= MaxCue
    BY <1>5, <2>1 DEF Good
  <2>3. words[a + 1].start <= words[c + 1].start
    <3>1. CASE a = c
      BY <1>1, <2>1, <3>1
    <3>2. CASE a # c
      <4>1. a + 1 < c + 1
        BY <1>0, <3>2
      <4> QED BY <1>5, <2>1, <4>1 DEF Sorted
    <3> QED BY <3>1, <3>2
  <2>4. /\ words[i].end \in Int /\ words[a + 1].start \in Int /\ words[c + 1].start \in Int
        /\ MaxCue \in Nat
    BY ONLY <1>1, <2>1, Spans
  <2>5. ASSUME NEW x \in Int, NEW y \in Int, NEW z \in Int, NEW w \in Nat, x - y <= w, y <= z
        PROVE  x - z <= w
    BY ONLY <2>5
  <2> QED BY ONLY <2>2, <2>3, <2>4, <2>5
<1> QED BY <1>2, <1>3, <1>4, <1>5 DEF Good

LEMMA GoodOne ==
  ASSUME NEW words, Spoken(words), NEW a \in Nat, a < Len(words)
  PROVE  Good(words, a, a + 1)
<1>0. Measured(words) /\ words \in Seq(Word) /\ Len(words) \in Nat
  BY WordTypes DEF Spoken
<1>1. a + 1 \in Nat /\ a <= a + 1 /\ a + 1 <= Len(words) /\ a + 1 - a = 1 /\ a + 1 \in 1 .. Len(words)
  BY <1>0
<1>2. Len(Span(words, a, a + 1)) = 1
  <2>1. PICK c : c = a + 1
    OBVIOUS
  <2>2. c \in Nat /\ a <= c /\ c <= Len(words) /\ c - a = 1
    BY <1>1, <2>1
  <2>3. Len(Span(words, a, c)) = c - a
    BY <1>0, <2>2, SpanIs
  <2> QED BY <2>1, <2>2, <2>3
<1>3. \A i \in a + 2 .. a + 1 : FALSE
  OBVIOUS
<1>4. words[a + 1].end - words[a + 1].start <= MaxCue
  <2>1. words[a + 1].end - words[a + 1].start <= MaxWord
    BY <1>1 DEF Spoken
  <2>2. words[a + 1].start \in Int /\ words[a + 1].end \in Int
    BY <1>0, <1>1, WordTypes
  <2> QED BY <2>1, <2>2, Spans
<1>5. \A i \in a + 1 .. a + 1 : i = a + 1
  OBVIOUS
<1>6. Within(words, a, a + 1)
  BY <1>1 DEF Within
<1> QED BY <1>2, <1>3, <1>4, <1>5, <1>6 DEF Good, LaidOut, OneLine

LEMMA GoodNext ==
  ASSUME NEW words, Spoken(words), NEW a, NEW b, Good(words, a, b), b < Len(words),
         Fits(Append(Span(words, a, b), words[b + 1])),
         words[b + 1].start - words[b].end < PauseSplit
  PROVE  Good(words, a, b + 1)
<1>0. /\ a \in Nat /\ b \in Nat /\ a < b /\ b <= Len(words) /\ Measured(words)
  BY DEF Good, Within, Spoken
<1>1. words \in Seq(Word) /\ Len(words) \in Nat
  BY <1>0, WordTypes
<1>2. PICK c : c = b + 1
  OBVIOUS
<1>3. c \in Nat /\ a < c /\ a <= c /\ c <= Len(words) /\ b = c - 1 /\ a <= b
  BY <1>0, <1>1, <1>2
<1>4. PICK s : s = Span(words, a, c)
  OBVIOUS
<1>5. Len(s) = c - a /\ c - a # 1 /\ Last(s) = words[c] /\ s[1] = words[a + 1]
  <2>1. Len(s) = c - a
    BY <1>1, <1>3, <1>4, <1>0, SpanIs
  <2>2. Last(s) = words[c] /\ s[1] = words[a + 1]
    BY <1>1, <1>3, <1>4, <1>0, SpanParts
  <2>3. c - a # 1
    BY <1>0, <1>2
  <2> QED BY <2>1, <2>2, <2>3
<1>6. Fits(s)
  <2>1. Append(Span(words, a, b), words[b + 1]) = Span(words, a, b + 1)
    BY <1>0, <1>1, <1>3, SpanParts
  <2> QED BY <1>2, <1>4, <2>1
<1>7. Last(s).end - s[1].start <= MaxCue /\ LaidOut(s)
  BY <1>5, <1>6 DEF Fits, LaidOut
<1>8. Within(words, a, c)
  BY <1>0, <1>3 DEF Within
<1>9. \A i \in a + 2 .. c : words[i].start - words[i - 1].end < PauseSplit
  <2> TAKE i \in a + 2 .. c
  <2>1. CASE i = c
    BY <1>2, <1>3, <2>1
  <2>2. CASE i # c
    <3>1. i \in a + 2 .. b
      BY <1>0, <1>2, <2>2
    <3> QED BY <3>1 DEF Good
  <2> QED BY <2>1, <2>2
<1>10. ASSUME Sorted(words), NEW i \in a + 1 .. c
       PROVE  words[i].end - words[a + 1].start <= MaxCue
  <2>1. CASE i = c
    BY <1>5, <1>7, <2>1
  <2>2. CASE i # c
    <3>1. i \in a + 1 .. b
      BY <1>0, <1>2, <2>2
    <3> QED BY <1>10, <3>1 DEF Good
  <2> QED BY <2>1, <2>2
<1>11. Good(words, a, c)
  BY <1>4, <1>7, <1>8, <1>9, <1>10 DEF Good
<1> QED BY <1>2, <1>11

\* The groups are cut one after another out of the words.
Cut(words, groups, cut) ==
  /\ groups \in Seq(Seq(Word)) /\ cut \in [Nat -> Nat] /\ cut[0] = 0
  /\ \A m, n \in 0 .. Len(groups) : m < n => cut[m] < cut[n]
  /\ cut[Len(groups)] <= Len(words)
  /\ \A n \in 1 .. Len(groups) : /\ groups[n] = Span(words, cut[n - 1], cut[n])
                                 /\ Good(words, cut[n - 1], cut[n])

LEMMA CutTypes ==
  ASSUME NEW words, NEW groups, NEW cut, Cut(words, groups, cut)
  PROVE  /\ groups \in Seq(Seq(Word)) /\ Len(groups) \in Nat /\ DOMAIN groups = 1 .. Len(groups)
         /\ cut \in [Nat -> Nat] /\ \A i \in 0 .. Len(groups) : cut[i] \in Nat
         /\ cut[Len(groups)] \in Nat
<1>1. groups \in Seq(Seq(Word)) /\ cut \in [Nat -> Nat]
  BY DEF Cut
<1>2. Len(groups) \in Nat /\ DOMAIN groups = 1 .. Len(groups)
  BY <1>1
<1> QED BY <1>1, <1>2

\* After the first n groups, which end at b, comes one that ends at c.
NextGroup(words, groups, cut, n, b, c, all) ==
  /\ Measured(words) /\ Cut(words, groups, cut) /\ n = Len(groups) /\ b = cut[n]
  /\ Good(words, b, c) /\ all = Append(groups, Span(words, b, c))

LEMMA CutOnce ==
  ASSUME NEW words, NEW groups, NEW cut, NEW n, NEW b, NEW c, NEW all,
         NextGroup(words, groups, cut, n, b, c, all)
  PROVE  Len(all) = n + 1 /\ \E next : Cut(words, all, next) /\ next[n + 1] = c
<1>e. /\ Measured(words) /\ Cut(words, groups, cut) /\ n = Len(groups) /\ b = cut[n]
      /\ Good(words, b, c) /\ all = Append(groups, Span(words, b, c))
  BY DEF NextGroup
<1>2. PICK s : s = Span(words, b, c)
  OBVIOUS
<1> DEFINE next == [i \in Nat |-> IF i <= n THEN cut[i] ELSE c]
<1>0. /\ n \in Nat /\ words \in Seq(Word) /\ groups \in Seq(Seq(Word)) /\ cut \in [Nat -> Nat]
      /\ \A i \in 0 .. n : cut[i] \in Nat
  BY <1>e, CutTypes DEF Measured
<1>a. b \in Nat /\ c \in Nat /\ b < c /\ b <= c /\ c <= Len(words)
  BY <1>e DEF Good, Within
<1>d. n \in Nat /\ \A i \in 0 .. n : cut[i] \in Nat
  BY <1>0
<1>1. s \in Seq(Word)
  BY <1>0, <1>2, <1>a, SpanIs
<1>b. /\ all \in Seq(Seq(Word)) /\ Len(all) = Len(groups) + 1 /\ all[Len(groups) + 1] = s
      /\ \A i \in 1 .. Len(groups) : all[i] = groups[i]
  <2>1. all = Append(groups, s) /\ groups \in Seq(Seq(Word))
    BY <1>0, <1>e, <1>2
  <2> QED BY ONLY <1>1, <2>1
<1>3. /\ all \in Seq(Seq(Word)) /\ Len(all) = n + 1 /\ all[n + 1] = s
      /\ \A i \in 1 .. n : all[i] = groups[i]
  BY <1>b, <1>e
<1>4. /\ next \in [Nat -> Nat] /\ next[n + 1] = c /\ \A i \in 0 .. n : next[i] = cut[i]
  <2>0. n \in Nat
    BY <1>d
  <2>1. \A i \in 0 .. n : i \in Nat /\ i <= n
    BY ONLY <2>0
  <2>2. n + 1 \in Nat /\ ~(n + 1 <= n)
    BY ONLY <2>0
  <2> QED BY <1>0, <1>a, <2>1, <2>2
<1> HIDE DEF next
<1>5. next[0] = 0 /\ next[n] = b
  <2>1. 0 \in 0 .. n /\ n \in 0 .. n /\ cut[0] = 0
    BY <1>0, <1>e DEF Cut
  <2> QED BY <1>4, <1>e, <2>1
<1>c. \A i, j \in 0 .. n : i < j => cut[i] < cut[j]
  BY <1>e DEF Cut
<1>6. \A i, j \in 0 .. n + 1 : i < j => next[i] < next[j]
  <2> TAKE i, j \in 0 .. n + 1
  <2> HAVE i < j
  <2>1. CASE j = n + 1
    <3>1. i \in 0 .. n /\ n \in 0 .. n /\ (i < n \/ i = n)
      BY <1>d, <2>1
    <3>2. cut[i] \in Nat /\ (cut[i] < b \/ cut[i] = b)
      BY <1>d, <1>c, <1>e, <3>1
    <3>3. cut[i] < c
      BY <1>a, <3>2
    <3> QED BY <1>4, <2>1, <3>1, <3>3
  <2>2. CASE j # n + 1
    <3>1. i \in 0 .. n /\ j \in 0 .. n
      BY <1>d, <2>2
    <3> QED BY <1>4, <1>c, <3>1
  <2> QED BY <2>1, <2>2
<1>7. \A i \in 1 .. n + 1 : all[i] = Span(words, next[i - 1], next[i]) /\ Good(words, next[i - 1], next[i])
  <2> TAKE i \in 1 .. n + 1
  <2>1. CASE i = n + 1
    <3>1. next[i - 1] = b /\ next[i] = c
      BY <1>0, <1>4, <1>5, <2>1
    <3>2. s = Span(words, b, c) /\ Good(words, b, c)
      BY <1>e, <1>2
    <3> QED BY <1>3, <2>1, <3>1, <3>2
  <2>2. CASE i # n + 1
    <3>1. i \in 1 .. n /\ i \in 0 .. n /\ i - 1 \in 0 .. n
      BY <1>d, <2>2
    <3>2. groups[i] = Span(words, cut[i - 1], cut[i]) /\ Good(words, cut[i - 1], cut[i])
      BY <1>e, <3>1 DEF Cut
    <3> QED BY <1>3, <1>4, <3>1, <3>2
  <2> QED BY <2>1, <2>2
<1>8. Cut(words, all, next)
  BY <1>a, <1>3, <1>4, <1>5, <1>6, <1>7 DEF Cut
<1> QED BY <1>3, <1>4, <1>8

\* So far: whole groups, and one that is being filled.
Grouped(words, g, k) ==
  /\ g \in [groups : Seq(Seq(Word)), current : Seq(Word)]
  /\ \E cut :
       /\ Cut(words, g.groups, cut)
       /\ g.current = Span(words, cut[Len(g.groups)], k)
       /\ IF k = 0 THEN cut[Len(g.groups)] = 0 ELSE Good(words, cut[Len(g.groups)], k)

LEMMA GroupStep ==
  ASSUME NEW words, Spoken(words), NEW k \in Nat, NEW d, d = k + 1, d <= Len(words),
         NEW g, Grouped(words, g, k)
  PROVE  Grouped(words, Group(g, words[d]), d)
<1>0. /\ words \in Seq(Word) /\ Len(words) \in Nat /\ Measured(words) /\ k < Len(words) /\ k <= Len(words)
      /\ d \in Nat /\ k <= d /\ d - k = 1 /\ d # 0 /\ words[d] \in Word
  <2>1. words \in Seq(Word) /\ Len(words) \in Nat /\ Measured(words)
    BY WordTypes DEF Spoken
  <2> QED BY <2>1
<1>f. Measured(words)
  BY <1>0
<1>1. PICK cut : /\ Cut(words, g.groups, cut)
                 /\ g.current = Span(words, cut[Len(g.groups)], k)
                 /\ IF k = 0 THEN cut[Len(g.groups)] = 0 ELSE Good(words, cut[Len(g.groups)], k)
  BY DEF Grouped
<1>2. PICK groups : groups = g.groups
  OBVIOUS
<1>a. PICK n : n = Len(groups)
  OBVIOUS
<1>b. PICK b : b = cut[n]
  OBVIOUS
<1>c. PICK current : current = g.current
  OBVIOUS
<1>d. PICK w : w = words[d]
  OBVIOUS
<1>3. /\ Cut(words, groups, cut) /\ current = Span(words, b, k)
      /\ IF k = 0 THEN b = 0 ELSE Good(words, b, k)
  BY <1>1, <1>2, <1>a, <1>b, <1>c, Zenon
<1>4. b \in Nat /\ n \in Nat /\ groups \in Seq(Seq(Word))
  BY <1>3, <1>a, <1>b, CutTypes
<1>5. b <= k /\ (k # 0 => b < k /\ Good(words, b, k))
  <2>1. CASE k = 0
    BY <1>3, <2>1
  <2>2. CASE k # 0
    <3>1. Good(words, b, k)
      BY <1>3, <2>2
    <3> QED BY <2>2, <3>1 DEF Good, Within
  <2> QED BY <2>1, <2>2
<1>6. Len(current) = k - b /\ current \in Seq(Word) /\ (current = <<>> <=> k = 0)
  <2>1. Len(current) = k - b /\ current \in Seq(Word)
    BY <1>0, <1>3, <1>4, <1>5, SpanIs
  <2> QED BY <1>3, <1>4, <1>5, <2>1
<1>7. Good(words, k, d)
  BY <1>0, GoodOne
<1>8. << w >> = Span(words, k, d)
  <2>1. << w >> \in Seq(Word) /\ Len(<< w >>) = 1 /\ << w >>[1] = w
    BY <1>0, <1>d
  <2>2. \A i \in 1 .. d - k : i = 1 /\ k + i = d
    BY <1>0
  <2>3. \A i \in 1 .. d - k : << w >>[i] = words[k + i]
    BY <1>d, <2>1, <2>2
  <2> QED BY <1>0, <2>1, <2>3, IsSpan
<1>9. k # 0 => Good(words, b, k) /\ Last(current) = words[k]
  <2> SUFFICES ASSUME k # 0 PROVE Last(current) = words[k]
    BY <1>5
  <2> QED BY <1>0, <1>3, <1>4, <1>5, SpanParts
<1>e. ASSUME k # 0, ~EndsGroup(current, w)
      PROVE  w.start - words[k].end < PauseSplit
  <2>1. ~(w.start - words[k].end >= PauseSplit)
    BY <1>9, <1>e DEF EndsGroup
  <2>2. w.start \in Int /\ words[k].end \in Int
    <3>1. k \in 1 .. Len(words) /\ d \in 1 .. Len(words)
      BY <1>0, <1>e
    <3> QED BY <1>0, <1>d, <3>1, WordTypes
  <2> QED BY <2>1, <2>2, Spans
<1>10. ASSUME NEW all, NEW last, NEW next, Cut(words, all, next),
              NEW c, c = next[Len(all)], last = Span(words, c, d), Good(words, c, d)
       PROVE  Grouped(words, [groups |-> all, current |-> last], d)
  <2>1. PICK made : made = [groups |-> all, current |-> last]
    OBVIOUS
  <2>2. made.groups = all /\ made.current = last
    BY <2>1
  <2>3. all \in Seq(Seq(Word)) /\ c \in Nat /\ c <= d
    <3>1. all \in Seq(Seq(Word))
      BY <1>10, CutTypes
    <3>2. c \in Nat /\ c <= d
      BY <1>10 DEF Good, Within
    <3> QED BY <3>1, <3>2
  <2>4. last \in Seq(Word)
    BY <1>0, <1>10, <2>3, SpanIs
  <2>5. made \in [groups : Seq(Seq(Word)), current : Seq(Word)]
    BY <2>1, <2>3, <2>4
  <2>6. Grouped(words, made, d)
    BY <1>0, <1>10, <2>2, <2>5 DEF Grouped
  <2> QED BY <2>1, <2>6
<1>11. CASE current # <<>> /\ EndsGroup(current, w)
  <2>1. Group(g, w) = [groups |-> Append(groups, current), current |-> << w >>]
    BY <1>2, <1>c, <1>11 DEF Group
  <2>2. PICK all : all = Append(groups, current)
    OBVIOUS
  <2>3. Good(words, b, k) /\ current = Span(words, b, k)
    BY <1>3, <1>6, <1>9, <1>11
  <2>4. PICK next : Cut(words, all, next) /\ next[n + 1] = k
    <3>1. Cut(words, groups, cut)
      BY <1>3
    <3>2. NextGroup(words, groups, cut, n, b, k, all)
      BY ONLY <1>f, <1>a, <1>b, <2>2, <2>3, <3>1 DEF NextGroup
    <3> QED BY ONLY <3>2, CutOnce
  <2>5. Len(all) = n + 1
    BY <1>4, <1>6, <1>a, <2>2
  <2>6. Grouped(words, [groups |-> all, current |-> << w >>], d)
    BY <1>7, <1>8, <1>10, <2>4, <2>5
  <2> QED BY <1>d, <2>1, <2>2, <2>6
<1>12. CASE /\ ~(current # <<>> /\ EndsGroup(current, w))
            /\ current = <<>> \/ Fits(Append(current, w))
  <2>1. Group(g, w) = [g EXCEPT !.current = Append(@, w)]
    BY <1>c, <1>12 DEF Group
  <2>2. Group(g, w) = [groups |-> groups, current |-> Append(current, w)]
    BY <1>2, <1>c, <2>1 DEF Grouped
  <2>3. Append(current, w) = Span(words, b, d)
    BY <1>0, <1>3, <1>4, <1>5, <1>d, SpanParts
  <2>4. Good(words, b, d)
    <3>1. CASE k = 0
      <4>1. b = k
        BY <1>3, <3>1
      <4> QED BY <1>7, <4>1
    <3>2. CASE k # 0
      <4>1. w.start - words[k].end < PauseSplit
        BY <1>6, <1>e, <1>12, <3>2
      <4>2. Fits(Append(Span(words, b, k), words[d]))
        BY <1>3, <1>6, <1>12, <1>d, <3>2
      <4> QED BY <1>0, <1>5, <1>d, <3>2, <4>1, <4>2, GoodNext
    <3> QED BY <3>1, <3>2
  <2>5. Grouped(words, [groups |-> groups, current |-> Append(current, w)], d)
    BY <1>3, <1>a, <1>b, <1>10, <2>3, <2>4
  <2> QED BY <1>d, <2>2, <2>5
<1>13. ASSUME k # 0, ~EndsGroup(current, w), ~Fits(Append(current, w))
       PROVE  Grouped(words, Group(g, w), d)
  <2>1. PICK full : full = ClauseEnd(current)
    OBVIOUS
  <2>2. full \in 1 .. k - b
    BY <1>6, <1>13, <2>1, ClauseEndWithin
  <2>3. PICK m : m = b + full
    OBVIOUS
  <2>4. m \in Nat /\ b < m /\ b <= m /\ m <= k /\ full \in 0 .. k - b
    BY <1>4, <1>0, <2>2, <2>3
  <2>5. PICK head, tail : head = FirstPart(current, full) /\ tail = Rest(current, full)
    OBVIOUS
  <2>6. head = Span(words, b, m) /\ tail = Span(words, m, k)
    BY <1>0, <1>3, <1>4, <1>5, <2>3, <2>4, <2>5, SpanParts
  <2>7. Good(words, b, m) /\ (m < k => Good(words, m, k))
    BY <1>5, <1>13, <1>4, <2>4, GoodShrinks
  <2>8. tail \in Seq(Word) /\ head \in Seq(Word) /\ (tail = <<>> <=> m = k)
    <3>1. tail \in Seq(Word) /\ Len(tail) = k - m
      BY <1>0, <2>4, <2>6, SpanIs
    <3>2. m <= Len(words)
      BY <1>0, <2>4
    <3>3. head \in Seq(Word)
      BY <1>0, <1>4, <2>4, <2>6, <3>2, SpanIs
    <3> QED BY <2>4, <3>1, <3>3
  <2>9. PICK all : all = Append(groups, head)
    OBVIOUS
  <2>10. PICK next : Cut(words, all, next) /\ next[n + 1] = m
    <3>1. Good(words, b, m) /\ head = Span(words, b, m) /\ Cut(words, groups, cut)
      BY <1>3, <2>6, <2>7
    <3>2. NextGroup(words, groups, cut, n, b, m, all)
      BY ONLY <1>f, <1>a, <1>b, <2>9, <3>1 DEF NextGroup
    <3> QED BY ONLY <3>2, CutOnce
  <2>11. Len(all) = n + 1 /\ all \in Seq(Seq(Word)) /\ n + 1 \in Nat
    BY <1>4, <1>a, <2>8, <2>9
  <2>12. CASE tail = <<>> \/ Fits(Append(tail, w))
    <3>1. Group(g, w) = [groups |-> Append(groups, head), current |-> Append(tail, w)]
      BY <1>2, <1>6, <1>c, <1>13, <2>1, <2>5, <2>12 DEF Group
    <3>2. Append(tail, w) = Span(words, m, d)
      BY <1>0, <1>d, <2>4, <2>6, SpanParts
    <3>3. Good(words, m, d)
      <4>1. CASE m = k
        BY <1>7, <4>1
      <4>2. CASE m # k
        <5>1. Good(words, m, k) /\ Fits(Append(Span(words, m, k), words[d]))
          BY <1>d, <2>4, <2>6, <2>7, <2>8, <2>12, <4>2
        <5>2. w.start - words[k].end < PauseSplit
          BY <1>e, <1>13
        <5> QED BY <1>0, <1>d, <5>1, <5>2, GoodNext
      <4> QED BY <4>1, <4>2
    <3>4. Grouped(words, [groups |-> all, current |-> Append(tail, w)], d)
      BY <1>10, <2>10, <2>11, <3>2, <3>3
    <3> QED BY <2>9, <3>1, <3>4
  <2>13. CASE tail # <<>> /\ ~Fits(Append(tail, w))
    <3>1. Group(g, w) = [groups |-> groups \o << head, tail >>, current |-> << w >>]
      BY <1>2, <1>6, <1>c, <1>13, <2>1, <2>5, <2>13 DEF Group
    <3>2. PICK both : both = Append(all, tail)
      OBVIOUS
    <3>3. groups \o << head, tail >> = both
      BY <1>4, <2>8, <2>9, <3>2
    <3>4. Good(words, m, k)
      BY <2>4, <2>7, <2>8, <2>13
    <3>5. PICK later : Cut(words, both, later) /\ later[n + 1 + 1] = k
      <4>1. tail = Span(words, m, k) /\ n + 1 = Len(all) /\ m = next[n + 1] /\ Cut(words, all, next)
        BY <2>6, <2>10, <2>11
      <4>2. PICK e : e = n + 1
        OBVIOUS
      <4>3. NextGroup(words, all, next, e, m, k, both)
        BY ONLY <1>f, <4>1, <4>2, <3>2, <3>4 DEF NextGroup
      <4>4. \E later : Cut(words, both, later) /\ later[e + 1] = k
        BY ONLY <4>3, CutOnce
      <4> QED BY <4>2, <4>4, Zenon
    <3>6. Len(both) = n + 1 + 1
      <4>0. tail \in Seq(Word) /\ all \in Seq(Seq(Word))
        BY <2>8, <2>11
      <4>1. Len(both) = Len(all) + 1
        BY <4>0, <3>2
      <4> QED BY <2>11, <4>1, Zenon
    <3>7. Grouped(words, [groups |-> both, current |-> << w >>], d)
      BY <1>7, <1>8, <1>10, <3>5, <3>6
    <3> QED BY <3>1, <3>3, <3>7
  <2> QED BY <2>12, <2>13
<1> QED BY <1>6, <1>d, <1>11, <1>12, <1>13

\* The groups are all the words, cut into cues.
LEMMA GroupsCut ==
  ASSUME NEW words, Spoken(words)
  PROVE  \E cut : Cut(words, GroupWords(words), cut) /\ cut[Len(GroupWords(words))] = Len(words)
<1> DEFINE f == CHOOSE grouped : GroupedOf(words, Len(words), grouped)
<1>0. words \in Seq(Word) /\ Len(words) \in Nat /\ Measured(words)
  BY WordTypes DEF Spoken
<1>1. GroupedOf(words, Len(words), f)
  BY <1>0, GroupedExists
<1>2. GroupWords(words) = IF f[Len(words)].current = <<>> THEN f[Len(words)].groups
                          ELSE Append(f[Len(words)].groups, f[Len(words)].current)
  BY DEF GroupWords, GroupedOf
<1> HIDE DEF f
<1>a. PICK k : k = Len(words)
  OBVIOUS
<1>3. /\ f[0] = [groups |-> <<>>, current |-> <<>>]
      /\ \A i \in 1 .. k : f[i] = Group(f[i - 1], words[i])
  <2>1. \A i \in 0 .. k : f[i] = IF i = 0 THEN [groups |-> <<>>, current |-> <<>>]
                                 ELSE Group(f[i - 1], words[i])
    BY <1>1, <1>a DEF GroupedOf
  <2> QED BY <1>0, <1>a, <2>1
<1> DEFINE S == {i \in 0 .. k : Grouped(words, f[i], i)}
<1>4. 0 \in S
  <2>1. PICK g : g = f[0]
    OBVIOUS
  <2>2. g = [groups |-> <<>>, current |-> <<>>] /\ g.groups = <<>> /\ g.current = <<>>
    BY <1>3, <2>1
  <2>3. g \in [groups : Seq(Seq(Word)), current : Seq(Word)] /\ Len(g.groups) = 0
    BY <2>2
  <2>4. PICK cut : cut = [i \in Nat |-> 0]
    OBVIOUS
  <2>5. cut \in [Nat -> Nat] /\ cut[0] = 0
    BY <2>4
  <2>6. Cut(words, g.groups, cut)
    BY <1>0, <2>2, <2>3, <2>5 DEF Cut
  <2>7. <<>> = Span(words, 0, 0)
    BY <1>0 DEF Span
  <2>8. Grouped(words, g, 0)
    BY <2>2, <2>3, <2>5, <2>6, <2>7 DEF Grouped
  <2> QED BY <1>0, <1>a, <2>1, <2>8
<1>5. ASSUME NEW i \in 1 .. k, i - 1 \in S PROVE i \in S
  <2>1. PICK j : j = i - 1
    OBVIOUS
  <2>2. j \in Nat /\ i = j + 1 /\ i <= Len(words) /\ Grouped(words, f[j], j)
    BY <1>5, <1>0, <1>a, <2>1
  <2>3. Grouped(words, Group(f[j], words[i]), i)
    BY <2>2, GroupStep
  <2>4. f[i] = Group(f[j], words[i])
    BY <1>3, <2>1
  <2>5. Grouped(words, f[i], i)
    BY <2>3, <2>4
  <2> QED BY <2>5
<1>6. Grouped(words, f[k], k)
  <2>1. \A i \in 0 .. k : i \in S
    <3> HIDE DEF S
    <3> QED BY <1>0, <1>a, <1>4, <1>5, UpTo
  <2>2. k \in 0 .. k
    BY <1>0, <1>a
  <2> QED BY <2>1, <2>2
<1>7. PICK groups, current : groups = f[k].groups /\ current = f[k].current
  OBVIOUS
<1>8. PICK cut : /\ Cut(words, groups, cut)
                 /\ current = Span(words, cut[Len(groups)], k)
                 /\ IF k = 0 THEN cut[Len(groups)] = 0 ELSE Good(words, cut[Len(groups)], k)
  BY <1>6, <1>7, Zenon DEF Grouped
<1>b. PICK n : n = Len(groups)
  OBVIOUS
<1>c. PICK b : b = cut[n]
  OBVIOUS
<1>9. CASE k = 0
  <2>1. current = <<>>
    BY <1>0, <1>8, <1>9 DEF Span
  <2>2. GroupWords(words) = groups
    BY <1>2, <1>7, <1>a, <2>1
  <2> QED BY <1>8, <1>9, <1>a, <2>2
<1>10. CASE k # 0
  <2>1. Good(words, b, k) /\ current = Span(words, b, k)
    BY <1>8, <1>10, <1>b, <1>c
  <2>2. b \in Nat /\ b < k /\ b <= k /\ k \in Nat /\ k <= Len(words)
    BY <1>0, <1>a, <2>1 DEF Good, Within
  <2>3. Len(current) = k - b /\ current \in Seq(Word)
    BY <1>0, <2>1, <2>2, SpanIs
  <2>4. current # <<>>
    BY <2>2, <2>3
  <2>5. PICK all : all = Append(groups, current)
    OBVIOUS
  <2>6. GroupWords(words) = all
    BY <1>2, <1>7, <1>a, <2>4, <2>5
  <2>7. Len(all) = n + 1 /\ \E next : Cut(words, all, next) /\ next[n + 1] = k
    <3>1. Measured(words) /\ Cut(words, groups, cut)
      BY <1>0, <1>8
    <3>2. NextGroup(words, groups, cut, n, b, k, all)
      BY ONLY <1>b, <1>c, <2>1, <2>5, <3>1 DEF NextGroup
    <3> QED BY ONLY <3>2, CutOnce
  <2> QED BY <1>a, <2>6, <2>7
<1> QED BY <1>9, <1>10

-----------------------------------------------------------------------------
(* Cues that repeat the one before. *)

Cue == [lines : Seq(Seq(Word)), start : Int, end : Int]

LEMMA MinOfTwo ==
  ASSUME NEW a \in Int, NEW b \in Int
  PROVE  Min({a, b}) \in {a, b} /\ Min({a, b}) <= a /\ Min({a, b}) <= b
<1>1. \E x \in {a, b} : \A y \in {a, b} : x <= y
  <2>1. CASE a <= b
    BY <2>1
  <2>2. CASE b <= a
    BY <2>2
  <2> QED BY <2>1, <2>2
<1>2. PICK S : S = {a, b}
  OBVIOUS
<1>3. Min(S) \in S /\ \A y \in S : Min(S) <= y
  BY <1>1, <1>2 DEF Min
<1> QED BY <1>2, <1>3

\* The cue shown for one, and for those after it that repeat it, up to another.
Shows(cues, c, a, z) ==
  /\ c \in Cue /\ c.lines = cues[a].lines /\ c.start = cues[a].start
  /\ c.end <= cues[z - 1].end
  /\ cues[a].end - cues[a].start <= MaxCue => c.end - c.start <= MaxCue
  /\ \A i \in a + 1 .. z - 1 : Text(cues[i]) = Text(cues[a]) /\ cues[i].start - cues[i - 1].end < RepeatGap

\* Where the cues shown begin, and where the next one will.
Collapsed(cues, shown, first, k) ==
  /\ shown \in Seq(Cue) /\ first \in [Nat -> Nat] /\ first[1] = 1
  /\ \A m, n \in 1 .. Len(shown) + 1 : m < n => first[m] < first[n]
  /\ first[Len(shown) + 1] = k + 1
  /\ \A n \in 1 .. Len(shown) : Shows(cues, shown[n], first[n], first[n + 1])

LEMMA CollapsedOnce ==
  ASSUME NEW cues, NEW shown, NEW first, NEW k \in Nat, NEW d, d = k + 1,
         Collapsed(cues, shown, first, k),
         NEW all \in Seq(Cue), NEW n \in Nat, Len(all) = n, n >= 1, n = Len(shown) \/ n = Len(shown) + 1,
         \A i \in 1 .. n - 1 : all[i] = shown[i],
         Shows(cues, all[n], first[n], d + 1)
  PROVE  \E next : Collapsed(cues, all, next, d)
<1> DEFINE next == [i \in Nat |-> IF i <= n THEN first[i] ELSE d + 1]
<1>0. d \in Nat /\ first \in [Nat -> Nat] /\ shown \in Seq(Cue) /\ first[1] = 1
  <2>1. first \in [Nat -> Nat] /\ shown \in Seq(Cue) /\ first[1] = 1
    BY DEF Collapsed
  <2>2. d \in Nat
    OBVIOUS
  <2> QED BY <2>1, <2>2, Zenon
<1>1. Len(shown) \in Nat /\ n \in 1 .. Len(shown) + 1 /\ d + 1 \in Nat /\ d + 1 > k + 1
      /\ \A i \in Nat : first[i] \in Nat
  <2>1. Len(shown) \in Nat
    BY <1>0
  <2>2. \A i \in Nat : first[i] \in Nat
    BY <1>0
  <2>3. n \in 1 .. Len(shown) + 1
    BY <2>1
  <2> QED BY <1>0, <2>1, <2>2, <2>3
<1>2. next \in [Nat -> Nat] /\ next[n + 1] = d + 1 /\ \A i \in 1 .. n : next[i] = first[i]
  <2>1. \A i \in 1 .. n : i \in Nat /\ i <= n
    OBVIOUS
  <2>2. n + 1 \in Nat /\ ~(n + 1 <= n)
    OBVIOUS
  <2> QED BY <1>1, <2>1, <2>2
<1> HIDE DEF next
<1>a. \A i, j \in 1 .. Len(shown) + 1 : i < j => first[i] < first[j]
  BY DEF Collapsed
<1>b. first[Len(shown) + 1] = k + 1
  BY DEF Collapsed
<1>3. \A i \in 1 .. n : first[i] < d + 1
  <2> TAKE i \in 1 .. n
  <2>1. i \in 1 .. Len(shown) + 1 /\ Len(shown) + 1 \in 1 .. Len(shown) + 1 /\ i \in Nat
    BY <1>1
  <2>2. first[i] \in Nat /\ (first[i] < k + 1 \/ first[i] = k + 1)
    <3>1. i < Len(shown) + 1 \/ i = Len(shown) + 1
      BY <1>1, <2>1
    <3> QED BY <1>1, <1>a, <1>b, <2>1, <3>1
  <2> QED BY <1>1, <2>2
<1>4. \A i, j \in 1 .. n + 1 : i < j => next[i] < next[j]
  <2> TAKE i, j \in 1 .. n + 1
  <2> HAVE i < j
  <2>1. CASE j = n + 1
    <3>1. i \in 1 .. n
      BY <2>1
    <3> QED BY <1>2, <1>3, <2>1, <3>1
  <2>2. CASE j # n + 1
    <3>1. i \in 1 .. n /\ j \in 1 .. n
      BY <2>2
    <3>2. i \in 1 .. Len(shown) + 1 /\ j \in 1 .. Len(shown) + 1
      BY <1>1, <3>1
    <3> QED BY <1>2, <1>a, <3>1, <3>2
  <2> QED BY <2>1, <2>2
<1>5. \A i \in 1 .. n : Shows(cues, all[i], next[i], next[i + 1])
  <2> TAKE i \in 1 .. n
  <2>1. CASE i = n
    <3>1. next[i] = first[n] /\ next[i + 1] = d + 1
      BY <1>2, <2>1
    <3> QED BY <2>1, <3>1
  <2>2. CASE i # n
    <3>1. i \in 1 .. n - 1 /\ i + 1 \in 1 .. n /\ i \in 1 .. Len(shown)
      BY <1>1, <2>2
    <3>2. Shows(cues, shown[i], first[i], first[i + 1])
      BY <3>1 DEF Collapsed
    <3> QED BY <1>2, <3>1, <3>2
  <2> QED BY <2>1, <2>2
<1>6. next[1] = 1
  <2>1. 1 \in 1 .. n
    OBVIOUS
  <2> QED BY <1>0, <1>2, <2>1
<1>7. Collapsed(cues, all, next, d)
  BY <1>2, <1>4, <1>5, <1>6 DEF Collapsed
<1> QED BY <1>7

LEMMA CollapseStep ==
  ASSUME NEW cues \in Seq(Cue), NEW k \in Nat, NEW d, d = k + 1, d <= Len(cues),
         NEW shown, NEW first, Collapsed(cues, shown, first, k)
  PROVE  \E next : Collapsed(cues, Collapse(shown, cues[d]), next, d)
<1>0. Len(cues) \in Nat /\ d \in Nat /\ d \in 1 .. Len(cues) /\ d - 1 = k /\ d + 1 - 1 = d
  OBVIOUS
<1>1. \A i \in 1 .. Len(cues) : cues[i] \in Cue /\ cues[i].start \in Int /\ cues[i].end \in Int
  <2>1. \A c \in Cue : c.start \in Int /\ c.end \in Int
    BY DEF Cue
  <2> QED BY <2>1
<1>2. PICK c : c = cues[d]
  OBVIOUS
<1>3. c \in Cue /\ c.start \in Int /\ c.end \in Int
  BY <1>0, <1>1, <1>2
<1>4. /\ shown \in Seq(Cue) /\ first \in [Nat -> Nat] /\ first[1] = 1
      /\ \A m, n \in 1 .. Len(shown) + 1 : m < n => first[m] < first[n]
      /\ first[Len(shown) + 1] = k + 1
      /\ \A n \in 1 .. Len(shown) : Shows(cues, shown[n], first[n], first[n + 1])
  BY DEF Collapsed
<1>5. Len(shown) \in Nat
  BY <1>4
<1>6. CASE ~(shown # <<>> /\ c.start - Last(shown).end < RepeatGap /\ Text(c) = Text(Last(shown)))
  <2>1. PICK all : all = Append(shown, c)
    OBVIOUS
  <2>2. Collapse(shown, c) = all
    BY <1>6, <2>1 DEF Collapse
  <2>3. /\ all \in Seq(Cue) /\ Len(all) = Len(shown) + 1 /\ all[Len(shown) + 1] = c
        /\ \A i \in 1 .. Len(shown) : all[i] = shown[i]
    BY <1>3, <1>4, <2>1
  <2>4. PICK n : n = Len(shown) + 1
    OBVIOUS
  <2>5. n \in Nat /\ n >= 1 /\ Len(all) = n /\ all[n] = c /\ first[n] = d
        /\ \A i \in 1 .. n - 1 : all[i] = shown[i]
    BY <1>4, <1>5, <2>3, <2>4
  <2>6. Shows(cues, c, d, d + 1)
    <3>1. \A i \in d + 1 .. d + 1 - 1 : FALSE
      BY <1>0
    <3> QED BY <1>0, <1>2, <1>3, <3>1 DEF Shows
  <2>7. \E next : Collapsed(cues, all, next, d)
    BY <2>3, <2>4, <2>5, <2>6, CollapsedOnce
  <2> QED BY <1>2, <2>2, <2>7
<1>7. CASE shown # <<>> /\ c.start - Last(shown).end < RepeatGap /\ Text(c) = Text(Last(shown))
  <2>1. PICK n : n = Len(shown)
    OBVIOUS
  <2>2. n \in Nat /\ n >= 1 /\ n \in 1 .. n
    BY <1>4, <1>5, <1>7, <2>1
  <2>3. PICK last : last = shown[n]
    OBVIOUS
  <2>4. last \in Cue /\ last = Last(shown)
    BY <1>4, <2>1, <2>2, <2>3 DEF Last
  <2>5. last.start \in Int /\ last.end \in Int
    BY <2>4 DEF Cue
  <2>6. PICK e : e = Min({c.end, last.start + MaxCue})
    OBVIOUS
  <2>a. PICK limit : limit = last.start + MaxCue
    OBVIOUS
  <2>b. MaxCue \in Int /\ limit \in Int
    BY <2>5, <2>a, Spans
  <2>7. e \in Int /\ e <= c.end /\ e <= limit
    BY <1>3, <2>6, <2>a, <2>b, MinOfTwo
  <2>8. PICK longer : longer = [last EXCEPT !.end = e]
    OBVIOUS
  <2>9. longer \in Cue /\ longer.lines = last.lines /\ longer.start = last.start /\ longer.end = e
    BY <2>4, <2>7, <2>8 DEF Cue
  <2>10. PICK all : all = [shown EXCEPT ![n] = longer]
    OBVIOUS
  <2>11. /\ all \in Seq(Cue) /\ Len(all) = n /\ all[n] = longer
         /\ \A i \in 1 .. n - 1 : all[i] = shown[i]
    <3>1. shown \in Seq(Cue) /\ longer \in Cue /\ n \in 1 .. Len(shown)
      BY <1>4, <2>1, <2>2, <2>9
    <3>2. all \in Seq(Cue) /\ Len(all) = Len(shown) /\ all[n] = longer
          /\ \A i \in 1 .. Len(shown) : i # n => all[i] = shown[i]
      BY <2>10, <3>1
    <3>3. \A i \in 1 .. n - 1 : i \in 1 .. Len(shown) /\ i # n
      BY <2>1, <2>2
    <3> QED BY <2>1, <3>2, <3>3
  <2>12. Collapse(shown, c) = all
    BY <1>7, <2>1, <2>4, <2>6, <2>8, <2>10 DEF Collapse
  <2>13. PICK a : a = first[n]
    OBVIOUS
  <2>14. first[n + 1] = d /\ Shows(cues, last, a, d)
    BY <1>4, <2>1, <2>2, <2>3, <2>13
  <2>15. a \in Nat /\ a < d
    <3>1. n \in 1 .. Len(shown) + 1 /\ n + 1 \in 1 .. Len(shown) + 1 /\ n < n + 1
      BY <1>5, <2>1, <2>2
    <3>2. first[n] < first[n + 1]
      BY <1>4, <3>1
    <3> QED BY <1>4, <2>2, <2>13, <2>14, <3>2
  <2>16. a >= 1
    <3>1. CASE n = 1
      BY <1>4, <2>13, <3>1
    <3>2. CASE n # 1
      <4>1. 1 \in 1 .. Len(shown) + 1 /\ n \in 1 .. Len(shown) + 1 /\ 1 < n
        BY <1>5, <2>1, <2>2, <3>2
      <4>2. first[1] < first[n]
        BY <1>4, <4>1
      <4>3. first[1] = 1
        BY <1>4
      <4> QED BY <2>13, <2>15, <4>2, <4>3
    <3> QED BY <3>1, <3>2
  <2>17. \A i \in a + 1 .. d : Text(cues[i]) = Text(cues[a]) /\ cues[i].start - cues[i - 1].end < RepeatGap
    <3> TAKE i \in a + 1 .. d
    <3>1. CASE i = d
      <4>1. Text(last) = Text(cues[a])
        BY <2>14 DEF Shows, Text, Words
      <4>2. last.end <= cues[d - 1].end
        BY <2>14 DEF Shows
      <4>3. cues[d - 1].end \in Int
        BY <1>0, <1>1, <2>15, <2>16
      <4> QED BY <1>2, <1>3, <1>7, <2>4, <2>5, <3>1, <4>1, <4>2, <4>3, Spans
    <3>2. CASE i # d
      <4>1. i \in a + 1 .. d - 1
        BY <1>0, <2>15, <3>2
      <4> QED BY <2>14, <4>1 DEF Shows
    <3> QED BY <3>1, <3>2
  <2>18. Shows(cues, longer, a, d + 1)
    <3>1. longer.end - longer.start <= MaxCue
      BY <2>5, <2>7, <2>9, <2>a, <2>b
    <3>2. longer.lines = cues[a].lines /\ longer.start = cues[a].start
      BY <2>9, <2>14 DEF Shows
    <3>3. longer.end <= cues[d].end
      BY <1>2, <2>7, <2>9
    <3> QED BY <1>0, <2>9, <2>17, <3>1, <3>2, <3>3 DEF Shows
  <2>19. \E next : Collapsed(cues, all, next, d)
    BY <2>1, <2>2, <2>11, <2>13, <2>18, CollapsedOnce
  <2> QED BY <1>2, <2>12, <2>19
<1> QED BY <1>6, <1>7

LEMMA RepeatsCollapsed ==
  ASSUME NEW cues \in Seq(Cue)
  PROVE  \E first : Collapsed(cues, CollapseRepeats(cues), first, Len(cues))
<1> DEFINE f == CHOOSE shown : ShownOf(cues, Len(cues), shown)
<1>0. Len(cues) \in Nat
  OBVIOUS
<1>1. ShownOf(cues, Len(cues), f)
  BY <1>0, ShownExists
<1>2. CollapseRepeats(cues) = f[Len(cues)]
  BY DEF CollapseRepeats, ShownOf
<1> HIDE DEF f
<1>3. PICK k : k = Len(cues)
  OBVIOUS
<1>4. f[0] = <<>> /\ \A i \in 1 .. k : f[i] = Collapse(f[i - 1], cues[i])
  <2>1. \A i \in 0 .. k : f[i] = IF i = 0 THEN <<>> ELSE Collapse(f[i - 1], cues[i])
    BY <1>1, <1>3 DEF ShownOf
  <2> QED BY <1>0, <1>3, <2>1
<1> DEFINE S == {i \in 0 .. k : \E first : Collapsed(cues, f[i], first, i)}
<1>5. 0 \in S
  <2>1. PICK first : first = [i \in Nat |-> i]
    OBVIOUS
  <2>2. first \in [Nat -> Nat] /\ first[1] = 1
    BY <2>1
  <2>3. <<>> \in Seq(Cue) /\ Len(<<>>) = 0
    OBVIOUS
  <2>4. \A m, n \in 1 .. 0 + 1 : m < n => first[m] < first[n]
    OBVIOUS
  <2>5. Collapsed(cues, <<>>, first, 0)
    BY <2>2, <2>3, <2>4 DEF Collapsed
  <2> QED BY <1>0, <1>3, <1>4, <2>5
<1>6. ASSUME NEW i \in 1 .. k, i - 1 \in S PROVE i \in S
  <2>1. PICK j : j = i - 1
    OBVIOUS
  <2>2. PICK first : Collapsed(cues, f[j], first, j)
    BY <1>6, <2>1
  <2>3. j \in Nat /\ i = j + 1 /\ i <= Len(cues)
    BY <1>0, <1>3, <2>1
  <2>4. \E next : Collapsed(cues, Collapse(f[j], cues[i]), next, i)
    BY <2>2, <2>3, CollapseStep
  <2>5. f[i] = Collapse(f[j], cues[i])
    BY <1>4, <2>1
  <2>6. \E next : Collapsed(cues, f[i], next, i)
    BY <2>4, <2>5
  <2> QED BY <2>6
<1>7. \E first : Collapsed(cues, f[k], first, k)
  <2>1. \A i \in 0 .. k : i \in S
    <3> HIDE DEF S
    <3> QED BY <1>0, <1>3, <1>5, <1>6, UpTo
  <2>2. k \in 0 .. k
    BY <1>0, <1>3
  <2>3. k \in S
    BY <2>1, <2>2
  <2> QED BY <2>3
<1> QED BY <1>2, <1>3, <1>7

-----------------------------------------------------------------------------
(* Cues stay long enough. *)

LEMMA MinIs ==
  ASSUME NEW S, NEW x \in S, \A y \in S : x <= y
  PROVE  Min(S) \in S /\ \A y \in S : Min(S) <= y
BY DEF Min

LEMMA MaxOfTwo ==
  ASSUME NEW a \in Int, NEW b \in Int
  PROVE  Max({a, b}) \in {a, b} /\ Max({a, b}) >= a /\ Max({a, b}) >= b
<1>1. \E x \in {a, b} : \A y \in {a, b} : x >= y
  <2>1. CASE a >= b
    BY <2>1
  <2>2. CASE b >= a
    BY <2>2
  <2> QED BY <2>1, <2>2
<1>2. PICK S : S = {a, b}
  OBVIOUS
<1>3. Max(S) \in S /\ \A y \in S : Max(S) >= y
  BY <1>1, <1>2 DEF Max
<1> QED BY <1>2, <1>3

\* The earliest of two instants, and of a third if there is one.
LEMMA Earliest ==
  ASSUME NEW a \in Int, NEW b \in Int, NEW T, T = {} \/ \E c \in Int : T = {c}
  PROVE  LET m == Min({a, b} \cup T)
         IN  /\ m \in Int /\ m <= a /\ m <= b /\ \A c \in T : m <= c
             /\ m = a \/ m = b \/ m \in T
<1> DEFINE S == {a, b} \cup T
<1>1. \A y \in S : y \in Int
  OBVIOUS
<1>2. \E x \in S : \A y \in S : x <= y
  <2>1. PICK m \in {a, b} : m <= a /\ m <= b
    OBVIOUS
  <2>2. CASE T = {}
    BY <2>1, <2>2
  <2>3. CASE \E c \in Int : T = {c}
    <3>1. PICK c \in Int : T = {c}
      BY <2>3
    <3>2. CASE m <= c
      BY <2>1, <3>1, <3>2
    <3>3. CASE c <= m
      BY <2>1, <3>1, <3>3
    <3> QED BY <3>2, <3>3
  <2> QED BY <2>2, <2>3
<1>3. Min(S) \in S /\ \A y \in S : Min(S) <= y
  <2> HIDE DEF S
  <2> QED BY <1>2, MinIs
<1>4. a \in S /\ b \in S /\ \A c \in T : c \in S
  OBVIOUS
<1>5. Min(S) \in Int /\ (Min(S) = a \/ Min(S) = b \/ Min(S) \in T)
  BY <1>1, <1>3
<1> QED BY <1>3, <1>4, <1>5

LEMMA Retimed ==
  ASSUME NEW cues \in Seq(Cue), NEW i \in 1 .. Len(cues), Width(Words(cues[i])) \in Int
  PROVE  LET c == cues[i]
             r == Retime(cues)[i]
         IN  /\ r.lines = c.lines /\ r.start = c.start /\ r.end \in Int
             /\ r.end = c.end \/ r.end - c.start <= MaxCue
             /\ r.end = c.end \/ (i < Len(cues) => r.end <= cues[i + 1].start)
             /\ r.end - c.start >= MinCue \/ (i < Len(cues) /\ cues[i + 1].start <= r.end)
<1>0. Len(cues) \in Nat /\ i \in DOMAIN cues /\ \A c \in Cue : c.start \in Int /\ c.end \in Int
  BY DEF Cue
<1>1. PICK c : c = cues[i]
  OBVIOUS
<1>2. c \in Cue /\ c.start \in Int /\ c.end \in Int
  BY <1>0, <1>1
<1>3. PICK pace : pace = (Width(Words(c)) * Second) \div MaxCharsPerSecond
  OBVIOUS
<1>4. pace \in Int
  <2>1. Width(Words(c)) * Second \in Int
    BY <1>1, Spans
  <2> QED BY <1>3, <2>1 DEF MaxCharsPerSecond
<1>5. PICK need : need = Max({MinCue, pace})
  OBVIOUS
<1>6. need \in Int /\ need >= MinCue
  <2>1. MinCue \in Int
    BY Spans
  <2> QED BY <1>4, <1>5, <2>1, MaxOfTwo
<1>7. PICK next : next = IF i < Len(cues) THEN {cues[i + 1].start} ELSE {}
  OBVIOUS
<1>8. next = {} \/ \E s \in Int : next = {s}
  <2>1. i < Len(cues) => cues[i + 1].start \in Int
    BY <1>0
  <2> QED BY <1>7, <2>1
<1>9. PICK p, q : p = c.start + need /\ q = c.start + MaxCue
  OBVIOUS
<1>10. p \in Int /\ q \in Int /\ p >= c.start + MinCue /\ q >= c.start + MinCue
  <2>1. ASSUME NEW x \in Int, NEW y \in Int, NEW z \in Int, y >= z
        PROVE  x + y \in Int /\ x + y >= x + z
    BY ONLY <2>1
  <2>2. MinCue \in Int /\ MaxCue \in Int /\ MaxCue >= MinCue
    BY ONLY Spans
  <2>3. c.start \in Int /\ need \in Int /\ need >= MinCue
    BY ONLY <1>2, <1>6
  <2> QED BY ONLY <1>9, <2>1, <2>2, <2>3
<1>11. PICK m : m = Min({p, q} \cup next)
  OBVIOUS
<1>12. m \in Int /\ m <= p /\ m <= q /\ (\A s \in next : m <= s) /\ (m = p \/ m = q \/ m \in next)
  BY <1>8, <1>10, <1>11, Earliest
<1>13. PICK e : e = Max({c.end, m})
  OBVIOUS
<1>14. e \in {c.end, m} /\ e >= c.end /\ e >= m /\ e \in Int
  BY <1>2, <1>12, <1>13, MaxOfTwo
<1>15. Retime(cues)[i] = [c EXCEPT !.end = e]
  BY <1>0, <1>1, <1>3, <1>5, <1>7, <1>9, <1>11, <1>13 DEF Retime
<1>16. PICK r : r = Retime(cues)[i]
  OBVIOUS
<1>17. r.lines = c.lines /\ r.start = c.start /\ r.end = e
  BY <1>2, <1>15, <1>16 DEF Cue
<1>18. e = c.end \/ e - c.start <= MaxCue
  BY <1>2, <1>9, <1>10, <1>12, <1>14, Spans
<1>19. e = c.end \/ (i < Len(cues) => e <= cues[i + 1].start)
  BY <1>7, <1>12, <1>14
<1>20. e - c.start >= MinCue \/ (i < Len(cues) /\ cues[i + 1].start <= e)
  <2>1. CASE m = p \/ m = q
    <3>1. MinCue \in Int
      BY Spans
    <3> QED BY <1>2, <1>10, <1>12, <1>14, <2>1, <3>1
  <2>2. CASE m \in next
    BY <1>7, <1>12, <1>14, <2>2
  <2> QED BY <1>12, <2>1, <2>2
<1> QED BY <1>1, <1>14, <1>16, <1>17, <1>18, <1>19, <1>20

-----------------------------------------------------------------------------
(* From words to cues. *)

\* A cue that shows the group that ends at cut a, and stands for those before z,
\* which say the same again.
ShownAt(words, c, cut, a, z) ==
  /\ Words(c) = Span(words, cut[a - 1], cut[a])
  /\ \A l \in DOMAIN c.lines : Width(c.lines[l]) <= MaxLineChars \/ Len(Words(c)) = 1
  /\ c.start = words[cut[a - 1] + 1].start /\ c.end \in Int
  /\ Sorted(words) => c.end - c.start <= MaxCue
  /\ \A i \in a + 1 .. z - 1 :
       /\ cut[i] - cut[i - 1] = cut[a] - cut[a - 1]
       /\ \A j \in 1 .. cut[a] - cut[a - 1] : words[cut[i - 1] + j].texts = words[cut[a - 1] + j].texts
       /\ words[cut[i - 1] + 1].start - words[cut[i - 1]].end < RepeatGap

CuesOf(groups) == [i \in DOMAIN groups |-> CueOf(groups[i])]

LEMMA CueOfGroup ==
  ASSUME NEW words, Spoken(words), NEW a, NEW b, Good(words, a, b),
         NEW c, c = CueOf(Span(words, a, b))
  PROVE  /\ c \in Cue /\ Words(c) = Span(words, a, b)
         /\ \A l \in DOMAIN c.lines : Width(c.lines[l]) <= MaxLineChars \/ Len(Words(c)) = 1
         /\ c.start = words[a + 1].start /\ c.end = words[b].end
         /\ Sorted(words) => c.end - c.start <= MaxCue
<1>0. /\ Measured(words) /\ words \in Seq(Word) /\ Within(words, a, b) /\ LaidOut(Span(words, a, b))
      /\ a \in Nat /\ b \in Nat /\ a < b /\ a <= b /\ b <= Len(words) /\ Len(words) \in Nat
      /\ a + 1 \in 1 .. Len(words) /\ b \in 1 .. Len(words) /\ b \in a + 1 .. b
  <2>1. Measured(words) /\ words \in Seq(Word) /\ Len(words) \in Nat
    BY WordTypes DEF Spoken
  <2>2. /\ Within(words, a, b) /\ LaidOut(Span(words, a, b))
        /\ a \in Nat /\ b \in Nat /\ a < b /\ b <= Len(words)
    BY DEF Good, Within
  <2> QED BY <2>1, <2>2
<1>1. PICK s : s = Span(words, a, b)
  OBVIOUS
<1>2. c = [lines |-> Lines(s), start |-> s[1].start, end |-> Last(s).end]
  BY <1>1 DEF CueOf
<1>3. c.lines = Lines(s) /\ c.start = s[1].start /\ c.end = Last(s).end
  BY <1>2
<1>4. s[1] = words[a + 1] /\ Last(s) = words[b]
  BY <1>0, <1>1, SpanParts
<1>5. /\ Words(c) = s /\ c.lines \in Seq(Seq(Word))
      /\ \A l \in DOMAIN c.lines : Width(c.lines[l]) <= MaxLineChars \/ Len(s) = 1
  BY <1>0, <1>1, <1>3, LinesShow
<1>6. c.start \in Int /\ c.end \in Int
  BY <1>0, <1>3, <1>4, WordTypes
<1>7. c \in Cue
  BY <1>2, <1>5, <1>6, <1>3 DEF Cue
<1>8. Sorted(words) => c.end - c.start <= MaxCue
  BY <1>0, <1>3, <1>4 DEF Good
<1> QED BY <1>1, <1>3, <1>4, <1>5, <1>7, <1>8

\* Where all groups and all cues lie.
Laid(words, cues, cut, first, n) ==
  /\ n \in Nat /\ cut \in [Nat -> Nat] /\ first \in [Nat -> Nat]
  /\ cut[0] = 0 /\ cut[n] = Len(words) /\ \A i, j \in 0 .. n : i < j => cut[i] < cut[j]
  /\ \A i \in 1 .. n : Good(words, cut[i - 1], cut[i])
  /\ Len(cues) \in Nat /\ DOMAIN cues = 1 .. Len(cues)
  /\ first[1] = 1 /\ first[Len(cues) + 1] = n + 1
  /\ \A i, j \in 1 .. Len(cues) + 1 : i < j => first[i] < first[j]
  /\ \A k \in 1 .. Len(cues) : first[k] \in 1 .. n /\ ShownAt(words, cues[k], cut, first[k], first[k + 1])

Timed(words, cues, cut, first) ==
  \A k \in 1 .. Len(cues) :
    /\ cues[k].end - cues[k].start >= MinCue \/ (k < Len(cues) /\ cues[k + 1].start <= cues[k].end)
    /\ k < Len(cues) => \/ cues[k].end <= words[cut[first[k + 1] - 1]].end
                        \/ cues[k].end <= cues[k + 1].start

ShowsSpan(x, words, a, b) ==
  /\ words \in Seq(Word) /\ a \in Nat /\ b \in Nat /\ a <= b /\ b <= Len(words)
  /\ Words(x) = Span(words, a, b)

LEMMA SameTexts ==
  ASSUME NEW words, NEW a, NEW b, NEW c, NEW d, NEW x, NEW y,
         ShowsSpan(x, words, a, b), ShowsSpan(y, words, c, d), Text(x) = Text(y)
  PROVE  b - a = d - c /\ \A j \in 1 .. d - c : words[a + j].texts = words[c + j].texts
<1>0. /\ words \in Seq(Word) /\ a \in Nat /\ b \in Nat /\ a <= b /\ b <= Len(words)
      /\ c \in Nat /\ d \in Nat /\ c <= d /\ d <= Len(words)
      /\ Words(x) = Span(words, a, b) /\ Words(y) = Span(words, c, d)
  BY DEF ShowsSpan
<1>1. DOMAIN Words(x) = 1 .. b - a /\ \A i \in 1 .. b - a : Words(x)[i] = words[a + i]
  <2>1. DOMAIN Span(words, a, b) = 1 .. b - a /\ \A i \in 1 .. b - a : Span(words, a, b)[i] = words[a + i]
    BY <1>0, SpanIs
  <2> QED BY <1>0, <2>1
<1>2. DOMAIN Words(y) = 1 .. d - c /\ \A i \in 1 .. d - c : Words(y)[i] = words[c + i]
  <2>1. DOMAIN Span(words, c, d) = 1 .. d - c /\ \A i \in 1 .. d - c : Span(words, c, d)[i] = words[c + i]
    BY <1>0, SpanIs
  <2> QED BY <1>0, <2>1
<1>3. Text(x) = [i \in 1 .. b - a |-> words[a + i].texts]
  BY <1>1 DEF Text
<1>4. Text(y) = [i \in 1 .. d - c |-> words[c + i].texts]
  BY <1>2 DEF Text
<1>5. 1 .. b - a = 1 .. d - c
  BY <1>3, <1>4
<1>6. b - a = d - c
  BY <1>0, <1>5
<1>7. ASSUME NEW j \in 1 .. d - c
      PROVE  words[a + j].texts = words[c + j].texts
  <2>1. j \in 1 .. b - a
    BY ONLY <1>5, j \in 1 .. d - c
  <2>2. Text(x)[j] = words[a + j].texts
    BY ONLY <1>3, <2>1
  <2>3. Text(y)[j] = words[c + j].texts
    BY ONLY <1>4, j \in 1 .. d - c
  <2> QED BY ONLY <2>2, <2>3, Text(x) = Text(y)
<1> QED BY <1>6, <1>7

LEMMA CuesLaid ==
  ASSUME NEW words, Spoken(words), NEW cues, cues = Retime(CollapseRepeats(CuesOf(GroupWords(words))))
  PROVE  \E cut, first, n : Laid(words, cues, cut, first, n) /\ Timed(words, cues, cut, first)
<1>1. PICK groups : groups = GroupWords(words)
  OBVIOUS
<1>2. PICK cut : Cut(words, groups, cut) /\ cut[Len(groups)] = Len(words)
  BY <1>1, GroupsCut
<1>3. PICK n : n = Len(groups)
  OBVIOUS
<1>4. n \in Nat /\ DOMAIN groups = 1 .. n /\ cut \in [Nat -> Nat] /\ cut[0] = 0 /\ cut[n] = Len(words)
  BY <1>2, <1>3, CutTypes DEF Cut
<1>5. \A i, j \in 0 .. n : i < j => cut[i] < cut[j]
  BY <1>2, <1>3 DEF Cut
<1>6. \A i \in 1 .. n : groups[i] = Span(words, cut[i - 1], cut[i]) /\ Good(words, cut[i - 1], cut[i])
  BY <1>2, <1>3 DEF Cut
<1>7. PICK raw : raw = CuesOf(groups)
  OBVIOUS
<1>8. raw = [i \in 1 .. n |-> CueOf(groups[i])]
  BY <1>4, <1>7 DEF CuesOf
<1>9. ASSUME NEW i \in 1 .. n
      PROVE  /\ raw[i] \in Cue /\ Words(raw[i]) = Span(words, cut[i - 1], cut[i])
             /\ \A l \in DOMAIN raw[i].lines : Width(raw[i].lines[l]) <= MaxLineChars \/ Len(Words(raw[i])) = 1
             /\ raw[i].start = words[cut[i - 1] + 1].start /\ raw[i].end = words[cut[i]].end
             /\ Sorted(words) => raw[i].end - raw[i].start <= MaxCue
  <2>1. raw[i] = CueOf(Span(words, cut[i - 1], cut[i])) /\ Good(words, cut[i - 1], cut[i])
    BY <1>6, <1>8
  <2>2. PICK a, b, c : a = cut[i - 1] /\ b = cut[i] /\ c = raw[i]
    OBVIOUS
  <2>3. Good(words, a, b) /\ c = CueOf(Span(words, a, b))
    BY <2>1, <2>2
  <2>4. /\ c \in Cue /\ Words(c) = Span(words, a, b)
        /\ \A l \in DOMAIN c.lines : Width(c.lines[l]) <= MaxLineChars \/ Len(Words(c)) = 1
        /\ c.start = words[a + 1].start /\ c.end = words[b].end
        /\ Sorted(words) => c.end - c.start <= MaxCue
    BY <2>3, CueOfGroup
  <2> QED BY <2>2, <2>4
<1>10. raw \in Seq(Cue) /\ Len(raw) = n
  <2>1. \A i \in 1 .. n : CueOf(groups[i]) \in Cue
    BY <1>8, <1>9
  <2> QED BY <1>4, <1>8, <2>1
<1>11. PICK shown : shown = CollapseRepeats(raw)
  OBVIOUS
<1>12. PICK first : Collapsed(raw, shown, first, n)
  BY <1>10, <1>11, RepeatsCollapsed
<1>13. PICK m : m = Len(shown)
  OBVIOUS
<1>14. /\ shown \in Seq(Cue) /\ m \in Nat /\ first \in [Nat -> Nat] /\ first[1] = 1 /\ first[m + 1] = n + 1
       /\ \A i, j \in 1 .. m + 1 : i < j => first[i] < first[j]
       /\ \A k \in 1 .. m : Shows(raw, shown[k], first[k], first[k + 1])
  <2>1. /\ shown \in Seq(Cue) /\ first \in [Nat -> Nat] /\ first[1] = 1 /\ first[m + 1] = n + 1
        /\ \A i, j \in 1 .. m + 1 : i < j => first[i] < first[j]
        /\ \A k \in 1 .. m : Shows(raw, shown[k], first[k], first[k + 1])
    BY <1>12, <1>13, Zenon DEF Collapsed
  <2>2. m \in Nat
    BY <1>13, <2>1
  <2> QED BY <2>1, <2>2
<1>15. cues = Retime(shown)
  BY <1>1, <1>7, <1>11
<1>16. Len(cues) = m /\ DOMAIN cues = 1 .. m
  BY <1>13, <1>14, <1>15 DEF Retime
<1>17. ASSUME NEW k \in 1 .. m
       PROVE  /\ first[k] \in 1 .. n /\ first[k + 1] \in Nat /\ first[k] < first[k + 1] /\ first[k + 1] <= n + 1
              /\ first[k + 1] - 1 \in 1 .. n
  <2>1. k \in 1 .. m + 1 /\ k + 1 \in 1 .. m + 1 /\ m + 1 \in 1 .. m + 1 /\ 1 \in 1 .. m + 1
        /\ k \in Nat /\ k + 1 \in Nat
    <3>1. m \in Nat
      BY <1>14
    <3> QED BY ONLY <3>1, k \in 1 .. m
  <2>2. first[k] \in Nat /\ first[k + 1] \in Nat
    BY <1>14, <2>1
  <2>3. first[k] < first[k + 1] /\ first[k] < n + 1
    <3>1. k < k + 1 /\ k < m + 1
      BY ONLY <2>1, <1>14, k \in 1 .. m
    <3>2. first[m + 1] = n + 1 /\ \A i, j \in 1 .. m + 1 : i < j => first[i] < first[j]
      BY <1>14
    <3> QED BY ONLY <2>1, <3>1, <3>2
  <2>4. first[k] >= 1
    <3>1. CASE k = 1
      BY <1>14, <3>1
    <3>2. CASE k # 1
      <4>1. first[1] < first[k]
        BY <1>14, <2>1, <3>2
      <4> QED BY <1>14, <2>2, <4>1
    <3> QED BY <3>1, <3>2
  <2>5. first[k + 1] <= n + 1
    <3>1. CASE k = m
      BY <1>4, <1>14, <3>1
    <3>2. CASE k # m
      <4>1. k + 1 < m + 1
        BY <1>14, <3>2
      <4>2. first[k + 1] < n + 1
        BY <1>14, <2>1, <4>1
      <4>3. n \in Nat /\ first[k + 1] \in Nat
        BY <1>4, <2>2
      <4> QED BY <4>2, <4>3
    <3> QED BY <3>1, <3>2
  <2>6. n \in Nat
    BY <1>4
  <2> QED BY <2>2, <2>3, <2>4, <2>5, <2>6
<1>a. \A i \in 1 .. n : /\ cut[i - 1] \in Nat /\ cut[i] \in Nat /\ cut[i - 1] <= cut[i]
                        /\ cut[i] <= Len(words)
  <2> TAKE i \in 1 .. n
  <2>1. Good(words, cut[i - 1], cut[i])
    BY <1>6
  <2> QED BY <2>1 DEF Good, Within
<1>b. ASSUME NEW k \in 1 .. m
      PROVE  LET c == cues[k]
                 s == shown[k]
             IN  /\ Words(s) = Span(words, cut[first[k] - 1], cut[first[k]])
                 /\ c.lines = s.lines /\ c.start = s.start /\ c.end \in Int
                 /\ c.end = s.end \/ c.end - s.start <= MaxCue
                 /\ c.end = s.end \/ (k < m => c.end <= shown[k + 1].start)
                 /\ c.end - s.start >= MinCue \/ (k < m /\ shown[k + 1].start <= c.end)
  <2>1. PICK a : a = first[k]
    OBVIOUS
  <2>2. a \in 1 .. n
    BY <1>17, <2>1
  <2>3. PICK s : s = shown[k]
    OBVIOUS
  <2>4. Shows(raw, s, a, first[k + 1])
    BY <1>14, <2>1, <2>3
  <2>5. Words(s) = Span(words, cut[a - 1], cut[a])
    <3>1. Words(s) = Words(raw[a])
      BY <2>4 DEF Shows, Words
    <3> QED BY <1>9, <2>2, <3>1
  <2>6. Width(Words(s)) \in Int
    <3>1. words \in Seq(Word) /\ \A i \in 1 .. Len(words) : Size(words[i]) \in Nat
      BY DEF Spoken, Measured
    <3>2. PICK p, q : p = cut[a - 1] /\ q = cut[a]
      OBVIOUS
    <3>3. p \in Nat /\ q \in Nat /\ p <= q /\ q <= Len(words) /\ p <= p /\ q <= q
      BY <1>a, <2>2, <3>2
    <3>4. Width(Span(words, p, q)) \in Int
      BY <3>1, <3>3, WidthShrinks
    <3> QED BY <2>5, <3>2, <3>4
  <2> QED BY <1>13, <1>14, <1>15, <2>1, <2>3, <2>5, <2>6, Retimed
<1>18. ASSUME NEW k \in 1 .. m
       PROVE  /\ ShownAt(words, cues[k], cut, first[k], first[k + 1])
              /\ cues[k].end - cues[k].start >= MinCue \/ (k < m /\ cues[k + 1].start <= cues[k].end)
              /\ k < m => \/ cues[k].end <= words[cut[first[k + 1] - 1]].end
                          \/ cues[k].end <= cues[k + 1].start
  <2>1. PICK a, z : a = first[k] /\ z = first[k + 1]
    OBVIOUS
  <2>2. a \in 1 .. n /\ z \in Nat /\ a < z /\ z <= n + 1 /\ z - 1 \in 1 .. n
    BY <1>17, <2>1
  <2>3. PICK c, s : c = cues[k] /\ s = shown[k]
    OBVIOUS
  <2>4. Shows(raw, s, a, z)
    BY <1>14, <2>1, <2>3
  <2>5. /\ Words(s) = Span(words, cut[a - 1], cut[a])
        /\ c.lines = s.lines /\ c.start = s.start /\ c.end \in Int
        /\ c.end = s.end \/ c.end - s.start <= MaxCue
        /\ c.end = s.end \/ (k < m => c.end <= shown[k + 1].start)
        /\ c.end - s.start >= MinCue \/ (k < m /\ shown[k + 1].start <= c.end)
    BY <1>b, <2>1, <2>3
  <2>6. k < m => cues[k + 1].start = shown[k + 1].start
    <3>1. k < m => k + 1 \in 1 .. m
      BY <1>14
    <3> QED BY <1>b, <3>1
  <2>7. Words(c) = Words(s) /\ c.lines = raw[a].lines /\ c.start = raw[a].start
    BY <2>4, <2>5 DEF Words, Shows
  <2>8. ShownAt(words, c, cut, a, z)
    <3>1. Words(c) = Span(words, cut[a - 1], cut[a]) /\ c.start = words[cut[a - 1] + 1].start
      BY <1>9, <2>2, <2>5, <2>7
    <3>2. \A l \in DOMAIN c.lines : Width(c.lines[l]) <= MaxLineChars \/ Len(Words(c)) = 1
      <4>1. Words(raw[a]) = Words(c)
        BY <2>7 DEF Words
      <4> QED BY <1>9, <2>2, <2>7, <4>1
    <3>3. Sorted(words) => c.end - c.start <= MaxCue
      BY <1>9, <2>2, <2>4, <2>5 DEF Shows
    <3>4. ASSUME NEW i \in a + 1 .. z - 1
          PROVE  /\ cut[i] - cut[i - 1] = cut[a] - cut[a - 1]
                 /\ \A j \in 1 .. cut[a] - cut[a - 1] : words[cut[i - 1] + j].texts = words[cut[a - 1] + j].texts
                 /\ words[cut[i - 1] + 1].start - words[cut[i - 1]].end < RepeatGap
      <4>1. i \in 1 .. n /\ i - 1 \in 1 .. n
        BY <1>4, <2>2
      <4>2. Text(raw[i]) = Text(raw[a]) /\ raw[i].start - raw[i - 1].end < RepeatGap
        BY <2>4 DEF Shows
      <4>3. words[cut[i - 1] + 1].start - words[cut[i - 1]].end < RepeatGap
        BY <1>9, <4>1, <4>2
      <4>4. PICK p, q, u, v : p = cut[i - 1] /\ q = cut[i] /\ u = cut[a - 1] /\ v = cut[a]
        OBVIOUS
      <4>5. /\ p \in Nat /\ q \in Nat /\ p <= q /\ q <= Len(words)
            /\ u \in Nat /\ v \in Nat /\ u <= v /\ v <= Len(words)
        BY <1>a, <2>2, <4>1, <4>4
      <4>6. Words(raw[i]) = Span(words, p, q) /\ Words(raw[a]) = Span(words, u, v)
        BY <1>9, <2>2, <4>1, <4>4
      <4>7. words \in Seq(Word)
        BY DEF Spoken, Measured
      <4>8. q - p = v - u /\ \A j \in 1 .. v - u : words[p + j].texts = words[u + j].texts
        <5>1. PICK x, y : x = raw[i] /\ y = raw[a]
          OBVIOUS
        <5>2. Text(x) = Text(y)
          BY <4>2, <5>1
        <5>3. ShowsSpan(x, words, p, q) /\ ShowsSpan(y, words, u, v)
          BY <4>5, <4>6, <4>7, <5>1 DEF ShowsSpan
        <5> QED BY <5>2, <5>3, SameTexts
      <4> QED BY <4>3, <4>4, <4>8
    <3> QED BY <2>5, <3>1, <3>2, <3>3, <3>4 DEF ShownAt
  <2>9. c.end - c.start >= MinCue \/ (k < m /\ cues[k + 1].start <= c.end)
    BY <2>5, <2>6
  <2>10. k < m => c.end <= words[cut[z - 1]].end \/ c.end <= cues[k + 1].start
    <3>1. s.end <= raw[z - 1].end
      BY <2>4 DEF Shows
    <3>2. raw[z - 1].end = words[cut[z - 1]].end
      BY <1>9, <2>2
    <3> QED BY <2>5, <2>6, <3>1, <3>2
  <2> QED BY <2>1, <2>3, <2>8, <2>9, <2>10
<1>19. Laid(words, cues, cut, first, n)
  BY <1>4, <1>5, <1>6, <1>14, <1>16, <1>17, <1>18 DEF Laid
<1>20. Timed(words, cues, cut, first)
  BY <1>16, <1>18 DEF Timed
<1> QED BY <1>19, <1>20

-----------------------------------------------------------------------------
(* Every word is in a cue, or repeats one. *)

\* The words of a cue are found where they lie.
LEMMA CuePlace ==
  ASSUME NEW words, Spoken(words), NEW cues, NEW cut, NEW first, NEW n, Laid(words, cues, cut, first, n),
         NEW k \in 1 .. Len(cues)
  PROVE  /\ n \in Nat /\ first[k] \in 1 .. n /\ first[k + 1] \in Nat /\ first[k] < first[k + 1] /\ first[k + 1] <= n + 1
         /\ cut[first[k] - 1] \in Nat /\ cut[first[k]] \in Nat
         /\ cut[first[k] - 1] < cut[first[k]] /\ cut[first[k]] <= Len(words)
         /\ Words(cues[k]) = Span(words, cut[first[k] - 1], cut[first[k]])
         /\ Words(cues[k]) # <<>> /\ Words(cues[k])[1] = words[cut[first[k] - 1] + 1]
         /\ Len(Words(cues[k])) = cut[first[k]] - cut[first[k] - 1]
         /\ Begins(words, cues[k]) = cut[first[k] - 1] + 1
         /\ Stops(words, cues[k]) = cut[first[k]]
<1>1. PICK m : m = Len(cues)
  OBVIOUS
<1>2. /\ n \in Nat /\ m \in Nat /\ first \in [Nat -> Nat] /\ first[m + 1] = n + 1 /\ first[k] \in 1 .. n
      /\ \A i, j \in 1 .. m + 1 : i < j => first[i] < first[j]
  BY <1>1, Zenon DEF Laid
<1>3. first[k + 1] \in Nat /\ first[k] < first[k + 1] /\ first[k + 1] <= n + 1
  <2>1. /\ k \in 1 .. m + 1 /\ k + 1 \in 1 .. m + 1 /\ k < k + 1 /\ m + 1 \in 1 .. m + 1
        /\ k \in 1 .. m /\ k + 1 \in Nat
    <3>1. m \in Nat /\ k \in 1 .. m
      BY <1>1, <1>2
    <3> QED BY <3>1
  <2>2. first[k + 1] \in Nat /\ first[k] < first[k + 1]
    <3>1. first[k + 1] \in Nat
      BY <1>2, <2>1
    <3>2. first[k] < first[k + 1]
      BY <1>2, <2>1, Zenon
    <3> QED BY <3>1, <3>2
  <2>3. CASE k = m
    BY <1>2, <2>2, <2>3
  <2>4. CASE k # m
    <3>1. k + 1 < m + 1
      BY <1>2, <2>1, <2>4
    <3>2. first[k + 1] < n + 1
      BY <1>2, <2>1, <3>1
    <3> QED BY <1>2, <2>2, <3>2
  <2> QED BY <2>3, <2>4
<1>4. PICK b, e, c : b = cut[first[k] - 1] /\ e = cut[first[k]] /\ c = cues[k]
  OBVIOUS
<1>5. Good(words, b, e)
  BY <1>2, <1>4 DEF Laid
<1>6. ShownAt(words, c, cut, first[k], first[k + 1])
  BY <1>4 DEF Laid
<1>7. b \in Nat /\ e \in Nat /\ b < e /\ e <= Len(words)
  BY <1>5 DEF Good, Within
<1>8. Words(c) = Span(words, b, e)
  BY <1>4, <1>6 DEF ShownAt
<1>9. words \in Seq(Word) /\ Len(words) \in Nat /\ DOMAIN words = 1 .. Len(words)
  BY WordTypes DEF Spoken
<1>10. /\ Len(Words(c)) = e - b /\ Words(c)[1] = words[b + 1] /\ Words(c) # <<>>
  <2>1. PICK s : s = Span(words, b, e)
    OBVIOUS
  <2>0. b <= e
    BY <1>7
  <2>2. s \in Seq(Word) /\ Len(s) = e - b /\ \A i \in 1 .. e - b : s[i] = words[b + i]
    BY <1>7, <1>9, <2>0, <2>1, SpanIs, Zenon
  <2>3. e - b > 0 /\ 1 \in 1 .. e - b
    BY <1>7
  <2>4. s # <<>>
    BY <2>2, <2>3
  <2> QED BY <1>8, <2>1, <2>2, <2>3, <2>4
<1>11. Begins(words, c) = b + 1
  <2>1. b + 1 \in 1 .. Len(words)
    BY <1>7, <1>9
  <2>2. \A i, j \in 1 .. Len(words) : i < j => words[i].said < words[j].said
    BY DEF Spoken
  <2>3. \A i \in 1 .. Len(words) : words[i].said \in Nat
    BY WordTypes DEF Spoken
  <2>4. ASSUME NEW i \in 1 .. Len(words), words[i] = words[b + 1]
        PROVE  i = b + 1
    <3>1. words[i].said = words[b + 1].said /\ words[i].said \in Nat
      BY <2>3, <2>4
    <3>2. ~(i < b + 1) /\ ~(b + 1 < i)
      BY <2>1, <2>2, <3>1
    <3> QED BY <2>1, <3>2
  <2>5. Begins(words, c) = CHOOSE i \in 1 .. Len(words) : words[i] = words[b + 1]
    BY <1>9, <1>10, Zenon DEF Begins
  <2> QED BY <2>1, <2>4, <2>5
<1>12. Stops(words, c) = e
  BY <1>7, <1>10, <1>11 DEF Stops
<1> QED BY <1>2, <1>3, <1>4, <1>7, <1>8, <1>10, <1>11, <1>12

LEMMA AllSaid ==
  ASSUME NEW words, Spoken(words), NEW cues, NEW cut, NEW first, NEW n, Laid(words, cues, cut, first, n)
  PROVE  SayAll(words, cues)
<1>1. PICK m, N : m = Len(cues) /\ N = Len(words)
  OBVIOUS
<1>2. /\ n \in Nat /\ m \in Nat /\ DOMAIN cues = 1 .. m /\ cut[0] = 0 /\ cut[n] = N /\ cut \in [Nat -> Nat]
      /\ first \in [Nat -> Nat] /\ first[1] = 1 /\ first[m + 1] = n + 1
      /\ \A i, j \in 0 .. n : i < j => cut[i] < cut[j]
      /\ \A i \in 1 .. n : Good(words, cut[i - 1], cut[i])
  BY <1>1, Zenon DEF Laid
<1>3. words \in Seq(Word) /\ N \in Nat /\ DOMAIN words = 1 .. N
  BY <1>1, WordTypes DEF Spoken
<1>4. ASSUME NEW i \in 1 .. n
      PROVE  cut[i - 1] \in Nat /\ cut[i] \in Nat /\ cut[i - 1] < cut[i] /\ cut[i] <= N
  <2>1. Good(words, cut[i - 1], cut[i])
    BY <1>2
  <2> QED BY <1>1, <2>1 DEF Good, Within
<1>5. ASSUME NEW k \in 1 .. m
      PROVE  /\ first[k] \in 1 .. n /\ first[k + 1] \in Nat /\ first[k] < first[k + 1] /\ first[k + 1] <= n + 1
             /\ cut[first[k] - 1] \in Nat /\ cut[first[k]] \in Nat
             /\ cut[first[k] - 1] < cut[first[k]] /\ cut[first[k]] <= N
             /\ Words(cues[k]) = Span(words, cut[first[k] - 1], cut[first[k]])
             /\ Words(cues[k]) # <<>> /\ Words(cues[k])[1] = words[cut[first[k] - 1] + 1]
             /\ Len(Words(cues[k])) = cut[first[k]] - cut[first[k] - 1]
             /\ Begins(words, cues[k]) = cut[first[k] - 1] + 1
             /\ Stops(words, cues[k]) = cut[first[k]]
  <2>1. k \in 1 .. Len(cues)
    BY <1>1
  <2>2. /\ first[k] \in 1 .. n /\ first[k + 1] \in Nat /\ first[k] < first[k + 1] /\ first[k + 1] <= n + 1
        /\ cut[first[k] - 1] \in Nat /\ cut[first[k]] \in Nat
        /\ cut[first[k] - 1] < cut[first[k]] /\ cut[first[k]] <= Len(words)
        /\ Words(cues[k]) = Span(words, cut[first[k] - 1], cut[first[k]])
        /\ Words(cues[k]) # <<>> /\ Words(cues[k])[1] = words[cut[first[k] - 1] + 1]
        /\ Len(Words(cues[k])) = cut[first[k]] - cut[first[k] - 1]
        /\ Begins(words, cues[k]) = cut[first[k] - 1] + 1
        /\ Stops(words, cues[k]) = cut[first[k]]
    BY ONLY <2>1, CuePlace, Spoken(words), Laid(words, cues, cut, first, n)
  <2> QED BY <1>1, <2>2
<1>6. ASSUME NEW k \in 1 .. m
      PROVE  /\ Words(cues[k]) # <<>>
             /\ \E i \in DOMAIN words : words[i] = Words(cues[k])[1]
             /\ Words(cues[k]) = SubSeq(words, Begins(words, cues[k]), Stops(words, cues[k]))
  <2>0. PICK x, y : x = cut[first[k] - 1] /\ y = cut[first[k]]
    OBVIOUS
  <2>a. x \in Nat /\ y \in Nat /\ x < y /\ y <= N /\ N \in Nat
    BY <1>3, <1>5, <2>0
  <2>b. x + 1 \in 1 .. N
    BY ONLY <2>a
  <2>1. cut[first[k] - 1] + 1 \in 1 .. N
    BY ONLY <2>0, <2>b
  <2>2. \E i \in DOMAIN words : words[i] = Words(cues[k])[1]
    BY <1>3, <1>5, <2>1
  <2>3. Words(cues[k]) = SubSeq(words, Begins(words, cues[k]), Stops(words, cues[k]))
    BY <1>5, Zenon DEF Span
  <2> QED BY <1>5, <2>2, <2>3
<1>7. words # <<>> => cues # <<>> /\ Begins(words, cues[1]) = 1
  <2> SUFFICES ASSUME words # <<>> PROVE cues # <<>> /\ Begins(words, cues[1]) = 1
    OBVIOUS
  <2>1. N # 0
    BY <1>1, <1>3
  <2>2. n # 0
    BY <1>2, <2>1
  <2>3. m # 0
    BY <1>2, <2>2
  <2>4. 1 \in 1 .. m
    BY <1>2, <2>3
  <2>5. Begins(words, cues[1]) = cut[first[1] - 1] + 1
    BY <1>5, <2>4
  <2>6. first[1] - 1 = 0
    BY <1>2
  <2>7. cues # <<>>
    BY <1>1, <2>3
  <2> QED BY <1>2, <2>5, <2>6, <2>7
<1>8. ASSUME NEW k \in 1 .. m - 1
      PROVE  Stops(words, cues[k]) < Begins(words, cues[k + 1])
  <2>1. k \in 1 .. m /\ k + 1 \in 1 .. m
    BY <1>2
  <2>2. PICK p, q : p = first[k] /\ q = first[k + 1]
    OBVIOUS
  <2>3. p \in 1 .. n /\ q \in 1 .. n /\ p < q
    BY <1>5, <2>1, <2>2
  <2>4. p \in 0 .. n /\ q - 1 \in 0 .. n /\ (p = q - 1 \/ p < q - 1)
    BY <1>2, <2>3
  <2>5. cut[p] \in Nat /\ cut[q - 1] \in Nat /\ cut[p] <= cut[q - 1]
    <3>1. cut[p] \in Nat /\ cut[q - 1] \in Nat
      BY <1>4, <2>3
    <3>2. CASE p = q - 1
      BY <3>1, <3>2
    <3>3. CASE p < q - 1
      <4>1. cut[p] < cut[q - 1]
        BY <1>2, <2>4, <3>3, Zenon
      <4> QED BY <3>1, <4>1
    <3> QED BY <2>4, <3>1, <3>2, <3>3
  <2>6. Stops(words, cues[k]) = cut[p] /\ Begins(words, cues[k + 1]) = cut[q - 1] + 1
    BY <1>5, <2>1, <2>2
  <2> QED BY <2>5, <2>6
<1>9. ASSUME NEW k \in 1 .. m, NEW i \in 1 .. N,
             Stops(words, cues[k]) < i, k < m => i < Begins(words, cues[k + 1])
      PROVE  /\ words[i].start - words[i - 1].end < RepeatGap
             /\ words[i].texts = words[i - Len(Words(cues[k]))].texts
  <2>1. PICK a, z, b, e : a = first[k] /\ z = first[k + 1] /\ b = cut[a - 1] /\ e = cut[a]
    OBVIOUS
  <2>2. /\ a \in 1 .. n /\ z \in Nat /\ a < z /\ z <= n + 1 /\ b \in Nat /\ e \in Nat /\ b < e /\ e <= N
        /\ Len(Words(cues[k])) = e - b /\ e < i
    BY <1>5, <1>9, <2>1
  <2>3. z - 1 \in 1 .. n /\ z - 1 \in 0 .. n
    BY <1>2, <2>2
  <2>4. i <= cut[z - 1]
    <3>1. CASE k = m
      <4>1. z - 1 = n
        BY <1>2, <2>1, <3>1
      <4>2. cut[z - 1] = N
        BY <1>2, <4>1
      <4> QED BY <1>3, <4>2
    <3>2. CASE k # m
      <4>1. k + 1 \in 1 .. m /\ k < m
        BY <1>2, <3>2
      <4>2. Begins(words, cues[k + 1]) = cut[z - 1] + 1 /\ cut[z - 1] \in Nat
        BY <1>5, <2>1, <4>1
      <4> QED BY <1>9, <4>1, <4>2
    <3> QED BY <3>1, <3>2
  <2>5. PICK g \in 0 .. n : i <= cut[g] /\ \A h \in 0 .. n : i <= cut[h] => g <= h
    <3> DEFINE T == {h \in 0 .. n : i <= cut[h]}
    <3>1. z - 1 \in T
      BY <2>3, <2>4
    <3>2. \A h \in T : h \in Nat
      OBVIOUS
    <3>3. PICK g \in T : \A h \in T : g <= h
      <4> HIDE DEF T
      <4> QED BY <3>1, <3>2, Least
    <3> QED BY <3>3
  <2>6. g <= z - 1
    BY <2>3, <2>4, <2>5
  <2>7. g > a
    <3>1. g \in Nat /\ a \in Nat /\ a \in 0 .. n
      BY <2>2, <1>2
    <3>2. cut[g] \in Nat
      BY <1>2, <3>1
    <3>3. g # a
      BY <2>1, <2>2, <2>5
    <3>4. ~(g < a)
      <4> SUFFICES ASSUME g < a PROVE FALSE
        OBVIOUS
      <4>1. cut[g] < e
        BY <1>2, <2>1, <3>1
      <4> QED BY <2>2, <2>5, <3>2, <4>1
    <3> QED BY <3>1, <3>3, <3>4
  <2>8. g \in 1 .. n /\ g - 1 \in 0 .. n /\ g \in a + 1 .. z - 1
    BY <1>2, <2>2, <2>5, <2>6, <2>7
  <2>9. PICK p, q : p = cut[g - 1] /\ q = cut[g]
    OBVIOUS
  <2>10. p \in Nat /\ q \in Nat /\ p < q /\ q <= N /\ i <= q
    BY <1>4, <2>5, <2>8, <2>9
  <2>11. p < i
    <3>1. ~(i <= p)
      BY <2>5, <2>8, <2>9
    <3> QED BY <2>10, <3>1
  <2>12. /\ q - p = e - b
         /\ \A j \in 1 .. e - b : words[p + j].texts = words[b + j].texts
         /\ words[p + 1].start - words[p].end < RepeatGap
    <3>1. ShownAt(words, cues[k], cut, a, z)
      BY <1>1, <2>1 DEF Laid
    <3> QED BY <2>1, <2>8, <2>9, <3>1 DEF ShownAt
  <2>13. words[i].start - words[i - 1].end < RepeatGap
    <3>1. CASE i = p + 1
      <4>1. i - 1 = p
        BY <2>10, <3>1
      <4> QED BY <2>12, <3>1, <4>1
    <3>2. CASE i # p + 1
      <4>1. i \in p + 2 .. q
        BY <2>10, <2>11, <3>2
      <4>2. Good(words, p, q)
        BY <1>2, <2>8, <2>9
      <4> QED BY <4>1, <4>2, Spans DEF Good
    <3> QED BY <3>1, <3>2
  <2>14. words[i].texts = words[i - (e - b)].texts
    \* The same place in the group before says the same.
    <3>1. PICK j : j = i - p
      OBVIOUS
    <3>2. j \in 1 .. e - b /\ i = p + j
      <4>1. i \in Nat
        BY <2>2
      <4>2. /\ p \in Nat /\ q \in Nat /\ i <= q /\ p < i /\ q - p = e - b
        BY <2>10, <2>11, <2>12
      <4>3. j \in 1 .. q - p /\ i = p + j
        BY ONLY <3>1, <4>1, <4>2
      <4> QED BY ONLY <4>2, <4>3
    <3>3. words[i].texts = words[b + j].texts
      BY <2>12, <3>2
    <3>4. PICK o : o = cut[g - 2]
      OBVIOUS
    <3>5. CASE g = a + 1
      <4>1. g - 1 = a
        BY <2>2, <3>5
      <4>2. p = e
        BY <2>1, <2>9, <4>1
      <4>3. i - (e - b) = b + j
        BY <2>2, <2>10, <3>1, <3>2, <4>2
      <4> QED BY <3>3, <4>3
    <3>6. CASE g # a + 1
      <4>1. g - 1 \in a + 1 .. z - 1 /\ g - 1 - 1 = g - 2 /\ g - 1 \in 1 .. n
        BY <2>2, <2>8, <3>6
      <4>2. /\ p - o = e - b
            /\ \A l \in 1 .. e - b : words[o + l].texts = words[b + l].texts
        <5>1. ShownAt(words, cues[k], cut, a, z)
          BY <1>1, <2>1 DEF Laid
        <5> QED BY <2>1, <2>9, <3>4, <4>1, <5>1 DEF ShownAt
      <4>3. o \in Nat
        BY <1>4, <3>4, <4>1
      <4>4. i - (e - b) = o + j
        BY <2>2, <2>10, <3>2, <4>2, <4>3
      <4>5. words[o + j].texts = words[b + j].texts
        BY <3>2, <4>2
      <4> QED BY <3>3, <4>4, <4>5
    <3> QED BY <3>5, <3>6
  <2> QED BY <2>2, <2>13, <2>14
<1> QED BY <1>1, <1>2, <1>3, <1>6, <1>7, <1>8, <1>9 DEF SayAll

\* Words that come in the order of their starts can be read.
LEMMA AllReadable ==
  ASSUME NEW words, Spoken(words), Sorted(words), NEW cues, NEW cut, NEW first, NEW n,
         Laid(words, cues, cut, first, n), Timed(words, cues, cut, first)
  PROVE  Readable(words, cues)
<1>1. PICK m, N : m = Len(cues) /\ N = Len(words)
  OBVIOUS
<1>2. /\ n \in Nat /\ m \in Nat /\ DOMAIN cues = 1 .. m
      /\ \A i \in 1 .. n : Good(words, cut[i - 1], cut[i])
      /\ \A k \in 1 .. m : ShownAt(words, cues[k], cut, first[k], first[k + 1])
  BY <1>1, Zenon DEF Laid
<1>3. /\ N \in Nat /\ DOMAIN words = 1 .. N
      /\ \A i \in 1 .. N : words[i].start \in Int /\ words[i].end \in Int
  BY <1>1, WordTypes DEF Spoken
<1>4. ASSUME NEW k \in 1 .. m, k < m, Disjoint(words)
      PROVE  cues[k].end <= cues[k + 1].start
  <2>1. k \in 1 .. Len(cues) /\ k + 1 \in 1 .. Len(cues)
    BY <1>1, <1>2, <1>4
  <2>2. PICK z : z = first[k + 1]
    OBVIOUS
  <2>3. first[k] \in 1 .. n /\ first[k] < z
    BY <2>1, <2>2, CuePlace
  <2>4. z \in 1 .. n /\ cut[z - 1] \in Nat
    BY <2>1, <2>2, CuePlace
  <2>5. z - 1 \in 1 .. n
    BY <1>2, <2>3, <2>4
  <2>6. PICK p : p = cut[z - 1]
    OBVIOUS
  <2>7. p \in 1 .. N
    <3>1. Good(words, cut[z - 1 - 1], p)
      BY <1>2, <2>5, <2>6
    <3> QED BY <1>1, <1>3, <3>1 DEF Good, Within
  <2>8. p + 1 \in 1 .. N /\ cues[k + 1].start = words[p + 1].start
    <3>1. Good(words, p, cut[z])
      BY <1>2, <2>4, <2>6
    <3>2. p + 1 \in 1 .. N
      BY <1>1, <1>3, <2>7, <3>1 DEF Good, Within
    <3>3. ShownAt(words, cues[k + 1], cut, z, first[k + 1 + 1])
      BY <1>1, <1>2, <2>1, <2>2
    <3> QED BY <2>6, <3>2, <3>3 DEF ShownAt
  <2>9. words[p].end <= words[p + 1].start
    <3>1. p < p + 1
      BY <2>7
    <3> QED BY <1>3, <1>4, <2>7, <2>8, <3>1 DEF Disjoint
  <2>10. cues[k].end <= words[p].end \/ cues[k].end <= cues[k + 1].start
    BY <1>1, <1>4, <2>1, <2>2, <2>6 DEF Timed
  <2>11. cues[k].end \in Int
    <3>1. ShownAt(words, cues[k], cut, first[k], first[k + 1])
      BY <1>2
    <3> QED BY <3>1 DEF ShownAt
  <2>12. words[p].end \in Int /\ words[p + 1].start \in Int
    BY <1>3, <2>7, <2>8
  <2> QED BY <2>8, <2>9, <2>10, <2>11, <2>12
<1>5. ASSUME NEW k \in 1 .. m
      PROVE  /\ \A l \in DOMAIN cues[k].lines : Width(cues[k].lines[l]) <= MaxLineChars \/ Len(Words(cues[k])) = 1
             /\ cues[k].end - cues[k].start <= MaxCue
             /\ cues[k].end - cues[k].start >= MinCue \/ (k < Len(cues) /\ cues[k + 1].start <= cues[k].end)
             /\ Disjoint(words) /\ k < Len(cues) => cues[k].end <= cues[k + 1].start
  <2>1. ShownAt(words, cues[k], cut, first[k], first[k + 1])
    BY <1>2
  <2>2. cues[k].end - cues[k].start >= MinCue \/ (k < Len(cues) /\ cues[k + 1].start <= cues[k].end)
    BY <1>1 DEF Timed
  <2> QED BY <1>1, <1>4, <2>1, <2>2 DEF ShownAt
<1> QED BY <1>1, <1>2, <1>5 DEF Readable

-----------------------------------------------------------------------------
(* What Download makes of any transcript. *)

\* Tokens come in the order of their starts.
InTurn(tokens) == \A i, j \in 1 .. Len(tokens) : i < j => tokens[i].start <= tokens[j].start

LEMMA Shaped ==
  ASSUME NEW tokens, Numbered(tokens), \A i \in 1 .. Len(tokens) : Chars(tokens[i].text) \in Nat
  PROVE  /\ Spells(MergeTokens(tokens), tokens)
         /\ SayAll(MergeTokens(tokens), ShapeCues(tokens))
         /\ InTurn(tokens) => Readable(MergeTokens(tokens), ShapeCues(tokens))
<1>1. PICK words, cues : words = MergeTokens(tokens) /\ cues = ShapeCues(tokens)
  OBVIOUS
<1>2. /\ Spoken(words) /\ Spells(words, tokens)
      /\ \A i \in 1 .. Len(words) : words[i].said \in 1 .. Len(tokens) /\ words[i].start = tokens[words[i].said].start
  BY <1>1, WordsSpoken
<1>3. cues = Retime(CollapseRepeats(CuesOf(GroupWords(words))))
  BY <1>1 DEF ShapeCues, CuesOf
<1>4. PICK cut, first, n : Laid(words, cues, cut, first, n) /\ Timed(words, cues, cut, first)
  BY <1>2, <1>3, CuesLaid
<1>5. SayAll(words, cues)
  BY <1>2, <1>4, AllSaid
<1>6. ASSUME InTurn(tokens)
      PROVE  Readable(words, cues)
  <2>1. Sorted(words)
    <3> SUFFICES ASSUME NEW i \in 1 .. Len(words), NEW j \in 1 .. Len(words), i < j
                 PROVE  words[i].start <= words[j].start
      BY DEF Sorted
    <3>1. words[i].said < words[j].said
      BY <1>2 DEF Spoken
    <3> QED BY <1>2, <1>6, <3>1 DEF InTurn
  <2> QED BY <1>2, <1>4, <2>1, AllReadable
<1> QED BY <1>1, <1>2, <1>5, <1>6

-----------------------------------------------------------------------------
(* What is in the transcript. *)

\* A unit is a word of the film, whenever it is heard.
Sourced(words, units) ==
  \A p \in DOMAIN units : units[p].word \in DOMAIN words /\ units[p].text = words[units[p].word].text

Timely(units) == \A p, q \in DOMAIN units : p < q => units[p].at <= units[q].at

\* The transcript is in the order of time.  (At a fixed cut a word that was heard late
\* may come before one that the next chunk heard early.)
InOrder == Timely(transcript)

\* What a chunk's share is made of.
LEMMA ShareSourced ==
  ASSUME NEW words, Worded(words), NEW c \in Chunks, NEW units \in Hearings(Keeping(words, Places(words, c))),
         NEW mine, mine = Trim(units, c.keepFrom, c.keepUntil)
  PROVE  mine \in Seq(Unit) /\ Sourced(words, mine) /\ Timely(mine)
<1>0. c.from \in Int /\ c.to \in Int
  BY DEF Chunks
<1>1. /\ units \in Seq(Unit) /\ Ascending(units)
      /\ \A p \in DOMAIN units : units[p].word \in DOMAIN words /\ units[p].text = words[units[p].word].text
      /\ \A p, q \in DOMAIN units : p < q => units[p].at <= units[q].at
  BY <1>0, HeardTruly
<1>2. PICK places : mine = Keeping(units, places)
  BY DEF Trim
<1>3. /\ mine \in Seq(Unit) /\ Ascending(mine)
      /\ \A p \in DOMAIN mine : \E i \in DOMAIN units : i \in places /\ mine[p] = units[i]
  BY <1>1, <1>2, KeepingKeeps
<1>4. Sourced(words, mine)
  BY <1>1, <1>3 DEF Sourced
<1>5. ASSUME NEW p \in DOMAIN mine, NEW q \in DOMAIN mine, p < q
      PROVE  mine[p].at <= mine[q].at
  <2>1. PICK i \in DOMAIN units : mine[p] = units[i]
    BY <1>3
  <2>2. PICK j \in DOMAIN units : mine[q] = units[j]
    BY <1>3
  <2>3. units[i].word < units[j].word
    BY <1>3, <1>5, <2>1, <2>2 DEF Ascending
  <2>4. /\ i \in Nat /\ j \in Nat /\ units[i].word \in Nat /\ units[j].word \in Nat
        /\ units[i].at \in Int /\ units[j].at \in Int
    <3>1. DOMAIN units = 1 .. Len(units) /\ Len(units) \in Nat
      BY <1>1, UnitsOf
    <3>2. \A r \in DOMAIN units : units[r].at \in Int /\ units[r].word \in Nat
      BY <1>1, UnitsOf
    <3> QED BY <3>1, <3>2
  <2>5. ~(j < i) /\ i # j
    <3>1. j < i => units[j].word < units[i].word
      BY <1>1 DEF Ascending
    <3> QED BY <2>3, <2>4, <3>1
  <2>6. i < j
    BY <2>4, <2>5
  <2> QED BY <1>1, <2>1, <2>2, <2>6
<1> QED BY <1>3, <1>4, <1>5 DEF Timely

\* The transcript says what the film says; in order, if there is but one chunk.
Faithful ==
  /\ transcript \in Seq(Unit) /\ Sourced(film.words, transcript)
  /\ Ready /\ OneChunk(film) => InOrder /\ (index = 1 => transcript = <<>>)

\* The transcript with the end of a share.
GoesOn(u, t, mine, n) ==
  /\ t \in Seq(Unit) /\ mine \in Seq(Unit) /\ n \in Nat /\ n <= Len(mine)
  /\ u = t \o SubSeq(mine, n + 1, Len(mine))

LEMMA Continued ==
  ASSUME NEW u, NEW t, NEW mine, NEW n, GoesOn(u, t, mine, n)
  PROVE  /\ u \in Seq(Unit)
         /\ \A p \in DOMAIN u : (p \in DOMAIN t /\ u[p] = t[p]) \/ \E q \in DOMAIN mine : u[p] = mine[q]
         /\ t = <<>> => DOMAIN u = 1 .. Len(mine) - n /\ \A p \in DOMAIN u : p + n \in DOMAIN mine /\ u[p] = mine[p + n]
<1>0. /\ t \in Seq(Unit) /\ mine \in Seq(Unit) /\ n \in Nat /\ n <= Len(mine)
      /\ u = t \o SubSeq(mine, n + 1, Len(mine))
  BY DEF GoesOn
<1>1. PICK new : new = SubSeq(mine, n + 1, Len(mine))
  OBVIOUS
<1>2. /\ Len(mine) \in Nat /\ DOMAIN mine = 1 .. Len(mine) /\ new \in Seq(Unit)
      /\ DOMAIN new = 1 .. Len(mine) - n /\ Len(new) = Len(mine) - n
      /\ \A p \in DOMAIN new : p + n \in DOMAIN mine /\ new[p] = mine[p + n]
  BY <1>0, <1>1
<1>a. u = t \o new /\ new \in Seq(Unit)
  BY <1>0, <1>1, <1>2
<1>3. u = t \o new /\ u \in Seq(Unit) /\ Len(u) = Len(t) + Len(new) /\ Len(t) \in Nat /\ Len(new) \in Nat
  <2>1. t \in Seq(Unit)
    BY <1>0
  <2>2. Len(t) \in Nat /\ Len(new) \in Nat
    BY <2>1, <1>a
  <2>3. t \o new \in Seq(Unit) /\ Len(t \o new) = Len(t) + Len(new)
    BY <2>1, <1>a
  <2> QED BY <1>a, <2>2, <2>3
<1>4. /\ \A p \in 1 .. Len(u) : u[p] = IF p <= Len(t) THEN t[p] ELSE new[p - Len(t)]
      /\ DOMAIN u = 1 .. Len(u) /\ DOMAIN t = 1 .. Len(t) /\ DOMAIN new = 1 .. Len(new)
  <2>1. t \in Seq(Unit) /\ new \in Seq(Unit) /\ u \in Seq(Unit)
    BY <1>0, <1>a, <1>3
  <2>2. DOMAIN u = 1 .. Len(u) /\ DOMAIN t = 1 .. Len(t) /\ DOMAIN new = 1 .. Len(new)
    BY ONLY <2>1
  <2>3. \A p \in 1 .. Len(t) + Len(new) : (t \o new)[p] = IF p <= Len(t) THEN t[p] ELSE new[p - Len(t)]
    BY ONLY <2>1
  <2> QED BY <1>3, <2>2, <2>3
<1>5. \A p \in 1 .. Len(u) : p <= Len(t) \/ p - Len(t) \in 1 .. Len(new)
  BY <1>3
<1>6. ASSUME NEW p \in DOMAIN u
      PROVE  (p \in DOMAIN t /\ u[p] = t[p]) \/ \E q \in DOMAIN mine : u[p] = mine[q]
  <2>1. CASE p <= Len(t)
    BY <1>3, <1>4, <2>1
  <2>2. CASE ~(p <= Len(t))
    <3>1. p - Len(t) \in DOMAIN new /\ u[p] = new[p - Len(t)]
      BY <1>4, <1>5, <2>2
    <3> QED BY <1>2, <3>1
  <2> QED BY <2>1, <2>2
<1>7. ASSUME t = <<>>
      PROVE  u = new
  BY ONLY <1>a, <1>7
<1> QED BY <1>2, <1>3, <1>6, <1>7

LEMMA HeardFaithful ==
  ASSUME Planning, Seams, Faithful, Heard
  PROVE  Faithful'
<1>0. /\ film \in Film /\ AtChunk /\ Ready /\ index \in Nat \ {0} /\ chunks \in Seq(Chunks) /\ Len(chunks) \in Nat
      /\ film' = film /\ index' = index + 1
  <2>1. film \in Film /\ AtChunk /\ Ready /\ film' = film /\ index' = index + 1
    BY DEF Heard, Accept, Planning, TypeOK, AtChunk, Ready
  <2>2. chunks \in Seq(Chunks) /\ index \in 1 .. Len(chunks) + 1
    BY DEF Planning, TypeOK
  <2>3. Len(chunks) \in Nat
    BY <2>2
  <2> QED BY <2>1, <2>2, <2>3
<1>1. PICK words, c : words = film.words /\ c = Here
  OBVIOUS
<1>2. Worded(words)
  BY <1>0, <1>1, FilmsWords
<1>3. index \in 1 .. Len(chunks) /\ c \in Chunks
  <2>1. index \in 1 .. Len(chunks)
    BY <1>0 DEF AtChunk
  <2> QED BY <1>0, <1>1, <2>1 DEF Here
<1>4. PICK units \in Hearings(SpokenIn(c)) :
        transcript' = transcript \o
          (IF c.keepFrom = Nothing THEN Trim(units, c.keepFrom, c.keepUntil)
           ELSE DropRepeatedSeam(transcript, Trim(units, c.keepFrom, c.keepUntil)))
  BY <1>1 DEF Heard, Accept
<1>5. PICK mine : mine = Trim(units, c.keepFrom, c.keepUntil)
  OBVIOUS
<1>6. mine \in Seq(Unit) /\ Sourced(words, mine) /\ Timely(mine)
  <2>1. units \in Hearings(Keeping(words, Places(words, c)))
    BY <1>1, <1>4 DEF SpokenIn, Places
  <2> QED BY <1>2, <1>3, <1>5, <2>1, ShareSourced
<1>7. transcript \in Seq(Unit) /\ Sourced(words, transcript)
  BY <1>1 DEF Faithful
<1>8. PICK n \in Nat : n <= Len(mine) /\ transcript' = transcript \o SubSeq(mine, n + 1, Len(mine))
  <2>1. CASE c.keepFrom = Nothing
    <3>1. mine = SubSeq(mine, 0 + 1, Len(mine)) /\ 0 <= Len(mine)
      BY <1>6
    <3> QED BY <1>4, <1>5, <2>1, <3>1
  <2>2. CASE c.keepFrom # Nothing
    <3>1. \E n \in Nat : n <= Len(mine) /\ DropRepeatedSeam(transcript, mine) = SubSeq(mine, n + 1, Len(mine))
      BY <1>6, <1>7, SeamDropped
    <3> QED BY <1>4, <1>5, <2>2, <3>1
  <2> QED BY <2>1, <2>2
<1>9. PICK t, u : t = transcript /\ u = transcript'
  OBVIOUS
<1>10. /\ u \in Seq(Unit)
       /\ \A p \in DOMAIN u : (p \in DOMAIN t /\ u[p] = t[p]) \/ \E q \in DOMAIN mine : u[p] = mine[q]
       /\ t = <<>> => DOMAIN u = 1 .. Len(mine) - n /\ \A p \in DOMAIN u : p + n \in DOMAIN mine /\ u[p] = mine[p + n]
  <2>1. GoesOn(u, t, mine, n)
    BY <1>6, <1>7, <1>8, <1>9 DEF GoesOn
  <2> QED BY <2>1, Continued
<1>11. Sourced(words, u)
  BY <1>6, <1>7, <1>9, <1>10 DEF Sourced
<1>12. ASSUME OneChunk(film)
       PROVE  Timely(u)
  <2>1. Len(chunks) = 1
    <3>1. PICK k : k = Len(chunks)
      OBVIOUS
    <3>2. ~(k > 1)
      BY <1>0, <1>12, <3>1 DEF Seams, Complete
    <3>3. k \in Nat /\ index \in 1 .. k
      BY <1>0, <1>3, <3>1
    <3> QED BY <3>1, <3>2, <3>3
  <2>2. index = 1
    BY <1>3, <2>1
  <2>3. t = <<>>
    BY <1>0, <1>9, <1>12, <2>2 DEF Faithful
  <2>4. ASSUME NEW p \in DOMAIN u, NEW q \in DOMAIN u, p < q
        PROVE  u[p].at <= u[q].at
    <3>1. p + n \in DOMAIN mine /\ q + n \in DOMAIN mine /\ u[p] = mine[p + n] /\ u[q] = mine[q + n]
      BY <1>10, <2>3
    <3>2. p \in Int /\ q \in Int
      BY <1>10, <2>3
    <3>3. p + n < q + n
      BY <2>4, <3>2
    <3> QED BY <1>6, <3>1, <3>3 DEF Timely
  <2> QED BY <2>4 DEF Timely
<1>13. index' # 1
  BY <1>0
<1> QED BY <1>0, <1>1, <1>9, <1>10, <1>11, <1>12, <1>13 DEF Faithful, InOrder

LEMMA NextFaithful ==
  ASSUME Planning, Seams, Faithful, [Next]_vars
  PROVE  Faithful'
<1>0. transcript \in Seq(Unit) /\ <<>> \in Seq(Unit)
  BY DEF Faithful
<1>1. CASE Download
  <2>1. ~Ready' /\ transcript' = <<>>
    BY <1>1 DEF Download, Ready
  <2> QED BY <1>0, <2>1 DEF Faithful, Sourced
<1>2. CASE CutAtSilence \/ CutFixed \/ CutLast
  <2>1. transcript' = <<>>
    BY <1>2 DEF CutAtSilence, CutFixed, CutLast, Seams, Framed, chunkVars
  <2> QED BY <1>0, <2>1 DEF Faithful, Sourced, InOrder, Timely
<1>3. CASE Heard
  BY <1>3, HeardFaithful
<1>4. CASE NothingHeard
  <2>1. /\ film' = film /\ index \in 1 .. Len(chunks) + 1 /\ AtChunk /\ Ready
        /\ chunks \in Seq(Chunks)
        /\ \/ UNCHANGED <<transcript, index>>
           \/ transcript' = transcript \o <<>> /\ index' = index + 1
    BY <1>4 DEF NothingHeard, Accept, TryAgain, Return, chunkVars, Planning, TypeOK, AtChunk, Ready
  <2>2. transcript \o <<>> = transcript
    BY <1>0
  <2>3. transcript' = transcript /\ (index' = 1 => index = 1)
    <3>1. index \in Nat \ {0}
      <4>1. Len(chunks) \in Nat
        BY <2>1
      <4> QED BY <2>1, <4>1
    <3> QED BY <2>1, <2>2, <3>1
  <2> QED BY <2>1, <2>3 DEF Faithful, InOrder
<1>5. CASE \/ Loops \/ NoAnswer \/ Refused \/ Unreachable \/ Broken
           \/ Assemble \/ ProbeFails \/ TurnedAway \/ Elsewhere \/ UNCHANGED vars
  <2>1. UNCHANGED <<film, index, transcript>>
    <3> USE DEF Return, TryAgain, chunkVars, planVars
    <3>1. CASE Loops \/ NoAnswer \/ Refused \/ Unreachable \/ Broken
      BY <3>1 DEF Loops, NoAnswer, Refused, Unreachable, Broken
    <3>2. CASE Assemble \/ ProbeFails \/ TurnedAway \/ Elsewhere \/ UNCHANGED vars
      BY <3>2 DEF Assemble, ProbeFails, TurnedAway, Elsewhere, vars
    <3> QED BY <1>5, <3>1, <3>2
  <2>2. Ready' => Ready
    <3> USE DEF Return, TryAgain, AtChunk, Ready
    <3>1. CASE Loops \/ NoAnswer \/ Refused \/ Unreachable \/ Broken
      BY <3>1 DEF Loops, NoAnswer, Refused, Unreachable, Broken
    <3>2. CASE Assemble \/ ProbeFails \/ TurnedAway \/ Elsewhere \/ UNCHANGED vars
      BY <3>2 DEF Assemble, ProbeFails, TurnedAway, Elsewhere, vars
    <3> QED BY <1>5, <3>1, <3>2
  <2> QED BY <2>1, <2>2 DEF Faithful, InOrder
<1> QED BY <1>1, <1>2, <1>3, <1>4, <1>5 DEF Next, Proceed

LEMMA FaithfulAlways == Spec => [](Planning /\ Seams /\ Faithful)
<1>1. Init => Faithful
  BY DEF Init, Faithful, Sourced, InOrder, Timely
<1> QED BY <1>1, NextFaithful, SeamsAlways, PTL DEF Spec

\* The tokens that shaping is given.
LEMMA TokensNumbered ==
  ASSUME film \in Film, Faithful
  PROVE  /\ Numbered(Tokens) /\ Len(Tokens) = Len(transcript)
         /\ \A i \in 1 .. Len(Tokens) : Chars(Tokens[i].text) \in Nat
         /\ InOrder => InTurn(Tokens)
<1>1. PICK n : n = Len(transcript)
  OBVIOUS
<1>2. n \in Nat /\ DOMAIN transcript = 1 .. n /\ transcript \in Seq(Unit)
  BY <1>1 DEF Faithful
<1>3. ASSUME NEW i \in 1 .. n
      PROVE  /\ transcript[i].text \in STRING /\ transcript[i].at \in Int
             /\ Lasts(transcript[i].text) \in Nat /\ Chars(transcript[i].text) \in Nat
  <2>1. transcript[i] \in Unit
    BY <1>1, <1>2
  <2>2. \E j \in DOMAIN film.words : transcript[i].text = film.words[j].text
    BY <1>2 DEF Faithful, Sourced
  <2> QED BY <2>1, <2>2, SubtitlesTexts DEF Unit
<1>4. PICK tokens : tokens = Tokens
  OBVIOUS
<1>5. tokens = [i \in 1 .. n |-> [text |-> transcript[i].text, start |-> transcript[i].at,
                                  end |-> transcript[i].at + Lasts(transcript[i].text), said |-> i]]
  BY <1>2, <1>4 DEF Tokens
<1>6. ASSUME NEW i \in 1 .. n
      PROVE  /\ tokens[i] \in Token /\ tokens[i].said = i /\ tokens[i].text = transcript[i].text
             /\ tokens[i].start = transcript[i].at
  <2>1. PICK x, a, z : x = transcript[i].text /\ a = transcript[i].at /\ z = transcript[i].at + Lasts(transcript[i].text)
    OBVIOUS
  <2>2. tokens[i] = [text |-> x, start |-> a, end |-> z, said |-> i]
    BY <1>5, <2>1
  <2>3. x \in STRING /\ a \in Int /\ z \in Int
    BY <1>3, <2>1
  <2> QED BY <2>1, <2>2, <2>3 DEF Token
<1>7. tokens \in Seq(Token) /\ Len(tokens) = n
  <2>1. tokens \in [1 .. n -> Token]
    BY <1>5, <1>6
  <2> QED BY <1>2, <2>1
<1>8. Numbered(tokens)
  BY <1>6, <1>7 DEF Numbered
<1>9. \A i \in 1 .. n : Chars(tokens[i].text) \in Nat
  BY <1>3, <1>6
<1>10. InOrder => InTurn(tokens)
  BY <1>2, <1>6, <1>7 DEF InOrder, Timely, InTurn
<1> QED BY <1>1, <1>4, <1>7, <1>8, <1>9, <1>10

\* Nothing that was heard is missing from the cues, but what repeats the cue before,
\* and nothing else is in them, whatever was heard and however late (shape.go).
THEOREM SubtitleSaysAll ==
  Spec => [](Spells(MergeTokens(Tokens), Tokens) /\ SayAll(MergeTokens(Tokens), ShapeCues(Tokens)))
<1>1. Planning /\ Faithful => Spells(MergeTokens(Tokens), Tokens) /\ SayAll(MergeTokens(Tokens), ShapeCues(Tokens))
  <2> SUFFICES ASSUME Planning, Faithful
               PROVE  Spells(MergeTokens(Tokens), Tokens) /\ SayAll(MergeTokens(Tokens), ShapeCues(Tokens))
    OBVIOUS
  <2>1. film \in Film
    BY DEF Planning, TypeOK
  <2> QED BY <2>1, TokensNumbered, Shaped
<1> QED BY <1>1, FaithfulAlways, PTL

\* The cues fit the screen, stay long enough and not too long, and overlap no more
\* than the words do, if the transcript is in the order of time; and it is, if the
\* film is no longer than one chunk (shape.go; whisper.go, Download).
THEOREM SubtitleWellShaped ==
  Spec => [](OneChunk(film) \/ InOrder => WellShaped)
<1>1. Planning /\ Faithful => (OneChunk(film) \/ InOrder => WellShaped)
  <2> SUFFICES ASSUME Planning, Faithful, OneChunk(film) \/ InOrder, result = "subtitle"
               PROVE  /\ Spells(MergeTokens(Tokens), Tokens)
                      /\ SayAll(MergeTokens(Tokens), ShapeCues(Tokens))
                      /\ Readable(MergeTokens(Tokens), ShapeCues(Tokens))
    BY DEF WellShaped
  <2>1. film \in Film
    BY DEF Planning, TypeOK
  <2>2. InOrder
    BY DEF Faithful, Ready
  <2> QED BY <2>1, <2>2, TokensNumbered, Shaped
<1> QED BY <1>1, FaithfulAlways, PTL

=============================================================================
