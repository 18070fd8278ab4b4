--------------------------- MODULE StripFilesProofs ---------------------------
(***************************************************************************)
(* Theorems about StripFiles, for any directory, any number of workers and *)
(* any number of stops.                                                    *)
(***************************************************************************)
EXTENDS StripFiles, WellFoundedInduction, TLAPS

-----------------------------------------------------------------------------
(* Induction on numbers, as the absence of a least counterexample. *)

Below == {p \in Nat \X Nat : p[1] < p[2]}

LEMMA BelowIsWellFounded == IsWellFoundedOn(Below, Nat)
BY NatLessThanWellFounded DEF OpToRel, Below

LEMMA Least ==
  ASSUME NEW T, \A n \in T : n \in Nat, T # {}
  PROVE  \E n \in T : \A k \in T : n <= k
<1>1. PICK n \in T : \A k \in T : ~(<<k, n>> \in Below)
  <2>1. T \subseteq Nat
    OBVIOUS
  <2> QED BY <2>1, BelowIsWellFounded, WFMin
<1>2. ASSUME NEW k \in T
      PROVE  n <= k
  <2>1. n \in Nat /\ k \in Nat
    OBVIOUS
  <2>2. ~(k < n)
    BY <1>1, <2>1 DEF Below
  <2> QED BY <2>1, <2>2
<1> QED BY <1>2

-----------------------------------------------------------------------------
(* What is left of a video without some of its streams. *)

Keeping(stream, drop, n, kept) ==
  kept = [i \in 0 .. n |->
            IF i = 0 THEN <<>>
            ELSE IF i \in drop THEN kept[i - 1] ELSE Append(kept[i - 1], stream[i])]

LEMMA KeepingExists ==
  ASSUME NEW stream, NEW drop, NEW n \in Nat
  PROVE  \E kept : Keeping(stream, drop, n, kept)
<1> DEFINE T == {k \in Nat : ~\E kept : Keeping(stream, drop, k, kept)}
<1> SUFFICES ASSUME T # {} PROVE FALSE
  OBVIOUS
<1>1. PICK k \in T : \A j \in T : k <= j
  BY Least
<1>2. CASE k = 0
  <2>1. Keeping(stream, drop, 0, [i \in 0 .. 0 |-> <<>>])
    BY DEF Keeping
  <2> QED BY <1>2, <2>1
<1>3. CASE k # 0
  <2>1. k \in Nat \ {0} /\ k - 1 \in Nat /\ k - 1 \notin T
    BY <1>1, <1>3
  <2>2. PICK f : Keeping(stream, drop, k - 1, f)
    BY <2>1
  <2> DEFINE Following(h, i) == IF i = 0 THEN <<>>
                                ELSE IF i \in drop THEN h[i - 1] ELSE Append(h[i - 1], stream[i])
             last == Following(f, k)
             g == [i \in 0 .. k |-> IF i < k THEN f[i] ELSE last]
  <2>3. \A i \in 0 .. k - 1 : f[i] = Following(f, i)
    BY <2>2 DEF Keeping
  <2> HIDE DEF last
  <2>4. \A i \in 0 .. k - 1 : g[i] = f[i]
    BY <2>1
  <2>5. g[k] = Following(f, k)
    <3>1. g[k] = last
      BY <2>1
    <3> QED BY <3>1 DEF last
  <2>6. \A i \in 0 .. k : i # 0 => g[i - 1] = f[i - 1]
    BY <2>1, <2>4
  <2>7. g = [i \in 0 .. k |-> g[i]]
    OBVIOUS
  <2> HIDE DEF g
  <2>8. \A i \in 0 .. k : g[i] = Following(g, i)
    <3> SUFFICES ASSUME NEW i \in 0 .. k
                 PROVE  g[i] = Following(g, i)
      OBVIOUS
    <3>1. Following(g, i) = Following(f, i)
      BY <2>6
    <3>2. i \in 0 .. k - 1 \/ i = k
      BY <2>1
    <3> QED BY <2>3, <2>4, <2>5, <3>1, <3>2
  <2>9. Keeping(stream, drop, k, g)
    BY <2>7, <2>8 DEF Keeping
  <2> QED BY <2>9
<1> QED BY <1>2, <1>3

LEMMA KeptType ==
  ASSUME NEW S, NEW stream \in Seq(S), NEW drop
  PROVE  Kept(stream, drop) \in Seq(S)
<1> DEFINE n == Len(stream)
           kept == CHOOSE f : Keeping(stream, drop, n, f)
<1>1. n \in Nat /\ \A i \in 1 .. n : stream[i] \in S
  OBVIOUS
<1>2. Keeping(stream, drop, n, kept)
  <2> HIDE DEF n
  <2> QED BY <1>1, KeepingExists
<1>3. Kept(stream, drop) = kept[n]
  BY DEF Kept, Keeping
<1> HIDE DEF kept, n
<1> DEFINE T == {k \in Nat : k <= n /\ kept[k] \notin Seq(S)}
<1>4. T = {}
  <2> SUFFICES ASSUME T # {} PROVE FALSE
    OBVIOUS
  <2>1. PICK k \in T : \A j \in T : k <= j
    BY Least
  <2>2. k \in 0 .. n /\ kept[k] \notin Seq(S)
    BY <1>1
  <2>3. kept[k] = IF k = 0 THEN <<>>
                  ELSE IF k \in drop THEN kept[k - 1] ELSE Append(kept[k - 1], stream[k])
    BY <1>2, <2>2 DEF Keeping
  <2>4. CASE k = 0
    BY <2>2, <2>3, <2>4
  <2>5. CASE k # 0
    <3>1. k - 1 \in Nat /\ k - 1 <= n /\ k - 1 \notin T /\ k \in 1 .. n
      BY <1>1, <2>1, <2>2, <2>5
    <3>2. kept[k - 1] \in Seq(S) /\ stream[k] \in S
      BY <1>1, <3>1
    <3> QED BY <2>2, <2>3, <2>5, <3>2
  <2> QED BY <2>4, <2>5
<1> QED BY <1>1, <1>3, <1>4

LEMMA WithoutType ==
  ASSUME NEW film \in Film, NEW drop
  PROVE  Without(film, drop) \in Film
<1>1. film.stream \in Seq(Language)
  BY DEF Film
<1>2. Kept(film.stream, drop) \in Seq(Language)
  BY <1>1, KeptType
<1> QED BY <1>2 DEF Without, Film

-----------------------------------------------------------------------------
(* Names. *)

LEMMA TempNames ==
  ASSUME NEW v \in Video, NEW t \in Tag
  PROVE  /\ TempName(v, t, Last(v)) \in Temp /\ TempName(v, t, "srt") \in Temp
BY DEF Temp

LEMMA NamesApart ==
  /\ \A n \in Final : n \notin Temp
  /\ \A n \in Name : IsStray(n) => n \in Temp
BY StripConstants DEF Name

LEMMA StemType ==
  ASSUME NEW v \in Video
  PROVE  \E S : Stem(v) \in Seq(S)
<1> DEFINE S == {v[i] : i \in DOMAIN v}
<1>1. v \in Seq(S)
  BY StripConstants
<1> HIDE DEF S
<1>2. Front(v) \in Seq(S)
  BY <1>1, StripConstants DEF Front
<1> QED BY <1>2 DEF Stem

\* The tag in a temp name is its last segment but one.
LEMMA TagOfName ==
  ASSUME NEW v \in Video, NEW t, NEW ext
  PROVE  LET n == TempName(v, t, ext) IN n[Len(n) - 1] = t
<1>1. PICK S : Stem(v) \in Seq(S)
  BY StemType
<1> DEFINE s == Stem(v)
<1>2. s \in Seq(S \cup {t, ext}) /\ <<t, ext>> \in Seq(S \cup {t, ext})
  BY <1>1
<1> HIDE DEF s
<1>3. Len(s \o <<t, ext>>) = Len(s) + 2 /\ (s \o <<t, ext>>)[Len(s) + 1] = t /\ Len(s) \in Nat
  BY <1>2
<1> QED BY <1>3 DEF TempName, s
-----------------------------------------------------------------------------
(* The inductive invariant. *)

\* Names of temp files drawn so far.
Used(n) == \E v \in Video, t \in drawn : \E ext : n = TempName(v, t, ext)

LEMMA FreshName ==
  ASSUME NEW v \in Video, NEW t \in Tag, t \notin drawn, NEW ext
  PROVE  ~Used(TempName(v, t, ext))
<1> SUFFICES ASSUME Used(TempName(v, t, ext)) PROVE FALSE
  OBVIOUS
<1>1. PICK u \in Video, s \in drawn : \E e : TempName(v, t, ext) = TempName(u, s, e)
  BY DEF Used
<1>2. t = s
  BY <1>1, TagOfName
<1> QED BY <1>2

\* What holds of the files, of a worker and of the clean-up.
Files ==
  /\ \A v \in Video : dir[v] \in Film
  /\ NoHalfFile
  /\ \A n \in Temp : Exists(n) \/ n \in old => Used(n)

Working(w) ==
  /\ pc[w] \in {"remuxing", "rename", "writing", "place"} =>
       job[w].temp \in Temp /\ Used(job[w].temp)
  /\ pc[w] \in {"rename", "place"} => dir[job[w].temp] \in Film \cup {Absent}
  /\ \A n \in job[w].todo : pc[w] = "strip" => IsSidecar(n)
  /\ pc[w] = "remove" => job[w].next \in Name /\ IsSidecar(job[w].next)
                           /\ \A n \in job[w].todo : IsSidecar(n)

Cleaning ==
  /\ strays \subseteq Temp /\ old \subseteq Temp
  /\ watcher = "clean" => \A n \in old : Exists(n) => n \in strays
  /\ StraysCleared

Inv == TypeOK /\ Files /\ Cleaning /\ \A w \in Worker : Working(w)

\* A step that leaves files, names and the clean-up alone, and one worker's
\* place and job as they should be.
LEMMA LookKeeps ==
  ASSUME Inv, NEW w \in Worker, UNCHANGED <<dir, drawn, startVars>>,
         \A u \in Worker : u # w => pc'[u] = pc[u] /\ job'[u] = job[u],
         TypeOK', Working(w)'
  PROVE  Inv'
<1>1. \A u \in Worker : Working(u)'
  BY DEF Inv, Working, Used
<1>2. Files'
  BY DEF Inv, Files, Used, NoHalfFile, Exists, startVars
<1>3. Cleaning'
  BY DEF Inv, Cleaning, StraysCleared, Exists, startVars
<1> QED BY <1>1, <1>2, <1>3 DEF Inv

LEMMA WorkerType ==
  ASSUME TypeOK, NEW w \in Worker, pc[w] # "idle"
  PROVE  /\ job[w] \in Job /\ job[w] # NoJob
         /\ job[w].video \in Video /\ job[w].lang \in Language /\ job[w].hash \in Film
         /\ job[w].drop \subseteq Nat /\ job[w].temp \in Name \cup {Absent}
         /\ job[w].film \in Film /\ job[w].todo \subseteq Name /\ job[w].next \in Name \cup {Absent}
BY DEF TypeOK, Job

\* A worker goes on to another place with a job, or becomes idle.
LEMMA GotoType ==
  ASSUME TypeOK, NEW w \in Worker, NEW label \in Label \ {"idle"}, NEW j \in Job,
         Goto(w, label), Knows(w, j)
  PROVE  /\ pc' \in [Worker -> Label] /\ job' \in [Worker -> Job \cup {NoJob}]
         /\ \A u \in Worker : pc'[u] = "idle" <=> job'[u] = NoJob
         /\ pc'[w] = label /\ job'[w] = j
         /\ \A u \in Worker : u # w => pc'[u] = pc[u] /\ job'[u] = job[u]
BY StripNoJob DEF TypeOK, Goto, Knows

LEMMA ReturnType ==
  ASSUME TypeOK, NEW w \in Worker, Return(w)
  PROVE  /\ pc' \in [Worker -> Label] /\ job' \in [Worker -> Job \cup {NoJob}]
         /\ \A u \in Worker : pc'[u] = "idle" <=> job'[u] = NoJob
         /\ pc'[w] = "idle" /\ job'[w] = NoJob
         /\ \A u \in Worker : u # w => pc'[u] = pc[u] /\ job'[u] = job[u]
BY DEF TypeOK, Return, Goto, Knows, Label

LEMMA LookStep ==
  ASSUME Inv, NEW w \in Worker, NEW label \in Label \ {"idle"}, NEW j \in Job,
         Look(w, label, j),
         label \notin {"remuxing", "rename", "writing", "place"},
         label \in {"strip", "remove"} => \A n \in j.todo : IsSidecar(n),
         label = "remove" => j.next \in Name /\ IsSidecar(j.next)
  PROVE  Inv'
<1>1. TypeOK
  BY DEF Inv
<1>2. /\ pc' \in [Worker -> Label] /\ job' \in [Worker -> Job \cup {NoJob}]
      /\ \A u \in Worker : pc'[u] = "idle" <=> job'[u] = NoJob
      /\ pc'[w] = label /\ job'[w] = j
      /\ \A u \in Worker : u # w => pc'[u] = pc[u] /\ job'[u] = job[u]
  BY <1>1, GotoType DEF Look
<1>3. TypeOK'
  BY <1>1, <1>2 DEF TypeOK, Look, Outside, storeVars, startVars
<1>4. Working(w)'
  BY <1>2 DEF Working
<1> QED BY <1>2, <1>3, <1>4, LookKeeps DEF Look, Outside

LEMMA GiveUpStep ==
  ASSUME Inv, NEW w \in Worker, pc[w] # "idle", GiveUp(w)
  PROVE  Inv'
<1>1. job[w] \in Job
  BY WorkerType DEF Inv
<1> QED BY <1>1, LookStep DEF GiveUp, Label

LEMMA SettleStep ==
  ASSUME Inv, NEW w \in Worker, pc[w] # "idle", NEW outcome \in {"synced", "failed"},
         Settle(w, outcome)
  PROVE  Inv'
<1>1. TypeOK
  BY DEF Inv
<1>2. /\ pc' \in [Worker -> Label] /\ job' \in [Worker -> Job \cup {NoJob}]
      /\ \A u \in Worker : pc'[u] = "idle" <=> job'[u] = NoJob
      /\ pc'[w] = "idle" /\ job'[w] = NoJob
      /\ \A u \in Worker : u # w => pc'[u] = pc[u] /\ job'[u] = job[u]
  BY <1>1, ReturnType DEF Settle
<1>3. V(w) \in Video /\ L(w) \in Language
  BY <1>1, WorkerType DEF V, L
<1>4. status' \in [Video -> [Language -> {"pending", "in_progress", "synced", "failed"}]]
  BY <1>1, <1>3 DEF Settle, TypeOK
<1>5. TypeOK'
  BY <1>1, <1>2, <1>4 DEF TypeOK, Settle, Outside, startVars
<1>6. Working(w)'
  BY <1>2 DEF Working
<1> QED BY <1>2, <1>5, <1>6, LookKeeps DEF Settle, Outside

LEMMA ClaimStep ==
  ASSUME Inv, NEW w \in Worker, NEW v \in Video, NEW l \in lib.langs, Claim(w, v, l)
  PROVE  Inv'
<1> DEFINE j == [video |-> v, lang |-> l, hash |-> recorded[v], drop |-> {}, temp |-> Absent,
                 film |-> recorded[v], todo |-> {}, next |-> Absent]
<1>1. TypeOK
  BY DEF Inv
<1>2. l \in Language
  BY <1>1, StripConstants DEF TypeOK
<1>3. j \in Job
  <2>1. recorded[v] \in Film
    BY <1>1 DEF TypeOK
  <2> QED BY <1>2, <2>1 DEF Job
<1>4. status' \in [Video -> [Language -> {"pending", "in_progress", "synced", "failed"}]]
  BY <1>1, <1>2 DEF TypeOK, Claim
<1>5. CASE Goto(w, "probe") /\ Knows(w, j)
  <2>1. /\ pc' \in [Worker -> Label] /\ job' \in [Worker -> Job \cup {NoJob}]
        /\ \A u \in Worker : pc'[u] = "idle" <=> job'[u] = NoJob
        /\ pc'[w] = "probe" /\ job'[w] = j
        /\ \A u \in Worker : u # w => pc'[u] = pc[u] /\ job'[u] = job[u]
    <3>1. "probe" \in Label \ {"idle"}
      BY DEF Label
    <3> HIDE DEF j
    <3> QED BY <1>1, <1>3, <1>5, <3>1, GotoType
  <2>2. TypeOK'
    BY <1>1, <1>4, <2>1 DEF TypeOK, Claim, Outside, startVars
  <2>3. Working(w)'
    BY <2>1 DEF Working
  <2> QED BY <2>1, <2>2, <2>3, LookKeeps DEF Claim, Outside
<1>6. CASE UNCHANGED workerVars
  <2>1. TypeOK'
    BY <1>1, <1>4, <1>6 DEF TypeOK, Claim, Outside, startVars, workerVars
  <2>2. Working(w)'
    BY <1>6 DEF Inv, Working, Used, Claim, workerVars
  <2> QED BY <1>6, <2>1, <2>2, LookKeeps DEF Claim, Outside, workerVars
<1> QED BY <1>5, <1>6 DEF Claim

LEMMA OpenTempStep ==
  ASSUME Inv, NEW w \in Worker, pc[w] # "idle", NEW label \in {"remuxing", "writing"},
         NEW ext \in {Last(V(w)), "srt"}, NEW film \in Film, OpenTemp(w, label, ext, film)
  PROVE  Inv'
<1>t. PICK t : t = CHOOSE s \in Tag : s \notin drawn
  OBVIOUS
<1>n. PICK n : n = TempName(V(w), t, ext)
  OBVIOUS
<1>j. PICK j : j = [job[w] EXCEPT !.temp = n, !.film = film]
  OBVIOUS
<1>1. TypeOK /\ Files /\ Cleaning
  BY DEF Inv
<1>2. V(w) \in Video /\ job[w] \in Job
  BY <1>1, WorkerType DEF V
<1>3. t \in Tag /\ t \notin drawn
  BY <1>1, <1>t DEF TypeOK, OpenTemp
<1>4. /\ drawn' = drawn \cup {t} /\ dir' = [dir EXCEPT ![n] = Partial]
      /\ Goto(w, label) /\ Knows(w, j) /\ UNCHANGED <<storeVars, Outside>>
  BY <1>t, <1>n, <1>j DEF OpenTemp
<1>5. n \in Temp /\ n \in Name /\ n \notin Final
  BY <1>2, <1>3, <1>n, TempNames, NamesApart DEF Name
<1>6. ~Used(n)
  BY <1>2, <1>3, <1>n, FreshName
<1>7. \A m : Used(m) => Used(m)'
  BY <1>4 DEF Used
<1>8. Used(n)'
  BY <1>2, <1>4, <1>n DEF Used
<1>9. j \in Job
  BY <1>2, <1>5, <1>j DEF Job
<1>10. /\ pc' \in [Worker -> Label] /\ job' \in [Worker -> Job \cup {NoJob}]
       /\ \A u \in Worker : pc'[u] = "idle" <=> job'[u] = NoJob
       /\ pc'[w] = label /\ job'[w] = j
       /\ \A u \in Worker : u # w => pc'[u] = pc[u] /\ job'[u] = job[u]
  BY <1>1, <1>4, <1>9, GotoType DEF Label
<1>11. dir' \in [Name -> Content \cup {Absent}]
  BY <1>1, <1>4, <1>5 DEF TypeOK, Content
<1>12. TypeOK'
  BY <1>1, <1>3, <1>4, <1>10, <1>11 DEF TypeOK, Outside, storeVars, startVars
<1>13. \A m \in Name : dir'[m] = IF m = n THEN Partial ELSE dir[m]
  BY <1>1, <1>4 DEF TypeOK
<1>14. Files'
  <2>1. ASSUME NEW m \in Final
        PROVE  dir'[m] = dir[m]
    BY <1>5, <1>13 DEF Name
  <2>2. \A v \in Video : v \in Final
    BY DEF Final
  <2>3. ASSUME NEW m \in Temp, dir'[m] # Absent \/ m \in old'
        PROVE  Used(m)'
    <3>1. CASE m = n
      BY <1>8, <3>1
    <3>2. CASE m # n
      <4>1. dir'[m] = dir[m] /\ old' = old
        BY <1>4, <1>13, <3>2 DEF Name, Outside, startVars
      <4> QED BY <1>1, <1>7, <2>3, <4>1 DEF Files, Exists
    <3> QED BY <3>1, <3>2
  <2> QED BY <1>1, <2>1, <2>2, <2>3 DEF Files, NoHalfFile, Exists
<1>15. Cleaning'
  <2>1. n \notin old
    BY <1>1, <1>5, <1>6 DEF Files
  <2>2. \A m \in old : dir'[m] = dir[m]
    BY <1>1, <1>13, <2>1 DEF TypeOK
  <2> QED BY <1>1, <1>4, <2>2 DEF Cleaning, StraysCleared, Exists, Outside, startVars
<1>16. ASSUME NEW u \in Worker
       PROVE  Working(u)'
  <2>1. CASE u = w
    <3>1. j.temp = n
      BY <1>2, <1>j DEF Job
    <3> QED BY <1>5, <1>8, <1>10, <2>1, <3>1 DEF Working
  <2>2. CASE u # w
    <3>1. pc'[u] = pc[u] /\ job'[u] = job[u] /\ Working(u)
      BY <1>10, <2>2 DEF Inv
    <3>2. ASSUME pc[u] \in {"rename", "place"}
          PROVE  dir'[job[u].temp] = dir[job[u].temp]
      <4>1. Used(job[u].temp)
        BY <3>1, <3>2 DEF Working
      <4>2. job[u].temp \in Name
        BY <3>1, <3>2 DEF Working, Name
      <4> QED BY <1>6, <1>13, <4>1, <4>2
    <3> QED BY <1>7, <3>1, <3>2 DEF Working
  <2> QED BY <2>1, <2>2
<1> QED BY <1>12, <1>14, <1>15, <1>16 DEF Inv

\* A step that changes files only in ways the others can stand: temp files do not
\* appear, and become complete or vanish; videos stay videos.
Harmless ==
  /\ dir' \in [Name -> Content \cup {Absent}]
  /\ \A v \in Video : dir'[v] \in Film
  /\ \A n \in Final : dir'[n] = Partial => dir[n] = Partial
  /\ \A n \in Temp : dir'[n] = dir[n] \/ dir'[n] = Absent
                        \/ (dir[n] # Absent /\ dir'[n] \in Film)

LEMMA HarmlessKeeps ==
  ASSUME Inv, Harmless, UNCHANGED drawn
  PROVE  /\ old' = old => Files'
         /\ UNCHANGED startVars => Cleaning'
         /\ \A u \in Worker : pc'[u] = pc[u] /\ job'[u] = job[u] => Working(u)'
<1>1. TypeOK /\ Files /\ Cleaning
  BY DEF Inv
<1>2. \A n \in Temp : dir'[n] # Absent => dir[n] # Absent
  BY DEF Harmless
<1>3. old' = old => Files'
  <2>1. ASSUME NEW m \in Temp, dir'[m] # Absent \/ m \in old
        PROVE  Used(m)'
    BY <1>1, <1>2, <2>1 DEF Files, Exists, Used
  <2> QED BY <1>1, <2>1 DEF Harmless, Files, NoHalfFile, Exists
<1>4. UNCHANGED startVars => Cleaning'
  BY <1>1, <1>2 DEF Cleaning, StraysCleared, Exists, startVars
<1>5. ASSUME NEW u \in Worker, pc'[u] = pc[u], job'[u] = job[u]
      PROVE  Working(u)'
  <2>1. Working(u)
    BY DEF Inv
  <2>2. ASSUME pc[u] \in {"rename", "place"}
        PROVE  dir'[job[u].temp] \in Film \cup {Absent}
    BY <2>1, <2>2 DEF Working, Harmless
  <2> QED BY <1>5, <2>1, <2>2 DEF Working, Used
<1> QED BY <1>3, <1>4, <1>5

\* A step of w that changes files, when w goes on to another place.
LEMMA FileStep ==
  ASSUME Inv, NEW w \in Worker, NEW label \in Label \ {"idle"}, NEW j \in Job,
         Goto(w, label), Knows(w, j), Harmless, UNCHANGED <<storeVars, drawn, Outside>>,
         Working(w)'
  PROVE  Inv'
<1>1. TypeOK
  BY DEF Inv
<1>2. /\ pc' \in [Worker -> Label] /\ job' \in [Worker -> Job \cup {NoJob}]
      /\ \A u \in Worker : pc'[u] = "idle" <=> job'[u] = NoJob
      /\ pc'[w] = label /\ job'[w] = j
      /\ \A u \in Worker : u # w => pc'[u] = pc[u] /\ job'[u] = job[u]
  BY <1>1, GotoType
<1>3. TypeOK'
  BY <1>1, <1>2 DEF TypeOK, Harmless, Outside, storeVars, startVars
<1>4. Files' /\ Cleaning' /\ \A u \in Worker : u # w => Working(u)'
  BY <1>2, HarmlessKeeps DEF Outside, startVars
<1> QED BY <1>3, <1>4 DEF Inv

LEMMA SameJob ==
  ASSUME TypeOK, NEW w \in Worker, pc[w] # "idle", UNCHANGED job
  PROVE  job[w] \in Job /\ Knows(w, job[w])
BY WorkerType DEF Knows, TypeOK

LEMMA CloseTempStep ==
  ASSUME Inv, NEW w \in Worker, pc[w] \in {"remuxing", "writing"},
         NEW label \in {"rename", "place"}, CloseTemp(w, label)
  PROVE  Inv'
<1>1. TypeOK /\ Files
  BY DEF Inv
<1>2. job[w] \in Job /\ Knows(w, job[w]) /\ job[w].film \in Film
  BY <1>1, SameJob, WorkerType DEF CloseTemp
<1>3. PICK n : n = job[w].temp
  OBVIOUS
<1>4. n \in Temp /\ n \in Name /\ n \notin Final /\ Used(n)
  BY <1>3, NamesApart DEF Inv, Working, Name
<1>5. \A m \in Name : dir'[m] = IF m # n THEN dir[m]
                                ELSE IF dir[n] = Absent THEN Absent ELSE job[w].film
  BY <1>1, <1>3 DEF TypeOK, CloseTemp
<1>6. Harmless
  <2>1. dir' \in [Name -> Content \cup {Absent}]
    BY <1>1, <1>2, <1>3 DEF TypeOK, CloseTemp, Content
  <2>2. \A m \in Final : dir'[m] = dir[m]
    BY <1>4, <1>5 DEF Name
  <2>3. \A v \in Video : v \in Final
    BY DEF Final
  <2>4. \A m \in Temp : dir'[m] = dir[m] \/ dir'[m] = Absent
                          \/ (dir[m] # Absent /\ dir'[m] \in Film)
    BY <1>2, <1>5 DEF Name
  <2> QED BY <1>1, <2>1, <2>2, <2>3, <2>4 DEF Harmless, Files
<1>7. Working(w)'
  <2>1. pc'[w] = label /\ job'[w] = job[w]
    BY <1>1 DEF CloseTemp, Goto, TypeOK
  <2>2. dir'[n] \in Film \cup {Absent}
    BY <1>2, <1>4, <1>5
  <2>3. Used(n)'
    BY <1>4 DEF Used, CloseTemp
  <2> QED BY <1>3, <1>4, <2>1, <2>2, <2>3 DEF Working
<1>8. label \in Label \ {"idle"}
  BY DEF Label
<1> QED BY <1>2, <1>6, <1>7, <1>8, FileStep DEF CloseTemp

LEMMA RenameStep ==
  ASSUME Inv, NEW w \in Worker, pc[w] \in {"rename", "place"}, NEW final \in Final,
         NEW label \in {"rehash", "list"}, Rename(w, final, label)
  PROVE  Inv'
<1>1. TypeOK /\ Files
  BY DEF Inv
<1>2. CASE ~Exists(job[w].temp)
  <2>1. GiveUp(w)
    BY <1>2 DEF Rename
  <2> QED BY <2>1, GiveUpStep
<1>3. CASE Exists(job[w].temp)
  <2>1. PICK n : n = job[w].temp
    OBVIOUS
  <2>2. PICK j : j = [job[w] EXCEPT !.temp = Absent]
    OBVIOUS
  <2>3. n \in Temp /\ n \in Name /\ n \notin Final /\ dir[n] \in Film
    BY <1>3, <2>1, NamesApart DEF Inv, Working, Name, Exists
  <2>4. /\ dir' = [dir EXCEPT ![final] = dir[n], ![n] = Absent]
        /\ Goto(w, label) /\ Knows(w, j) /\ UNCHANGED <<storeVars, drawn, Outside>>
    BY <1>3, <2>1, <2>2 DEF Rename
  <2>5. j \in Job
    <3>1. job[w] \in Job
      BY <1>1, WorkerType
    <3> QED BY <2>2, <3>1 DEF Job
  <2>6. \A m \in Name : dir'[m] = IF m = n THEN Absent ELSE IF m = final THEN dir[n] ELSE dir[m]
    BY <1>1, <2>4 DEF TypeOK
  <2>7. Harmless
    <3>1. dir' \in [Name -> Content \cup {Absent}]
      BY <1>1, <2>3, <2>4 DEF TypeOK, Content
    <3>2. \A m \in Final : dir'[m] = IF m = final THEN dir[n] ELSE dir[m]
      BY <2>3, <2>6 DEF Name
    <3>3. \A v \in Video : v \in Final
      BY DEF Final
    <3>4. \A m \in Temp : dir'[m] = dir[m] \/ dir'[m] = Absent
      BY <2>6, NamesApart DEF Name
    <3>5. dir[n] # Partial
      BY <2>3, StripConstants
    <3> QED BY <1>1, <2>3, <3>1, <3>2, <3>3, <3>4, <3>5 DEF Harmless, Files
  <2>8. Working(w)'
    <3>1. pc'[w] = label
      BY <1>1, <2>4 DEF Goto, TypeOK
    <3> QED BY <3>1 DEF Working
  <2>9. label \in Label \ {"idle"}
    BY DEF Label
  <2> QED BY <2>4, <2>5, <2>7, <2>8, <2>9, FileStep
<1> QED BY <1>2, <1>3

LEMMA ProbeStep ==
  ASSUME Inv, NEW w \in Worker, Probe(w)
  PROVE  Inv'
<1>1. PICK drop : drop = ToDrop(dir[V(w)].stream, L(w))
  OBVIOUS
<1>2. PICK j : j = [job[w] EXCEPT !.drop = drop]
  OBVIOUS
<1>3. PICK label \in {"write", "remux"} : Look(w, label, j)
  BY <1>1, <1>2 DEF Probe
<1>4. job[w] \in Job /\ V(w) \in Video
  BY WorkerType DEF Inv, Probe, At, V
<1>5. drop \subseteq Nat
  <2>1. dir[V(w)].stream \in Seq(Language)
    BY <1>4 DEF Inv, Files, Film
  <2> QED BY <1>1, <2>1 DEF ToDrop
<1>6. j \in Job
  BY <1>2, <1>4, <1>5 DEF Job
<1> QED BY <1>3, <1>6, LookStep DEF Label

LEMMA RemuxStep ==
  ASSUME Inv, NEW w \in Worker, Remux(w)
  PROVE  Inv'
<1>1. V(w) \in Video
  BY WorkerType DEF Inv, Remux, At, V
<1>2. Without(dir[V(w)], job[w].drop) \in Film
  BY <1>1, WithoutType DEF Inv, Files
<1>3. pc[w] # "idle"
  BY DEF Remux, At
<1>4. CASE GiveUp(w)
  BY <1>3, <1>4, GiveUpStep
<1>5. CASE OpenTemp(w, "remuxing", Last(V(w)), Without(dir[V(w)], job[w].drop))
  BY <1>2, <1>3, <1>5, OpenTempStep
<1> QED BY <1>4, <1>5 DEF Remux

LEMMA WriteTempStep ==
  ASSUME Inv, NEW w \in Worker, WriteTemp(w)
  PROVE  Inv'
<1>1. pc[w] # "idle" /\ OpenTemp(w, "writing", "srt", job[w].hash)
  BY DEF WriteTemp, At
<1>2. job[w].hash \in Film
  BY <1>1, WorkerType DEF Inv
<1> QED BY <1>1, <1>2, OpenTempStep

LEMMA RehashStep ==
  ASSUME Inv, NEW w \in Worker, Rehash(w)
  PROVE  Inv'
<1>1. PICK j : j = [job[w] EXCEPT !.film = dir[V(w)]]
  OBVIOUS
<1>2. job[w] \in Job /\ V(w) \in Video
  BY WorkerType DEF Inv, Rehash, At, V
<1>3. j \in Job
  <2>1. dir[V(w)] \in Film
    BY <1>2 DEF Inv, Files
  <2> QED BY <1>1, <1>2, <2>1 DEF Job
<1> QED BY <1>1, <1>3, LookStep DEF Rehash, Label

LEMMA RecordStep ==
  ASSUME Inv, NEW w \in Worker, Record(w)
  PROVE  Inv'
<1>1. TypeOK
  BY DEF Inv
<1>2. pc[w] # "idle" /\ UNCHANGED <<dir, status, drawn, Outside>>
  BY DEF Record, At
<1>3. job[w] \in Job /\ V(w) \in Video /\ job[w].film \in Film
  BY <1>1, <1>2, WorkerType DEF V
<1>4. CASE recorded[V(w)] = job[w].hash
  <2>1. PICK j : j = [job[w] EXCEPT !.hash = job[w].film]
    OBVIOUS
  <2>2. Goto(w, "write") /\ Knows(w, j) /\ recorded' = [recorded EXCEPT ![V(w)] = job[w].film]
    BY <1>4, <2>1 DEF Record
  <2>3. j \in Job
    BY <1>3, <2>1 DEF Job
  <2>4. /\ pc' \in [Worker -> Label] /\ job' \in [Worker -> Job \cup {NoJob}]
        /\ \A u \in Worker : pc'[u] = "idle" <=> job'[u] = NoJob
        /\ pc'[w] = "write" /\ job'[w] = j
        /\ \A u \in Worker : u # w => pc'[u] = pc[u] /\ job'[u] = job[u]
    BY <1>1, <2>2, <2>3, GotoType DEF Label
  <2>5. recorded' \in [Video -> Film]
    BY <1>1, <1>3, <2>2 DEF TypeOK
  <2>6. TypeOK'
    BY <1>1, <1>2, <2>4, <2>5 DEF TypeOK, Outside, startVars
  <2>7. Working(w)'
    BY <2>4 DEF Working
  <2> QED BY <1>2, <2>4, <2>6, <2>7, LookKeeps DEF Outside
<1>5. CASE Return(w) /\ UNCHANGED recorded
  <2>1. /\ pc' \in [Worker -> Label] /\ job' \in [Worker -> Job \cup {NoJob}]
        /\ \A u \in Worker : pc'[u] = "idle" <=> job'[u] = NoJob
        /\ pc'[w] = "idle" /\ job'[w] = NoJob
        /\ \A u \in Worker : u # w => pc'[u] = pc[u] /\ job'[u] = job[u]
    BY <1>1, <1>5, ReturnType
  <2>2. TypeOK'
    BY <1>1, <1>2, <1>5, <2>1 DEF TypeOK, Outside, startVars
  <2>3. Working(w)'
    BY <2>1 DEF Working
  <2> QED BY <1>2, <2>1, <2>2, <2>3, LookKeeps DEF Outside
<1> QED BY <1>4, <1>5 DEF Record

LEMMA ListStep ==
  ASSUME Inv, NEW w \in Worker, List(w)
  PROVE  Inv'
<1>1. PICK todo : todo = Candidates(V(w), L(w))
  OBVIOUS
<1>2. PICK j : j = [job[w] EXCEPT !.todo = todo]
  OBVIOUS
<1>3. todo \subseteq Name /\ \A n \in todo : IsSidecar(n)
  BY <1>1 DEF Candidates, ListSidecars
<1>4. job[w] \in Job
  BY WorkerType DEF Inv, List, At
<1>5. j \in Job /\ j.todo = todo
  BY <1>2, <1>3, <1>4 DEF Job
<1>6. Look(w, "strip", j)
  BY <1>1, <1>2 DEF List
<1> QED BY <1>3, <1>5, <1>6, LookStep DEF Label

LEMMA CheckTrustStep ==
  ASSUME Inv, NEW w \in Worker, NEW n \in Name, CheckTrust(w, n)
  PROVE  Inv'
<1>1. pc[w] = "strip" /\ n \in job[w].todo
  BY DEF CheckTrust, At
<1>2. CASE GiveUp(w)
  BY <1>1, <1>2, GiveUpStep
<1>3. CASE ~GiveUp(w)
  <2>1. PICK todo : todo = job[w].todo \ {n}
    OBVIOUS
  <2>2. PICK j : j = [job[w] EXCEPT !.todo = todo, !.next = n]
    OBVIOUS
  <2>3. job[w] \in Job /\ job[w].todo \subseteq Name
    BY <1>1, WorkerType DEF Inv
  <2>4. j \in Job /\ j.todo = todo /\ j.next = n
    BY <2>1, <2>2, <2>3 DEF Job
  <2>5. \A m \in job[w].todo : IsSidecar(m)
    BY <1>1 DEF Inv, Working
  <2>6. j = [job[w] EXCEPT !.todo = @ \ {n}, !.next = n]
    BY <2>1, <2>2, <2>3 DEF Job
  <2>7. PICK label \in {"strip", "remove"} : Look(w, label, j)
    BY <1>3, <2>6 DEF CheckTrust
  <2>8. (\A m \in j.todo : IsSidecar(m)) /\ IsSidecar(j.next) /\ j.next \in Name
    BY <1>1, <2>1, <2>4, <2>5
  <2> QED BY <2>4, <2>7, <2>8, LookStep DEF Label
<1> QED BY <1>2, <1>3

LEMMA RemoveSidecarStep ==
  ASSUME Inv, NEW w \in Worker, RemoveSidecar(w)
  PROVE  Inv'
<1>1. TypeOK /\ Files /\ pc[w] = "remove"
  BY DEF Inv, RemoveSidecar, At
<1>2. CASE GiveUp(w)
  BY <1>1, <1>2, GiveUpStep
<1>3. CASE Exists(job[w].next) /\ ~GiveUp(w)
  <2>1. PICK n : n = job[w].next
    OBVIOUS
  <2>2. n \in Name /\ IsSidecar(n) /\ \A m \in job[w].todo : IsSidecar(m)
    BY <1>1, <2>1 DEF Inv, Working
  <2>3. /\ dir' = [dir EXCEPT ![n] = Absent] /\ Goto(w, "strip")
        /\ UNCHANGED <<storeVars, job, drawn, Outside>>
    BY <1>3, <2>1 DEF RemoveSidecar
  <2>4. \A m \in Name : dir'[m] = IF m = n THEN Absent ELSE dir[m]
    BY <1>1, <2>3 DEF TypeOK
  <2>5. Harmless
    <3>1. dir' \in [Name -> Content \cup {Absent}]
      BY <1>1, <2>3 DEF TypeOK
    <3>2. \A v \in Video : v # n /\ v \in Name
      BY <2>2, StripVideos DEF Final, Name
    <3>3. \A m \in Final : dir'[m] = Partial => dir[m] = Partial
      BY <2>4, StripConstants DEF Name, Content
    <3>4. \A m \in Temp : dir'[m] = dir[m] \/ dir'[m] = Absent
      BY <2>4 DEF Name
    <3> QED BY <1>1, <2>4, <3>1, <3>2, <3>3, <3>4 DEF Harmless, Files
  <2>6. pc'[w] = "strip" /\ job'[w] = job[w]
    BY <1>1, <2>3 DEF TypeOK, Goto
  <2>7. Working(w)'
    BY <2>2, <2>6 DEF Working
  <2>8. job[w] \in Job /\ Knows(w, job[w])
    BY <1>1, <2>3, SameJob
  <2> QED BY <2>3, <2>5, <2>7, <2>8, FileStep DEF Label
<1> QED BY <1>2, <1>3 DEF RemoveSidecar

LEMMA StrippedStep ==
  ASSUME Inv, NEW w \in Worker, Stripped(w)
  PROVE  Inv'
<1>1. job[w] \in Job /\ Look(w, "finish", job[w])
  BY WorkerType DEF Inv, Stripped, At
<1> QED BY <1>1, LookStep DEF Label

LEMMA WorkerKeeps ==
  ASSUME Inv, NEW w \in Worker, WorkerStep(w)
  PROVE  Inv'
<1>1. CASE \E v \in Video, l \in lib.langs : Claim(w, v, l)
  BY <1>1, ClaimStep
<1>2. CASE TempFails(w)
  BY <1>2, GiveUpStep DEF TempFails
<1>3. CASE Remuxed(w) \/ WrittenTemp(w)
  BY <1>3, CloseTempStep DEF Remuxed, WrittenTemp, At
<1>4. CASE RenameVideo(w)
  <2>1. pc[w] = "rename" /\ Rename(w, V(w), "rehash")
    BY <1>4 DEF RenameVideo, At
  <2>2. V(w) \in Final
    BY <2>1, WorkerType DEF Inv, V, Final
  <2> QED BY <2>1, <2>2, RenameStep
<1>5. CASE PlaceSidecar(w)
  <2>1. pc[w] = "place" /\ Rename(w, SidecarName(V(w), L(w)), "list")
    BY <1>5 DEF PlaceSidecar, At
  <2>2. SidecarName(V(w), L(w)) \in Final
    BY <2>1, WorkerType DEF Inv, V, L, Final
  <2> QED BY <2>1, <2>2, RenameStep
<1>6. CASE Finish(w) \/ Fail(w)
  BY <1>6, SettleStep DEF Finish, Fail, At
<1> QED BY <1>1, <1>2, <1>3, <1>4, <1>5, <1>6, ProbeStep, RemuxStep, RehashStep, RecordStep,
         WriteTempStep, ListStep, CheckTrustStep, RemoveSidecarStep, StrippedStep DEF WorkerStep

-----------------------------------------------------------------------------
(* Start, clean-up and stop. *)

LEMMA StrayIsTemp == StrayFiles \subseteq Temp /\ \A n \in Temp : Exists(n) => n \in StrayFiles
BY NamesApart, StripConstants DEF StrayFiles, Name

LEMMA StartKeeps ==
  ASSUME Inv, Start
  PROVE  Inv'
<1>1. TypeOK /\ Files /\ Cleaning
  BY DEF Inv
<1>2. StrayFiles \subseteq Temp /\ Temp \subseteq Name
  BY StrayIsTemp DEF Name
<1>3. status' \in [Video -> [Language -> {"pending", "in_progress", "synced", "failed"}]]
  BY <1>1 DEF TypeOK, Start
<1>4. TypeOK'
  BY <1>1, <1>2, <1>3 DEF TypeOK, Start, Inside, workerVars
<1>5. \A n \in StrayFiles : Exists(n)
  BY DEF StrayFiles
<1>6. Files'
  BY <1>1, <1>2, <1>5 DEF Files, NoHalfFile, Exists, Used, Start, Inside
<1>7. Cleaning'
  BY <1>1, <1>2 DEF Cleaning, StraysCleared, Start
<1>8. \A w \in Worker : Working(w)'
  BY DEF Inv, Working, Used, Start, Inside, workerVars
<1> QED BY <1>4, <1>6, <1>7, <1>8 DEF Inv

LEMMA CleanListKeeps ==
  ASSUME Inv, CleanList
  PROVE  Inv'
<1>1. TypeOK /\ Files /\ Cleaning
  BY DEF Inv
<1>2. StrayFiles \subseteq Temp /\ Temp \subseteq Name
        /\ \A n \in Temp : Exists(n) => n \in StrayFiles
  BY StrayIsTemp DEF Name
<1>3. TypeOK'
  BY <1>1, <1>2 DEF TypeOK, CleanList, Inside, workerVars
<1>4. Files'
  BY <1>1 DEF Files, NoHalfFile, Exists, Used, CleanList, Inside
<1>5. Cleaning'
  BY <1>1, <1>2 DEF Cleaning, StraysCleared, Exists, CleanList
<1>6. \A w \in Worker : Working(w)'
  BY DEF Inv, Working, Used, CleanList, Inside, workerVars
<1> QED BY <1>3, <1>4, <1>5, <1>6 DEF Inv

LEMMA CleanStrayKeeps ==
  ASSUME Inv, NEW n \in Name, CleanStray(n)
  PROVE  Inv'
<1>1. TypeOK /\ Files /\ Cleaning /\ n \in Temp
  BY DEF Inv, Cleaning, CleanStray
<1>2. /\ watcher = "clean" /\ watcher' \in {"clean", "stopped"} /\ strays' = strays \ {n}
      /\ UNCHANGED <<status, Inside, old, stops>>
  BY DEF CleanStray
<1>3. n \notin Final
  BY <1>1, NamesApart
<1>4. dir' \in [Name -> Content \cup {Absent}]
  BY <1>1 DEF TypeOK, CleanStray
<1>5. /\ \A m \in Name : m # n => dir'[m] = dir[m]
      /\ dir'[n] = Absent
  BY <1>1 DEF TypeOK, CleanStray, Exists
<1>6. Harmless
  <2>1. \A m \in Final : dir'[m] = dir[m]
    BY <1>3, <1>5 DEF Name
  <2>2. \A v \in Video : v \in Final
    BY DEF Final
  <2>3. \A m \in Temp : dir'[m] = dir[m] \/ dir'[m] = Absent
    BY <1>5 DEF Name
  <2> QED BY <1>1, <1>4, <2>1, <2>2, <2>3 DEF Harmless, Files
<1>7. TypeOK'
  BY <1>1, <1>2, <1>4 DEF TypeOK, Inside, workerVars
<1>8. Files' /\ \A w \in Worker : Working(w)'
  BY <1>2, <1>6, HarmlessKeeps DEF Inside, workerVars
<1>9. Cleaning'
  <2>1. \A m \in old : m \in Name
    BY <1>1 DEF TypeOK
  <2> QED BY <1>1, <1>2, <1>5, <2>1 DEF Cleaning, StraysCleared, Exists
<1> QED BY <1>7, <1>8, <1>9 DEF Inv

LEMMA CleanedKeeps ==
  ASSUME Inv, Cleaned
  PROVE  Inv'
<1>1. TypeOK /\ Files /\ Cleaning
  BY DEF Inv
<1>2. TypeOK'
  BY <1>1 DEF TypeOK, Cleaned, Inside, workerVars
<1>3. Files'
  BY <1>1 DEF Files, NoHalfFile, Exists, Used, Cleaned, Inside
<1>4. Cleaning'
  BY <1>1 DEF Cleaning, StraysCleared, Exists, Cleaned
<1>5. \A w \in Worker : Working(w)'
  BY DEF Inv, Working, Used, Cleaned, Inside, workerVars
<1> QED BY <1>2, <1>3, <1>4, <1>5 DEF Inv

LEMMA StopKeeps ==
  ASSUME Inv, Stop
  PROVE  Inv'
<1>1. TypeOK /\ Files /\ Cleaning
  BY DEF Inv
<1>2. stops' \in 0 .. Stops
  BY <1>1, StripConstants DEF TypeOK, Stop
<1>3. TypeOK'
  BY <1>1, <1>2 DEF TypeOK, Stop, storeVars, Label
<1>4. Files'
  BY <1>1 DEF Files, NoHalfFile, Exists, Used, Stop
<1>5. Cleaning'
  BY <1>1 DEF Cleaning, StraysCleared, Stop
<1>6. \A w \in Worker : Working(w)'
  BY DEF Working, Stop
<1> QED BY <1>3, <1>4, <1>5, <1>6 DEF Inv

LEMMA StutterKeeps ==
  ASSUME Inv, UNCHANGED vars
  PROVE  Inv'
<1>1. UNCHANGED <<dir, lib, recorded, status, pc, job, drawn, watcher, strays, old, stops>>
  BY DEF vars, storeVars, workerVars, startVars
<1>2. TypeOK'
  BY <1>1 DEF Inv, TypeOK
<1>3. Files' /\ Cleaning' /\ \A w \in Worker : Working(w)'
  BY <1>1 DEF Inv, Files, Cleaning, StraysCleared, NoHalfFile, Exists, Used, Working
<1> QED BY <1>2, <1>3 DEF Inv

LEMMA InitInv == Init => Inv
<1> SUFFICES ASSUME Init PROVE Inv
  OBVIOUS
<1>1. /\ lib \in [scope : Scope, langs : SUBSET Language,
                  stream : [Video -> Seq(Language)], beside : SUBSET Other]
  BY StripConstants DEF Init
<1>2. ASSUME NEW v \in Video
      PROVE  InitFilm(v) \in Film
  BY <1>1 DEF InitFilm, Film
<1>3. dir \in [Name -> Content \cup {Absent}]
  BY <1>2 DEF Init, Content
<1>4. TypeOK
  BY <1>2, <1>3, StripConstants DEF Init, TypeOK, Label
<1>5. Files
  <2>1. \A v \in Video : v \in Name /\ v \in Final
    BY DEF Name, Final
  <2>2. \A n \in Final : dir[n] # Partial
    BY <1>2, StripConstants DEF Init, Name, Content
  <2>3. \A v \in Video : dir[v] \in Film
    BY <1>2, <2>1 DEF Init
  <2>4. \A n \in Temp : dir[n] = Absent
    <3>1. ASSUME NEW n \in Temp
          PROVE  n \in Name /\ n \notin Video /\ n \notin Other
      BY NamesApart DEF Final, Name
    <3>2. lib.beside \subseteq Other
      BY <1>1
    <3> QED BY <3>1, <3>2 DEF Init
  <2>5. old = {}
    BY DEF Init
  <2> QED BY <2>2, <2>3, <2>4, <2>5 DEF Files, NoHalfFile, Exists
<1>6. Cleaning
  BY DEF Init, Cleaning, StraysCleared
<1>7. \A w \in Worker : Working(w)
  BY DEF Init, Working
<1> QED BY <1>4, <1>5, <1>6, <1>7 DEF Inv

LEMMA InvInductive == Inv /\ [Next]_vars => Inv'
<1> SUFFICES ASSUME Inv, [Next]_vars PROVE Inv'
  OBVIOUS
<1>1. CASE \E w \in Worker : WorkerStep(w)
  BY <1>1, WorkerKeeps
<1>2. CASE Start
  BY <1>2, StartKeeps
<1>3. CASE CleanStep
  BY <1>3, CleanListKeeps, CleanStrayKeeps, CleanedKeeps DEF CleanStep
<1>4. CASE Stop
  BY <1>4, StopKeeps
<1>5. CASE UNCHANGED vars
  BY <1>5, StutterKeeps
<1> QED BY <1>1, <1>2, <1>3, <1>4, <1>5 DEF Next

LEMMA InvAlways == Spec => []Inv
BY InitInv, InvInductive, PTL DEF Spec

-----------------------------------------------------------------------------
(* The theorems. *)

\* What a remux writes is a video again, a worker is idle just when it has no
\* job, and only temp files are ever listed for the clean-up.
THEOREM StripTypeCorrect == Spec => []TypeOK
<1>1. Inv => TypeOK
  BY DEF Inv
<1> QED BY <1>1, InvAlways, PTL

\* No reader finds a partly written sidecar or video under its final name:
\* whatever is written goes to a temp file no other worker writes to, and is
\* renamed only when it is complete.
THEOREM StripNoHalfFile == Spec => []NoHalfFile
<1>1. Inv => NoHalfFile
  BY DEF Inv, Files
<1> QED BY <1>1, InvAlways, PTL

\* Once the Watcher watches, no temp file of an earlier process is left: the tags
\* workers draw meanwhile are new, so none of their files takes an old name.
THEOREM StripStraysCleared == Spec => []StraysCleared
<1>1. Inv => StraysCleared
  BY DEF Inv, Cleaning
<1> QED BY <1>1, InvAlways, PTL

-----------------------------------------------------------------------------
(* What becomes of sidecars and streams.  First, names. *)

\* The sidecar of a pair is named for its language, beside its video.
LEMMA SidecarNames ==
  ASSUME NEW v \in Video, NEW l \in Language
  PROVE  /\ SidecarName(v, l) \in Final /\ SidecarName(v, l) \in Name
         /\ SidecarName(v, l) \notin Temp
         /\ IsStrictPrefix(Stem(v), SidecarName(v, l)) /\ Tagged(v, SidecarName(v, l), l)
         /\ SidecarName(v, l)[Len(SidecarName(v, l)) - 1] = l
         /\ IsSidecar(SidecarName(v, l)) /\ HasCodec(SidecarName(v, l))
         /\ l \notin Tag
<1> DEFINE S == {v[i] : i \in DOMAIN v}
           s == Stem(v)
           n == s \o <<l, "srt">>
<1>1. v \in Seq(S) /\ v # <<>>
  BY StripConstants
<1> HIDE DEF S
<1>2. s \in Seq(S) /\ Len(s) = Len(v) - 1
  <2>1. Len(v) \in Nat /\ Len(v) # 0
    BY <1>1
  <2>2. SubSeq(v, 1, Len(v) - 1) \in Seq(S) /\ Len(SubSeq(v, 1, Len(v) - 1)) = Len(v) - 1
    <3> HIDE DEF s, n
    <3>1. PICK k \in Nat : k = Len(v) - 1
      BY <2>1
    <3>2. SubSeq(v, 1, k) \in Seq(S)
      BY <1>1, <3>1
    <3>3. Len(SubSeq(v, 1, k)) = k
      BY <1>1, <3>1
    <3> QED BY <3>1, <3>2, <3>3
  <2> QED BY <2>2 DEF Stem, Front
<1>3. s \in Seq(S \cup {l, "srt"}) /\ <<l, "srt">> \in Seq(S \cup {l, "srt"})
  BY <1>2
<1> HIDE DEF s
<1>4. /\ n \in Seq(S \cup {l, "srt"}) /\ Len(n) = Len(s) + 2 /\ Len(s) \in Nat
      /\ n[Len(s) + 1] = l /\ n[Len(s) + 2] = "srt"
      /\ \A i \in 1 .. Len(s) : n[i] = s[i]
  BY <1>3
<1>5. SidecarName(v, l) = n
  BY DEF SidecarName, s
<1> HIDE DEF n
<1>6. n \in Final /\ n \in Name
  BY <1>5 DEF Final, Name
<1>7. SubSeq(s, 1, Len(s)) = SubSeq(n, 1, Len(s))
  BY <1>3, <1>4
<1>8. IsStrictPrefix(s, n)
  BY <1>4, <1>7 DEF IsStrictPrefix, IsPrefix
<1>9. Len(n) >= Len(v) + 1 /\ n[Len(n) - 1] = l /\ Last(n) = "srt"
  BY <1>1, <1>2, <1>4 DEF Last
<1>10. l \notin Tag
  <2>1. ~IsStray(n)
    BY <1>6, StripConstants
  <2>2. Len(s) + 1 \in DOMAIN n
    BY <1>4
  <2> QED BY <1>4, <2>1, <2>2 DEF IsStray
<1>11. n \notin Temp
  BY <1>6, NamesApart
<1> QED BY <1>5, <1>6, <1>8, <1>9, <1>10, <1>11 DEF Tagged, IsSidecar, HasCodec, s

\* A temp file is not tagged with a language.
LEMMA TempsUntagged ==
  ASSUME NEW n \in Temp, NEW v \in Video, NEW l \in Language
  PROVE  ~Tagged(v, n, l)
<1>1. l \notin Tag
  BY SidecarNames
<1>2. PICK u \in Video, t \in Tag : \E ext : n = TempName(u, t, ext)
  BY DEF Temp
<1>3. n[Len(n) - 1] = t
  BY <1>2, TagOfName
<1> QED BY <1>1, <1>3 DEF Tagged

\* No file lies beside two videos.
OwnSidecars ==
  \A u, v \in Video, n \in Name : IsStrictPrefix(Stem(u), n) /\ IsStrictPrefix(Stem(v), n) => u = v

LEMMA SidecarNamesApart ==
  ASSUME OwnSidecars, NEW u \in Video, NEW v \in Video, NEW k \in Language, NEW l \in Language,
         SidecarName(u, k) = SidecarName(v, l)
  PROVE  u = v /\ k = l
<1>1. PICK n : n = SidecarName(u, k)
  OBVIOUS
<1>2. n \in Name /\ IsStrictPrefix(Stem(u), n) /\ n[Len(n) - 1] = k
  BY <1>1, SidecarNames
<1>3. IsStrictPrefix(Stem(v), n) /\ n[Len(n) - 1] = l
  BY <1>1, SidecarNames
<1> QED BY <1>2, <1>3 DEF OwnSidecars

-----------------------------------------------------------------------------
(* Then, streams. *)

LEMMA KeptIs ==
  ASSUME NEW stream, NEW drop, Len(stream) \in Nat
  PROVE  \E f : Keeping(stream, drop, Len(stream), f) /\ Kept(stream, drop) = f[Len(stream)]
<1> DEFINE n == Len(stream)
           kept == CHOOSE f : Keeping(stream, drop, n, f)
<1>1. Keeping(stream, drop, n, kept)
  <2>1. n \in Nat
    OBVIOUS
  <2> HIDE DEF n
  <2> QED BY <2>1, KeepingExists
<1>2. Kept(stream, drop) = kept[n]
  BY DEF Kept, Keeping
<1> QED BY <1>1, <1>2

\* Without some of its streams a video has fewer.
LEMMA KeptIsShorter ==
  ASSUME NEW S, NEW stream \in Seq(S), NEW drop, drop # {}, drop \subseteq DOMAIN stream
  PROVE  Len(Kept(stream, drop)) < Len(stream)
<1>1. PICK n : n = Len(stream)
  OBVIOUS
<1>2. n \in Nat /\ DOMAIN stream = 1 .. n /\ \A i \in 1 .. n : stream[i] \in S
  BY <1>1
<1>3. PICK f : Keeping(stream, drop, n, f) /\ Kept(stream, drop) = f[n]
  BY <1>1, <1>2, KeptIs
<1> DEFINE Fewer(k) == /\ f[k] \in Seq(S) /\ Len(f[k]) <= k
                       /\ (\E d \in drop : d <= k) => Len(f[k]) < k
           T == {k \in 0 .. n : ~Fewer(k)}
<1>4. T = {}
  <2> SUFFICES ASSUME T # {} PROVE FALSE
    OBVIOUS
  <2>1. PICK k \in T : \A j \in T : k <= j
    <3> HIDE DEF Fewer
    <3>1. \A j \in T : j \in Nat
      BY <1>2
    <3> HIDE DEF T
    <3> QED BY <3>1, Least
  <2>2. k \in 0 .. n /\ ~Fewer(k)
    OBVIOUS
  <2>3. f[k] = IF k = 0 THEN <<>> ELSE IF k \in drop THEN f[k - 1] ELSE Append(f[k - 1], stream[k])
    BY <1>3, <2>2 DEF Keeping
  <2>4. CASE k = 0
    <3>1. ~\E d \in drop : d <= 0
      BY <1>2
    <3> QED BY <2>2, <2>3, <2>4, <3>1
  <2>5. CASE k # 0
    <3>1. k - 1 \in 0 .. n /\ k - 1 \notin T /\ k \in 1 .. n
      BY <1>2, <2>1, <2>2, <2>5
    <3>2. Fewer(k - 1) /\ stream[k] \in S
      BY <1>2, <3>1
    <3>3. CASE k \in drop
      BY <2>2, <2>3, <2>5, <3>1, <3>2, <3>3
    <3>4. CASE k \notin drop
      <4>1. f[k] \in Seq(S) /\ Len(f[k]) = Len(f[k - 1]) + 1
        BY <2>3, <2>5, <3>2, <3>4
      <4>2. ASSUME NEW d \in drop, d <= k
            PROVE  d <= k - 1
        BY <1>2, <3>1, <3>4, <4>2
      <4>3. Len(f[k - 1]) \in Nat
        BY <3>2
      <4> HIDE DEF T
      <4>4. Len(f[k]) <= k
        BY <3>1, <3>2, <4>1, <4>3
      <4>5. (\E d \in drop : d <= k) => Len(f[k]) < k
        BY <3>1, <3>2, <4>1, <4>2, <4>3
      <4> QED BY <2>2, <4>1, <4>4, <4>5
    <3> QED BY <3>3, <3>4
  <2> QED BY <2>4, <2>5
<1>5. n \in 0 .. n /\ \E d \in drop : d <= n
  BY <1>2
<1>6. Fewer(n)
  BY <1>4, <1>5
<1> QED BY <1>1, <1>3, <1>5, <1>6

\* The streams of a video that are in none of the languages W, in order.
OutOf(stream, W) == Kept(stream, {i \in DOMAIN stream : stream[i] \in W})

LEMMA OutOfAppend ==
  ASSUME NEW S, NEW stream \in Seq(S), NEW x \in S, NEW W
  PROVE  OutOf(Append(stream, x), W) =
           IF x \in W THEN OutOf(stream, W) ELSE Append(OutOf(stream, W), x)
<1>1. PICK n : n = Len(stream)
  OBVIOUS
<1>2. PICK long : long = Append(stream, x)
  OBVIOUS
<1>3. n \in Nat /\ Len(long) = n + 1 /\ long[n + 1] = x /\ \A i \in 1 .. n : long[i] = stream[i]
  BY <1>1, <1>2
<1>4. DOMAIN stream = 1 .. n /\ DOMAIN long = 1 .. n + 1
  BY <1>1, <1>2, <1>3
<1>5. PICK out : out = {i \in DOMAIN stream : stream[i] \in W}
  OBVIOUS
<1>6. PICK outLong : outLong = {i \in DOMAIN long : long[i] \in W}
  OBVIOUS
<1>7. PICK f : Keeping(stream, out, n, f) /\ Kept(stream, out) = f[n]
  BY <1>1, <1>3, KeptIs
<1>8. PICK g : Keeping(long, outLong, n + 1, g) /\ Kept(long, outLong) = g[n + 1]
  <2>1. Len(long) \in Nat
    BY <1>3
  <2> QED BY <1>3, <2>1, KeptIs
<1>9. \A i \in 1 .. n : i \in out <=> i \in outLong
  BY <1>3, <1>4, <1>5, <1>6
<1> DEFINE T == {k \in 0 .. n : g[k] # f[k]}
<1>10. T = {}
  <2> SUFFICES ASSUME T # {} PROVE FALSE
    OBVIOUS
  <2>1. PICK k \in T : \A j \in T : k <= j
    <3>1. \A j \in T : j \in Nat
      BY <1>3
    <3> HIDE DEF T
    <3> QED BY <3>1, Least
  <2>2. k \in 0 .. n /\ g[k] # f[k]
    OBVIOUS
  <2>3. f[k] = IF k = 0 THEN <<>> ELSE IF k \in out THEN f[k - 1] ELSE Append(f[k - 1], stream[k])
    BY <1>7, <2>2 DEF Keeping
  <2>4. g[k] = IF k = 0 THEN <<>> ELSE IF k \in outLong THEN g[k - 1] ELSE Append(g[k - 1], long[k])
    <3>1. k \in 0 .. n + 1
      BY <1>3, <2>2
    <3> QED BY <1>8, <3>1 DEF Keeping
  <2>5. CASE k = 0
    BY <2>2, <2>3, <2>4, <2>5
  <2>6. CASE k # 0
    <3>1. k - 1 \in 0 .. n /\ k - 1 \notin T /\ k \in 1 .. n
      BY <1>3, <2>1, <2>2, <2>6
    <3>2. g[k - 1] = f[k - 1] /\ long[k] = stream[k] /\ (k \in out <=> k \in outLong)
      BY <1>3, <1>9, <3>1
    <3> QED BY <2>2, <2>3, <2>4, <2>6, <3>2
  <2> QED BY <2>5, <2>6
<1>11. g[n] = f[n]
  BY <1>3, <1>10
<1>12. g[n + 1] = IF n + 1 \in outLong THEN g[n] ELSE Append(g[n], long[n + 1])
  <2>1. PICK m : m = n + 1
    OBVIOUS
  <2>2. m \in 0 .. m /\ m # 0 /\ m - 1 = n
    BY <1>3, <2>1
  <2>3. Keeping(long, outLong, m, g)
    BY <1>8, <2>1
  <2>4. g[m] = IF m \in outLong THEN g[m - 1] ELSE Append(g[m - 1], long[m])
    BY <2>2, <2>3 DEF Keeping
  <2> QED BY <2>1, <2>2, <2>4
<1>13. n + 1 \in outLong <=> x \in W
  BY <1>3, <1>4, <1>6
<1> QED BY <1>2, <1>3, <1>5, <1>6, <1>7, <1>8, <1>11, <1>12, <1>13 DEF OutOf

LEMMA OutOfEmpty == \A W : OutOf(<<>>, W) = <<>>
<1> SUFFICES ASSUME NEW W PROVE OutOf(<<>>, W) = <<>>
  OBVIOUS
<1>1. PICK drop : drop = {i \in DOMAIN <<>> : <<>>[i] \in W}
  OBVIOUS
<1>2. PICK none : none = <<>>
  OBVIOUS
<1>3. Len(none) = 0
  BY <1>2
<1>4. PICK f : Keeping(none, drop, 0, f) /\ Kept(none, drop) = f[0]
  <2>1. Len(none) \in Nat
    BY <1>3
  <2> QED BY <1>3, <2>1, KeptIs
<1>5. f[0] = <<>>
  <2>1. 0 \in 0 .. 0
    OBVIOUS
  <2> QED BY <1>4, <2>1 DEF Keeping
<1> QED BY <1>1, <1>2, <1>4, <1>5 DEF OutOf

\* To drop streams of languages in W leaves those of the others as they are.
LEMMA DroppingKeepsOthers ==
  ASSUME NEW S, NEW stream \in Seq(S), NEW W, NEW drop, \A i \in drop : stream[i] \in W
  PROVE  OutOf(Kept(stream, drop), W) = OutOf(stream, W)
<1>1. PICK n : n = Len(stream)
  OBVIOUS
<1>2. n \in Nat /\ DOMAIN stream = 1 .. n /\ \A i \in 1 .. n : stream[i] \in S
  BY <1>1
<1>3. PICK f : Keeping(stream, drop, n, f) /\ Kept(stream, drop) = f[n]
  BY <1>1, <1>2, KeptIs
<1>4. PICK out : out = {i \in DOMAIN stream : stream[i] \in W}
  OBVIOUS
<1>5. PICK g : Keeping(stream, out, n, g) /\ Kept(stream, out) = g[n]
  BY <1>1, <1>2, KeptIs
<1> DEFINE Same(k) == f[k] \in Seq(S) /\ OutOf(f[k], W) = g[k]
           T == {k \in 0 .. n : ~Same(k)}
<1>6. T = {}
  <2> SUFFICES ASSUME T # {} PROVE FALSE
    OBVIOUS
  <2>1. PICK k \in T : \A j \in T : k <= j
    <3> HIDE DEF Same
    <3>1. \A j \in T : j \in Nat
      BY <1>2
    <3> HIDE DEF T
    <3> QED BY <3>1, Least
  <2>2. k \in 0 .. n /\ ~Same(k)
    OBVIOUS
  <2>3. f[k] = IF k = 0 THEN <<>> ELSE IF k \in drop THEN f[k - 1] ELSE Append(f[k - 1], stream[k])
    BY <1>3, <2>2 DEF Keeping
  <2>4. g[k] = IF k = 0 THEN <<>> ELSE IF k \in out THEN g[k - 1] ELSE Append(g[k - 1], stream[k])
    BY <1>5, <2>2 DEF Keeping
  <2>5. CASE k = 0
    BY <2>2, <2>3, <2>4, <2>5, OutOfEmpty
  <2>6. CASE k # 0
    <3>1. k - 1 \in 0 .. n /\ k - 1 \notin T /\ k \in 1 .. n
      BY <1>2, <2>1, <2>2, <2>6
    <3>2. Same(k - 1) /\ stream[k] \in S
      BY <1>2, <3>1
    <3>3. k \in out <=> stream[k] \in W
      BY <1>2, <1>4, <3>1
    <3>4. CASE k \in drop
      <4>1. f[k] = f[k - 1] /\ g[k] = g[k - 1]
        BY <2>3, <2>4, <2>6, <3>3, <3>4
      <4> QED BY <2>2, <3>2, <4>1
    <3>5. CASE k \notin drop
      <4>1. f[k] = Append(f[k - 1], stream[k])
        BY <2>3, <2>6, <3>5
      <4>2. f[k] \in Seq(S)
        BY <3>2, <4>1
      <4>3. OutOf(f[k], W) = IF stream[k] \in W THEN OutOf(f[k - 1], W)
                             ELSE Append(OutOf(f[k - 1], W), stream[k])
        <5>1. PICK q \in Seq(S) : q = f[k - 1]
          BY <3>2
        <5>2. PICK x \in S : x = stream[k]
          BY <3>2
        <5>3. OutOf(Append(q, x), W) = IF x \in W THEN OutOf(q, W) ELSE Append(OutOf(q, W), x)
          BY OutOfAppend
        <5> QED BY <4>1, <5>1, <5>2, <5>3
      <4> QED BY <2>2, <2>4, <2>6, <3>2, <3>3, <4>2, <4>3
    <3> QED BY <3>4, <3>5
  <2> QED BY <2>5, <2>6
<1>7. Same(n)
  BY <1>2, <1>6
<1> QED BY <1>3, <1>4, <1>5, <1>7 DEF OutOf

-----------------------------------------------------------------------------
(* The steps of a worker, in a table. *)

Claims(w) ==
  \E v \in Video, l \in lib.langs :
    /\ pc[w] = "idle" /\ pc'[w] = "probe" /\ watcher # "down" /\ status[v][l] = "pending"
    /\ NeedsFetch(v, l, recorded[v])
    /\ job'[w].video = v /\ job'[w].lang = l /\ job'[w].hash = recorded[v]
    /\ status' = [status EXCEPT ![v][l] = "in_progress"] /\ dir' = dir /\ recorded' = recorded

Passes(w) ==
  \E v \in Video, l \in lib.langs :
    /\ pc[w] = "idle" /\ pc'[w] = pc[w] /\ job'[w] = job[w]
    /\ status[v][l] = "pending" /\ status' = [status EXCEPT ![v][l] = "synced"]
    /\ dir' = dir /\ recorded' = recorded

Returns(w) ==
  /\ pc[w] # "idle" /\ pc'[w] = "idle" /\ dir' = dir /\ recorded' = recorded
  /\ \/ status' = status
     \/ \E outcome : status' = [status EXCEPT ![V(w)][L(w)] = outcome]

\* It goes on with its pair; it only looks; it makes a temp file, completes
\* it, renames it; it removes a sidecar.
Moves(w, from, to) ==
  /\ pc[w] = from /\ pc'[w] = to /\ status' = status
  /\ job'[w].video = job[w].video /\ job'[w].lang = job[w].lang

Looks(w, from, to) ==
  Moves(w, from, to) /\ dir' = dir /\ recorded' = recorded /\ job'[w].hash = job[w].hash

Opens(w, from, to) ==
  /\ Moves(w, from, to) /\ recorded' = recorded /\ job'[w].hash = job[w].hash
  /\ job'[w].temp \in Temp /\ ~Used(job'[w].temp)
  /\ dir' = [dir EXCEPT ![job'[w].temp] = Partial]

Closes(w, from, to) ==
  /\ Moves(w, from, to) /\ recorded' = recorded /\ job'[w] = job[w]
  /\ dir' = [dir EXCEPT ![job[w].temp] = IF @ = Absent THEN Absent ELSE job[w].film]

Renames(w, from, to, final) ==
  /\ Moves(w, from, to) /\ recorded' = recorded /\ job'[w].hash = job[w].hash
  /\ Exists(job[w].temp)
  /\ dir' = [dir EXCEPT ![final] = dir[job[w].temp], ![job[w].temp] = Absent]

Records(w) ==
  /\ Moves(w, "record", "write") /\ dir' = dir
  /\ recorded[V(w)] = job[w].hash /\ recorded' = [recorded EXCEPT ![V(w)] = job[w].film]
  /\ job'[w].hash = job[w].film

Lists(w) == Looks(w, "list", "strip") /\ job'[w].todo = Candidates(V(w), L(w))

Judges(w) ==
  \E n \in job[w].todo :
    /\ Looks(w, "strip", "strip") \/ Looks(w, "strip", "remove")
    /\ job'[w].todo \subseteq job[w].todo /\ job'[w].next = n
    /\ pc'[w] = "remove" => ~IsTrusted(n, job[w].hash) /\ (HasCodec(n) => Exists(n))

Removes(w) ==
  /\ Moves(w, "remove", "strip") /\ recorded' = recorded /\ job'[w] = job[w]
  /\ dir' = [dir EXCEPT ![job[w].next] = Absent]

Row(w) ==
  \/ Claims(w) \/ Passes(w) \/ Returns(w)
  \/ pc[w] # "idle" /\ Looks(w, pc[w], "failed")
  \/ Looks(w, "probe", "write")
  \/ /\ Looks(w, "probe", "remux") /\ job'[w].drop # {}
     /\ job'[w].drop = ToDrop(dir[V(w)].stream, L(w))
  \/ /\ Opens(w, "remux", "remuxing") /\ job'[w].drop = job[w].drop
     /\ job'[w].film = Without(dir[V(w)], job[w].drop)
  \/ Closes(w, "remuxing", "rename")
  \/ Renames(w, "rename", "rehash", V(w))
  \/ Looks(w, "rehash", "record") /\ job'[w].film = dir[V(w)]
  \/ Records(w)
  \/ Opens(w, "write", "writing") /\ job'[w].film = job[w].hash
  \/ Closes(w, "writing", "place")
  \/ Renames(w, "place", "list", SidecarName(V(w), L(w)))
  \/ Lists(w) \/ Judges(w) \/ Removes(w)
  \/ Looks(w, "strip", "finish")

LEMMA LookMoves ==
  ASSUME TypeOK, NEW w \in Worker, pc[w] # "idle", NEW label, NEW j,
         Look(w, label, j), j.video = job[w].video, j.lang = job[w].lang, j.hash = job[w].hash
  PROVE  Looks(w, pc[w], label) /\ job'[w] = j
<1>1. pc'[w] = label /\ job'[w] = j
  BY DEF Look, Goto, Knows, TypeOK
<1> QED BY <1>1 DEF Looks, Moves, Look, storeVars

LEMMA GiveUpMoves ==
  ASSUME TypeOK, NEW w \in Worker, pc[w] # "idle", GiveUp(w)
  PROVE  Looks(w, pc[w], "failed")
BY LookMoves DEF GiveUp

LEMMA OpenMoves ==
  ASSUME TypeOK, NEW w \in Worker, pc[w] # "idle", NEW label, NEW ext \in {Last(V(w)), "srt"},
         NEW film, OpenTemp(w, label, ext, film)
  PROVE  Opens(w, pc[w], label) /\ job'[w].film = film /\ job'[w].drop = job[w].drop
<1>1. PICK t : t = CHOOSE s \in Tag : s \notin drawn
  OBVIOUS
<1>2. PICK n : n = TempName(V(w), t, ext)
  OBVIOUS
<1>3. PICK j : j = [job[w] EXCEPT !.temp = n, !.film = film]
  OBVIOUS
<1>4. V(w) \in Video /\ job[w] \in Job
  BY WorkerType DEF V
<1>5. t \in Tag /\ t \notin drawn
  BY <1>1 DEF TypeOK, OpenTemp
<1>6. /\ dir' = [dir EXCEPT ![n] = Partial] /\ Goto(w, label) /\ Knows(w, j)
      /\ UNCHANGED <<storeVars, Outside>>
  BY <1>1, <1>2, <1>3 DEF OpenTemp
<1>7. n \in Temp /\ ~Used(n)
  BY <1>2, <1>4, <1>5, TempNames, FreshName
<1>8. /\ j.video = job[w].video /\ j.lang = job[w].lang /\ j.hash = job[w].hash
      /\ j.temp = n /\ j.film = film /\ j.drop = job[w].drop
  BY <1>3, <1>4 DEF Job
<1>9. pc'[w] = label /\ job'[w] = j
  BY <1>6 DEF Goto, Knows, TypeOK
<1> QED BY <1>6, <1>7, <1>8, <1>9 DEF Opens, Moves, storeVars

LEMMA CloseMoves ==
  ASSUME TypeOK, NEW w \in Worker, NEW label, CloseTemp(w, label)
  PROVE  Closes(w, pc[w], label)
<1>1. pc'[w] = label /\ job'[w] = job[w]
  BY DEF CloseTemp, Goto, TypeOK
<1> QED BY <1>1 DEF Closes, Moves, CloseTemp, storeVars

LEMMA RenameMoves ==
  ASSUME TypeOK, NEW w \in Worker, pc[w] # "idle", NEW label, NEW final, Rename(w, final, label)
  PROVE  Renames(w, pc[w], label, final) \/ Looks(w, pc[w], "failed")
<1>1. CASE ~Exists(job[w].temp)
  BY <1>1, GiveUpMoves DEF Rename
<1>2. CASE Exists(job[w].temp)
  <2>1. PICK j : j = [job[w] EXCEPT !.temp = Absent]
    OBVIOUS
  <2>2. job[w] \in Job
    BY WorkerType
  <2>3. j.video = job[w].video /\ j.lang = job[w].lang /\ j.hash = job[w].hash
    BY <2>1, <2>2 DEF Job
  <2>4. pc'[w] = label /\ job'[w] = j
    BY <1>2, <2>1 DEF Rename, Goto, Knows, TypeOK
  <2> QED BY <1>2, <2>3, <2>4 DEF Rename, Renames, Moves, storeVars
<1> QED BY <1>1, <1>2

LEMMA WorkerTable ==
  ASSUME TypeOK, NEW w \in Worker, WorkerStep(w)
  PROVE  Row(w)
<1>1. CASE \E v \in Video, l \in lib.langs : Claim(w, v, l)
  <2>1. PICK v \in Video, l \in lib.langs : Claim(w, v, l)
    BY <1>1
  <2>2. CASE ~NeedsFetch(v, l, recorded[v])
    <3>1. Passes(w)
      BY <2>1, <2>2 DEF Claim, Passes, At, workerVars
    <3> QED BY <3>1 DEF Row
  <2>3. CASE NeedsFetch(v, l, recorded[v])
    <3>1. PICK j : j = [video |-> v, lang |-> l, hash |-> recorded[v], drop |-> {}, temp |-> Absent,
                        film |-> recorded[v], todo |-> {}, next |-> Absent]
      OBVIOUS
    <3>2. j.video = v /\ j.lang = l /\ j.hash = recorded[v]
      BY <3>1
    <3>3. Goto(w, "probe") /\ Knows(w, j)
      BY <2>1, <2>3, <3>1 DEF Claim
    <3>4. pc'[w] = "probe" /\ job'[w] = j
      BY <3>3 DEF Goto, Knows, TypeOK
    <3>5. Claims(w)
      BY <2>1, <2>3, <3>2, <3>4 DEF Claim, Claims, At
    <3> QED BY <3>5 DEF Row
  <2> QED BY <2>2, <2>3
<1>2. CASE Probe(w)
  <2>1. PICK drop : drop = ToDrop(dir[V(w)].stream, L(w))
    OBVIOUS
  <2>2. PICK j : j = [job[w] EXCEPT !.drop = drop]
    OBVIOUS
  <2>3. pc[w] = "probe" /\ Look(w, IF drop = {} THEN "write" ELSE "remux", j)
    BY <1>2, <2>1, <2>2 DEF Probe, At
  <2>4. job[w] \in Job
    BY <2>3, WorkerType
  <2>5. j.video = job[w].video /\ j.lang = job[w].lang /\ j.hash = job[w].hash /\ j.drop = drop
    BY <2>2, <2>4 DEF Job
  <2>6. Looks(w, pc[w], IF drop = {} THEN "write" ELSE "remux") /\ job'[w] = j
    BY <2>3, <2>5, LookMoves
  <2> QED BY <2>1, <2>3, <2>5, <2>6 DEF Row
<1>3. CASE Remux(w)
  <2>1. pc[w] = "remux"
    BY <1>3 DEF Remux, At
  <2>2. CASE GiveUp(w)
    BY <2>1, <2>2, GiveUpMoves DEF Row
  <2>3. CASE OpenTemp(w, "remuxing", Last(V(w)), Without(dir[V(w)], job[w].drop))
    <3>1. PICK film : film = Without(dir[V(w)], job[w].drop)
      OBVIOUS
    <3>2. Opens(w, "remux", "remuxing") /\ job'[w].film = film /\ job'[w].drop = job[w].drop
      BY <2>1, <2>3, <3>1, OpenMoves
    <3> QED BY <3>1, <3>2 DEF Row
  <2> QED BY <1>3, <2>2, <2>3 DEF Remux
<1>4. CASE Remuxed(w)
  BY <1>4, CloseMoves DEF Remuxed, At, Row
<1>5. CASE TempFails(w)
  BY <1>5, GiveUpMoves DEF TempFails, Row
<1>6. CASE RenameVideo(w)
  BY <1>6, RenameMoves DEF RenameVideo, At, Row
<1>7. CASE Rehash(w)
  <2>1. PICK j : j = [job[w] EXCEPT !.film = dir[V(w)]]
    OBVIOUS
  <2>2. pc[w] = "rehash" /\ Look(w, "record", j)
    BY <1>7, <2>1 DEF Rehash, At
  <2>3. job[w] \in Job
    BY <2>2, WorkerType
  <2>4. j.video = job[w].video /\ j.lang = job[w].lang /\ j.hash = job[w].hash /\ j.film = dir[V(w)]
    BY <2>1, <2>3 DEF Job
  <2>5. Looks(w, pc[w], "record") /\ job'[w] = j
    BY <2>2, <2>4, LookMoves
  <2> QED BY <2>2, <2>4, <2>5 DEF Row
<1>8. CASE Record(w)
  <2>1. pc[w] = "record" /\ dir' = dir /\ status' = status
    BY <1>8 DEF Record, At
  <2>2. CASE recorded[V(w)] = job[w].hash
    <3>1. PICK j : j = [job[w] EXCEPT !.hash = job[w].film]
      OBVIOUS
    <3>2. job[w] \in Job
      BY <2>1, WorkerType
    <3>3. j.video = job[w].video /\ j.lang = job[w].lang /\ j.hash = job[w].film
      BY <3>1, <3>2 DEF Job
    <3>4. /\ Goto(w, "write") /\ Knows(w, j)
          /\ recorded' = [recorded EXCEPT ![V(w)] = job[w].film]
      BY <1>8, <2>2, <3>1 DEF Record
    <3>5. pc'[w] = "write" /\ job'[w] = j
      BY <3>4 DEF Goto, Knows, TypeOK
    <3>6. Records(w)
      BY <2>1, <2>2, <3>3, <3>4, <3>5 DEF Records, Moves
    <3> QED BY <3>6 DEF Row
  <2>3. CASE recorded[V(w)] # job[w].hash
    <3>1. Return(w) /\ recorded' = recorded
      BY <1>8, <2>3 DEF Record
    <3>2. Returns(w)
      BY <2>1, <3>1, ReturnType DEF Returns
    <3> QED BY <3>2 DEF Row
  <2> QED BY <2>2, <2>3
<1>9. CASE WriteTemp(w)
  <2>1. pc[w] = "write" /\ OpenTemp(w, "writing", "srt", job[w].hash)
    BY <1>9 DEF WriteTemp, At
  <2>2. PICK film : film = job[w].hash
    OBVIOUS
  <2>3. Opens(w, "write", "writing") /\ job'[w].film = film
    BY <2>1, <2>2, OpenMoves
  <2> QED BY <2>2, <2>3 DEF Row
<1>10. CASE WrittenTemp(w)
  BY <1>10, CloseMoves DEF WrittenTemp, At, Row
<1>11. CASE PlaceSidecar(w)
  BY <1>11, RenameMoves DEF PlaceSidecar, At, Row
<1>12. CASE List(w)
  <2>1. PICK todo : todo = Candidates(V(w), L(w))
    OBVIOUS
  <2>2. PICK j : j = [job[w] EXCEPT !.todo = todo]
    OBVIOUS
  <2>3. pc[w] = "list" /\ Look(w, "strip", j)
    BY <1>12, <2>1, <2>2 DEF List, At
  <2>4. job[w] \in Job
    BY <2>3, WorkerType
  <2>5. j.video = job[w].video /\ j.lang = job[w].lang /\ j.hash = job[w].hash /\ j.todo = todo
    BY <2>2, <2>4 DEF Job
  <2>6. Looks(w, pc[w], "strip") /\ job'[w] = j
    BY <2>3, <2>5, LookMoves
  <2>7. Lists(w)
    BY <2>1, <2>3, <2>5, <2>6 DEF Lists
  <2> QED BY <2>7 DEF Row
<1>13. ASSUME NEW n \in Name, CheckTrust(w, n)
       PROVE  Row(w)
  <2>1. pc[w] = "strip" /\ n \in job[w].todo
    BY <1>13 DEF CheckTrust, At
  <2>2. CASE GiveUp(w)
    BY <2>1, <2>2, GiveUpMoves DEF Row
  <2>3. CASE ~GiveUp(w)
    <3>1. PICK todo : todo = job[w].todo \ {n}
      OBVIOUS
    <3>2. PICK j : j = [job[w] EXCEPT !.todo = todo, !.next = n]
      OBVIOUS
    <3>3. job[w] \in Job
      BY <2>1, WorkerType
    <3>4. /\ j.video = job[w].video /\ j.lang = job[w].lang /\ j.hash = job[w].hash
          /\ j.todo = todo /\ j.next = n
      BY <3>2, <3>3 DEF Job
    <3>5. j = [job[w] EXCEPT !.todo = @ \ {n}, !.next = n]
      BY <3>1, <3>2, <3>3 DEF Job
    <3>6. PICK label \in {"strip", "remove"} :
            /\ Look(w, label, j) /\ (HasCodec(n) => Exists(n))
            /\ label = "remove" => ~IsTrusted(n, job[w].hash)
      BY <1>13, <2>3, <3>5 DEF CheckTrust
    <3>7. Looks(w, pc[w], label) /\ job'[w] = j
      BY <2>1, <3>4, <3>6, LookMoves
    <3>8. pc'[w] = label
      BY <3>7 DEF Looks, Moves
    <3>9. job'[w].todo \subseteq job[w].todo /\ job'[w].next = n
      BY <3>1, <3>4, <3>7
    <3>10. Looks(w, "strip", "strip") \/ Looks(w, "strip", "remove")
      BY <2>1, <3>7
    <3>11. Judges(w)
      BY <2>1, <3>6, <3>8, <3>9, <3>10 DEF Judges
    <3> QED BY <3>11 DEF Row
  <2> QED BY <2>2, <2>3
<1>14. CASE RemoveSidecar(w)
  <2>1. pc[w] = "remove"
    BY <1>14 DEF RemoveSidecar, At
  <2>2. CASE GiveUp(w)
    BY <2>1, <2>2, GiveUpMoves DEF Row
  <2>3. CASE Exists(job[w].next) /\ ~GiveUp(w)
    <3>1. pc'[w] = "strip" /\ job'[w] = job[w]
      BY <1>14, <2>3 DEF RemoveSidecar, Goto, TypeOK
    <3>2. Removes(w)
      BY <1>14, <2>1, <2>3, <3>1 DEF RemoveSidecar, Removes, Moves, storeVars
    <3> QED BY <3>2 DEF Row
  <2> QED BY <1>14, <2>2, <2>3 DEF RemoveSidecar
<1>15. CASE Stripped(w)
  <2>1. pc[w] = "strip" /\ Look(w, "finish", job[w])
    BY <1>15 DEF Stripped, At
  <2>2. Looks(w, pc[w], "finish")
    BY <2>1, LookMoves
  <2> QED BY <2>1, <2>2 DEF Row
<1>16. CASE Finish(w) \/ Fail(w)
  <2>1. PICK outcome : pc[w] # "idle" /\ Settle(w, outcome)
    BY <1>16 DEF Finish, Fail, At
  <2>2. Returns(w)
    BY <2>1, ReturnType DEF Settle, Returns
  <2> QED BY <2>2 DEF Row
<1> QED BY <1>1, <1>2, <1>3, <1>4, <1>5, <1>6, <1>7, <1>8, <1>9, <1>10, <1>11, <1>12, <1>13,
         <1>14, <1>15, <1>16 DEF WorkerStep

\* What no step of a worker changes, and the places of the others.
LEMMA WorkerAlone ==
  ASSUME TypeOK, NEW w \in Worker, WorkerStep(w)
  PROVE  /\ UNCHANGED <<lib, startVars>>
         /\ \A u \in Worker : u # w => pc'[u] = pc[u] /\ job'[u] = job[u]
<1> USE DEF Goto, Knows, Look, GiveUp, Outside
<1>1. CASE \E v \in Video, l \in lib.langs : Claim(w, v, l)
  BY <1>1 DEF Claim, TypeOK, workerVars
<1>2. CASE Probe(w) \/ Rehash(w) \/ List(w) \/ Stripped(w) \/ TempFails(w)
  BY <1>2 DEF Probe, Rehash, List, Stripped, TempFails, TypeOK
<1>3. CASE Remux(w) \/ WriteTemp(w)
  BY <1>3 DEF Remux, WriteTemp, OpenTemp, TypeOK
<1>4. CASE Remuxed(w) \/ WrittenTemp(w)
  BY <1>4 DEF Remuxed, WrittenTemp, CloseTemp, TypeOK
<1>5. CASE RenameVideo(w) \/ PlaceSidecar(w)
  BY <1>5 DEF RenameVideo, PlaceSidecar, Rename, TypeOK
<1>6. CASE Record(w)
  BY <1>6 DEF Record, Return, TypeOK
<1>7. CASE \E n \in Name : CheckTrust(w, n)
  BY <1>7 DEF CheckTrust, TypeOK
<1>8. CASE RemoveSidecar(w)
  BY <1>8 DEF RemoveSidecar, TypeOK
<1>9. CASE Finish(w) \/ Fail(w)
  BY <1>9 DEF Finish, Fail, Settle, Return, TypeOK
<1> QED BY <1>1, <1>2, <1>3, <1>4, <1>5, <1>6, <1>7, <1>8, <1>9 DEF WorkerStep

\* And what everything else does: it stops the workers or leaves them alone.
LEMMA NonWorkers ==
  ASSUME Inv, Start \/ CleanStep \/ Stop \/ UNCHANGED vars
  PROVE  /\ lib' = lib /\ recorded' = recorded
         /\ \/ pc' = pc /\ job' = job /\ (watcher' = "down" => watcher = "down")
            \/ \A w \in Worker : pc'[w] = "idle"
         /\ dir' = dir \/ \E n \in Temp : dir' = [dir EXCEPT ![n] = Absent]
         /\ status' = status \/ watcher = "down"
<1>1. CASE Start
  BY <1>1 DEF Start, Inside, workerVars
<1>2. CASE CleanList \/ Cleaned
  BY <1>2 DEF CleanList, Cleaned, Inside, workerVars
<1>3. ASSUME NEW n \in Name, CleanStray(n)
      PROVE  /\ lib' = lib /\ recorded' = recorded /\ pc' = pc /\ job' = job
             /\ watcher' # "down" /\ status' = status
             /\ dir' = dir \/ dir' = [dir EXCEPT ![n] = Absent]
             /\ n \in Temp
  BY <1>3 DEF CleanStray, Inside, workerVars, Inv, Cleaning
<1>4. CASE Stop
  BY <1>4 DEF Stop, storeVars
<1>5. CASE UNCHANGED vars
  BY <1>5 DEF vars, storeVars, workerVars, startVars
<1> QED BY <1>1, <1>2, <1>3, <1>4, <1>5 DEF CleanStep

\* A pair has one worker at most, and is In Progress as long as it has.
Held ==
  /\ \A w \in Worker : pc[w] # "idle" => L(w) \in lib.langs /\ status[V(w)][L(w)] = "in_progress"
  /\ \A w, u \in Worker : pc[w] # "idle" /\ pc[u] # "idle" /\ V(w) = V(u) /\ L(w) = L(u) => w = u
  /\ watcher = "down" => \A w \in Worker : pc[w] = "idle"

\* By where it comes from and goes to, a step claims, ends or keeps a pair.
LEMMA PairKept ==
  ASSUME NEW w \in Worker, Row(w)
  PROVE  \/ Claims(w) \/ Passes(w) \/ Returns(w)
         \/ /\ pc[w] # "idle" /\ pc'[w] # "idle" /\ status' = status
            /\ job'[w].video = job[w].video /\ job'[w].lang = job[w].lang
BY DEF Row, Looks, Opens, Closes, Renames, Records, Lists, Judges, Removes, Moves

LEMMA HeldByWorker ==
  ASSUME TypeOK, Held, NEW w \in Worker, WorkerStep(w)
  PROVE  Held'
<1>1. lib' = lib /\ watcher' = watcher /\ \A u \in Worker : u # w => pc'[u] = pc[u] /\ job'[u] = job[u]
  BY WorkerAlone DEF startVars
<1>2. lib.langs \subseteq Language
  BY StripConstants DEF TypeOK
<1>3. \A u \in Worker : pc[u] # "idle" => job[u].video \in Video /\ job[u].lang \in Language
  BY WorkerType
<1>4. status \in [Video -> [Language -> {"pending", "in_progress", "synced", "failed"}]]
  BY DEF TypeOK
<1>5. CASE Claims(w)
  <2>1. PICK v \in Video, l \in lib.langs :
          /\ pc[w] = "idle" /\ pc'[w] = "probe" /\ watcher # "down" /\ status[v][l] = "pending"
          /\ job'[w].video = v /\ job'[w].lang = l
          /\ status' = [status EXCEPT ![v][l] = "in_progress"]
    BY <1>5 DEF Claims
  <2>2. \A x \in Video, k \in Language :
          status'[x][k] = IF x = v /\ k = l THEN "in_progress" ELSE status[x][k]
    BY <1>2, <1>4, <2>1
  <2>3. \A u \in Worker : pc[u] # "idle" => ~(V(u) = v /\ L(u) = l)
    BY <2>1 DEF Held
  <2> QED BY <1>1, <1>2, <1>3, <2>1, <2>2, <2>3 DEF Held, V, L
<1>6. CASE Passes(w)
  <2>1. PICK v \in Video, l \in lib.langs :
          /\ pc[w] = "idle" /\ pc'[w] = pc[w] /\ job'[w] = job[w] /\ status[v][l] = "pending"
          /\ status' = [status EXCEPT ![v][l] = "synced"]
    BY <1>6 DEF Passes
  <2>2. \A x \in Video, k \in Language :
          status'[x][k] = IF x = v /\ k = l THEN "synced" ELSE status[x][k]
    BY <1>2, <1>4, <2>1
  <2>3. \A u \in Worker : pc[u] # "idle" => ~(V(u) = v /\ L(u) = l)
    BY <2>1 DEF Held
  <2> QED BY <1>1, <1>2, <1>3, <2>1, <2>2, <2>3 DEF Held, V, L
<1>7. CASE Returns(w)
  <2>1. /\ pc[w] # "idle" /\ pc'[w] = "idle"
        /\ status' = status \/ \E outcome : status' = [status EXCEPT ![V(w)][L(w)] = outcome]
    BY <1>7 DEF Returns
  <2>2. \A x \in Video, k \in Language :
          ~(x = V(w) /\ k = L(w)) => status'[x][k] = status[x][k]
    BY <1>4, <2>1
  <2>3. \A u \in Worker : u # w /\ pc[u] # "idle" => ~(V(u) = V(w) /\ L(u) = L(w))
    BY <2>1 DEF Held
  <2> QED BY <1>1, <1>2, <1>3, <2>1, <2>2, <2>3 DEF Held, V, L
<1>8. CASE /\ pc[w] # "idle" /\ pc'[w] # "idle" /\ status' = status
           /\ job'[w].video = job[w].video /\ job'[w].lang = job[w].lang
  BY <1>1, <1>8 DEF Held, V, L
<1> QED BY <1>5, <1>6, <1>7, <1>8, WorkerTable, PairKept

LEMMA HeldKept == Inv /\ Held /\ [Next]_vars => Held'
<1> SUFFICES ASSUME Inv, Held, [Next]_vars PROVE Held'
  OBVIOUS
<1>1. CASE \E w \in Worker : WorkerStep(w)
  BY <1>1, HeldByWorker DEF Inv
<1>2. CASE Start \/ CleanStep \/ Stop \/ UNCHANGED vars
  BY <1>2, NonWorkers DEF Held, V, L
<1> QED BY <1>1, <1>2 DEF Next

LEMMA HeldAlways == Spec => []Held
<1>1. Init => Held
  BY DEF Init, Held
<1> QED BY <1>1, HeldKept, InvAlways, PTL DEF Spec

-----------------------------------------------------------------------------
(* A language keeps its sidecar. *)

\* A sidecar that a worker's swap may remove.
Replaced(w, n) ==
  /\ n # SidecarName(V(w), L(w)) /\ IsStrictPrefix(Stem(V(w)), n)
  /\ lib.scope = "all" \/ Tagged(V(w), n, L(w))

Sweeping ==
  \A w \in Worker :
    /\ pc[w] \in {"strip", "remove"} => \A n \in job[w].todo : Replaced(w, n)
    /\ pc[w] = "remove" => Replaced(w, job[w].next)

LEMMA SweepingByWorker ==
  ASSUME TypeOK, Sweeping, NEW w \in Worker, WorkerStep(w)
  PROVE  Sweeping'
<1>1. lib' = lib /\ \A u \in Worker : u # w => pc'[u] = pc[u] /\ job'[u] = job[u]
  BY WorkerAlone
<1>2. SUFFICES /\ pc'[w] \in {"strip", "remove"} => \A n \in job'[w].todo : Replaced(w, n)'
               /\ pc'[w] = "remove" => Replaced(w, job[w].next)'
  BY <1>1 DEF Sweeping, Replaced, V, L
<1>3. CASE Lists(w)
  BY <1>1, <1>3 DEF Lists, Looks, Moves, Candidates, ListSidecars, Replaced, V, L
<1>4. CASE Judges(w)
  <2>1. /\ job'[w].video = job[w].video /\ job'[w].lang = job[w].lang /\ pc[w] = "strip"
        /\ job'[w].todo \subseteq job[w].todo /\ job'[w].next \in job[w].todo
    BY <1>4 DEF Judges, Looks, Moves
  <2>2. \A n \in job[w].todo : Replaced(w, n)
    BY <2>1 DEF Sweeping
  <2> QED BY <1>1, <2>1, <2>2 DEF Replaced, V, L
<1>5. CASE Removes(w)
  BY <1>1, <1>5 DEF Removes, Moves, Sweeping, Replaced, V, L
<1>6. CASE Passes(w)
  BY <1>1, <1>6 DEF Passes, Sweeping, Replaced, V, L
<1>7. CASE ~(Lists(w) \/ Judges(w) \/ Removes(w) \/ Passes(w))
  <2>1. pc'[w] \notin {"strip", "remove"}
    BY <1>7, WorkerTable DEF Row, Claims, Returns, Looks, Opens, Closes, Renames, Records, Moves
  <2> QED BY <2>1
<1> QED BY <1>3, <1>4, <1>5, <1>6, <1>7

LEMMA SweepingKept == Inv /\ Sweeping /\ [Next]_vars => Sweeping'
<1> SUFFICES ASSUME Inv, Sweeping, [Next]_vars PROVE Sweeping'
  OBVIOUS
<1>1. CASE \E w \in Worker : WorkerStep(w)
  BY <1>1, SweepingByWorker DEF Inv
<1>2. CASE Start \/ CleanStep \/ Stop \/ UNCHANGED vars
  BY <1>2, NonWorkers DEF Sweeping, Replaced, V, L
<1> QED BY <1>1, <1>2 DEF Next

LEMMA SweepingAlways == Spec => []Sweeping
<1>1. Init => Sweeping
  BY DEF Init, Sweeping
<1> QED BY <1>1, SweepingKept, InvAlways, PTL DEF Spec

\* What a worker's step does to each file.
LEMMA FileTable ==
  ASSUME Inv, NEW w \in Worker, WorkerStep(w), NEW m \in Name
  PROVE  \/ dir'[m] = dir[m]
         \/ m \in Temp
         \/ m = V(w) /\ Renames(w, "rename", "rehash", V(w)) /\ dir'[m] = dir[job[w].temp]
         \/ /\ m = SidecarName(V(w), L(w)) /\ Renames(w, "place", "list", m)
            /\ dir'[m] = dir[job[w].temp]
         \/ m = job[w].next /\ Removes(w) /\ dir'[m] = Absent
<1>1. TypeOK /\ dir \in [Name -> Content \cup {Absent}] /\ Row(w)
  BY WorkerTable DEF Inv, TypeOK
<1>2. Temp \subseteq Name
  BY DEF Name
<1>3. ASSUME NEW from, NEW to, Opens(w, from, to)
      PROVE  dir'[m] = dir[m] \/ m \in Temp
  BY <1>1, <1>2, <1>3 DEF Opens
<1>4. ASSUME NEW from \in {"remuxing", "writing"}, NEW to, Closes(w, from, to)
      PROVE  dir'[m] = dir[m] \/ m \in Temp
  <2>1. job[w].temp \in Temp
    BY <1>4 DEF Inv, Working, Closes, Moves
  <2> QED BY <1>1, <1>4, <2>1 DEF Closes
<1>5. ASSUME NEW from \in {"rename", "place"}, NEW to, NEW final \in Final, Renames(w, from, to, final)
      PROVE  dir'[m] = dir[m] \/ m \in Temp \/ (m = final /\ dir'[m] = dir[job[w].temp])
  <2>1. job[w].temp \in Temp /\ final \in Name
    BY <1>5 DEF Inv, Working, Renames, Moves, Name
  <2> QED BY <1>1, <1>5, <2>1 DEF Renames
<1>6. CASE Renames(w, "rename", "rehash", V(w))
  <2>1. V(w) \in Final
    BY <1>1, <1>6, WorkerType DEF Renames, Moves, V, Final
  <2> QED BY <1>5, <1>6, <2>1
<1>7. CASE Renames(w, "place", "list", SidecarName(V(w), L(w)))
  <2>1. SidecarName(V(w), L(w)) \in Final
    BY <1>1, <1>7, WorkerType DEF Renames, Moves, V, L, Final
  <2> QED BY <1>5, <1>7, <2>1
<1>8. CASE Removes(w)
  BY <1>1, <1>8 DEF Removes
<1>9. CASE dir' = dir
  BY <1>9
<1> QED BY <1>1, <1>3, <1>4, <1>6, <1>7, <1>8, <1>9
         DEF Row, Claims, Passes, Returns, Looks, Records, Lists, Judges

\* Nobody's swap takes another language's sidecars.
Apart == lib.scope = "per_language" \/ \E l \in Language : lib.langs = {l}

LEMMA WantedNotReplaced ==
  ASSUME TypeOK, Held, OwnSidecars, Apart, NEW w \in Worker, pc[w] # "idle",
         NEW v \in Video, NEW l \in lib.langs, NEW n, Replaced(w, n)
  PROVE  n # SidecarName(v, l)
<1> SUFFICES ASSUME n = SidecarName(v, l) PROVE FALSE
  OBVIOUS
<1>1. V(w) \in Video /\ L(w) \in lib.langs /\ l \in Language
  BY WorkerType, StripConstants DEF Held, TypeOK, V
<1>2. n \in Name /\ IsStrictPrefix(Stem(v), n) /\ n[Len(n) - 1] = l
  BY <1>1, SidecarNames
<1>3. V(w) = v
  BY <1>1, <1>2 DEF Replaced, OwnSidecars
<1>4. L(w) = l
  BY <1>1, <1>2 DEF Replaced, Apart, Tagged
<1> QED BY <1>3, <1>4 DEF Replaced

Placed(w) == pc[w] \in {"list", "strip", "remove", "finish"}

\* While others are removed, the sidecar that replaces them is there.
InPlace == \A w \in Worker : Apart /\ Placed(w) => Exists(SidecarName(V(w), L(w)))

\* A sidecar of a wanted language goes only in exchange for the one in its place.
LEMMA WantedStays ==
  ASSUME Inv, Held, Sweeping, OwnSidecars, Apart, NEW w \in Worker, WorkerStep(w),
         NEW v \in Video, NEW l \in lib.langs, Exists(SidecarName(v, l))
  PROVE  dir'[SidecarName(v, l)] # Absent
<1>1. TypeOK /\ l \in Language
  BY StripConstants DEF Inv, TypeOK
<1>2. PICK m \in Name : m = SidecarName(v, l)
  BY <1>1, SidecarNames
<1>3. m \notin Temp /\ IsSidecar(m)
  BY <1>1, <1>2, SidecarNames
<1>4. CASE m = V(w) /\ Renames(w, "rename", "rehash", V(w))
  <2>1. V(w) \in Video
    BY <1>1, <1>4, WorkerType DEF Renames, Moves, V
  <2> QED BY <1>3, <1>4, <2>1, StripVideos
<1>5. CASE m = job[w].next /\ Removes(w)
  <2>1. pc[w] = "remove" /\ Replaced(w, m)
    BY <1>5 DEF Removes, Moves, Sweeping
  <2> QED BY <1>1, <1>2, <2>1, WantedNotReplaced
<1> QED BY <1>2, <1>3, <1>4, <1>5, FileTable DEF Renames, Exists

LEMMA InPlaceByWorker ==
  ASSUME Inv, Held, Sweeping, OwnSidecars, InPlace, NEW w \in Worker, WorkerStep(w)
  PROVE  InPlace'
<1>1. lib' = lib /\ \A u \in Worker : u # w => pc'[u] = pc[u] /\ job'[u] = job[u]
  BY WorkerAlone DEF Inv
<1>2. SUFFICES ASSUME Apart, NEW u \in Worker, pc'[u] \in {"list", "strip", "remove", "finish"}
               PROVE  dir'[SidecarName(job'[u].video, job'[u].lang)] # Absent
  BY <1>1 DEF InPlace, Apart, Placed, Exists, V, L
<1>3. TypeOK
  BY DEF Inv
<1>4. CASE /\ Placed(u) /\ job'[u].video = job[u].video /\ job'[u].lang = job[u].lang
  <2>1. V(u) \in Video /\ L(u) \in lib.langs
    BY <1>3, <1>4, WorkerType DEF Placed, Held, V
  <2>2. Exists(SidecarName(V(u), L(u)))
    BY <1>2, <1>4 DEF InPlace
  <2> QED BY <1>2, <1>4, <2>1, <2>2, WantedStays DEF V, L
<1>5. CASE u = w /\ Renames(w, "place", "list", SidecarName(V(w), L(w)))
  <2>1. V(w) \in Video /\ L(w) \in Language
    BY <1>3, <1>5, WorkerType DEF Renames, Moves, V, L
  <2>2. SidecarName(V(w), L(w)) \in Name /\ job[w].temp \in Temp
    BY <1>5, <2>1, SidecarNames DEF Renames, Moves, Inv, Working
  <2>3. dir'[SidecarName(V(w), L(w))] # Absent
    <3>1. SidecarName(V(w), L(w)) # job[w].temp
      BY <2>1, <2>2, SidecarNames
    <3> QED BY <1>3, <1>5, <2>2, <3>1 DEF Renames, Exists, TypeOK
  <2> QED BY <1>5, <2>3 DEF Renames, Moves, V, L
<1>6. CASE u = w /\ ~Renames(w, "place", "list", SidecarName(V(w), L(w)))
  <2>1. Placed(w) /\ job'[w].video = job[w].video /\ job'[w].lang = job[w].lang
    <3>1. CASE Passes(w)
      BY <1>2, <1>6, <3>1 DEF Passes, Placed
    <3>2. CASE ~Passes(w)
      BY <1>2, <1>3, <1>6, <3>2, WorkerTable DEF Row, Claims, Returns, Looks, Opens, Closes, Renames,
         Records, Lists, Judges, Removes, Moves, Placed
    <3> QED BY <3>1, <3>2
  <2> QED BY <1>4, <1>6, <2>1
<1>7. CASE u # w
  BY <1>1, <1>2, <1>4, <1>7 DEF Placed
<1> QED BY <1>5, <1>6, <1>7

LEMMA InPlaceKept == OwnSidecars /\ Inv /\ Held /\ Sweeping /\ InPlace /\ [Next]_vars => InPlace'
<1> SUFFICES ASSUME OwnSidecars, Inv, Held, Sweeping, InPlace, [Next]_vars PROVE InPlace'
  OBVIOUS
<1>1. CASE \E w \in Worker : WorkerStep(w)
  BY <1>1, InPlaceByWorker
<1>2. CASE Start \/ CleanStep \/ Stop \/ UNCHANGED vars
  <2>1. ASSUME NEW w \in Worker, Apart, Placed(w), pc'[w] = pc[w]
        PROVE  dir'[SidecarName(V(w), L(w))] # Absent
    <3>1. V(w) \in Video /\ L(w) \in Language
      BY <2>1, WorkerType DEF Inv, Placed, V, L
    <3>2. SidecarName(V(w), L(w)) \in Name \ Temp /\ Exists(SidecarName(V(w), L(w)))
      BY <2>1, <3>1, SidecarNames DEF InPlace
    <3> QED BY <1>2, <3>2, NonWorkers DEF Inv, TypeOK, Exists
  <2>2. lib' = lib
    BY <1>2, NonWorkers
  <2>3. ASSUME NEW w \in Worker, Apart, pc'[w] \in {"list", "strip", "remove", "finish"}
        PROVE  dir'[SidecarName(job'[w].video, job'[w].lang)] # Absent
    BY <1>2, <2>1, <2>3, NonWorkers DEF Placed, V, L
  <2> QED BY <2>2, <2>3 DEF InPlace, Apart, Placed, Exists, V, L
<1> QED BY <1>1, <1>2 DEF Next

LEMMA HasSidecarStays ==
  ASSUME OwnSidecars, Inv, Held, Sweeping, InPlace, [Next]_vars, NEW v \in Video, NEW l \in lib.langs,
         lib.scope = "per_language" \/ lib.langs = {l}, HasSidecar(v, l)
  PROVE  HasSidecar(v, l)'
<1>1. TypeOK /\ l \in Language /\ Apart
  BY StripConstants DEF Inv, TypeOK, Apart
<1>2. PICK n \in Name : Exists(n) /\ IsStrictPrefix(Stem(v), n) /\ IsSidecar(n) /\ Tagged(v, n, l)
  BY DEF HasSidecar, ListSidecars
<1>3. n \notin Temp
  BY <1>1, <1>2, TempsUntagged
<1>4. CASE dir'[n] # Absent
  BY <1>2, <1>4 DEF HasSidecar, ListSidecars, Exists
<1>5. CASE dir'[n] = Absent
  <2>1. dir'[n] # dir[n]
    BY <1>2, <1>5 DEF Exists
  <2>2. PICK w \in Worker : WorkerStep(w)
    <3>1. CASE Start \/ CleanStep \/ Stop \/ UNCHANGED vars
      BY <1>1, <1>3, <2>1, <3>1, NonWorkers DEF TypeOK
    <3> QED BY <3>1 DEF Next
  <2>3. n = job[w].next /\ Removes(w)
    <3>1. CASE n = V(w) /\ Renames(w, "rename", "rehash", V(w))
      <4>1. V(w) \in Video
        BY <1>1, <3>1, WorkerType DEF Renames, Moves, V
      <4> QED BY <1>2, <3>1, <4>1, StripVideos
    <3>2. CASE Renames(w, "place", "list", n) /\ dir'[n] = dir[job[w].temp]
      BY <1>5, <3>2 DEF Renames, Exists
    <3> QED BY <1>3, <2>1, <2>2, <3>1, <3>2, FileTable
  <2>4. pc[w] = "remove" /\ Replaced(w, n)
    BY <2>3 DEF Removes, Moves, Sweeping
  <2>5. V(w) \in Video /\ L(w) \in lib.langs
    BY <1>1, <2>4, WorkerType DEF Held, V
  <2>6. V(w) = v /\ L(w) = l
    BY <1>2, <2>4, <2>5 DEF Replaced, OwnSidecars, Tagged
  <2>7. PICK own : own = SidecarName(v, l)
    OBVIOUS
  <2>8. Exists(own)
    BY <1>1, <2>4, <2>6, <2>7 DEF InPlace, Placed
  <2>9. dir'[own] # Absent
    BY <1>1, <2>2, <2>7, <2>8, WantedStays
  <2>10. own \in Name /\ IsStrictPrefix(Stem(v), own) /\ IsSidecar(own) /\ Tagged(v, own, l)
    BY <1>1, <2>7, SidecarNames
  <2> QED BY <2>9, <2>10 DEF HasSidecar, ListSidecars, Exists
<1> QED BY <1>4, <1>5

\* A language that has a sidecar has one at any moment, while workers replace it,
\* fail, and are stopped, whatever else lies in the directory: unless a sidecar's
\* name begins with the names of two videos.
THEOREM LanguageKeepsSidecar ==
  ASSUME OwnSidecars
  PROVE  Spec => SidecarStays
<1>1. Init => InPlace
  BY DEF Init, InPlace, Placed
<1>2. Spec => []InPlace
  BY <1>1, InPlaceKept, InvAlways, HeldAlways, SweepingAlways, PTL DEF Spec
<1> DEFINE Stay == \A v \in Video, l \in lib.langs :
                     lib.scope = "per_language" \/ lib.langs = {l}
                       => (HasSidecar(v, l) => HasSidecar(v, l)')
<1>3. Inv /\ Held /\ Sweeping /\ InPlace /\ [Next]_vars => [Stay]_vars
  BY HasSidecarStays
<1>4. Spec => [][Stay]_vars
  <2> HIDE DEF Stay
  <2> QED BY <1>2, <1>3, InvAlways, HeldAlways, SweepingAlways, PTL DEF Spec
<1> QED BY <1>4 DEF SidecarStays

-----------------------------------------------------------------------------
(* What is stripped from a video. *)

\* At most one language's worker has embedded streams to drop from a video, or
\* there is one wanted language only, or nothing to replace at all.
Undisturbed(s) ==
  \/ \E l \in Language : s.langs = {l}
  \/ /\ s.scope = "per_language"
     /\ \A v \in Video : \A i, j \in DOMAIN s.stream[v] :
          {s.stream[v][i], s.stream[v][j]} \subseteq s.langs => s.stream[v][i] = s.stream[v][j]
  \/ s.scope = "all" /\ s.beside = {} /\ \A v \in Video : s.stream[v] = <<>>

TempWriter(w) == pc[w] \in {"remuxing", "rename", "writing", "place"}
Stripping(w) == pc[w] \in {"remux", "remuxing", "rename", "rehash", "record"}

\* The tags of the streams a video had at first; later ones are among them.
First(v) == {lib.stream[v][i] : i \in DOMAIN lib.stream[v]}

Streams == \A v \in Video : dir[v].stream \in Seq(First(v))

TempsApart ==
  \A w, u \in Worker : w # u /\ TempWriter(w) /\ TempWriter(u) => job[w].temp # job[u].temp

\* A video that is being stripped has such streams, and stays what it was when
\* it was probed until it is replaced, as it then does until that is recorded.
Remuxes(w) ==
  /\ Stripping(w) => First(V(w)) # {} /\ (lib.scope = "all" \/ L(w) \in First(V(w)))
  /\ pc[w] \in {"remux", "remuxing", "rename"} =>
       job[w].drop # {} /\ job[w].drop = ToDrop(dir[V(w)].stream, L(w))
  /\ pc[w] = "remuxing" => job[w].film = Without(dir[V(w)], job[w].drop)
  /\ pc[w] = "rename" => dir[job[w].temp] \in {Absent, Without(dir[V(w)], job[w].drop)}
  /\ pc[w] = "record" => job[w].film = dir[V(w)]

Remuxing == Streams /\ TempsApart /\ \A w \in Worker : Remuxes(w)

LEMMA VideoTable ==
  ASSUME Inv, NEW w \in Worker, WorkerStep(w), NEW v \in Video
  PROVE  \/ dir'[v] = dir[v]
         \/ v = V(w) /\ Renames(w, "rename", "rehash", v) /\ dir'[v] = dir[job[w].temp]
<1>1. v \in Name /\ v \notin Temp /\ ~IsSidecar(v)
  BY NamesApart, StripVideos DEF Final, Name
<1>2. CASE v = SidecarName(V(w), L(w)) /\ Renames(w, "place", "list", v)
  <2>1. V(w) \in Video /\ L(w) \in Language
    BY <1>2, WorkerType DEF Renames, Moves, Inv, V, L
  <2> QED BY <1>1, <1>2, <2>1, SidecarNames
<1>3. CASE v = job[w].next /\ Removes(w)
  BY <1>1, <1>3 DEF Removes, Moves, Inv, Working
<1> QED BY <1>1, <1>2, <1>3, FileTable

LEMMA TempTable ==
  ASSUME Inv, TempsApart, NEW w \in Worker, WorkerStep(w), NEW u \in Worker, u # w, TempWriter(u)
  PROVE  dir'[job[u].temp] \in {dir[job[u].temp], Absent}
<1>1. TypeOK /\ dir \in [Name -> Content \cup {Absent}] /\ Row(w)
  BY WorkerTable DEF Inv, TypeOK
<1>2. PICK n : n = job[u].temp
  OBVIOUS
<1>3. n \in Temp /\ n \in Name /\ n \notin Final /\ Used(n)
  BY <1>2, NamesApart DEF Inv, Working, TempWriter, Name
<1>4. ASSUME NEW from, NEW to, Opens(w, from, to)
      PROVE  dir'[n] = dir[n]
  BY <1>1, <1>3, <1>4 DEF Opens
<1>5. ASSUME NEW from \in {"remuxing", "writing"}, NEW to, Closes(w, from, to)
      PROVE  dir'[n] = dir[n]
  <2>1. job[w].temp # n
    BY <1>2, <1>5 DEF TempsApart, TempWriter, Closes, Moves
  <2> QED BY <1>1, <1>3, <1>5, <2>1 DEF Closes
<1>6. ASSUME NEW from \in {"rename", "place"}, NEW to, NEW final \in Final, Renames(w, from, to, final)
      PROVE  dir'[n] = dir[n]
  <2>1. job[w].temp # n
    BY <1>2, <1>6 DEF TempsApart, TempWriter, Renames, Moves
  <2> QED BY <1>1, <1>3, <1>6, <2>1 DEF Renames
<1>7. CASE Renames(w, "rename", "rehash", V(w))
  <2>1. V(w) \in Final
    BY <1>1, <1>7, WorkerType DEF Renames, Moves, V, Final
  <2> QED BY <1>2, <1>6, <1>7, <2>1
<1>8. CASE Renames(w, "place", "list", SidecarName(V(w), L(w)))
  <2>1. SidecarName(V(w), L(w)) \in Final
    BY <1>1, <1>8, WorkerType DEF Renames, Moves, V, L, Final
  <2> QED BY <1>2, <1>6, <1>8, <2>1
<1>9. CASE Removes(w)
  BY <1>1, <1>2, <1>3, <1>9 DEF Removes
<1>10. CASE dir' = dir
  BY <1>10
<1> QED BY <1>1, <1>2, <1>4, <1>5, <1>7, <1>8, <1>9, <1>10
         DEF Row, Claims, Passes, Returns, Looks, Records, Lists, Judges

LEMMA OneStripper ==
  ASSUME TypeOK, Held, Remuxing, Undisturbed(lib), NEW w \in Worker, NEW u \in Worker,
         Stripping(w), Stripping(u), V(w) = V(u)
  PROVE  w = u
<1>1. PICK v \in Video : v = V(w)
  BY WorkerType DEF Stripping, V
<1>2. /\ First(v) # {} /\ L(w) \in lib.langs /\ L(u) \in lib.langs
      /\ lib.scope = "all" \/ (L(w) \in First(v) /\ L(u) \in First(v))
  BY <1>1 DEF Remuxing, Remuxes, Held, Stripping
<1>3. lib.stream[v] # <<>>
  BY <1>2 DEF First
<1>4. L(w) = L(u)
  <2>1. CASE \E l \in Language : lib.langs = {l}
    BY <1>2, <2>1
  <2>2. CASE /\ lib.scope = "per_language"
             /\ \A i, j \in DOMAIN lib.stream[v] :
                  {lib.stream[v][i], lib.stream[v][j]} \subseteq lib.langs
                    => lib.stream[v][i] = lib.stream[v][j]
    BY <1>2, <2>2 DEF First
  <2> QED BY <1>3, <2>1, <2>2 DEF Undisturbed
<1> QED BY <1>4 DEF Held, Stripping

LEMMA TempsApartByWorker ==
  ASSUME Inv, TempsApart, NEW w \in Worker, WorkerStep(w)
  PROVE  TempsApart'
<1>1. \A u \in Worker : u # w => pc'[u] = pc[u] /\ job'[u] = job[u]
  BY WorkerAlone DEF Inv
<1>2. SUFFICES ASSUME NEW u \in Worker, u # w, TempWriter(u),
                      pc'[w] \in {"remuxing", "rename", "writing", "place"}
               PROVE  job'[w].temp # job[u].temp
  BY <1>1 DEF TempsApart, TempWriter
<1>3. Used(job[u].temp)
  BY <1>2 DEF Inv, Working, TempWriter
<1>4. ASSUME NEW from, NEW to, Opens(w, from, to)
      PROVE  job'[w].temp # job[u].temp
  BY <1>3, <1>4 DEF Opens
<1>5. CASE TempWriter(w) /\ job'[w] = job[w]
  BY <1>2, <1>5 DEF TempsApart
<1> QED BY <1>2, <1>4, <1>5, WorkerTable DEF Inv, Row, Claims, Passes, Returns, Looks, Closes,
         Renames, Records, Lists, Judges, Removes, Moves, TempWriter

\* A video that is replaced loses what its worker has chosen to drop.
LEMMA VideoReplaced ==
  ASSUME Inv, Remuxing, NEW w \in Worker, Renames(w, "rename", "rehash", V(w))
  PROVE  /\ V(w) \in Video /\ dir[V(w)] \in Film
         /\ job[w].drop # {} /\ job[w].drop = ToDrop(dir[V(w)].stream, L(w))
         /\ dir[job[w].temp] = Without(dir[V(w)], job[w].drop)
         /\ dir[job[w].temp].stream = Kept(dir[V(w)].stream, job[w].drop)
<1>1. pc[w] = "rename" /\ V(w) \in Video
  BY WorkerType DEF Renames, Moves, Inv, V
<1>2. dir[V(w)] \in Film
  BY <1>1 DEF Inv, Files
<1>3. /\ job[w].drop # {} /\ job[w].drop = ToDrop(dir[V(w)].stream, L(w))
      /\ dir[job[w].temp] = Without(dir[V(w)], job[w].drop)
  BY <1>1 DEF Remuxing, Remuxes, Renames, Exists
<1>4. Without(dir[V(w)], job[w].drop).stream = Kept(dir[V(w)].stream, job[w].drop)
  BY <1>2 DEF Without, Film
<1> QED BY <1>1, <1>2, <1>3, <1>4

LEMMA StreamsByWorker ==
  ASSUME Inv, Remuxing, NEW w \in Worker, WorkerStep(w)
  PROVE  Streams'
<1>1. lib' = lib
  BY WorkerAlone DEF Inv
<1>2. ASSUME NEW v \in Video
      PROVE  dir'[v].stream \in Seq(First(v))
  <2>1. dir[v].stream \in Seq(First(v))
    BY DEF Remuxing, Streams
  <2>2. CASE v = V(w) /\ Renames(w, "rename", "rehash", v) /\ dir'[v] = dir[job[w].temp]
    <3>1. dir'[v].stream = Kept(dir[v].stream, job[w].drop)
      BY <2>2, VideoReplaced
    <3> QED BY <2>1, <3>1, KeptType
  <2> QED BY <2>1, <2>2, VideoTable
<1> QED BY <1>1, <1>2 DEF Streams, First

LEMMA RemuxesNext ==
  ASSUME lib' = lib, NEW w \in Worker, NEW v, NEW l, job'[w].video = v, job'[w].lang = l,
         pc'[w] \in {"remux", "remuxing", "rename", "rehash", "record"} =>
           First(v) # {} /\ (lib.scope = "all" \/ l \in First(v)),
         pc'[w] \in {"remux", "remuxing", "rename"} =>
           job'[w].drop # {} /\ job'[w].drop = ToDrop(dir'[v].stream, l),
         pc'[w] = "remuxing" => job'[w].film = Without(dir'[v], job'[w].drop),
         pc'[w] = "rename" => dir'[job'[w].temp] \in {Absent, Without(dir'[v], job'[w].drop)},
         pc'[w] = "record" => job'[w].film = dir'[v]
  PROVE  Remuxes(w)'
<1>1. ToDrop(dir[V(w)].stream, L(w))' = ToDrop(dir'[v].stream, l)
  BY DEF ToDrop, V, L
<1>2. First(V(w))' = First(v) /\ L(w)' = l /\ V(w)' = v
  BY DEF First, V, L
<1> QED BY <1>1, <1>2 DEF Remuxes, Stripping

LEMMA RemuxesOthers ==
  ASSUME Inv, Held, Remuxing, Undisturbed(lib), NEW w \in Worker, WorkerStep(w),
         NEW u \in Worker, u # w
  PROVE  Remuxes(u)'
<1>1. lib' = lib /\ pc'[u] = pc[u] /\ job'[u] = job[u]
  BY WorkerAlone DEF Inv
<1>2. PICK v : v = V(u)
  OBVIOUS
<1>3. PICK l : l = L(u)
  OBVIOUS
<1>4. ASSUME Stripping(u)
      PROVE  dir'[v] = dir[v]
  <2>1. v \in Video
    BY <1>2, <1>4, WorkerType DEF Inv, Stripping, V
  <2>2. ~(v = V(w) /\ Renames(w, "rename", "rehash", v))
    BY <1>2, <1>4, OneStripper DEF Inv, Stripping, Renames, Moves
  <2> QED BY <2>1, <2>2, VideoTable
<1>5. pc[u] = "rename" => dir'[job[u].temp] \in {dir[job[u].temp], Absent}
  BY TempTable DEF TempWriter, Remuxing
<1>6. Remuxes(u)
  BY DEF Remuxing
<1>7. /\ Stripping(u) => First(v) # {} /\ (lib.scope = "all" \/ l \in First(v))
      /\ pc[u] \in {"remux", "remuxing", "rename"} =>
           job[u].drop # {} /\ job[u].drop = ToDrop(dir'[v].stream, l)
      /\ pc[u] = "remuxing" => job[u].film = Without(dir'[v], job[u].drop)
      /\ pc[u] = "rename" => dir'[job[u].temp] \in {Absent, Without(dir'[v], job[u].drop)}
      /\ pc[u] = "record" => job[u].film = dir'[v]
  BY <1>2, <1>3, <1>4, <1>5, <1>6 DEF Remuxes, Stripping
<1> QED BY <1>1, <1>2, <1>3, <1>7, RemuxesNext DEF Stripping, V, L

LEMMA RemuxesSelf ==
  ASSUME Inv, Held, Remuxing, NEW w \in Worker, WorkerStep(w)
  PROVE  Remuxes(w)'
<1>1. lib' = lib
  BY WorkerAlone DEF Inv
<1>2. TypeOK /\ Row(w) /\ Remuxes(w)
  BY WorkerTable DEF Inv, Remuxing
<1>v. PICK v : v = V(w)
  OBVIOUS
<1>l. PICK l : l = L(w)
  OBVIOUS
<1>f. Stripping(w) => First(v) # {} /\ (lib.scope = "all" \/ l \in First(v))
  BY <1>2, <1>v, <1>l DEF Remuxes
<1>d. pc[w] \in {"remux", "remuxing", "rename"} =>
        job[w].drop # {} /\ job[w].drop = ToDrop(dir[v].stream, l)
  BY <1>2, <1>v, <1>l DEF Remuxes
<1>3. CASE Looks(w, "probe", "remux") /\ job'[w].drop # {} /\ job'[w].drop = ToDrop(dir[V(w)].stream, L(w))
  <2>1. v \in Video
    BY <1>2, <1>3, <1>v, WorkerType DEF Looks, Moves, V
  <2>2. dir[v].stream \in Seq(First(v))
    BY <2>1 DEF Remuxing, Streams
  <2>3. \E i \in DOMAIN dir[v].stream : lib.scope = "all" \/ dir[v].stream[i] = l
    BY <1>3, <1>v, <1>l DEF ToDrop
  <2>4. First(v) # {} /\ (lib.scope = "all" \/ l \in First(v))
    BY <2>2, <2>3
  <2>5. /\ job'[w].video = v /\ job'[w].lang = l /\ pc'[w] = "remux" /\ dir' = dir
        /\ job'[w].drop # {} /\ job'[w].drop = ToDrop(dir[v].stream, l)
    BY <1>3, <1>v, <1>l DEF Looks, Moves, V, L
  <2> QED BY <1>1, <2>4, <2>5, RemuxesNext
<1>4. CASE Opens(w, "remux", "remuxing") /\ job'[w].drop = job[w].drop
             /\ job'[w].film = Without(dir[V(w)], job[w].drop)
  <2>1. v \in Video
    BY <1>2, <1>4, <1>v, WorkerType DEF Opens, Moves, V
  <2>2. dir'[v] = dir[v]
    BY <1>4, <2>1, VideoTable DEF Renames, Opens, Moves
  <2>3. /\ job'[w].video = v /\ job'[w].lang = l /\ pc[w] = "remux" /\ pc'[w] = "remuxing"
        /\ job'[w].drop = job[w].drop /\ job'[w].film = Without(dir'[v], job'[w].drop)
    BY <1>4, <1>v, <1>l, <2>2 DEF Opens, Moves, V, L
  <2> QED BY <1>1, <1>d, <1>f, <2>2, <2>3, RemuxesNext DEF Stripping
<1>5. CASE Closes(w, "remuxing", "rename")
  <2>1. v \in Video /\ job[w].temp \in Name
    BY <1>2, <1>5, <1>v, WorkerType DEF Closes, Moves, V, Inv, Working, Name
  <2>2. dir'[v] = dir[v]
    BY <1>5, <2>1, VideoTable DEF Renames, Closes, Moves
  <2>3. dir'[job[w].temp] \in {Absent, job[w].film}
    BY <1>2, <1>5, <2>1 DEF Closes, TypeOK
  <2>4. job'[w] = job[w] /\ pc[w] = "remuxing" /\ pc'[w] = "rename"
    BY <1>5 DEF Closes, Moves
  <2>5. job[w].film = Without(dir'[v], job[w].drop)
    BY <1>2, <1>v, <2>2, <2>4 DEF Remuxes
  <2>6. job[w].video = v /\ job[w].lang = l
    BY <1>v, <1>l DEF V, L
  <2> QED BY <1>1, <1>d, <1>f, <2>2, <2>3, <2>4, <2>5, <2>6, RemuxesNext DEF Stripping
<1>6. CASE Renames(w, "rename", "rehash", V(w)) \/ (Looks(w, "rehash", "record") /\ job'[w].film = dir[V(w)])
  <2>1. /\ job'[w].video = v /\ job'[w].lang = l /\ Stripping(w)
        /\ pc'[w] = "rehash" \/ (pc'[w] = "record" /\ job'[w].film = dir'[v])
    BY <1>6, <1>v, <1>l DEF Renames, Looks, Moves, Stripping, V, L
  <2> QED BY <1>1, <1>f, <2>1, RemuxesNext
<1>8. CASE Passes(w)
  BY <1>8 DEF Passes, Remuxes, Stripping
<1>9. CASE pc'[w] \notin {"remux", "remuxing", "rename", "rehash", "record"}
  BY <1>9 DEF Remuxes, Stripping
<1> QED BY <1>2, <1>3, <1>4, <1>5, <1>6, <1>8, <1>9
         DEF Row, Claims, Returns, Looks, Opens, Closes, Renames, Records, Lists, Judges, Removes, Moves

LEMMA RemuxingKept ==
  (\A s \in Library : Undisturbed(s)) /\ Inv /\ Held /\ Remuxing /\ [Next]_vars => Remuxing'
<1> SUFFICES ASSUME \A s \in Library : Undisturbed(s), Inv, Held, Remuxing, [Next]_vars
             PROVE  Remuxing'
  OBVIOUS
<1>1. CASE \E w \in Worker : WorkerStep(w)
  <2>1. Undisturbed(lib)
    BY DEF Inv, TypeOK
  <2> QED BY <1>1, <2>1, TempsApartByWorker, StreamsByWorker, RemuxesOthers, RemuxesSelf DEF Remuxing
<1>2. CASE Start \/ CleanStep \/ Stop \/ UNCHANGED vars
  <2>1. /\ lib' = lib
        /\ \/ pc' = pc /\ job' = job
           \/ \A w \in Worker : pc'[w] = "idle"
        /\ dir' = dir \/ \E n \in Temp : dir' = [dir EXCEPT ![n] = Absent]
    BY <1>2, NonWorkers
  <2>2. \A n \in Name : dir'[n] = dir[n] \/ (n \in Temp /\ dir'[n] = Absent)
    BY <2>1 DEF Inv, TypeOK
  <2>3. ASSUME NEW v \in Video
        PROVE  dir'[v] = dir[v]
    BY <2>2, NamesApart DEF Final, Name
  <2>4. Streams'
    BY <2>1, <2>3 DEF Remuxing, Streams, First
  <2>5. TempsApart'
    BY <2>1 DEF Remuxing, TempsApart, TempWriter
  <2>6. ASSUME NEW w \in Worker
        PROVE  Remuxes(w)'
    <3>1. CASE pc'[w] = "idle"
      BY <3>1 DEF Remuxes, Stripping
    <3>2. CASE pc'[w] = pc[w] /\ job'[w] = job[w]
      <4>1. PICK v : v = V(w)
        OBVIOUS
      <4>2. PICK l : l = L(w)
        OBVIOUS
      <4>3. pc[w] # "idle" => dir'[v] = dir[v]
        BY <2>3, <4>1, WorkerType DEF Inv, V
      <4>4. pc[w] = "rename" => dir'[job[w].temp] \in {dir[job[w].temp], Absent}
        BY <2>2 DEF Inv, Working, Name
      <4>5. /\ Stripping(w) => First(v) # {} /\ (lib.scope = "all" \/ l \in First(v))
            /\ pc[w] \in {"remux", "remuxing", "rename"} =>
                 job[w].drop # {} /\ job[w].drop = ToDrop(dir'[v].stream, l)
            /\ pc[w] = "remuxing" => job[w].film = Without(dir'[v], job[w].drop)
            /\ pc[w] = "rename" => dir'[job[w].temp] \in {Absent, Without(dir'[v], job[w].drop)}
            /\ pc[w] = "record" => job[w].film = dir'[v]
        BY <4>1, <4>2, <4>3, <4>4 DEF Remuxing, Remuxes, Stripping
      <4> QED BY <2>1, <3>2, <4>1, <4>2, <4>5, RemuxesNext DEF Stripping, V, L
    <3> QED BY <2>1, <3>1, <3>2
  <2> QED BY <2>4, <2>5, <2>6 DEF Remuxing
<1> QED BY <1>1, <1>2 DEF Next

LEMMA RemuxingAlways ==
  ASSUME \A s \in Library : Undisturbed(s)
  PROVE  Spec => []Remuxing
<1>1. Init => Remuxing
  <2> SUFFICES ASSUME Init PROVE Remuxing
    OBVIOUS
  <2>1. ASSUME NEW v \in Video
        PROVE  dir[v].stream \in Seq(First(v))
    <3>1. v \in Name
      BY DEF Final, Name
    <3>2. dir[v].stream = lib.stream[v] /\ lib.stream[v] \in Seq(Language)
      BY <3>1, StripConstants DEF Init, InitFilm
    <3> QED BY <3>2 DEF First
  <2> QED BY <2>1 DEF Init, Remuxing, Streams, TempsApart, TempWriter, Remuxes, Stripping
<1> QED BY <1>1, RemuxingKept, InvAlways, HeldAlways, PTL DEF Spec

LEMMA UnwantedStreamsStay ==
  ASSUME Inv, Held, Remuxing, [Next]_vars, lib.scope = "per_language", NEW v \in Video
  PROVE  Unwanted(dir'[v].stream) = Unwanted(dir[v].stream)
<1>1. CASE \E w \in Worker : WorkerStep(w)
  <2>1. PICK w \in Worker : WorkerStep(w)
    BY <1>1
  <2>2. CASE v = V(w) /\ Renames(w, "rename", "rehash", v) /\ dir'[v] = dir[job[w].temp]
    <3>1. PICK stream : stream = dir[v].stream
      OBVIOUS
    <3>2. PICK drop : drop = job[w].drop
      OBVIOUS
    <3>3. dir'[v].stream = Kept(stream, drop) /\ drop = ToDrop(stream, L(w)) /\ stream \in Seq(Language)
      BY <2>2, <3>1, <3>2, VideoReplaced DEF Film
    <3>4. L(w) \in lib.langs
      BY <2>2 DEF Held, Renames, Moves
    <3>5. \A i \in drop : stream[i] \in lib.langs
      BY <3>3, <3>4 DEF ToDrop
    <3>6. OutOf(Kept(stream, drop), lib.langs) = OutOf(stream, lib.langs)
      BY <3>3, <3>5, DroppingKeepsOthers
    <3> QED BY <3>1, <3>3, <3>6 DEF Unwanted, OutOf
  <2> QED BY <2>1, <2>2, VideoTable
<1>2. CASE Start \/ CleanStep \/ Stop \/ UNCHANGED vars
  <2>1. v \in Name /\ v \notin Temp
    BY NamesApart DEF Final, Name
  <2>2. dir'[v] = dir[v]
    BY <1>2, <2>1, NonWorkers DEF Inv, TypeOK
  <2> QED BY <2>2
<1> QED BY <1>1, <1>2 DEF Next

LEMMA OtherSidecarsStay ==
  ASSUME Inv, Held, Sweeping, [Next]_vars, lib.scope = "per_language",
         NEW n \in Other, dir'[n] # dir[n]
  PROVE  \E v \in Video, l \in lib.langs : Tagged(v, n, l)
<1>1. n \in Name /\ n \notin Temp /\ IsSidecar(n)
  BY NamesApart, StripVideos DEF Final, Name
<1>2. CASE \E w \in Worker : WorkerStep(w)
  <2>1. PICK w \in Worker : WorkerStep(w)
    BY <1>2
  <2>2. ASSUME pc[w] # "idle"
        PROVE  V(w) \in Video /\ L(w) \in lib.langs /\ L(w) \in Language
    BY <2>2, WorkerType DEF Inv, Held, V, L
  <2>3. CASE n = V(w) /\ Renames(w, "rename", "rehash", V(w))
    BY <1>1, <2>2, <2>3, StripVideos DEF Renames, Moves
  <2>4. CASE n = SidecarName(V(w), L(w)) /\ Renames(w, "place", "list", n)
    BY <2>2, <2>4, SidecarNames DEF Renames, Moves
  <2>5. CASE n = job[w].next /\ Removes(w)
    BY <2>2, <2>5 DEF Removes, Moves, Sweeping, Replaced
  <2> QED BY <1>1, <2>1, <2>3, <2>4, <2>5, FileTable
<1>3. CASE Start \/ CleanStep \/ Stop \/ UNCHANGED vars
  BY <1>1, <1>3, NonWorkers DEF Inv, TypeOK
<1> QED BY <1>2, <1>3 DEF Next

\* Per language, strip leaves alone what is in languages the Library does not want,
\* streams as well as sidecars, in any directory whose videos have embedded
\* streams of one wanted language at most: with two, a worker may drop another
\* stream than the one it has chosen.
THEOREM UnwantedLeftAlone ==
  ASSUME \A s \in Library : Undisturbed(s)
  PROVE  Spec => OthersKept
<1> DEFINE Left == lib.scope = "per_language" =>
             /\ \A v \in Video : Unwanted(dir'[v].stream) = Unwanted(dir[v].stream)
             /\ \A n \in Other :
                  dir'[n] # dir[n] => \E v \in Video, l \in lib.langs : Tagged(v, n, l)
<1>1. Inv /\ Held /\ Sweeping /\ Remuxing /\ [Next]_vars => [Left]_vars
  BY UnwantedStreamsStay, OtherSidecarsStay
<1>2. Spec => [][Left]_vars
  <2> HIDE DEF Left
  <2> QED BY <1>1, InvAlways, HeldAlways, SweepingAlways, RemuxingAlways, PTL DEF Spec
<1> QED BY <1>2 DEF OthersKept

-----------------------------------------------------------------------------
(* A trusted sidecar stays in place. *)

\* A video only loses streams, so the content it had before has more of them.
Size(film) == Len(film.stream)
Older(f, g) == f = g \/ Size(f) > Size(g)

LEMMA SizeIsNatural == \A f \in Film : Size(f) \in Nat
BY DEF Size, Film

LEMMA OlderOrder ==
  ASSUME NEW f \in Film, NEW g \in Film
  PROVE  /\ Older(f, f)
         /\ Older(f, g) => Size(f) >= Size(g)
         /\ \A h \in Film : Older(f, g) /\ Older(g, h) => Older(f, h)
<1>1. \A h \in Film : Size(h) \in Nat
  BY SizeIsNatural
<1> QED BY <1>1 DEF Older

LEMMA WithoutIsSmaller ==
  ASSUME Inv, Remuxing, NEW w \in Worker, Renames(w, "rename", "rehash", V(w))
  PROVE  Size(dir[job[w].temp]) < Size(dir[V(w)])
<1>1. PICK stream : stream = dir[V(w)].stream
  OBVIOUS
<1>2. PICK drop : drop = job[w].drop
  OBVIOUS
<1>3. /\ dir[job[w].temp].stream = Kept(stream, drop) /\ drop # {}
      /\ drop = ToDrop(stream, L(w)) /\ stream \in Seq(Language)
  BY <1>1, <1>2, VideoReplaced DEF Film
<1>4. Len(Kept(stream, drop)) < Len(stream)
  BY <1>3, KeptIsShorter DEF ToDrop
<1> QED BY <1>1, <1>3, <1>4 DEF Size

Fetching(w) ==
  pc[w] \in {"probe", "remux", "remuxing", "rename", "rehash", "record", "write", "writing", "place"}

\* A worker works for the recorded content or an older one; the sidecar it is to
\* replace is older than that.
Bounds(w) ==
  /\ pc[w] # "idle" => Older(job[w].hash, recorded[V(w)])
  /\ Fetching(w) /\ dir[SidecarName(V(w), L(w))] \in Film =>
       Size(dir[SidecarName(V(w), L(w))]) > Size(job[w].hash)
  /\ pc[w] = "writing" => job[w].film = job[w].hash
  /\ pc[w] = "place" => dir[job[w].temp] \in {Absent, job[w].hash}

\* What is recorded for a video is what it is or was, and no sidecar is newer.
Bound ==
  /\ \A v \in Video : Older(recorded[v], dir[v])
  /\ \A v \in Video, l \in lib.langs :
       dir[SidecarName(v, l)] \in Film => Older(dir[SidecarName(v, l)], recorded[v])
  /\ \A w \in Worker : Bounds(w)

\* What a worker's step does to a pair's sidecar, and to a recorded hash.
LEMMA SidecarTable ==
  ASSUME OwnSidecars, Inv, NEW w \in Worker, WorkerStep(w), NEW v \in Video, NEW l \in Language
  PROVE  LET n == SidecarName(v, l)
         IN  \/ dir'[n] = dir[n]
             \/ /\ v = V(w) /\ l = L(w) /\ Renames(w, "place", "list", n)
                /\ dir'[n] = dir[job[w].temp]
             \/ n = job[w].next /\ Removes(w) /\ dir'[n] = Absent
<1>1. PICK n : n = SidecarName(v, l)
  OBVIOUS
<1>2. n \in Name /\ n \notin Temp /\ IsSidecar(n)
  BY <1>1, SidecarNames
<1>3. CASE n = V(w) /\ Renames(w, "rename", "rehash", V(w))
  <2>1. V(w) \in Video
    BY <1>3, WorkerType DEF Renames, Moves, Inv, V
  <2> QED BY <1>2, <1>3, <2>1, StripVideos
<1>4. ASSUME n = SidecarName(V(w), L(w)), Renames(w, "place", "list", n)
      PROVE  v = V(w) /\ l = L(w)
  <2>1. V(w) \in Video /\ L(w) \in Language
    BY <1>4, WorkerType DEF Renames, Moves, Inv, V, L
  <2> QED BY <1>1, <1>4, <2>1, SidecarNamesApart
<1> QED BY <1>1, <1>2, <1>3, <1>4, FileTable

LEMMA RecordTable ==
  ASSUME Inv, Remuxing, NEW w \in Worker, WorkerStep(w), NEW v \in Video
  PROVE  \/ recorded'[v] = recorded[v]
         \/ /\ Records(w) /\ v = V(w) /\ dir' = dir
            /\ recorded[v] = job[w].hash /\ recorded'[v] = dir[v] /\ job'[w].hash = dir[v]
<1>1. recorded \in [Video -> Film] /\ Row(w)
  BY WorkerTable DEF Inv, TypeOK
<1>2. CASE Records(w)
  <2>1. job[w].film = dir[V(w)] /\ V(w) \in Video
    BY <1>2, WorkerType DEF Records, Moves, Inv, Remuxing, Remuxes, V
  <2> QED BY <1>1, <1>2, <2>1 DEF Records
<1>3. CASE recorded' = recorded
  BY <1>3
<1> QED BY <1>1, <1>2, <1>3 DEF Row, Claims, Passes, Returns, Looks, Opens, Closes, Renames, Lists,
         Judges, Removes

LEMMA RecordedByWorker ==
  ASSUME Inv, Remuxing, Bound, NEW w \in Worker, WorkerStep(w), NEW v \in Video
  PROVE  /\ recorded'[v] \in Film /\ Older(recorded[v], recorded'[v])
         /\ Older(recorded'[v], dir'[v])
<1>1. recorded[v] \in Film /\ dir[v] \in Film /\ Older(recorded[v], dir[v])
  BY DEF Inv, TypeOK, Files, Bound
<1>2. recorded'[v] \in Film /\ Older(recorded[v], recorded'[v])
  BY <1>1, RecordTable, OlderOrder
<1>3. CASE v = V(w) /\ Renames(w, "rename", "rehash", v) /\ dir'[v] = dir[job[w].temp]
  <2>1. recorded'[v] = recorded[v]
    BY <1>3, RecordTable DEF Renames, Records, Moves
  <2>2. Size(dir'[v]) < Size(dir[v]) /\ dir'[v] \in Film
    BY <1>1, <1>3, WithoutIsSmaller, VideoReplaced, WithoutType
  <2>3. Size(recorded[v]) >= Size(dir[v])
    BY <1>1, OlderOrder
  <2>4. Size(recorded[v]) \in Nat /\ Size(dir[v]) \in Nat /\ Size(dir'[v]) \in Nat
    BY <1>1, <2>2, SizeIsNatural
  <2>5. Size(recorded[v]) > Size(dir'[v])
    BY <2>2, <2>3, <2>4
  <2> QED BY <1>2, <2>1, <2>5 DEF Older
<1>4. CASE dir'[v] = dir[v]
  <2>1. Older(dir[v], dir[v])
    BY <1>1, OlderOrder
  <2> QED BY <1>1, <1>2, <1>4, <2>1, RecordTable
<1> QED BY <1>3, <1>4, VideoTable

LEMMA SidecarsByWorker ==
  ASSUME OwnSidecars, Inv, Held, Remuxing, Bound, NEW w \in Worker, WorkerStep(w),
         NEW v \in Video, NEW l \in lib.langs, dir'[SidecarName(v, l)] \in Film
  PROVE  Older(dir'[SidecarName(v, l)], recorded'[v])
<1>1. PICK n : n = SidecarName(v, l)
  OBVIOUS
<1>2. l \in Language /\ recorded[v] \in Film
  BY StripConstants DEF Inv, TypeOK
<1>3. recorded'[v] \in Film /\ Older(recorded[v], recorded'[v])
  BY RecordedByWorker
<1>4. CASE dir'[n] = dir[n]
  <2>1. dir[n] \in Film /\ Older(dir[n], recorded[v])
    BY <1>1, <1>4 DEF Bound
  <2> QED BY <1>1, <1>2, <1>3, <1>4, <2>1, OlderOrder
<1>5. CASE v = V(w) /\ Renames(w, "place", "list", n) /\ dir'[n] = dir[job[w].temp]
  <2>1. dir[job[w].temp] = job[w].hash /\ Older(job[w].hash, recorded[v])
    BY <1>5 DEF Bound, Bounds, Renames, Moves, Exists
  <2> QED BY <1>1, <1>2, <1>3, <1>5, <2>1, OlderOrder
<1>6. Absent \notin Film
  BY StripConstants DEF Content
<1> QED BY <1>1, <1>2, <1>4, <1>5, <1>6, SidecarTable

LEMMA BoundsOthers ==
  ASSUME OwnSidecars, Inv, Held, Remuxing, Bound, NEW w \in Worker, WorkerStep(w),
         NEW u \in Worker, u # w
  PROVE  Bounds(u)'
<1>1. pc'[u] = pc[u] /\ job'[u] = job[u]
  BY WorkerAlone DEF Inv
<1>2. PICK v : v = V(u)
  OBVIOUS
<1>3. PICK l : l = L(u)
  OBVIOUS
<1>4. PICK n : n = SidecarName(v, l)
  OBVIOUS
<1>5. Bounds(u)
  BY DEF Bound
<1>6. ASSUME pc[u] # "idle"
      PROVE  Older(job[u].hash, recorded'[v])
  <2>1. v \in Video /\ job[u].hash \in Film /\ recorded[v] \in Film
    BY <1>2, <1>6, WorkerType DEF Inv, TypeOK, V
  <2>2. Older(job[u].hash, recorded[v])
    BY <1>2, <1>5, <1>6 DEF Bounds
  <2>3. recorded'[v] \in Film /\ Older(recorded[v], recorded'[v])
    BY <2>1, RecordedByWorker
  <2> QED BY <2>1, <2>2, <2>3, OlderOrder
<1>7. ASSUME Fetching(u), dir'[n] \in Film
      PROVE  Size(dir'[n]) > Size(job[u].hash)
  <2>1. pc[u] # "idle" /\ v \in Video /\ l \in Language
    BY <1>2, <1>3, <1>7, WorkerType DEF Inv, Fetching, V, L
  <2>2. ~(v = V(w) /\ l = L(w) /\ Renames(w, "place", "list", n))
    BY <1>2, <1>3, <2>1 DEF Held, Renames, Moves
  <2>3. Absent \notin Film
    BY StripConstants DEF Content
  <2>4. dir'[n] = dir[n]
    BY <1>4, <1>7, <2>1, <2>2, <2>3, SidecarTable
  <2> QED BY <1>2, <1>3, <1>4, <1>5, <1>7, <2>4 DEF Bounds
<1>8. pc[u] = "place" => dir'[job[u].temp] \in {Absent, job[u].hash}
  BY <1>5, TempTable DEF Remuxing, TempWriter, Bounds
<1>9. pc[u] = "writing" => job[u].film = job[u].hash
  BY <1>5 DEF Bounds
<1> QED BY <1>1, <1>2, <1>3, <1>4, <1>6, <1>7, <1>8, <1>9 DEF Bounds, Fetching, V, L

\* A claim is made because the sidecar in its place is not for the recorded content.
LEMMA ClaimedIsOlder ==
  ASSUME Inv, Bound, NEW v \in Video, NEW l \in lib.langs, NeedsFetch(v, l, recorded[v]),
         dir[SidecarName(v, l)] \in Film
  PROVE  Size(dir[SidecarName(v, l)]) > Size(recorded[v])
<1>1. PICK n : n = SidecarName(v, l)
  OBVIOUS
<1>2. l \in Language
  BY StripConstants DEF Inv, TypeOK
<1>3. /\ n \in Name /\ IsStrictPrefix(Stem(v), n) /\ IsSidecar(n) /\ HasCodec(n) /\ Tagged(v, n, l)
  BY <1>1, <1>2, SidecarNames
<1>4. Exists(n)
  BY <1>1, StripConstants DEF Content, Exists
<1>5. ~IsTrusted(n, recorded[v])
  BY <1>3, <1>4 DEF NeedsFetch, ListSidecars
<1>6. dir[n] # recorded[v]
  BY <1>3, <1>5 DEF IsTrusted
<1> QED BY <1>1, <1>6 DEF Bound, Older

LEMMA BoundsSelf ==
  ASSUME OwnSidecars, Inv, Held, Remuxing, Bound, NEW w \in Worker, WorkerStep(w)
  PROVE  Bounds(w)'
<1>1. TypeOK /\ Row(w) /\ Bounds(w)
  BY WorkerTable DEF Inv, Bound
<1>2. Absent \notin Film
  BY StripConstants DEF Content
<1>3. CASE Claims(w)
  <2>1. PICK v \in Video, l \in lib.langs :
          /\ pc'[w] = "probe" /\ NeedsFetch(v, l, recorded[v])
          /\ job'[w].video = v /\ job'[w].lang = l /\ job'[w].hash = recorded[v]
          /\ dir' = dir /\ recorded' = recorded
    BY <1>3 DEF Claims
  <2>2. Older(recorded[v], recorded[v])
    BY OlderOrder DEF Inv, TypeOK
  <2> QED BY <2>1, <2>2, ClaimedIsOlder DEF Inv, Bounds, Fetching, V, L
<1>4. CASE Passes(w) \/ Returns(w)
  BY <1>4 DEF Passes, Returns, Bounds, Fetching
<1>5. CASE ~(Claims(w) \/ Passes(w) \/ Returns(w))
  <2>v. PICK v : v = V(w)
    OBVIOUS
  <2>l. PICK l : l = L(w)
    OBVIOUS
  <2>n. PICK n : n = SidecarName(v, l)
    OBVIOUS
  <2>1. pc[w] # "idle" /\ job'[w].video = v /\ job'[w].lang = l
    BY <1>1, <1>5, <2>v, <2>l, PairKept DEF V, L
  <2>2. v \in Video /\ l \in Language /\ job[w].hash \in Film /\ recorded[v] \in Film /\ dir[v] \in Film
    BY <1>1, <2>v, <2>l, <2>1, WorkerType DEF V, L, TypeOK, Inv, Files
  <2>3. Older(job[w].hash, recorded[v]) /\ Older(recorded[v], dir[v])
    BY <1>1, <2>v, <2>1, <2>2 DEF Bounds, Bound
  <2>4. \/ Records(w) /\ job'[w].hash = dir[v] /\ recorded'[v] = dir[v]
        \/ ~Records(w) /\ job'[w].hash = job[w].hash /\ recorded'[v] = recorded[v]
    <3>1. Records(w) => job'[w].hash = dir[v] /\ recorded'[v] = dir[v]
      BY <2>v, <2>2 DEF Records, Moves, Remuxing, Remuxes, Inv, TypeOK
    <3>2. ~Records(w) => job'[w].hash = job[w].hash
      BY <1>1, <1>5 DEF Row, Looks, Opens, Closes, Renames, Lists, Judges, Removes
    <3>3. ~Records(w) => recorded'[v] = recorded[v]
      BY <2>2, RecordTable
    <3> QED BY <3>1, <3>2, <3>3
  <2>5. Older(job'[w].hash, recorded'[v]) /\ Size(job[w].hash) >= Size(job'[w].hash)
        /\ job'[w].hash \in Film
    <3>1. Older(job[w].hash, dir[v]) /\ Older(dir[v], dir[v]) /\ Older(job[w].hash, job[w].hash)
      BY <2>2, <2>3, OlderOrder
    <3> QED BY <2>2, <2>3, <2>4, <3>1, OlderOrder
  <2>6. ASSUME Fetching(w)', dir'[n] \in Film
        PROVE  Size(dir'[n]) > Size(job'[w].hash)
    <3>1. Fetching(w) /\ ~Renames(w, "place", "list", n) /\ ~Removes(w)
      BY <1>1, <1>5, <2>6 DEF Row, Looks, Opens, Closes, Renames, Lists, Judges, Removes, Records,
         Moves, Fetching
    <3>2. dir'[n] = dir[n]
      BY <2>n, <2>2, <3>1, SidecarTable
    <3>3. Size(dir[n]) > Size(job[w].hash)
      BY <1>1, <2>v, <2>l, <2>n, <2>6, <3>1, <3>2 DEF Bounds
    <3>4. Size(dir[n]) \in Nat /\ Size(job[w].hash) \in Nat /\ Size(job'[w].hash) \in Nat
      BY <2>2, <2>5, <2>6, <3>2, SizeIsNatural
    <3> QED BY <2>5, <3>2, <3>3, <3>4
  <2>7. pc'[w] = "writing" => job'[w].film = job'[w].hash
    BY <1>1, <1>5 DEF Row, Looks, Opens, Closes, Renames, Lists, Judges, Removes, Records, Moves
  <2>8. pc'[w] = "place" => dir'[job'[w].temp] \in {Absent, job'[w].hash}
    <3> SUFFICES ASSUME pc'[w] = "place" PROVE dir'[job'[w].temp] \in {Absent, job'[w].hash}
      OBVIOUS
    <3>1. Closes(w, "writing", "place")
      BY <1>1, <1>5 DEF Row, Looks, Opens, Closes, Renames, Lists, Judges, Removes, Records, Moves
    <3>2. job[w].temp \in Name /\ job[w].film = job[w].hash /\ job'[w] = job[w]
      BY <1>1, <3>1 DEF Closes, Moves, Inv, Working, Name, Bounds
    <3> QED BY <1>1, <3>1, <3>2 DEF Closes, TypeOK
  <2> QED BY <2>n, <2>1, <2>5, <2>6, <2>7, <2>8 DEF Bounds, Fetching, V, L
<1> QED BY <1>3, <1>4, <1>5

LEMMA BoundKept ==
  OwnSidecars /\ Inv /\ Held /\ Remuxing /\ Bound /\ [Next]_vars => Bound'
<1> SUFFICES ASSUME OwnSidecars, Inv, Held, Remuxing, Bound, [Next]_vars PROVE Bound'
  OBVIOUS
<1>1. CASE \E w \in Worker : WorkerStep(w)
  <2>1. PICK w \in Worker : WorkerStep(w)
    BY <1>1
  <2>2. lib' = lib
    BY <2>1, WorkerAlone DEF Inv
  <2>3. \A v \in Video : Older(recorded'[v], dir'[v])
    BY <2>1, RecordedByWorker
  <2>4. \A v \in Video, l \in lib.langs :
          dir'[SidecarName(v, l)] \in Film => Older(dir'[SidecarName(v, l)], recorded'[v])
    BY <2>1, SidecarsByWorker
  <2>5. \A u \in Worker : Bounds(u)'
    BY <2>1, BoundsOthers, BoundsSelf
  <2> QED BY <2>2, <2>3, <2>4, <2>5 DEF Bound
<1>2. CASE Start \/ CleanStep \/ Stop \/ UNCHANGED vars
  <2>1. /\ lib' = lib /\ recorded' = recorded
        /\ \/ pc' = pc /\ job' = job
           \/ \A w \in Worker : pc'[w] = "idle"
        /\ dir' = dir \/ \E n \in Temp : dir' = [dir EXCEPT ![n] = Absent]
    BY <1>2, NonWorkers
  <2>2. \A n \in Name : dir'[n] = dir[n] \/ (n \in Temp /\ dir'[n] = Absent)
    BY <2>1 DEF Inv, TypeOK
  <2>3. \A v \in Video : dir'[v] = dir[v]
    BY <2>2, NamesApart DEF Final, Name
  <2>4. ASSUME NEW v \in Video, NEW l \in Language
        PROVE  dir'[SidecarName(v, l)] = dir[SidecarName(v, l)]
    BY <2>2, SidecarNames
  <2>5. lib.langs \subseteq Language
    BY StripConstants DEF Inv, TypeOK
  <2>6. ASSUME NEW w \in Worker
        PROVE  Bounds(w)'
    <3>1. CASE pc'[w] = "idle"
      BY <3>1 DEF Bounds, Fetching
    <3>2. CASE pc[w] # "idle" /\ pc'[w] = pc[w] /\ job'[w] = job[w]
      <4>1. V(w) \in Video /\ L(w) \in Language /\ Bounds(w)
        BY <3>2, WorkerType DEF Inv, V, L, Bound
      <4>2. dir'[SidecarName(V(w), L(w))] = dir[SidecarName(V(w), L(w))]
        BY <2>4, <4>1
      <4>3. pc[w] = "place" => dir'[job[w].temp] \in {dir[job[w].temp], Absent}
        BY <2>2 DEF Inv, Working, Name
      <4> QED BY <2>1, <3>2, <4>1, <4>2, <4>3 DEF Bounds, Fetching, V, L
    <3> QED BY <2>1, <3>1, <3>2
  <2> QED BY <2>1, <2>3, <2>4, <2>5, <2>6 DEF Bound
<1> QED BY <1>1, <1>2 DEF Next

LEMMA BoundAlways ==
  ASSUME OwnSidecars, \A s \in Library : Undisturbed(s)
  PROVE  Spec => []Bound
<1>1. Init => Bound
  <2> SUFFICES ASSUME Init PROVE Bound
    OBVIOUS
  <2>1. Inv /\ lib.langs \subseteq Language
    BY InitInv, StripConstants DEF Inv, TypeOK
  <2>2. ASSUME NEW v \in Video
        PROVE  recorded[v] = dir[v] /\ recorded[v] \in Film
    <3>1. v \in Name
      BY DEF Final, Name
    <3> QED BY <2>1, <3>1 DEF Init, Inv, TypeOK
  <2>3. ASSUME NEW v \in Video, NEW l \in Language
        PROVE  dir[SidecarName(v, l)] \notin Film
    <3>1. SidecarName(v, l) \in Name /\ SidecarName(v, l) \notin Video
      BY SidecarNames, StripVideos
    <3> QED BY <3>1, StripConstants DEF Init, Content
  <2>4. \A v \in Video : Older(recorded[v], dir[v])
    BY <2>2, OlderOrder
  <2> QED BY <2>1, <2>3, <2>4 DEF Init, Bound, Bounds, Fetching
<1> QED BY <1>1, BoundKept, InvAlways, HeldAlways, RemuxingAlways, PTL DEF Spec

-----------------------------------------------------------------------------
(* A Library with scope "all" in which there is nothing to replace. *)

Bare == lib.scope = "all" /\ lib.beside = {} /\ \A v \in Video : lib.stream[v] = <<>>

Untouched ==
  Bare =>
    /\ \A v \in Video : dir[v] = InitFilm(v) /\ recorded[v] = InitFilm(v)
    /\ \A v \in Video, l \in lib.langs : dir[SidecarName(v, l)] \in {Absent, InitFilm(v)}
    /\ \A w \in Worker : pc[w] # "idle" => job[w].hash = InitFilm(V(w))
    /\ \A w \in Worker, v \in Video, l \in lib.langs : pc[w] = "remove" => job[w].next # SidecarName(v, l)

LEMMA BareNotStripped ==
  ASSUME Inv, Remuxing, Bare, NEW w \in Worker
  PROVE  ~Stripping(w)
<1> SUFFICES ASSUME Stripping(w) PROVE FALSE
  OBVIOUS
<1>1. V(w) \in Video
  BY WorkerType DEF Inv, Stripping, V
<1>2. First(V(w)) = {}
  BY <1>1 DEF Bare, First
<1> QED BY <1>2 DEF Remuxing, Remuxes

LEMMA UntouchedByWorker ==
  ASSUME OwnSidecars, Inv, Held, Sweeping, Remuxing, Bound, Untouched,
         NEW w \in Worker, WorkerStep(w)
  PROVE  Untouched'
<1>1. lib' = lib /\ \A u \in Worker : u # w => pc'[u] = pc[u] /\ job'[u] = job[u]
  BY WorkerAlone DEF Inv
<1>2. \A v : InitFilm(v)' = InitFilm(v)
  BY <1>1 DEF InitFilm
<1>3. SUFFICES ASSUME Bare
      PROVE  /\ \A v \in Video : dir'[v] = InitFilm(v) /\ recorded'[v] = InitFilm(v)
             /\ \A v \in Video, l \in lib.langs : dir'[SidecarName(v, l)] \in {Absent, InitFilm(v)}
             /\ pc'[w] # "idle" => job'[w].hash = InitFilm(job'[w].video)
             /\ \A v \in Video, l \in lib.langs : pc'[w] = "remove" => job'[w].next # SidecarName(v, l)
  BY <1>1, <1>2 DEF Untouched, Bare, V
<1>4. TypeOK /\ Row(w) /\ ~Stripping(w)
  BY <1>3, WorkerTable, BareNotStripped DEF Inv
<1>5. ASSUME NEW v \in Video
      PROVE  dir'[v] = InitFilm(v) /\ recorded'[v] = InitFilm(v)
  <2>1. dir'[v] = dir[v]
    BY <1>4, VideoTable DEF Renames, Moves, Stripping
  <2>2. recorded'[v] = recorded[v]
    BY <1>4, RecordTable DEF Records, Moves, Stripping
  <2> QED BY <1>3, <2>1, <2>2 DEF Untouched
<1>6. ASSUME NEW v \in Video, NEW l \in lib.langs
      PROVE  dir'[SidecarName(v, l)] \in {Absent, InitFilm(v)}
  <2>1. PICK n : n = SidecarName(v, l)
    OBVIOUS
  <2>2. l \in Language /\ dir[n] \in {Absent, InitFilm(v)}
    BY <1>3, <1>4, <2>1, StripConstants DEF Untouched, TypeOK
  <2>3. CASE v = V(w) /\ Renames(w, "place", "list", n) /\ dir'[n] = dir[job[w].temp]
    <3>1. pc[w] = "place" /\ dir[job[w].temp] # Absent
      BY <2>3 DEF Renames, Moves, Exists
    <3>2. dir[job[w].temp] = job[w].hash /\ job[w].hash = InitFilm(v)
      BY <1>3, <2>3, <3>1 DEF Bound, Bounds, Untouched
    <3> QED BY <2>1, <2>3, <3>2
  <2> QED BY <2>1, <2>2, <2>3, SidecarTable
<1>7. pc'[w] # "idle" => job'[w].hash = InitFilm(job'[w].video)
  <2>1. CASE Claims(w)
    BY <1>3, <2>1 DEF Claims, Untouched
  <2>2. CASE ~(Claims(w) \/ Passes(w) \/ Returns(w))
    <3>1. pc[w] # "idle" /\ job'[w].video = job[w].video
      BY <1>4, <2>2, PairKept
    <3>2. job'[w].hash = job[w].hash
      BY <1>4, <2>2 DEF Row, Looks, Opens, Closes, Renames, Records, Lists, Judges, Removes, Moves,
         Stripping
    <3> QED BY <1>3, <3>1, <3>2 DEF Untouched, V
  <2> QED BY <2>1, <2>2 DEF Passes, Returns
<1>8. ASSUME NEW v \in Video, NEW l \in lib.langs, pc'[w] = "remove"
      PROVE  job'[w].next # SidecarName(v, l)
  <2>1. PICK n \in job[w].todo : /\ job'[w].next = n /\ pc[w] = "strip"
                                /\ ~IsTrusted(n, job[w].hash) /\ (HasCodec(n) => Exists(n))
    BY <1>4, <1>8 DEF Row, Claims, Passes, Returns, Looks, Opens, Closes, Renames, Records, Lists,
       Judges, Removes, Moves
  <2> SUFFICES ASSUME n = SidecarName(v, l) PROVE FALSE
    BY <2>1
  <2>2. l \in Language /\ V(w) \in Video
    BY <1>4, <2>1, WorkerType, StripConstants DEF TypeOK, V
  <2>3. n \in Name /\ IsStrictPrefix(Stem(v), n) /\ HasCodec(n)
    BY <2>2, SidecarNames
  <2>4. V(w) = v
    BY <2>1, <2>2, <2>3 DEF Sweeping, Replaced, OwnSidecars
  <2>5. dir[n] = InitFilm(v) /\ job[w].hash = InitFilm(v)
    BY <1>3, <2>1, <2>3, <2>4 DEF Untouched, Exists
  <2> QED BY <2>1, <2>3, <2>5 DEF IsTrusted
<1> QED BY <1>5, <1>6, <1>7, <1>8

LEMMA UntouchedKept ==
  OwnSidecars /\ Inv /\ Held /\ Sweeping /\ Remuxing /\ Bound /\ Untouched /\ [Next]_vars => Untouched'
<1> SUFFICES ASSUME OwnSidecars, Inv, Held, Sweeping, Remuxing, Bound, Untouched, [Next]_vars
             PROVE  Untouched'
  OBVIOUS
<1>1. CASE \E w \in Worker : WorkerStep(w)
  BY <1>1, UntouchedByWorker
<1>2. CASE Start \/ CleanStep \/ Stop \/ UNCHANGED vars
  <2>1. /\ lib' = lib /\ recorded' = recorded
        /\ \/ pc' = pc /\ job' = job
           \/ \A w \in Worker : pc'[w] = "idle"
        /\ dir' = dir \/ \E n \in Temp : dir' = [dir EXCEPT ![n] = Absent]
    BY <1>2, NonWorkers
  <2>2. \A n \in Name : dir'[n] = dir[n] \/ (n \in Temp /\ dir'[n] = Absent)
    BY <2>1 DEF Inv, TypeOK
  <2>3. \A v \in Video : dir'[v] = dir[v]
    BY <2>2, NamesApart DEF Final, Name
  <2>4. ASSUME NEW v \in Video, NEW l \in lib.langs
        PROVE  dir'[SidecarName(v, l)] = dir[SidecarName(v, l)]
    <3>1. l \in Language
      BY StripConstants DEF Inv, TypeOK
    <3> QED BY <2>2, <3>1, SidecarNames
  <2>5. \A v : InitFilm(v)' = InitFilm(v)
    BY <2>1 DEF InitFilm
  <2> QED BY <2>1, <2>3, <2>4, <2>5 DEF Untouched, Bare, V
<1> QED BY <1>1, <1>2 DEF Next

LEMMA UntouchedAlways ==
  ASSUME OwnSidecars, \A s \in Library : Undisturbed(s)
  PROVE  Spec => []Untouched
<1>1. Init => Untouched
  <2> SUFFICES ASSUME Init, Bare PROVE Untouched
    BY DEF Untouched
  <2>1. \A v \in Video : v \in Name
    BY DEF Final, Name
  <2>2. ASSUME NEW v \in Video, NEW l \in lib.langs
        PROVE  dir[SidecarName(v, l)] = Absent
    <3>1. l \in Language
      BY InitInv, StripConstants DEF Inv, TypeOK
    <3>2. SidecarName(v, l) \in Name /\ SidecarName(v, l) \notin Video
      BY <3>1, SidecarNames, StripVideos
    <3> QED BY <3>2 DEF Init, Bare
  <2> QED BY <2>1, <2>2 DEF Init, Untouched
<1> QED BY <1>1, UntouchedKept, InvAlways, HeldAlways, SweepingAlways, RemuxingAlways, BoundAlways,
       PTL DEF Spec

-----------------------------------------------------------------------------
LEMMA TrustedStays ==
  ASSUME OwnSidecars, Undisturbed(lib), Inv, Held, Sweeping, Remuxing, Bound, Untouched,
         [Next]_vars, NEW v \in Video, NEW l \in lib.langs,
         dir[SidecarName(v, l)] = dir[v]
  PROVE  dir'[SidecarName(v, l)] = dir[SidecarName(v, l)]
<1>1. PICK n : n = SidecarName(v, l)
  OBVIOUS
<1>2. TypeOK /\ l \in Language /\ dir[v] \in Film /\ recorded[v] \in Film
  BY StripConstants DEF Inv, TypeOK, Files
<1>3. n \in Name /\ n \notin Temp
  BY <1>1, <1>2, SidecarNames
<1>4. CASE \E w \in Worker : WorkerStep(w)
  <2>1. PICK w \in Worker : WorkerStep(w)
    BY <1>4
  <2>2. ASSUME v = V(w), l = L(w), Renames(w, "place", "list", n)
        PROVE  FALSE
    <3>1. pc[w] = "place" /\ job[w].hash \in Film
      BY <1>2, <2>2, WorkerType DEF Renames, Moves
    <3>2. Size(dir[n]) > Size(job[w].hash) /\ Older(job[w].hash, recorded[v])
      BY <1>1, <1>2, <2>2, <3>1 DEF Bound, Bounds, Fetching
    <3>3. Older(job[w].hash, dir[v])
      BY <1>2, <3>1, <3>2, OlderOrder DEF Bound
    <3>4. Size(job[w].hash) >= Size(dir[v])
      BY <1>2, <3>1, <3>3, OlderOrder
    <3>5. Size(job[w].hash) \in Nat /\ Size(dir[v]) \in Nat
      BY <1>2, <3>1, SizeIsNatural
    <3> QED BY <1>1, <3>2, <3>4, <3>5
  <2>3. ASSUME n = job[w].next, Removes(w)
        PROVE  FALSE
    <3>1. pc[w] = "remove" /\ Replaced(w, n)
      BY <2>3 DEF Removes, Moves, Sweeping
    <3>2. CASE Apart
      BY <1>1, <1>2, <3>1, <3>2, WantedNotReplaced
    <3>3. CASE Bare
      BY <1>1, <2>3, <3>1, <3>3 DEF Untouched
    <3> QED BY <3>2, <3>3 DEF Undisturbed, Apart, Bare
  <2> QED BY <1>1, <1>2, <2>1, <2>2, <2>3, SidecarTable
<1>5. CASE Start \/ CleanStep \/ Stop \/ UNCHANGED vars
  BY <1>1, <1>2, <1>3, <1>5, NonWorkers DEF TypeOK
<1> QED BY <1>4, <1>5 DEF Next

\* A sidecar bound to what its video is now is neither removed nor overwritten, by
\* no worker, failure or clean-up, in any directory in which no file lies beside two
\* videos and at most one language's worker has something to drop or replace.
THEOREM TrustedLeftInPlace ==
  ASSUME OwnSidecars, \A s \in Library : Undisturbed(s)
  PROVE  Spec => TrustedKept
<1> DEFINE Stay == \A v \in Video, l \in lib.langs :
             LET n == SidecarName(v, l)
             IN  dir[n] = dir[v] /\ dir'[v] = dir[v] => dir'[n] = dir[n]
<1>1. /\ Inv /\ Held /\ Sweeping /\ Remuxing /\ Bound /\ Untouched /\ [Next]_vars
      => [Stay]_vars
  <2>1. TypeOK => Undisturbed(lib)
    BY DEF TypeOK
  <2> QED BY <2>1, TrustedStays DEF Inv
<1>2. Spec => [][Stay]_vars
  <2> HIDE DEF Stay
  <2> QED BY <1>1, InvAlways, HeldAlways, SweepingAlways, RemuxingAlways, BoundAlways, UntouchedAlways,
         PTL DEF Spec
<1> QED BY <1>2 DEF TrustedKept
=============================================================================
