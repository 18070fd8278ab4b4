----------------------------- MODULE WatcherProofs -----------------------------
(***************************************************************************)
(* Theorems about Watcher, for any tree, any number of requests, changes   *)
(* and restarts.                                                           *)
(***************************************************************************)
EXTENDS Watcher, SequenceTheorems, TLAPS

-----------------------------------------------------------------------------
(* Queues: what follows what. *)

Has(s, x) == \E i \in DOMAIN s : s[i] = x

\* After every x there is a y.
Follows(s, x, y) == \A i \in DOMAIN s : s[i] = x => \E j \in DOMAIN s : i < j /\ s[j] = y

LEMMA QueueAppend ==
  ASSUME NEW S, NEW s \in Seq(S), NEW t \in S
  PROVE  LET r == Append(s, t)
         IN  /\ r \in Seq(S) /\ Len(r) = Len(s) + 1 /\ r[Len(s) + 1] = t
             /\ \A k \in 1 .. Len(s) : r[k] = s[k]
OBVIOUS

LEMMA QueueTail ==
  ASSUME NEW S, NEW s \in Seq(S), s # <<>>
  PROVE  /\ Tail(s) \in Seq(S) /\ Head(s) \in S /\ Len(Tail(s)) = Len(s) - 1
         /\ Head(s) = s[1] /\ 1 \in DOMAIN s
         /\ \A k \in 1 .. Len(s) - 1 : Tail(s)[k] = s[k + 1]
OBVIOUS

\* The i-th timer is started anew, as t.
Restarted(s, i, t) == Append(RemoveAt(s, i), t)

IsRestarted(r, S, s, i, t) ==
  /\ r \in Seq(S) /\ Len(r) = Len(s) /\ r[Len(s)] = t
  /\ \A k \in 1 .. Len(s) - 1 : r[k] = IF k < i THEN s[k] ELSE s[k + 1]

LEMMA QueueRestart ==
  ASSUME NEW S, NEW s \in Seq(S), NEW t \in S, NEW i \in DOMAIN s
  PROVE  IsRestarted(Restarted(s, i, t), S, s, i, t)
<1>1. Len(s) \in Nat /\ i \in 1 .. Len(s)
  OBVIOUS
<1> DEFINE a == SubSeq(s, 1, i - 1)
           b == SubSeq(s, i + 1, Len(s))
<1>2. a \in Seq(S) /\ Len(a) = i - 1 /\ \A k \in 1 .. i - 1 : a[k] = s[k]
  BY <1>1
<1>3. b \in Seq(S) /\ Len(b) = Len(s) - i /\ \A k \in 1 .. Len(s) - i : b[k] = s[i + k]
  BY <1>1
<1> HIDE DEF a, b
<1> DEFINE q == a \o b
<1>4. /\ q \in Seq(S) /\ Len(q) = Len(s) - 1
      /\ \A k \in 1 .. Len(s) - 1 : q[k] = IF k <= i - 1 THEN a[k] ELSE b[k - (i - 1)]
  <2>1. /\ q \in Seq(S) /\ Len(q) = Len(a) + Len(b)
        /\ \A k \in 1 .. Len(a) + Len(b) : q[k] = IF k <= Len(a) THEN a[k] ELSE b[k - Len(a)]
    BY <1>2, <1>3, ConcatProperties
  <2>2. Len(a) + Len(b) = Len(s) - 1
    BY <1>1, <1>2, <1>3
  <2> QED BY <1>2, <2>1, <2>2
<1>5. RemoveAt(s, i) = q
  BY DEF RemoveAt, a, b
<1> HIDE DEF q
<1>6. ASSUME NEW k \in 1 .. Len(s) - 1
      PROVE  q[k] = IF k < i THEN s[k] ELSE s[k + 1]
  <2>1. CASE k < i
    BY <1>1, <1>2, <1>4, <2>1
  <2>2. CASE ~(k < i)
    <3>1. q[k] = b[k - (i - 1)] /\ k - (i - 1) \in 1 .. Len(s) - i
      BY <1>1, <1>4, <2>2
    <3>2. b[k - (i - 1)] = s[i + (k - (i - 1))]
      BY <1>3, <3>1
    <3>3. i + (k - (i - 1)) = k + 1
      BY <1>1
    <3> QED BY <2>2, <3>1, <3>2, <3>3
  <2> QED BY <2>1, <2>2
<1>7. /\ Append(q, t) \in Seq(S) /\ Len(Append(q, t)) = Len(s) /\ Append(q, t)[Len(s)] = t
      /\ \A k \in 1 .. Len(s) - 1 : Append(q, t)[k] = q[k]
  BY <1>1, <1>4
<1> QED BY <1>5, <1>6, <1>7 DEF Restarted, IsRestarted

LEMMA AppendKeeps ==
  ASSUME NEW S, NEW s \in Seq(S), NEW t \in S, NEW x, NEW y
  PROVE  /\ Has(s, x) => Has(Append(s, t), x)
         /\ Has(Append(s, t), t)
         /\ Follows(s, x, y) /\ t # x => Follows(Append(s, t), x, y)
         /\ t # x => Follows(Append(s, t), x, t)
BY QueueAppend DEF Has, Follows

LEMMA TailKeeps ==
  ASSUME NEW S, NEW s \in Seq(S), s # <<>>, NEW x, NEW y
  PROVE  /\ Has(s, x) /\ Head(s) # x => Has(Tail(s), x)
         /\ Follows(s, x, y) => Follows(Tail(s), x, y)
         /\ Follows(s, x, y) /\ Head(s) = x => Has(Tail(s), y)
<1> DEFINE r == Tail(s)
<1>1. /\ r \in Seq(S) /\ Len(s) \in Nat /\ Len(r) = Len(s) - 1
      /\ Head(s) = s[1] /\ 1 \in 1 .. Len(s)
      /\ \A k \in 1 .. Len(s) - 1 : r[k] = s[k + 1]
  BY QueueTail
<1>2. DOMAIN s = 1 .. Len(s) /\ DOMAIN r = 1 .. Len(s) - 1
  BY <1>1
<1> HIDE DEF r
<1>3. \A i \in 1 .. Len(s) : i # 1 => i - 1 \in 1 .. Len(s) - 1 /\ r[i - 1] = s[i]
  <2> SUFFICES ASSUME NEW i \in 1 .. Len(s), i # 1
               PROVE  i - 1 \in 1 .. Len(s) - 1 /\ r[i - 1] = s[i]
    OBVIOUS
  <2>1. i - 1 \in 1 .. Len(s) - 1 /\ (i - 1) + 1 = i
    BY <1>1
  <2> QED BY <1>1, <2>1
<1>4. Has(s, x) /\ Head(s) # x => Has(r, x)
  BY <1>1, <1>2, <1>3 DEF Has
<1>5. ASSUME Follows(s, x, y), NEW i \in 1 .. Len(s) - 1, r[i] = x
      PROVE  \E j \in 1 .. Len(s) - 1 : i < j /\ r[j] = y
  <2>1. i + 1 \in 1 .. Len(s) /\ s[i + 1] = x
    BY <1>1, <1>5
  <2>2. PICK j \in 1 .. Len(s) : i + 1 < j /\ s[j] = y
    BY <1>2, <1>5, <2>1 DEF Follows
  <2>3. j - 1 \in 1 .. Len(s) - 1 /\ r[j - 1] = y
    BY <1>3, <2>2
  <2> QED BY <2>2, <2>3
<1>6. Follows(s, x, y) /\ Head(s) = x => Has(r, y)
  BY <1>1, <1>2, <1>3 DEF Has, Follows
<1>7. Follows(s, x, y) => Follows(r, x, y)
  BY <1>2, <1>5 DEF Follows
<1> QED BY <1>4, <1>6, <1>7 DEF r

LEMMA RestartKeeps ==
  ASSUME NEW S, NEW s \in Seq(S), NEW t \in S, NEW i \in DOMAIN s, s[i] = t, NEW x, NEW y
  PROVE  LET r == Restarted(s, i, t)
         IN  /\ Has(s, x) => Has(r, x)
             /\ Has(r, t)
             /\ Follows(s, x, y) /\ t # x /\ t # y => Follows(r, x, y)
             /\ t # x => Follows(r, x, t)
<1> DEFINE r == Restarted(s, i, t)
           N == Len(s)
<1>s. IsRestarted(r, S, s, i, t)
  BY QueueRestart
<1> HIDE DEF r
<1>0. /\ r \in Seq(S) /\ Len(r) = N /\ r[N] = t
      /\ \A k \in 1 .. N - 1 : r[k] = IF k < i THEN s[k] ELSE s[k + 1]
  BY <1>s DEF IsRestarted
<1>1. /\ r \in Seq(S) /\ Len(r) = N /\ r[N] = t /\ N \in Nat /\ i \in 1 .. N
      /\ DOMAIN r = 1 .. N /\ DOMAIN s = 1 .. N
      /\ \A k \in 1 .. N - 1 : r[k] = IF k < i THEN s[k] ELSE s[k + 1]
  BY <1>0
<1> HIDE DEF N
<1>2. ASSUME NEW k \in 1 .. N, k # i
      PROVE  /\ k < i => k \in 1 .. N - 1 /\ r[k] = s[k]
             /\ ~(k < i) => k - 1 \in 1 .. N - 1 /\ r[k - 1] = s[k] /\ i <= k - 1
  <2>1. CASE k < i
    BY <1>1, <2>1
  <2>2. CASE ~(k < i)
    <3>1. k - 1 \in 1 .. N - 1 /\ ~(k - 1 < i) /\ (k - 1) + 1 = k /\ i <= k - 1
      BY <1>1, <1>2, <2>2
    <3> QED BY <1>1, <2>2, <3>1
  <2> QED BY <2>1, <2>2
<1>3. Has(r, t)
  BY <1>1 DEF Has
<1>4. Has(s, x) => Has(r, x)
  <2> SUFFICES ASSUME NEW k \in 1 .. N, s[k] = x PROVE \E m \in 1 .. N : r[m] = x
    BY <1>1 DEF Has
  <2>1. CASE k = i
    BY <1>1, <2>1
  <2>2. CASE k # i
    BY <1>1, <1>2, <2>2
  <2> QED BY <2>1, <2>2
<1>5. t # x => Follows(r, x, t)
  BY <1>1 DEF Follows
<1>6. ASSUME Follows(s, x, y), t # x, t # y
      PROVE  Follows(r, x, y)
  <2> SUFFICES ASSUME NEW k \in 1 .. N, r[k] = x
               PROVE  \E m \in 1 .. N : k < m /\ r[m] = y
    BY <1>1 DEF Follows
  <2>1. k \in 1 .. N - 1
    BY <1>1, <1>6
  <2>2. CASE k < i
    <3>1. s[k] = x
      BY <1>1, <2>1, <2>2
    <3>2. PICK m \in 1 .. N : k < m /\ s[m] = y
      BY <1>1, <1>6, <3>1 DEF Follows
    <3>3. m # i
      BY <1>6, <3>2
    <3>4. CASE m < i
      BY <1>1, <1>2, <3>2, <3>3, <3>4
    <3>5. CASE ~(m < i)
      <4>1. m - 1 \in 1 .. N - 1 /\ r[m - 1] = y /\ i <= m - 1
        BY <1>2, <3>2, <3>3, <3>5
      <4> QED BY <1>1, <2>2, <4>1
    <3> QED BY <3>4, <3>5
  <2>3. CASE ~(k < i)
    <3>1. s[k + 1] = x /\ k + 1 \in 1 .. N
      BY <1>1, <2>1, <2>3
    <3>2. PICK m \in 1 .. N : k + 1 < m /\ s[m] = y
      BY <1>1, <1>6, <3>1 DEF Follows
    <3>3. m # i /\ ~(m < i)
      BY <1>1, <2>3, <3>2
    <3>4. m - 1 \in 1 .. N - 1 /\ r[m - 1] = y
      BY <1>2, <3>2, <3>3
    <3> QED BY <1>1, <3>2, <3>4
  <2> QED BY <2>2, <2>3
<1> QED BY <1>3, <1>4, <1>5, <1>6 DEF r

-----------------------------------------------------------------------------
(* The inductive invariant. *)

Creation(p) == [op |-> "create", name |-> p]
Removal(p) == [op |-> "remove", name |-> p]
ToRegister(p) == [op |-> "register", path |-> p]
ToRemove(p) == [op |-> "remove", path |-> p]

\* A video that is there, and whose last change the Watcher could follow.
Known(p) == p \in disk /\ p \notin excused

\* A stopped daemon has nothing under way.
Quiet ==
  ~Up => /\ watched = {} /\ events = <<>> /\ timers = <<>> /\ reading = {} /\ removing = {}
         /\ \A s \in Scan : scan[s] = "idle"

Placed == \A p \in disk : IsThere(DirOf[p])

InScope == \A s \in Scan : scan[s] = "remove" => doomed[s] \subseteq Below(under[s])

\* Whatever would remove the row of a video that is there has something behind
\* it that registers the video again.
Followed(p) ==
  /\ Follows(events, Removal(p), Creation(p))
  /\ Has(events, Creation(p)) \/ Follows(timers, ToRemove(p), ToRegister(p))
  /\ p \in removing => Has(events, Creation(p)) \/ Has(timers, ToRegister(p))

\* A scan passes by every such video, and removes no row of one.
Walked(s, p) ==
  /\ scan[s] = "walk" /\ p \in Below(under[s]) =>
       p \in seen[s] \/ p \in todo[s] \/ DirOf[p] \in todo[s]
  /\ scan[s] = "remove" => p \notin doomed[s]

Safe(p) == Followed(p) /\ \A s \in Scan : Walked(s, p)

Inv == TypeOK /\ Quiet /\ Placed /\ InScope /\ \A p \in Path : Known(p) => Safe(p)

-----------------------------------------------------------------------------
(* Types. *)

LEMMA ReportType ==
  ASSUME TypeOK, NEW d, NEW op \in {"create", "remove"}, NEW name \in Path \cup Dir,
         Report(d, op, name)
  PROVE  events' \in Seq(Note)
<1> DEFINE e == [op |-> op, name |-> name]
<1>1. e \in Note
  BY DEF Note
<1> HIDE DEF e
<1>2. Append(events, e) \in Seq(Note)
  BY <1>1 DEF TypeOK
<1> QED BY <1>2 DEF Report, e, TypeOK

LEMMA SpendType ==
  ASSUME TypeOK, NEW e, Spend(e)
  PROVE  budget' \in [Event -> Nat]
<1>1. ASSUME e \notin Event
      PROVE  budget' = budget
    BY <1>1 DEF Spend, TypeOK
<1>2. ASSUME e \in Event
      PROVE  budget[e] - 1 \in Nat
    BY <1>2 DEF Spend, TypeOK
<1> QED BY <1>1, <1>2 DEF Spend, TypeOK

LEMMA TreeType == TypeOK /\ TreeStep => TypeOK'
<1> SUFFICES ASSUME TypeOK, TreeStep PROVE TypeOK'
  OBVIOUS
<1>1. ASSUME TreeChange, disk' \subseteq Path, dirs' \subseteq Dir, watched' \subseteq Dir \cup {Root},
             excused' \subseteq Path, events' \in Seq(Note)
      PROVE  TypeOK'
  BY <1>1, SpendType DEF TypeOK, TreeChange, timerVars, scanVars
<1>2. ASSUME NEW p \in Path, Create(p) \/ Delete(p)
      PROVE  TypeOK'
  <2>1. events' \in Seq(Note)
    BY <1>2, ReportType DEF Create, Delete
  <2> QED BY <1>1, <1>2, <2>1 DEF Create, Delete, Unseen, TypeOK
<1>3. ASSUME NEW d \in Dir, MoveOut(d)
      PROVE  TypeOK'
  <2>1. events' \in Seq(Note)
    BY <1>3, ReportType DEF MoveOut
  <2> QED BY <1>1, <1>3, <2>1 DEF MoveOut, Unseen, TypeOK
<1>4. ASSUME NEW d \in Dir, NEW ps \in SUBSET In(d), MoveIn(d, ps)
      PROVE  TypeOK'
  <2>1. events' \in Seq(Note)
    BY <1>4, ReportType DEF MoveIn
  <2> QED BY <1>1, <1>4, <2>1 DEF MoveIn, Unseen, TypeOK, In
<1> QED BY <1>2, <1>3, <1>4 DEF TreeStep

LEMMA BeginType ==
  ASSUME TypeOK, NEW s \in Scan, NEW d \in Dir \cup {Root}, ScanBegin(s, d)
  PROVE  /\ scan' \in [Scan -> {"idle", "walk", "failed", "remove"}] /\ under' \in [Scan -> Dir \cup {Root}]
         /\ todo' \in [Scan -> SUBSET (Path \cup Dir)] /\ seen' \in [Scan -> SUBSET Path]
         /\ busy' \in [Scan -> Path \cup {Nobody}] /\ doomed' \in [Scan -> SUBSET Path]
<1>1. Entries(d) \subseteq Path \cup Dir
  BY DEF Entries, TypeOK, In
<1> QED BY <1>1 DEF ScanBegin, Set, TypeOK

LEMMA ScanType ==
  ASSUME TypeOK, NEW s \in Scan, ScanStep(s)
  PROVE  TypeOK'
<1>1. ASSUME NEW d \in Dir, WalkDir(s, d)
      PROVE  TypeOK'
  <2>1. Entries(d) \subseteq Path \cup Dir
    BY DEF Entries, TypeOK, In
  <2>2. /\ scan' \in [Scan -> {"idle", "walk", "failed", "remove"}]
        /\ todo' \in [Scan -> SUBSET (Path \cup Dir)]
    BY <1>1, <2>1 DEF WalkDir, Set, TypeOK
  <2> QED BY <1>1, <2>2 DEF WalkDir, TypeOK, treeVars, watchVars, timerVars
<1>2. ASSUME NEW p \in Path, Visit(s, p)
      PROVE  TypeOK'
  BY <1>2 DEF Visit, Set, TypeOK, treeVars, watchVars, timerVars
<1>3. ASSUME NEW p \in Path, Reconcile(s, p)
      PROVE  TypeOK'
  BY <1>3 DEF Reconcile, Set, TypeOK, treeVars, watchVars, timerVars
<1>4. CASE ScanRegister(s)
  BY <1>4 DEF ScanRegister, Set, TypeOK, treeVars, watchVars, timerVars
<1>5. CASE ListTracked(s)
  BY <1>5 DEF ListTracked, Set, TypeOK, treeVars, watchVars, timerVars
<1>6. CASE ScanDone(s)
  BY <1>6 DEF ScanDone, ScanEnd, Set, TypeOK, treeVars, timerVars
<1>7. CASE ScanFailed(s)
  BY <1>7 DEF ScanFailed, ScanEnd, Set, TypeOK, treeVars, timerVars
<1> QED BY <1>1, <1>2, <1>3, <1>4, <1>5, <1>6, <1>7 DEF ScanStep

LEMMA StartType == TypeOK /\ (Start \/ StartStep) => TypeOK'
<1> SUFFICES ASSUME TypeOK, Start \/ StartStep PROVE TypeOK'
  OBVIOUS
<1>1. CASE Start
  <2>1. "initial" \in Scan
    BY DEF Scan
  <2> QED BY <1>1, <2>1, BeginType DEF Start, TypeOK, treeVars, timerVars
<1>2. CASE WatchRoot
  BY <1>2 DEF WatchRoot, WatchOnly, TypeOK, treeVars, timerVars, scanVars
<1>3. CASE Watching
  BY <1>3 DEF Watching, WatchOnly, TypeOK, treeVars, timerVars, scanVars
<1>4. ASSUME NEW d \in Dir, WatchDir(d)
      PROVE  TypeOK'
  BY <1>4 DEF WatchDir, WatchOnly, TypeOK, treeVars, timerVars, scanVars
<1> QED BY <1>1, <1>2, <1>3, <1>4 DEF StartStep

\* What Schedule does to the timers.
LEMMA Scheduled ==
  ASSUME TypeOK, NEW op \in {"register", "remove"}, NEW p \in Path, Schedule(op, p), NEW x, NEW y
  PROVE  LET t == [op |-> op, path |-> p]
         IN  /\ timers' \in Seq(Timer)
             /\ Has(timers, x) => Has(timers', x)
             /\ Has(timers', t)
             /\ Follows(timers, x, y) /\ t # x /\ t # y => Follows(timers', x, y)
             /\ t # x => Follows(timers', x, t)
<1>1. PICK t : t = [op |-> op, path |-> p]
  OBVIOUS
<1>2. t \in Timer /\ timers \in Seq(Timer)
  BY <1>1 DEF Timer, TypeOK
<1>3. \/ \E i \in DOMAIN timers : timers[i] = t /\ timers' = Restarted(timers, i, t)
      \/ timers' = Append(timers, t)
  BY <1>1 DEF Schedule, Restarted
<1>4. CASE timers' = Append(timers, t)
  <2>1. timers' \in Seq(Timer)
    BY <1>2, <1>4
  <2>2. /\ Has(timers, x) => Has(timers', x)
        /\ Has(timers', t)
        /\ Follows(timers, x, y) /\ t # x => Follows(timers', x, y)
        /\ t # x => Follows(timers', x, t)
    BY <1>2, <1>4, AppendKeeps
  <2> QED BY <1>1, <2>1, <2>2
<1>5. ASSUME NEW i \in DOMAIN timers, timers[i] = t, timers' = Restarted(timers, i, t)
      PROVE  /\ timers' \in Seq(Timer)
             /\ Has(timers, x) => Has(timers', x)
             /\ Has(timers', t)
             /\ Follows(timers, x, y) /\ t # x /\ t # y => Follows(timers', x, y)
             /\ t # x => Follows(timers', x, t)
  <2>1. timers' \in Seq(Timer)
    BY <1>2, <1>5, QueueRestart DEF IsRestarted
  <2>2. /\ Has(timers, x) => Has(timers', x)
        /\ Has(timers', t)
        /\ Follows(timers, x, y) /\ t # x /\ t # y => Follows(timers', x, y)
        /\ t # x => Follows(timers', x, t)
    BY <1>2, <1>5, RestartKeeps
  <2> QED BY <2>1, <2>2
<1> QED BY <1>1, <1>3, <1>4, <1>5

LEMMA HandleEventType == TypeOK /\ HandleEvent => TypeOK'
<1> SUFFICES ASSUME TypeOK, HandleEvent PROVE TypeOK'
  OBVIOUS
<1>1. events' \in Seq(Note) /\ Head(events) \in Note
  BY QueueTail DEF HandleEvent, TypeOK
<1>2. watched' \subseteq Dir \cup {Root} /\ timers' \in Seq(Timer)
  <2>1. PICK e : e = Head(events)
    OBVIOUS
  <2>2. CASE e.name \in Dir
    BY <1>1, <2>1, <2>2, WatcherConstants DEF HandleEvent, TypeOK
  <2>3. CASE e.name \notin Dir
    <3>1. /\ e.name \in Path /\ UNCHANGED watched
          /\ Schedule(IF e.op = "create" THEN "register" ELSE "remove", e.name)
      BY <2>1, <2>3 DEF HandleEvent
    <3>2. timers' \in Seq(Timer)
      BY <3>1, Scheduled
    <3> QED BY <3>1, <3>2 DEF TypeOK
  <2> QED BY <2>2, <2>3
<1> QED BY <1>1, <1>2 DEF HandleEvent, TypeOK, treeVars, scanVars

LEMMA FireType == TypeOK /\ Fire => TypeOK'
<1> SUFFICES ASSUME TypeOK, Fire PROVE TypeOK'
  OBVIOUS
<1>1. timers' \in Seq(Timer) /\ Head(timers) \in Timer
  BY QueueTail DEF Fire, TypeOK
<1>2. Head(timers).path \in Path
  BY <1>1 DEF Timer
<1> QED BY <1>1, <1>2 DEF Fire, Clash, TypeOK, treeVars, watchVars, scanVars

LEMMA ReprocessType == ASSUME NEW x \in Target PROVE TypeOK /\ Reprocess(x) => TypeOK'
<1> SUFFICES ASSUME TypeOK, Reprocess(x) PROVE TypeOK'
  OBVIOUS
<1>1. budget' \in [Event -> Nat]
  BY SpendType DEF Reprocess
<1>2. CASE x \in disk /\ reading' = reading \cup {x} /\ Clash(reading', removing) /\ UNCHANGED scanVars
  BY <1>1, <1>2 DEF Reprocess, Clash, TypeOK, treeVars, watchVars, scanVars
<1>3. CASE x \in dirs \cup {Root} /\ ScanBegin("request", x) /\ UNCHANGED <<reading, excused>>
  <2>1. "request" \in Scan /\ x \in Dir \cup {Root}
    BY <1>3 DEF Scan, TypeOK
  <2> QED BY <1>1, <1>3, <2>1, BeginType DEF Reprocess, TypeOK, treeVars, watchVars
<1> QED BY <1>2, <1>3 DEF Reprocess

LEMMA TypeInductive == TypeOK /\ [Next]_vars => TypeOK'
<1> SUFFICES ASSUME TypeOK, [Next]_vars PROVE TypeOK'
  OBVIOUS
<1>1. ASSUME NEW p \in Path, RegisterFile(p) \/ RemoveFile(p)
      PROVE  TypeOK'
  BY <1>1 DEF RegisterFile, RemoveFile, TypeOK, treeVars, watchVars, scanVars
<1>2. CASE Stop
  <2>1. budget' \in [Event -> Nat]
    BY <1>2, SpendType DEF Stop
  <2> QED BY <1>2, <2>1 DEF Stop, TypeOK, treeVars
<1>3. CASE UNCHANGED vars
  BY <1>3 DEF vars, TypeOK, treeVars, watchVars, timerVars, scanVars
<1> QED BY <1>1, <1>2, <1>3, TreeType, StartType, HandleEventType, FireType, ScanType,
         ReprocessType DEF Next

-----------------------------------------------------------------------------
(* The tree changes. *)

LEMMA Differ ==
  ASSUME NEW p, NEW q
  PROVE  /\ Creation(p) # Removal(q) /\ ToRegister(p) # ToRemove(q)
         /\ Removal(p) = Removal(q) => p = q
         /\ Creation(p) = Creation(q) => p = q
         /\ ToRemove(p) = ToRemove(q) => p = q
         /\ ToRegister(p) = ToRegister(q) => p = q
<1>1. /\ Creation(p).op = "create" /\ Creation(p).name = p
      /\ Removal(p).name = p /\ Removal(q).op = "remove" /\ Removal(q).name = q
      /\ Creation(q).name = q
      /\ ToRegister(p).op = "register" /\ ToRegister(p).path = p /\ ToRegister(q).path = q
      /\ ToRemove(p).path = p /\ ToRemove(q).op = "remove" /\ ToRemove(q).path = q
  BY DEF Creation, Removal, ToRegister, ToRemove
<1>2. "create" # "remove" /\ "register" # "remove"
  OBVIOUS
<1> QED BY <1>1, <1>2

\* A stopped daemon threatens no row.
LEMMA QuietIsSafe ==
  ASSUME NEW p, events = <<>>, timers = <<>>, removing = {}, \A s \in Scan : scan[s] = "idle"
  PROVE  Safe(p)
<1>1. DOMAIN events = {} /\ DOMAIN timers = {}
  OBVIOUS
<1> QED BY <1>1 DEF Safe, Followed, Walked, Follows

\* One more event leaves a video safe, unless it is its removal.
LEMMA ReportKeeps ==
  ASSUME TypeOK, NEW p \in Path, Safe(p), UNCHANGED <<timers, removing, scanVars>>,
         events' = events \/ \E e \in Note : e # Removal(p) /\ events' = Append(events, e)
  PROVE  Safe(p)'
<1>1. events \in Seq(Note)
  BY DEF TypeOK
<1>2. /\ Has(events, Creation(p)) => Has(events', Creation(p))
      /\ Follows(events, Removal(p), Creation(p)) => Follows(events', Removal(p), Creation(p))
  <2>1. CASE events' = events
    BY <2>1
  <2>2. ASSUME NEW e \in Note, e # Removal(p), events' = Append(events, e)
        PROVE  /\ Has(events, Creation(p)) => Has(events', Creation(p))
               /\ Follows(events, Removal(p), Creation(p)) => Follows(events', Removal(p), Creation(p))
    BY <1>1, <2>2, AppendKeeps
  <2> QED BY <2>1, <2>2
<1>3. Followed(p)'
  <2>1. Followed(p)
    BY DEF Safe
  <2> QED BY <1>2, <2>1 DEF Followed, Creation, Removal, ToRegister, ToRemove
<1>4. \A s \in Scan : Walked(s, p)'
  BY DEF Safe, Walked, scanVars
<1> QED BY <1>3, <1>4 DEF Safe

\* A video that comes back in a watched directory, with no scan under way there.
LEMMA BackIsSafe ==
  ASSUME TypeOK, NEW p \in Path, InScope, UNCHANGED <<timers, removing, scanVars>>,
         events' = Append(events, Creation(p)), ~Scanned({p})
  PROVE  Safe(p)'
<1>1. events \in Seq(Note) /\ Creation(p) \in Note /\ Creation(p) # Removal(p)
  BY Differ DEF TypeOK, Creation, Note
<1>2. Has(events', Creation(p)) /\ Follows(events', Removal(p), Creation(p))
  BY <1>1, AppendKeeps
<1>3. Followed(p)'
  BY <1>2 DEF Followed, Creation, Removal
<1>4. ASSUME NEW s \in Scan
      PROVE  Walked(s, p)'
  <2>1. scan[s] # "idle" => p \notin Below(under[s])
    BY DEF Scanned
  <2>2. scan[s] = "remove" => p \notin doomed[s]
    BY <2>1 DEF InScope
  <2> QED BY <2>1, <2>2 DEF Walked, scanVars
<1> QED BY <1>3, <1>4 DEF Safe

LEMMA TreeFrame ==
  ASSUME Inv, TreeChange, watched' \subseteq watched, NEW d, NEW op, NEW name, Report(d, op, name)
  PROVE  Quiet' /\ InScope' /\ (~Up => events' = events)
<1>1. ~Up => events' = events /\ watched' = {}
  BY DEF Inv, Quiet, Report
<1> QED BY <1>1 DEF Inv, Quiet, InScope, TreeChange, Up, timerVars, scanVars

LEMMA DownIsSafe ==
  ASSUME Inv, ~Up, events' = events, UNCHANGED <<timers, removing, scanVars>>, NEW p
  PROVE  Safe(p)'
<1>1. events' = <<>> /\ timers' = <<>> /\ removing' = {} /\ \A s \in Scan : scan'[s] = "idle"
  BY DEF Inv, Quiet, scanVars
<1>2. DOMAIN events' = {} /\ DOMAIN timers' = {}
  BY <1>1
<1>3. Followed(p)'
  BY <1>1, <1>2 DEF Followed, Follows
<1>4. \A s \in Scan : Walked(s, p)'
  BY <1>1 DEF Walked
<1> QED BY <1>3, <1>4 DEF Safe

LEMMA CreateKeeps ==
  ASSUME Inv, NEW p \in Path, Create(p)
  PROVE  Inv'
<1>1. TypeOK /\ TypeOK'
  BY TreeType DEF Inv, TreeStep
<1>2. TreeChange /\ Report(DirOf[p], "create", p) /\ UNCHANGED <<timers, removing, scanVars>>
  BY DEF Create, TreeChange, timerVars
<1>3. Quiet' /\ InScope' /\ (~Up => events' = events)
  BY <1>2, TreeFrame DEF Create
<1>4. Placed'
  BY DEF Inv, Placed, IsThere, Create
<1>5. events' = events \/ events' = Append(events, Creation(p))
  BY <1>2 DEF Report, Creation
<1>6. Creation(p) \in Note
  BY DEF Creation, Note
<1>7. ASSUME NEW q \in Path, Known(q)'
      PROVE  Safe(q)'
  <2>1. CASE ~Up
    BY <1>2, <1>3, <2>1, DownIsSafe
  <2>2. CASE Up /\ q # p
    <3>1. Known(q)
      BY <1>7, <2>2 DEF Known, Create, Unseen
    <3>2. Safe(q)
      BY <3>1 DEF Inv
    <3>3. Creation(p) # Removal(q)
      BY Differ
    <3> QED BY <1>1, <1>2, <1>5, <1>6, <3>2, <3>3, ReportKeeps
  <2>3. CASE Up /\ q = p
    <3>1. DirOf[p] \in watched /\ ~Scanned({p})
      BY <1>7, <2>3 DEF Known, Create, Unseen
    <3>2. events' = Append(events, Creation(p))
      BY <1>2, <3>1 DEF Report, Creation
    <3> QED BY <1>1, <1>2, <2>3, <3>1, <3>2, BackIsSafe DEF Inv
  <2> QED BY <2>1, <2>2, <2>3
<1> QED BY <1>1, <1>3, <1>4, <1>7 DEF Inv

LEMMA DeleteKeeps ==
  ASSUME Inv, NEW p \in Path, Delete(p)
  PROVE  Inv'
<1>1. TypeOK /\ TypeOK'
  BY TreeType DEF Inv, TreeStep
<1>2. TreeChange /\ Report(DirOf[p], "remove", p) /\ UNCHANGED <<timers, removing, scanVars>>
  BY DEF Delete, TreeChange, timerVars
<1>3. Quiet' /\ InScope' /\ (~Up => events' = events)
  BY <1>2, TreeFrame DEF Delete
<1>4. Placed'
  BY DEF Inv, Placed, IsThere, Delete
<1>5. events' = events \/ events' = Append(events, Removal(p))
  BY <1>2 DEF Report, Removal
<1>6. Removal(p) \in Note
  BY DEF Removal, Note
<1>7. ASSUME NEW q \in Path, Known(q)'
      PROVE  Safe(q)'
  <2>1. Known(q) /\ q # p
    BY <1>7 DEF Known, Delete, Unseen
  <2>2. Safe(q)
    BY <2>1 DEF Inv
  <2>3. Removal(p) # Removal(q)
    BY <2>1, Differ
  <2> QED BY <1>1, <1>2, <1>5, <1>6, <2>2, <2>3, ReportKeeps
<1> QED BY <1>1, <1>3, <1>4, <1>7 DEF Inv

LEMMA MoveInKeeps ==
  ASSUME Inv, NEW d \in Dir, NEW ps \in SUBSET In(d), MoveIn(d, ps)
  PROVE  Inv'
<1>1. TypeOK /\ TypeOK'
  BY TreeType DEF Inv, TreeStep
<1>2. TreeChange /\ Report(Root, "create", d) /\ UNCHANGED <<timers, removing, scanVars>>
  BY DEF MoveIn, TreeChange, timerVars
<1>3. Quiet' /\ InScope' /\ (~Up => events' = events)
  BY <1>2, TreeFrame DEF MoveIn
<1>4. Placed'
  BY DEF Inv, Placed, IsThere, MoveIn, In
<1>5. events' = events \/ events' = Append(events, Creation(d))
  BY <1>2 DEF Report, Creation
<1>6. Creation(d) \in Note
  BY DEF Creation, Note
<1>7. ASSUME NEW q \in Path, Known(q)'
      PROVE  Safe(q)'
  <2>1. CASE ~Up
    BY <1>2, <1>3, <2>1, DownIsSafe
  <2>2. CASE Up
    <3>1. Known(q)
      BY <1>7, <2>2 DEF Known, MoveIn, Unseen
    <3>2. Safe(q)
      BY <3>1 DEF Inv
    <3>3. Creation(d) # Removal(q)
      BY Differ
    <3> QED BY <1>1, <1>2, <1>5, <1>6, <3>2, <3>3, ReportKeeps
  <2> QED BY <2>1, <2>2
<1> QED BY <1>1, <1>3, <1>4, <1>7 DEF Inv

LEMMA MoveOutKeeps ==
  ASSUME Inv, NEW d \in Dir, MoveOut(d)
  PROVE  Inv'
<1>1. TypeOK /\ TypeOK'
  BY TreeType DEF Inv, TreeStep
<1>2. TreeChange /\ Report(Root, "remove", d) /\ UNCHANGED <<timers, removing, scanVars>>
  BY DEF MoveOut, TreeChange, timerVars
<1>3. Quiet' /\ InScope' /\ (~Up => events' = events)
  BY <1>2, TreeFrame DEF MoveOut
<1>4. Placed'
  BY <1>1 DEF Inv, Placed, IsThere, MoveOut, In, TypeOK
<1>5. events' = events \/ events' = Append(events, Removal(d))
  BY <1>2 DEF Report, Removal
<1>6. Removal(d) \in Note
  BY DEF Removal, Note
<1>7. ASSUME NEW q \in Path, Known(q)'
      PROVE  Safe(q)'
  <2>1. Known(q)
    BY <1>7 DEF Known, MoveOut, Unseen
  <2>2. Safe(q)
    BY <2>1 DEF Inv
  <2>3. Removal(d) # Removal(q)
    BY Differ, WatcherConstants
  <2> QED BY <1>1, <1>2, <1>5, <1>6, <2>2, <2>3, ReportKeeps
<1> QED BY <1>1, <1>3, <1>4, <1>7 DEF Inv

LEMMA TreeKeeps == Inv /\ TreeStep => Inv'
BY CreateKeeps, DeleteKeeps, MoveInKeeps, MoveOutKeeps DEF TreeStep

-----------------------------------------------------------------------------
(* Scans. *)

\* A scan does nothing to the tree, the events and the timers, nor to the other
\* scan.
ScanOnly(s) ==
  /\ UNCHANGED <<treeVars, watched, events, timers, removing>>
  /\ \A r \in Scan : r # s =>
       /\ scan'[r] = scan[r] /\ under'[r] = under[r] /\ todo'[r] = todo[r]
       /\ seen'[r] = seen[r] /\ doomed'[r] = doomed[r]

LEMMA ScanFrame ==
  ASSUME Inv, TypeOK', NEW s \in Scan, ScanOnly(s), Quiet', excused \subseteq excused',
         scan'[s] = "remove" => doomed'[s] \subseteq Below(under'[s]),
         \A p \in Path : p \in disk /\ p \notin excused' => Walked(s, p)'
  PROVE  Inv'
<1>1. Placed'
  BY DEF Inv, Placed, IsThere, ScanOnly, treeVars
<1>2. InScope'
  BY DEF Inv, InScope, ScanOnly
<1>3. ASSUME NEW p \in Path, Known(p)'
      PROVE  Safe(p)'
  <2>1. Known(p) /\ Safe(p)
    BY <1>3 DEF Inv, Known, ScanOnly, treeVars
  <2>2. Followed(p)'
    BY <2>1 DEF Safe, Followed, ScanOnly, Creation, Removal, ToRegister, ToRemove
  <2>3. ASSUME NEW r \in Scan, r # s
        PROVE  Walked(r, p)'
    BY <2>1, <2>3 DEF Safe, Walked, ScanOnly
  <2>4. Walked(s, p)'
    BY <1>3 DEF Known, ScanOnly, treeVars
  <2> QED BY <2>2, <2>3, <2>4 DEF Safe
<1> QED BY <1>1, <1>2, <1>3 DEF Inv

\* Videos of the directory that are there are in the walk from the start.
LEMMA BeginWalks ==
  ASSUME Inv, NEW s \in Scan, NEW d \in dirs \cup {Root}, ScanBegin(s, d), UNCHANGED treeVars
  PROVE  /\ scan'[s] = "walk"
         /\ \A p \in Path : p \in disk => Walked(s, p)'
         /\ \A r \in Scan : r # s =>
              /\ scan'[r] = scan[r] /\ under'[r] = under[r] /\ todo'[r] = todo[r]
              /\ seen'[r] = seen[r] /\ doomed'[r] = doomed[r]
<1>1. /\ scan'[s] = "walk" /\ under'[s] = d /\ todo'[s] = Entries(d)
      /\ \A r \in Scan : r # s =>
           /\ scan'[r] = scan[r] /\ under'[r] = under[r] /\ todo'[r] = todo[r]
           /\ seen'[r] = seen[r] /\ doomed'[r] = doomed[r]
  BY DEF Inv, TypeOK, ScanBegin, Set
<1>2. ASSUME NEW p \in Path, p \in disk, p \in Below(d)
      PROVE  p \in Entries(d) \/ DirOf[p] \in Entries(d)
  <2>1. IsThere(DirOf[p])
    BY <1>2 DEF Inv, Placed
  <2> QED BY <1>2, <2>1 DEF Entries, In, Below, IsThere
<1>3. \A p \in Path : p \in disk => Walked(s, p)'
  BY <1>1, <1>2 DEF Walked, Below, In
<1> QED BY <1>1, <1>3

LEMMA WalkDirKeeps ==
  ASSUME Inv, NEW s \in Scan, NEW d \in Dir, WalkDir(s, d)
  PROVE  Inv'
<1>1. TypeOK /\ TypeOK'
  BY ScanType DEF Inv, ScanStep
<1>2. /\ scan[s] = "walk" /\ Up /\ Up'
      /\ UNCHANGED <<treeVars, tracked, watchVars, timerVars, under, seen, busy, doomed, excused,
                     budget>>
  BY DEF Inv, Quiet, WalkDir, Up, watchVars
<1>3. ScanOnly(s) /\ Quiet'
  BY <1>1, <1>2 DEF TypeOK, WalkDir, Set, ScanOnly, Quiet, watchVars, timerVars
<1>4. CASE d \notin dirs
  <2>1. scan'[s] = "failed"
    BY <1>1, <1>4 DEF WalkDir, Set, TypeOK
  <2>2. \A p \in Path : Walked(s, p)'
    BY <2>1 DEF Walked
  <2> QED BY <1>1, <1>2, <1>3, <2>1, <2>2, ScanFrame
<1>5. CASE d \in dirs
  <2>1. scan'[s] = "walk" /\ todo'[s] = (todo[s] \ {d}) \cup Entries(d)
    BY <1>1, <1>2, <1>5 DEF WalkDir, Set, TypeOK
  <2>2. ASSUME NEW p \in Path, p \in disk, p \notin excused'
        PROVE  Walked(s, p)'
    <3>1. Walked(s, p)
      BY <1>2, <2>2 DEF Inv, Known, Safe
    <3>2. p # d
      BY WatcherConstants
    <3>3. DirOf[p] = d => p \in Entries(d)
      BY <2>2 DEF Entries, In
    <3> QED BY <1>2, <2>1, <3>1, <3>2, <3>3 DEF Walked, Below, In
  <2> QED BY <1>1, <1>2, <1>3, <2>1, <2>2, ScanFrame
<1> QED BY <1>4, <1>5

LEMMA VisitKeeps ==
  ASSUME Inv, NEW s \in Scan, NEW p \in Path, Visit(s, p)
  PROVE  Inv'
<1>1. TypeOK /\ TypeOK'
  BY ScanType DEF Inv, ScanStep
<1>2. /\ scan[s] = "walk" /\ todo' = Set(todo, s, todo[s] \ {p}) /\ seen' = Set(seen, s, seen[s] \cup {p})
      /\ UNCHANGED <<treeVars, tracked, watchVars, timerVars, scan, under, doomed, excused, budget>>
  BY DEF Visit
<1>3. ScanOnly(s) /\ Quiet'
  BY <1>1, <1>2 DEF Inv, TypeOK, Set, ScanOnly, Quiet, Up, timerVars, watchVars
<1>4. todo'[s] = todo[s] \ {p} /\ seen'[s] = seen[s] \cup {p}
  BY <1>1, <1>2 DEF TypeOK, Set
<1>5. ASSUME NEW q \in Path, q \in disk, q \notin excused'
      PROVE  Walked(s, q)'
  <2>1. Walked(s, q)
    BY <1>2, <1>5 DEF Inv, Known, Safe
  <2>2. DirOf[q] # p
    BY WatcherConstants
  <2> QED BY <1>2, <1>4, <2>1, <2>2 DEF Walked, Below, In
<1> QED BY <1>1, <1>2, <1>3, <1>5, ScanFrame

LEMMA ScanRegisterKeeps ==
  ASSUME Inv, NEW s \in Scan, ScanRegister(s)
  PROVE  Inv'
<1>1. TypeOK /\ TypeOK'
  BY ScanType DEF Inv, ScanStep
<1>2. /\ scan[s] # "idle" /\ scan[s] # "remove"
      /\ UNCHANGED <<treeVars, watchVars, timerVars, scan, under, todo, seen, doomed, excused>>
  BY DEF ScanRegister
<1>3. ScanOnly(s) /\ Quiet'
  BY <1>1, <1>2 DEF Inv, ScanOnly, Quiet, Up, timerVars, watchVars
<1>4. \A q \in Path : q \in disk /\ q \notin excused' => Walked(s, q)'
  BY <1>2 DEF Inv, Known, Safe, Walked
<1> QED BY <1>1, <1>2, <1>3, <1>4, ScanFrame

LEMMA ListTrackedKeeps ==
  ASSUME Inv, NEW s \in Scan, ListTracked(s)
  PROVE  Inv'
<1>1. TypeOK /\ TypeOK'
  BY ScanType DEF Inv, ScanStep
<1>2. /\ scan[s] = "walk" /\ todo[s] = {}
      /\ UNCHANGED <<treeVars, tracked, watchVars, timerVars, under, todo, seen, busy, excused>>
  BY DEF ListTracked
<1>3. scan'[s] = "remove" /\ doomed'[s] = (tracked \cap Below(under[s])) \ seen[s]
  BY <1>1 DEF ListTracked, Set, TypeOK
<1>4. ScanOnly(s)
  BY <1>1, <1>2 DEF ListTracked, Set, TypeOK, ScanOnly, watchVars, timerVars
<1>5. Quiet'
  BY <1>2 DEF Inv, Quiet, Up, watchVars, timerVars
<1>6. ASSUME NEW q \in Path, q \in disk, q \notin excused'
      PROVE  Walked(s, q)'
  <2>1. Walked(s, q)
    BY <1>2, <1>6 DEF Inv, Known, Safe
  <2> QED BY <1>2, <1>3, <2>1 DEF Walked
<1>7. doomed'[s] \subseteq Below(under'[s])
  BY <1>2, <1>3
<1> QED BY <1>1, <1>2, <1>3, <1>4, <1>5, <1>6, <1>7, ScanFrame

LEMMA ReconcileKeeps ==
  ASSUME Inv, NEW s \in Scan, NEW p \in Path, Reconcile(s, p)
  PROVE  Inv'
<1>1. TypeOK /\ TypeOK'
  BY ScanType DEF Inv, ScanStep
<1>2. /\ scan[s] = "remove" /\ doomed' = Set(doomed, s, doomed[s] \ {p})
      /\ UNCHANGED <<treeVars, watchVars, timerVars, scan, under, todo, seen, busy, excused, budget>>
  BY DEF Reconcile
<1>3. doomed'[s] = doomed[s] \ {p} /\ ScanOnly(s)
  BY <1>1, <1>2 DEF Set, TypeOK, ScanOnly, watchVars, timerVars
<1>4. Quiet'
  BY <1>2 DEF Inv, Quiet, Up, watchVars, timerVars
<1>5. doomed'[s] \subseteq Below(under'[s])
  BY <1>2, <1>3 DEF Inv, InScope
<1>6. \A q \in Path : q \in disk /\ q \notin excused' => Walked(s, q)'
  BY <1>2, <1>3 DEF Inv, Known, Safe, Walked
<1> QED BY <1>1, <1>2, <1>3, <1>4, <1>5, <1>6, ScanFrame

LEMMA ScanDoneKeeps ==
  ASSUME Inv, NEW s \in Scan, ScanDone(s)
  PROVE  Inv'
<1>1. TypeOK /\ TypeOK'
  BY ScanType DEF Inv, ScanStep
<1>2. /\ scan[s] = "remove" /\ ScanEnd(s)
      /\ UNCHANGED <<treeVars, tracked, watched, adding, events, timerVars,
                     under, todo, seen, busy, doomed, excused, budget>>
  BY DEF ScanDone
<1>3. scan'[s] = "idle" /\ ScanOnly(s)
  BY <1>1, <1>2 DEF ScanEnd, Set, TypeOK, ScanOnly, timerVars
<1>4. Up /\ Up'
  BY <1>2 DEF Inv, Quiet, ScanDone, Up
<1>5. Quiet' /\ \A p \in Path : Walked(s, p)'
  BY <1>3, <1>4 DEF Quiet, Walked
<1> QED BY <1>1, <1>2, <1>3, <1>5, ScanFrame

LEMMA ScanFailedKeeps ==
  ASSUME Inv, NEW s \in Scan, ScanFailed(s)
  PROVE  Inv'
<1>1. TypeOK /\ TypeOK'
  BY ScanType DEF Inv, ScanStep
<1>2. /\ scan[s] = "failed" /\ ScanEnd(s)
      /\ UNCHANGED <<treeVars, tracked, watched, adding, events, timerVars,
                     under, todo, seen, busy, doomed, excused, budget>>
  BY DEF ScanFailed
<1>3. scan'[s] = "idle" /\ ScanOnly(s)
  BY <1>1, <1>2 DEF ScanEnd, Set, TypeOK, ScanOnly, timerVars
<1>4. Up /\ Up'
  BY <1>2 DEF Inv, Quiet, ScanFailed, Up
<1>5. Quiet' /\ \A p \in Path : Walked(s, p)'
  BY <1>3, <1>4 DEF Quiet, Walked
<1> QED BY <1>1, <1>2, <1>3, <1>5, ScanFrame

LEMMA ScanKeeps == ASSUME NEW s \in Scan PROVE Inv /\ ScanStep(s) => Inv'
BY WalkDirKeeps, VisitKeeps, ScanRegisterKeeps, ListTrackedKeeps, ReconcileKeeps, ScanDoneKeeps,
   ScanFailedKeeps DEF ScanStep

LEMMA StartKeeps == Inv /\ Start => Inv'
<1> SUFFICES ASSUME Inv, Start PROVE Inv'
  OBVIOUS
<1>1. TypeOK /\ TypeOK' /\ "initial" \in Scan
  BY StartType DEF Inv, Scan
<1>2. /\ ~Up /\ Up' /\ UNCHANGED <<treeVars, watched, events, timerVars>>
      /\ ScanBegin("initial", Root)
  BY DEF Start, Up
<1>3. /\ events = <<>> /\ timers = <<>> /\ removing = {}
      /\ \A s \in Scan : scan[s] = "idle"
  BY <1>2 DEF Inv, Quiet
<1>4. /\ scan'["initial"] = "walk" /\ \A p \in Path : p \in disk => Walked("initial", p)'
      /\ \A r \in Scan : r # "initial" => scan'[r] = "idle"
  BY <1>1, <1>2, <1>3, BeginWalks
<1>5. Quiet' /\ Placed' /\ InScope'
  BY <1>2, <1>4 DEF Inv, Quiet, Placed, IsThere, InScope, treeVars
<1>6. ASSUME NEW p \in Path, Known(p)'
      PROVE  Safe(p)'
  <2>1. p \in disk
    BY <1>2, <1>6 DEF Known, treeVars
  <2>2. events' = <<>> /\ timers' = <<>> /\ removing' = {}
    BY <1>2, <1>3 DEF timerVars
  <2>3. DOMAIN events' = {} /\ DOMAIN timers' = {}
    BY <2>2
  <2>4. Followed(p)'
    BY <2>2, <2>3 DEF Followed, Follows
  <2>5. \A s \in Scan : Walked(s, p)'
    BY <1>4, <2>1 DEF Walked
  <2> QED BY <2>4, <2>5 DEF Safe
<1> QED BY <1>1, <1>5, <1>6 DEF Inv

-----------------------------------------------------------------------------
(* Events, timers, requests, stops. *)

\* A step that leaves the tree and the scans alone.
LEMMA Frame ==
  ASSUME Inv, TypeOK', Quiet', UNCHANGED <<treeVars, scanVars>>, excused \subseteq excused',
         \A p \in Path : p \notin excused' /\ Followed(p) => Followed(p)'
  PROVE  Inv'
<1>1. Placed' /\ InScope'
  BY DEF Inv, Placed, IsThere, InScope, treeVars, scanVars
<1>2. ASSUME NEW p \in Path, Known(p)'
      PROVE  Safe(p)'
  <2>1. Known(p) /\ Safe(p) /\ p \notin excused'
    BY <1>2 DEF Inv, Known, treeVars
  <2>2. Followed(p)'
    BY <2>1 DEF Safe
  <2>3. \A s \in Scan : Walked(s, p)'
    BY <2>1 DEF Safe, Walked, scanVars
  <2> QED BY <2>2, <2>3 DEF Safe
<1> QED BY <1>1, <1>2 DEF Inv

LEMMA FollowedFrame ==
  ASSUME NEW p, Followed(p), UNCHANGED <<events, timers, removing>>
  PROVE  Followed(p)'
BY DEF Followed, Creation, Removal, ToRegister, ToRemove

LEMMA StartStepKeeps == Inv /\ StartStep => Inv'
<1> SUFFICES ASSUME Inv, StartStep PROVE Inv'
  OBVIOUS
<1>1. TypeOK /\ TypeOK'
  BY StartType DEF Inv
<1>2. Up /\ Up' /\ UNCHANGED <<events, WatchOnly>>
  BY DEF StartStep, WatchRoot, WatchDir, Watching, Up
<1>3. Quiet'
  BY <1>2 DEF Quiet
<1>4. \A p \in Path : Followed(p) => Followed(p)'
  BY <1>2, FollowedFrame DEF WatchOnly, timerVars
<1> QED BY <1>1, <1>2, <1>3, <1>4, Frame DEF WatchOnly

LEMMA HandleEventKeeps == Inv /\ HandleEvent => Inv'
<1> SUFFICES ASSUME Inv, HandleEvent PROVE Inv'
  OBVIOUS
<1>1. TypeOK /\ TypeOK'
  BY HandleEventType DEF Inv
<1>2. /\ Up /\ Up' /\ events # <<>> /\ events' = Tail(events) /\ events \in Seq(Note)
      /\ UNCHANGED <<treeVars, removing, scanVars, excused>>
  BY <1>1 DEF HandleEvent, Up, TypeOK
<1>3. PICK e : e = Head(events)
  OBVIOUS
<1>4. e \in Note
  BY <1>2, <1>3, QueueTail
<1>5. ASSUME NEW p \in Path, Followed(p)
      PROVE  Followed(p)'
  <2>1. /\ Follows(events', Removal(p), Creation(p))
        /\ Has(events, Creation(p)) /\ e # Creation(p) => Has(events', Creation(p))
        /\ e = Removal(p) => Has(events', Creation(p))
    BY <1>2, <1>3, <1>5, TailKeeps DEF Followed
  <2>2. CASE UNCHANGED timers /\ e # Creation(p)
    BY <1>2, <1>5, <2>1, <2>2 DEF Followed, Creation, Removal, ToRegister, ToRemove
  <2>3. CASE e.name \in Dir
    <3>1. e # Creation(p)
      BY <2>3, WatcherConstants DEF Creation
    <3>2. UNCHANGED timers
      BY <1>3, <2>3, WatcherConstants DEF HandleEvent
    <3> QED BY <2>2, <3>1, <3>2
  <2>4. CASE e.name \notin Dir
    <3>1. e.name \in Path /\ Schedule(IF e.op = "create" THEN "register" ELSE "remove", e.name)
      BY <1>3, <2>4 DEF HandleEvent
    <3>2. CASE e = Creation(p)
      <4>1. Schedule("register", p)
        BY <3>1, <3>2 DEF Creation
      <4>2. Has(timers', ToRegister(p)) /\ Follows(timers', ToRemove(p), ToRegister(p))
        BY <1>1, <4>1, Scheduled, Differ DEF ToRegister
      <4> QED BY <2>1, <4>2 DEF Followed, Creation, Removal, ToRegister, ToRemove
    <3>3. CASE e = Removal(p)
      <4>1. Has(events', Creation(p))
        BY <2>1, <3>3
      <4> QED BY <2>1, <4>1 DEF Followed, Creation, Removal, ToRegister, ToRemove
    <3>4. CASE e # Creation(p) /\ e # Removal(p)
      <4>1. e.name # p
        BY <1>4, <3>4 DEF Note, Creation, Removal
      <4>2. PICK op \in {"register", "remove"} : Schedule(op, e.name)
        BY <3>1
      <4>3. PICK t : t = [op |-> op, path |-> e.name]
        OBVIOUS
      <4>4. t # ToRegister(p) /\ t # ToRemove(p)
        BY <4>1, <4>3 DEF ToRegister, ToRemove
      <4>5. /\ Has(timers, ToRegister(p)) => Has(timers', ToRegister(p))
            /\ Follows(timers, ToRemove(p), ToRegister(p)) => Follows(timers', ToRemove(p), ToRegister(p))
        BY <1>1, <3>1, <4>2, <4>3, <4>4, Scheduled
      <4> QED BY <1>2, <1>5, <2>1, <3>4, <4>5 DEF Followed, Creation, Removal, ToRegister, ToRemove
    <3> QED BY <3>2, <3>3, <3>4
  <2> QED BY <2>3, <2>4
<1>6. Quiet'
  BY <1>2 DEF Quiet
<1> QED BY <1>1, <1>2, <1>5, <1>6, Frame

LEMMA FireKeeps == Inv /\ Fire => Inv'
<1> SUFFICES ASSUME Inv, Fire PROVE Inv'
  OBVIOUS
<1>1. TypeOK /\ TypeOK'
  BY FireType DEF Inv
<1>2. /\ Up /\ Up' /\ timers # <<>> /\ timers' = Tail(timers) /\ timers \in Seq(Timer)
      /\ UNCHANGED <<treeVars, events, scanVars>>
  BY <1>1 DEF Fire, Up, TypeOK, watchVars
<1>3. PICK t : t = Head(timers)
  OBVIOUS
<1>4. t \in Timer
  BY <1>2, <1>3, QueueTail
<1>5. /\ reading' = IF t.op = "register" /\ t.path \in disk THEN reading \cup {t.path} ELSE reading
      /\ removing' = IF t.op = "remove" THEN removing \cup {t.path} ELSE removing
      /\ excused' = excused \cup (reading' \cap removing')
  BY <1>3 DEF Fire, Clash
<1>6. ASSUME NEW p \in Path, p \in disk, p \notin excused', Followed(p)
      PROVE  Followed(p)'
  <2>1. /\ Has(timers, ToRegister(p)) /\ t # ToRegister(p) => Has(timers', ToRegister(p))
        /\ Follows(timers, ToRemove(p), ToRegister(p)) => Follows(timers', ToRemove(p), ToRegister(p))
        /\ Follows(timers, ToRemove(p), ToRegister(p)) /\ t = ToRemove(p) => Has(timers', ToRegister(p))
    BY <1>2, <1>3, TailKeeps
  <2>2. t = ToRegister(p) => p \notin removing'
    BY <1>5, <1>6 DEF ToRegister
  <2>3. t # ToRemove(p) => (p \in removing' => p \in removing)
    BY <1>4, <1>5 DEF Timer, ToRemove
  <2>4. p \in removing' => Has(events', Creation(p)) \/ Has(timers', ToRegister(p))
    <3> SUFFICES ASSUME p \in removing', ~Has(events, Creation(p))
                 PROVE  Has(timers', ToRegister(p))
      BY <1>2 DEF Creation
    <3>1. CASE t = ToRemove(p)
      BY <1>6, <2>1, <3>1 DEF Followed
    <3>2. CASE t # ToRemove(p)
      BY <1>6, <2>1, <2>2, <2>3, <3>2 DEF Followed
    <3> QED BY <3>1, <3>2
  <2>5. Follows(events', Removal(p), Creation(p))
    BY <1>2, <1>6 DEF Followed, Creation, Removal
  <2>6. Has(events', Creation(p)) \/ Follows(timers', ToRemove(p), ToRegister(p))
    BY <1>2, <1>6, <2>1 DEF Followed, Creation
  <2> QED BY <2>4, <2>5, <2>6 DEF Followed, Creation, Removal, ToRegister, ToRemove
<1>7. Quiet'
  BY <1>2 DEF Quiet
<1>8. Placed' /\ InScope'
  BY <1>2 DEF Inv, Placed, IsThere, InScope, treeVars, scanVars
<1>9. ASSUME NEW p \in Path, Known(p)'
      PROVE  Safe(p)'
  <2>1. Known(p) /\ Safe(p) /\ p \notin excused'
    BY <1>2, <1>5, <1>9 DEF Inv, Known, treeVars
  <2>2. Followed(p)'
    BY <1>6, <2>1 DEF Safe, Known
  <2>3. \A s \in Scan : Walked(s, p)'
    BY <1>2, <2>1 DEF Safe, Walked, scanVars
  <2> QED BY <2>2, <2>3 DEF Safe
<1> QED BY <1>1, <1>7, <1>8, <1>9 DEF Inv

LEMMA FilesKeep == ASSUME NEW p \in Path PROVE Inv /\ (RegisterFile(p) \/ RemoveFile(p)) => Inv'
<1> SUFFICES ASSUME Inv, RegisterFile(p) \/ RemoveFile(p) PROVE Inv'
  OBVIOUS
<1>1. TypeOK'
  BY TypeInductive DEF Inv, Next
<1>2. /\ reading # {} \/ removing # {}
      /\ removing' \subseteq removing
      /\ UNCHANGED <<treeVars, watchVars, timers, scanVars, excused>>
  BY DEF RegisterFile, RemoveFile
<1>3. Quiet'
  BY <1>2 DEF Inv, Quiet, Up, watchVars
<1>4. \A q \in Path : Followed(q) => Followed(q)'
  BY <1>2 DEF Followed, Creation, Removal, ToRegister, ToRemove, watchVars
<1> QED BY <1>1, <1>2, <1>3, <1>4, Frame

LEMMA ReprocessKeeps == ASSUME NEW x \in Target PROVE Inv /\ Reprocess(x) => Inv'
<1> SUFFICES ASSUME Inv, Reprocess(x) PROVE Inv'
  OBVIOUS
<1>1. TypeOK'
  BY ReprocessType DEF Inv
<1>2. Up /\ Up' /\ UNCHANGED <<treeVars, tracked, watchVars, timers, removing>>
  BY DEF Reprocess, Up, watchVars
<1>3. Quiet'
  BY <1>2 DEF Quiet
<1>4. \A p \in Path : Followed(p) => Followed(p)'
  BY <1>2, FollowedFrame DEF watchVars
<1>5. CASE x \in disk /\ Clash(reading', removing) /\ UNCHANGED scanVars
  <2>1. excused \subseteq excused'
    BY <1>5 DEF Clash
  <2> QED BY <1>1, <1>2, <1>3, <1>4, <1>5, <2>1, Frame
<1>6. CASE x \in dirs \cup {Root} /\ ScanBegin("request", x) /\ UNCHANGED <<reading, excused>>
  <2>1. "request" \in Scan
    BY DEF Scan
  <2>2. /\ scan'["request"] = "walk" /\ \A p \in Path : p \in disk => Walked("request", p)'
        /\ ScanOnly("request")
    BY <1>2, <1>6, <2>1, BeginWalks DEF ScanOnly, watchVars
  <2> QED BY <1>1, <1>3, <1>6, <2>1, <2>2, ScanFrame
<1> QED BY <1>5, <1>6 DEF Reprocess

LEMMA StopKeeps == Inv /\ Stop => Inv'
<1> SUFFICES ASSUME Inv, Stop PROVE Inv'
  OBVIOUS
<1>1. TypeOK'
  BY TypeInductive DEF Inv, Next
<1>2. /\ watched' = {} /\ events' = <<>> /\ timers' = <<>> /\ reading' = {} /\ removing' = {}
      /\ \A s \in Scan : scan'[s] = "idle"
      /\ UNCHANGED treeVars
  BY DEF Stop
<1>3. Quiet' /\ Placed' /\ InScope'
  BY <1>2 DEF Inv, Quiet, Placed, IsThere, InScope, treeVars
<1>4. DOMAIN events' = {} /\ DOMAIN timers' = {}
  BY <1>2
<1>5. \A p \in Path : Safe(p)'
  BY <1>2, <1>4 DEF Safe, Followed, Walked, Follows
<1> QED BY <1>1, <1>3, <1>5 DEF Inv

LEMMA StutterKeeps == Inv /\ UNCHANGED vars => Inv'
<1> SUFFICES ASSUME Inv, UNCHANGED vars PROVE Inv'
  OBVIOUS
<1>1. TypeOK'
  BY TypeInductive DEF Inv
<1>2. UNCHANGED <<treeVars, watchVars, timerVars, scanVars, excused>>
  BY DEF vars
<1>3. Quiet'
  BY <1>2 DEF Inv, Quiet, Up, watchVars, timerVars, scanVars
<1>4. \A p \in Path : Followed(p) => Followed(p)'
  BY <1>2, FollowedFrame DEF watchVars, timerVars
<1> QED BY <1>1, <1>2, <1>3, <1>4, Frame

LEMMA InitInv == Init => Inv
<1> SUFFICES ASSUME Init PROVE Inv
  OBVIOUS
<1>1. TypeOK
  <2>1. dirs \subseteq Dir
    BY WatcherConstants DEF Init
  <2> QED BY <2>1, WatcherConstants DEF Init, TypeOK
<1>2. Quiet /\ InScope
  BY DEF Init, Quiet, InScope
<1>3. Placed
  BY DEF Init, Placed, IsThere
<1>4. \A p \in Path : Safe(p)
  BY QuietIsSafe DEF Init
<1> QED BY <1>1, <1>2, <1>3, <1>4 DEF Inv

LEMMA InvInductive == Inv /\ [Next]_vars => Inv'
<1> SUFFICES ASSUME Inv, [Next]_vars PROVE Inv'
  OBVIOUS
<1> QED BY TreeKeeps, StartKeeps, StartStepKeeps, HandleEventKeeps, FireKeeps, ScanKeeps,
           FilesKeep, ReprocessKeeps, StopKeeps, StutterKeeps DEF Next

-----------------------------------------------------------------------------
(* The theorems. *)

\* The scans, the queue of events and the timers keep their types: only videos
\* get timers, although events name directories too.
THEOREM WatcherTypeCorrect == Spec => []TypeOK
<1>1. Inv => TypeOK
  BY DEF Inv
<1> QED BY <1>1, InitInv, InvInductive, PTL DEF Spec

\* One step that deletes rows.
LEMMA StepJustified ==
  ASSUME Inv, [Next]_vars, NEW p \in tracked \ tracked'
  PROVE  p \notin disk \/ p \in excused \/ Returning(p)
<1>1. p \in Path
  BY DEF Inv, TypeOK
<1> SUFFICES ASSUME Known(p) PROVE Returning(p)
  BY DEF Known
<1>2. Safe(p)
  BY <1>1 DEF Inv
<1>3. PICK q : RemoveFile(q) \/ \E s \in Scan : Reconcile(s, q)
  <2>1. ~(tracked \subseteq tracked')
    OBVIOUS
  <2> QED BY <2>1 DEF Next, vars, TreeStep, Create, Delete, MoveIn, MoveOut, TreeChange, Start,
           StartStep, WatchRoot, Watching, WatchDir, WatchOnly, HandleEvent, Fire, ScanStep,
           WalkDir, Visit, ScanRegister, ListTracked, ScanDone, ScanFailed, RegisterFile, Reprocess,
           Stop
<1>4. CASE RemoveFile(q)
  <2>1. p \in removing
    BY <1>4 DEF RemoveFile
  <2> QED BY <1>2, <2>1 DEF Safe, Followed, Has, Returning, Creation, ToRegister
<1>5. ASSUME NEW s \in Scan, Reconcile(s, q)
      PROVE  FALSE
  BY <1>2, <1>5 DEF Safe, Walked, Reconcile
<1> QED BY <1>3, <1>4, <1>5

\* A row whose video is there is deleted only when something behind the deletion
\* registers it again: no scan takes it, since whatever the scan passed by is
\* still there or was changed under it, and a removal's timer fires before that
\* of the registration the creation behind it causes.
THEOREM RemovalsJustified == Spec => RemovalJustified
<1>1. Inv /\ [Next]_vars
        => [\A p \in tracked \ tracked' : p \notin disk \/ p \in excused \/ Returning(p)]_vars
  BY StepJustified
<1> QED BY <1>1, InitInv, InvInductive, PTL DEF Spec, RemovalJustified
=============================================================================
