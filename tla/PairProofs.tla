------------------------------ MODULE PairProofs ------------------------------
(***************************************************************************)
(* Proofs about what happens to one (file, language) pair: who is asked    *)
(* for it, who owns it, and what its outcome says.                         *)
(***************************************************************************)
EXTENDS DaemonProofs

-----------------------------------------------------------------------------
(* No Provider is asked twice for a pair in one cycle: NoRepeatSearch, for *)
(* any chain, any number of workers and any events.                        *)

\* No row's attempted set grows: a row that is there afterwards has forgotten
\* its misses, or had them before.
NoNewMiss ==
  \A i \in Id, l \in Lang :
    Row(i, l)' # NoRow =>
      \/ Row(i, l)'.attempted = {}
      \/ Row(i, l) # NoRow /\ Row(i, l)'.attempted \subseteq Row(i, l).attempted

\* If worker w is working afterwards, it already was, on the same thing.
WorksOn(w) ==
  Working(w)' => /\ Working(w)
                 /\ Key(job'[w]) = Key(job[w])
                 /\ job'[w].provider = job[w].provider

\* The only method of the store that adds to an attempted set is RecordProviderMiss.
LEMMA QuietCalls ==
  ASSUME StoreTypeOK
  PROVE  /\ UNCHANGED storeVars \/ UNCHANGED states => NoNewMiss
         /\ \A i \in Id, l \in Lang :
              /\ EnsureLanguage(i, l) \/ MarkInProgress(i, l) \/ RequeueInProgress(i, l) => NoNewMiss
              /\ \A h \in Hash :
                   /\ MarkSynced(i, h, l) \/ ResetLanguageToPending(i, h, l) => NoNewMiss
                   /\ \A why \in FailureReason : MarkFailed(i, h, l, why) => NoNewMiss
         /\ \A v \in Path, h \in Hash, i \in Id :
              ObserveNew(v, h, i) \/ ObserveChanged(v, h, i) \/ ObserveUnchanged(v, h, i) => NoNewMiss
         /\ \A v \in Path : DeleteFile(v) => NoNewMiss
         /\ \A i \in Id : ResetToPendingForced(i) => NoNewMiss
         /\ RecoverInProgress => NoNewMiss
<1> USE DEF NoNewMiss, Row
<1>1. UNCHANGED storeVars \/ UNCHANGED states => NoNewMiss
  BY DEF storeVars
<1>2. ASSUME NEW i \in Id, NEW l \in Lang, NEW r, r.attempted = {} \/ r.attempted = states[i][l].attempted,
             states[i][l] # NoRow \/ r.attempted = {}, states' = [states EXCEPT ![i][l] = r]
      PROVE  NoNewMiss
  BY <1>2 DEF StoreTypeOK
<1>3. ASSUME NEW i \in Id, NEW r, r.attempted = {}, states' = AllReset(i, r)
      PROVE  NoNewMiss
  BY <1>3 DEF StoreTypeOK, AllReset
<1>4. ASSUME NEW i \in Id, NEW l \in Lang
      PROVE  /\ EnsureLanguage(i, l) \/ MarkInProgress(i, l) \/ RequeueInProgress(i, l) => NoNewMiss
             /\ \A h \in Hash :
                  /\ MarkSynced(i, h, l) \/ ResetLanguageToPending(i, h, l) => NoNewMiss
                  /\ \A why \in FailureReason : MarkFailed(i, h, l, why) => NoNewMiss
  <2> DEFINE row == states[i][l]
  <2>1. row # NoRow => row \in LangRow
    BY DEF StoreTypeOK
  <2>2. ASSUME row # NoRow, NEW s, NEW why, NEW f,
               states' = [states EXCEPT ![i][l] =
                            [row EXCEPT !.status = s, !.reason = why, !.force = f]]
        PROVE  NoNewMiss
    BY <1>2, <2>1, <2>2 DEF LangRow
  <2>3. EnsureLanguage(i, l) => NoNewMiss
    BY <1>1, <1>2 DEF EnsureLanguage, NewRow
  <2>4. MarkInProgress(i, l) => NoNewMiss
    <3> SUFFICES ASSUME MarkInProgress(i, l) PROVE NoNewMiss
      OBVIOUS
    <3>1. /\ row # NoRow
          /\ states' = [states EXCEPT ![i][l] =
               [row EXCEPT !.status = "in_progress", !.reason = "none", !.force = row.force]]
      BY <2>1, ZenonT(40) DEF MarkInProgress, StoreTypeOK, LangRow
    <3> QED
      BY <2>2, <3>1
  <2>5. RequeueInProgress(i, l) => NoNewMiss
    <3> SUFFICES ASSUME RequeueInProgress(i, l), row # NoRow, row.status = "in_progress"
                 PROVE  NoNewMiss
      BY <1>1 DEF RequeueInProgress
    <3>1. states' = [states EXCEPT ![i][l] =
             [row EXCEPT !.status = "pending", !.reason = "none", !.force = row.force]]
      BY <2>1 DEF RequeueInProgress, StoreTypeOK, LangRow
    <3> QED
      BY <2>2, <3>1
  <2>6. ASSUME NEW h \in Hash, MarkSynced(i, h, l)
        PROVE  NoNewMiss
    <3>1. /\ row # NoRow
          /\ states' = [states EXCEPT ![i][l] =
               [row EXCEPT !.status = "synced", !.reason = "none", !.force = FALSE]]
      BY <2>1, <2>6, ZenonT(30) DEF MarkSynced, Fenced, StoreTypeOK, LangRow
    <3> QED
      BY <2>2, <3>1
  <2>7. ASSUME NEW h \in Hash, ResetLanguageToPending(i, h, l)
        PROVE  NoNewMiss
    <3>1. /\ row # NoRow
          /\ states' = [states EXCEPT ![i][l] =
               [row EXCEPT !.status = "pending", !.reason = "none", !.force = row.force]]
      BY <2>1, <2>7, ZenonT(30) DEF ResetLanguageToPending, Fenced, StoreTypeOK, LangRow
    <3> QED
      BY <2>2, <3>1
  <2>8. ASSUME NEW h \in Hash, NEW why \in FailureReason, MarkFailed(i, h, l, why)
        PROVE  NoNewMiss
    <3>1. /\ row # NoRow
          /\ states' = [states EXCEPT ![i][l] =
               [row EXCEPT !.status = "failed", !.reason = why, !.force = FALSE]]
      BY <2>1, <2>8, ZenonT(30) DEF MarkFailed, Fenced, StoreTypeOK, LangRow
    <3> QED
      BY <2>2, <3>1
  <2> QED
    BY <2>3, <2>4, <2>5, <2>6, <2>7, <2>8
<1>5. ASSUME NEW v \in Path, NEW h \in Hash, NEW i \in Id,
             ObserveNew(v, h, i) \/ ObserveChanged(v, h, i) \/ ObserveUnchanged(v, h, i)
      PROVE  NoNewMiss
  BY <1>1, <1>3, <1>5 DEF ObserveNew, ObserveChanged, ObserveUnchanged, NewRow
<1>6. ASSUME NEW v \in Path, DeleteFile(v)
      PROVE  NoNewMiss
  BY <1>6 DEF DeleteFile, NoRows, StoreTypeOK
<1>7. ASSUME NEW i \in Id, ResetToPendingForced(i)
      PROVE  NoNewMiss
  <2>1. [NewRow EXCEPT !.force = TRUE].attempted = {}
    BY DEF NewRow
  <2> QED
    BY <1>3, <1>7, <2>1 DEF ResetToPendingForced
<1>8. ASSUME RecoverInProgress
      PROVE  NoNewMiss
  BY <1>8 DEF RecoverInProgress, StoreTypeOK, LangRow
<1> QED
  BY <1>1, <1>4, <1>5, <1>6, <1>7, <1>8

\* If no attempted set grows and no worker begins, nothing becomes a repeat.
LEMMA QuietStep ==
  ASSUME TypeOK, NoRepeatSearch, NoNewMiss, \A w \in Worker : WorksOn(w)
  PROVE  NoRepeatSearch'
<1> SUFFICES ASSUME NEW w \in Worker, Working(w)',
                    states'[job'[w].id][job'[w].lang] # NoRow
             PROVE  job'[w].provider \notin states'[job'[w].id][job'[w].lang].attempted
  BY DEF NoRepeatSearch, Row
<1>1. /\ Working(w) /\ job'[w].id = job[w].id /\ job'[w].lang = job[w].lang
      /\ job'[w].provider = job[w].provider
  BY DEF WorksOn, Key
<1>2. job[w].id \in Id /\ job[w].lang \in Lang
  BY <1>1, ActiveJob DEF Working, Unclaimed, Claimed, TypeOK, DispatcherTypeOK
<1>3. Row(job[w].id, job[w].lang) # NoRow
        => job[w].provider \notin Row(job[w].id, job[w].lang).attempted
  BY <1>1 DEF NoRepeatSearch
<1> QED
  BY <1>1, <1>2, <1>3 DEF NoNewMiss, Row

\* A step that leaves the workers alone starts no new search.
LEMMA IdleWorksOn ==
  ASSUME UNCHANGED workVars
  PROVE  \A w \in Worker : WorksOn(w)
BY DEF workVars, WorksOn, Working, Key

\* The step of a worker's goroutine goes on with its own search or ends it, and
\* adds to no attempted set unless it records the miss.
LEMMA GoroutineWorksOn ==
  ASSUME TypeOK, NEW v \in Worker, Goroutine(v) \/ Suspend(v)
  PROVE  /\ \A w \in Worker : WorksOn(w)
         /\ NoNewMiss \/ FetchMiss(v)
<1> USE DEF At
<1> DEFINE i == job[v].id
           l == job[v].lang
           h == job[v].hash
<1>1. PipelineTypeOK /\ StoreTypeOK
  BY DEF TypeOK, DispatcherTypeOK, PipelineTypeOK
<1>2. pc[v] # "idle"
  BY DEF Goroutine, GoroutineStep, Suspend, WorkerSuspends, FetchSuspended, WorkerStep, Gate,
         GateError, SkipFetch, Claim, FetchFailed, FetchMiss, FetchOk, StripError, StripEmbedded,
         RenameOver, Rehash, RecordHash, Swap, SwapError, Finish, Abort, ReturnFailed,
         CheckExhausted, MarkNoCandidate, ReleaseSlot, EndPair
<1>3. i \in Id /\ l \in Lang /\ h \in Hash
  BY <1>1, <1>2, ActiveJob
<1>4. /\ UNCHANGED storeVars => NoNewMiss
      /\ MarkInProgress(i, l) \/ RequeueInProgress(i, l) => NoNewMiss
      /\ MarkSynced(i, h, l) \/ ResetLanguageToPending(i, h, l) => NoNewMiss
      /\ \A why \in FailureReason : MarkFailed(i, h, l, why) => NoNewMiss
      /\ \A new : UpdateContentHash(i, h, new) => NoNewMiss
  BY <1>1, <1>3, QuietCalls DEF UpdateContentHash
<1>5. NoNewMiss \/ FetchMiss(v)
  <2>1. CASE WorkerStep(v)
    BY <1>4, <2>1
       DEF WorkerStep, Local, Settle, Gate, GateError, SkipFetch, Claim, FetchFailed, FetchOk,
           StripError, StripEmbedded, RenameOver, Rehash, RecordHash, Swap, SwapError, Finish,
           Abort, ReturnFailed, FailureReason, storeVars
  <2>2. CASE Suspend(v)
    BY <1>4, <2>2 DEF Suspend, WorkerSuspends, FetchSuspended, Settle
  <2>3. CASE CheckExhausted(v) \/ MarkNoCandidate(v) \/ ReleaseSlot(v) \/ EndPair(v)
    BY <1>4, <2>3
       DEF CheckExhausted, MarkNoCandidate, ReleaseSlot, EndPair, Settle, FailureReason
  <2> QED
    BY <2>1, <2>2, <2>3 DEF Goroutine, GoroutineStep
<1>6. ASSUME NEW label, label \notin Unclaimed \cup Claimed, pc' = [pc EXCEPT ![v] = label],
             \A w \in Worker : w # v => job'[w] = job[w]
      PROVE  \A w \in Worker : WorksOn(w)
  BY <1>1, <1>6 DEF WorksOn, Working, Key, PipelineTypeOK
<1>7. ASSUME pc[v] \in Unclaimed \cup Claimed, WorkerMove(v)
      PROVE  \A w \in Worker : WorksOn(w)
  <2>1. PICK label \in Holding : pc' = [pc EXCEPT ![v] = label]
    BY <1>7 DEF WorkerMove
  <2>2. PICK j \in Job : /\ Key(j) = Key(job[v]) /\ j.provider = job[v].provider
                         /\ job' = [job EXCEPT ![v] = j]
    BY <1>7 DEF WorkerMove
  <2>3. \A w \in Worker : w # v => pc'[w] = pc[w] /\ job'[w] = job[w]
    BY <1>1, <2>1, <2>2 DEF PipelineTypeOK
  <2>4. Key(job'[v]) = Key(job[v]) /\ job'[v].provider = job[v].provider
    BY <1>1, <2>2 DEF PipelineTypeOK
  <2> QED
    BY <1>7, <2>3, <2>4 DEF WorksOn, Working, Key
<1>8. \A w \in Worker : WorksOn(w)
  <2>1. CASE ReturnFailed(v) \/ CheckExhausted(v) \/ MarkNoCandidate(v) \/ ReleaseSlot(v) \/ EndPair(v)
    <3>1. PICK label \in Returned \cup {"idle"} : pc' = [pc EXCEPT ![v] = label]
      BY <2>1 DEF ReturnFailed, CheckExhausted, MarkNoCandidate, ReleaseSlot, EndPair, Settle,
                  Goto, Returned
    <3>2. label \notin Unclaimed \cup Claimed
      BY DEF Returned, Unclaimed, Claimed
    <3>3. \A w \in Worker : w # v => job'[w] = job[w]
      BY <1>1, <2>1 DEF ReturnFailed, CheckExhausted, MarkNoCandidate, ReleaseSlot, EndPair, Settle,
                        PipelineTypeOK
    <3> QED
      BY <1>6, <3>1, <3>2, <3>3
  <2>2. CASE (WorkerStep(v) /\ ~ReturnFailed(v)) \/ Suspend(v)
    <3>1. pc[v] \in Unclaimed \cup Claimed
      BY <2>2 DEF Suspend, WorkerSuspends, FetchSuspended, WorkerStep, Gate, GateError, SkipFetch,
                  Claim, FetchFailed, FetchMiss, FetchOk, StripError, StripEmbedded, RenameOver,
                  Rehash, RecordHash, Swap, SwapError, Finish, Abort, Unclaimed, Claimed
    <3>2. WorkerMove(v)
      BY <1>1, <2>2, WorkerStepMoves DEF Suspend, WorkerSuspends
    <3> QED
      BY <1>7, <3>1, <3>2
  <2> QED
    BY <2>1, <2>2 DEF Goroutine, GoroutineStep
<1> QED
  BY <1>5, <1>8

\* The worker that records a miss has ended its search, and no other worker has
\* the pair: the new miss is nobody's repeat.
LEMMA MissStep ==
  ASSUME TypeOK, ExclusivePairs, NoRepeatSearch, NEW v \in Worker, Goroutine(v) \/ Suspend(v),
         FetchMiss(v)
  PROVE  NoRepeatSearch'
<1> SUFFICES ASSUME NEW w \in Worker, Working(w)',
                    states'[job'[w].id][job'[w].lang] # NoRow
             PROVE  job'[w].provider \notin states'[job'[w].id][job'[w].lang].attempted
  BY DEF NoRepeatSearch, Row
<1>1. PipelineTypeOK /\ StoreTypeOK
  BY DEF TypeOK, DispatcherTypeOK, PipelineTypeOK
<1>2. /\ \E label \in {"missed", "failed"} : pc' = [pc EXCEPT ![v] = label]
      /\ pc[v] = "fetch" /\ job' = job
      /\ \/ UNCHANGED states
         \/ RecordProviderMiss(job[v].id, job[v].hash, job[v].lang, job[v].provider)
  BY DEF FetchMiss, Settle, Goto, At, storeVars
<1>3. w # v /\ Working(w)
  BY <1>1, <1>2 DEF Working, Unclaimed, Claimed, PipelineTypeOK
<1>4. Active(v) /\ Active(w)
  BY <1>2, <1>3 DEF Active, At, Working, Unclaimed, Claimed
<1>5. Key(job[v]) # Key(job[w])
  BY <1>3, <1>4 DEF ExclusivePairs
<1>6. job[w].id \in Id /\ job[w].lang \in Lang /\ job[v].id \in Id /\ job[v].lang \in Lang
  BY <1>1, <1>4, ActiveJob DEF Active, At
<1>7. states'[job[w].id][job[w].lang] = states[job[w].id][job[w].lang]
  <2>1. CASE UNCHANGED states
    BY <2>1
  <2>2. ASSUME NEW i \in Id, NEW l \in Lang, <<i, l>> # <<job[w].id, job[w].lang>>, NEW r,
               states' = [states EXCEPT ![i][l] = r]
        PROVE  states'[job[w].id][job[w].lang] = states[job[w].id][job[w].lang]
    BY <1>1, <1>6, <2>2 DEF StoreTypeOK
  <2>3. CASE RecordProviderMiss(job[v].id, job[v].hash, job[v].lang, job[v].provider)
    <3> DEFINE row == states[job[v].id][job[v].lang]
    <3>1. states' = [states EXCEPT ![job[v].id][job[v].lang] =
                       [row EXCEPT !.status = "pending", !.reason = "none",
                                   !.attempted = row.attempted \cup {job[v].provider}]]
      BY <1>1, <1>6, <2>3, ZenonT(30) DEF RecordProviderMiss, Fenced, StoreTypeOK, LangRow
    <3> QED
      BY <1>5, <1>6, <2>2, <3>1 DEF Key
  <2> QED
    BY <1>2, <2>1, <2>3
<1> QED
  BY <1>2, <1>3, <1>7 DEF NoRepeatSearch, Row

\* startWorker hands the pair to a Provider that has not missed for it.
LEMMA StartStep ==
  ASSUME TypeOK, NoRepeatSearch, NEW v \in Worker, NEW pair \in snap, StartWorker(v, pair)
  PROVE  NoRepeatSearch'
<1> SUFFICES ASSUME NEW w \in Worker, Working(w)',
                    states'[job'[w].id][job'[w].lang] # NoRow
             PROVE  job'[w].provider \notin states'[job'[w].id][job'[w].lang].attempted
  BY DEF NoRepeatSearch, Row
<1>1. /\ pc \in [Worker -> Label] /\ job \in [Worker -> Job \cup {NoJob}]
      /\ pc' = [pc EXCEPT ![v] = "gate"] /\ states' = states
  BY DEF TypeOK, DispatcherTypeOK, PipelineTypeOK, StartWorker, Goto, storeVars
<1>2. PICK t \in DOMAIN Tiers : \E k \in DOMAIN Tiers[t] : Place(v, pair, t, k)
  BY DEF StartWorker
<1>3. PICK k \in DOMAIN Tiers[t] : Place(v, pair, t, k)
  BY <1>2
<1>4. CASE w = v
  <2>1. /\ job'[v].id = pair.id /\ job'[v].lang = pair.lang
        /\ job'[v].provider = Tiers[t][k]
    BY <1>1, <1>3 DEF Place
  <2>2. Tiers[t][k] \notin states[pair.id][pair.lang].attempted
    BY <1>3 DEF Place, Chosen, Eligible, Unattempted
  <2> QED
    BY <1>1, <1>4, <2>1, <2>2
<1>5. CASE w # v
  <2>1. pc'[w] = pc[w] /\ job'[w] = job[w]
    BY <1>1, <1>3, <1>5 DEF Place
  <2> QED
    BY <1>1, <2>1 DEF NoRepeatSearch, Working, Row
<1> QED
  BY <1>4, <1>5

\* The rest of the daemon's steps leave the workers alone or stop them all, and
\* add to no attempted set.
LEMMA OtherStep ==
  ASSUME TypeOK, NoRepeatSearch,
         \/ PassBegin \/ PassStop \/ \E pair \in snap : PassSkip(pair)
         \/ \E r \in Registrar : Register(r)
         \/ \E p \in Path : FireChanged(p) \/ FireRemoved(p)
         \/ \E p \in Provider : Resumed(p)
         \/ Outside \/ Start \/ Shutdown \/ Exit \/ Crash
  PROVE  NoRepeatSearch'
<1>1. StoreTypeOK /\ PipelineTypeOK
  BY DEF TypeOK, DispatcherTypeOK, PipelineTypeOK
<1>2. ASSUME UNCHANGED workVars, NoNewMiss
      PROVE  NoRepeatSearch'
  BY <1>2, IdleWorksOn, QuietStep
<1>3. CASE PassBegin \/ PassStop \/ \E pair \in snap : PassSkip(pair)
  BY <1>1, <1>2, <1>3, QuietCalls DEF PassBegin, PassStop, PassSkip, pipelineVars
<1>4. ASSUME NEW r \in Registrar, Register(r)
      PROVE  NoRepeatSearch'
  <2>1. UNCHANGED workVars
    BY <1>4 DEF Register, RegisterStep, RegisterObserve, RegisterForce, RegisterEnsure, RegisterError
  <2>2. reg[r] \in Registration \/ regPc[r] = "idle"
    BY <1>1 DEF PipelineTypeOK
  <2>3. /\ regPc[r] # "idle" => reg[r].path \in Path /\ reg[r].hash \in Hash /\ reg[r].todo \subseteq Lang
        /\ regPc[r] \in {"force", "ensure"} => reg[r].id \in Id
    BY <1>1, <2>2 DEF PipelineTypeOK, Registration
  <2>4. CASE RegisterObserve(r)
    <3>1. PICK i \in Id : LET g == [reg[r] EXCEPT !.id = i]
                          IN  \/ ObserveNew(g.path, g.hash, i) \/ ObserveChanged(g.path, g.hash, i)
                              \/ ObserveUnchanged(g.path, g.hash, i)
      BY <2>4 DEF RegisterObserve
    <3>2. /\ [reg[r] EXCEPT !.id = i].path = reg[r].path
          /\ [reg[r] EXCEPT !.id = i].hash = reg[r].hash
      BY <2>2, <2>4 DEF RegisterObserve, Registration
    <3>3. NoNewMiss
      BY <1>1, <2>3, <2>4, <3>1, <3>2, QuietCalls DEF RegisterObserve
    <3> QED
      BY <1>2, <2>1, <3>3
  <2>5. CASE RegisterForce(r) \/ RegisterEnsure(r) \/ RegisterError(r)
    <3>1. NoNewMiss
      BY <1>1, <2>3, <2>5, QuietCalls DEF RegisterForce, RegisterEnsure, RegisterError
    <3> QED
      BY <1>2, <2>1, <3>1
  <2> QED
    BY <1>4, <2>4, <2>5 DEF Register, RegisterStep
<1>5. ASSUME NEW p \in Path, FireChanged(p) \/ FireRemoved(p) \/ Reprocess(p) \/ Edit(p) \/ Delete(p)
      PROVE  NoRepeatSearch'
  <2>1. UNCHANGED workVars
    BY <1>5 DEF FireChanged, FireRemoved, Reprocess, Edit, Delete, DiskUnchangedBut
  <2>2. NoNewMiss
    BY <1>1, <1>5, QuietCalls DEF FireChanged, FireRemoved, Reprocess, Edit, Delete, DiskUnchangedBut
  <2> QED
    BY <1>2, <2>1, <2>2
<1>6. ASSUME NEW p \in Path, NEW q \in Path, Rename(p, q)
      PROVE  NoRepeatSearch'
  BY <1>1, <1>2, <1>6, QuietCalls DEF Rename, DiskUnchangedBut
<1>7. ASSUME NEW p \in Provider, Resumed(p)
      PROVE  NoRepeatSearch'
  BY <1>1, <1>2, <1>7, QuietCalls DEF Resumed, Resume, pipelineVars
<1>8. CASE Start \/ Shutdown
  BY <1>1, <1>2, <1>8, QuietCalls DEF Start, Shutdown
<1>9. CASE Exit \/ Crash
  <2>1. \A w \in Worker : ~Working(w)'
    BY <1>9 DEF Exit, Crash, Volatile, Working, Unclaimed, Claimed
  <2> QED
    BY <2>1 DEF NoRepeatSearch
<1> QED
  BY <1>3, <1>4, <1>5, <1>6, <1>7, <1>8, <1>9 DEF Outside

\* A Provider that has missed for a pair is never asked again in the same cycle,
\* whatever is edited, removed, reprocessed, suspended or restarted meanwhile.
THEOREM NoSearchRepeated == Spec => []NoRepeatSearch
<1>1. Init => NoRepeatSearch
  BY DEF Init, DispatcherInit, PipelineInit, NoRepeatSearch, Working, Unclaimed, Claimed
<1>2. TypeOK /\ Held /\ NoRepeatSearch /\ [Next]_vars => NoRepeatSearch'
  <2> SUFFICES ASSUME TypeOK, Held, NoRepeatSearch, [Next]_vars
               PROVE  NoRepeatSearch'
    OBVIOUS
  <2>1. CASE \E w \in Worker : Goroutine(w) \/ Suspend(w)
    BY <2>1, GoroutineWorksOn, QuietStep, MissStep DEF Held, HeldPairs
  <2>2. CASE Pass
    BY <2>2, StartStep, OtherStep DEF Pass
  <2>3. CASE \/ \E r \in Registrar : Register(r)
             \/ \E p \in Path : FireChanged(p) \/ FireRemoved(p)
             \/ \E p \in Provider : Resumed(p)
             \/ Outside \/ Start \/ Shutdown \/ Exit \/ Crash
    BY <2>3, OtherStep
  <2>4. CASE UNCHANGED vars
    <3>1. UNCHANGED <<pc, job, states>>
      BY <2>4 DEF vars, pipelineVars, workVars, storeVars
    <3> QED
      BY <3>1 DEF NoRepeatSearch, Working, Row
  <2> QED
    BY <2>1, <2>2, <2>3, <2>4 DEF Next
<1> QED
  BY <1>1, <1>2, DaemonInvariant, PTL DEF Spec
-----------------------------------------------------------------------------
(* What the steps of the daemon are to a pair's row. *)

\* A worker's call writes one row that is there, keeping its misses.
Writes(i, l, status, reason) ==
  /\ Row(i, l) # NoRow
  /\ UNCHANGED files
  /\ \E r \in LangRow : /\ r.status = status /\ r.reason = reason
                        /\ Row(i, l).attempted \subseteq r.attempted
                        /\ states' = [states EXCEPT ![i][l] = r]

\* The end of a pair's cycle, as its three fields are written.
Ended(i, l, s, why) ==
  [states EXCEPT ![i][l].status = s, ![i][l].reason = why, ![i][l].force = FALSE]

\* Three fields of a row written one by one are the row written once.
LEMMA EndWrites ==
  ASSUME StoreTypeOK, NEW i \in Id, NEW l \in Lang, Row(i, l) # NoRow,
         NEW s \in Status, NEW why \in FailureReason \cup {"none"},
         UNCHANGED files, states' = Ended(i, l, s, why)
  PROVE  Writes(i, l, s, why)
<1> DEFINE row == states[i][l]
           r == [row EXCEPT !.status = s, !.reason = why, !.force = FALSE]
<1>1. PICK R : R = LangRow \cup {NoRow}
  OBVIOUS
<1>2. states \in [Id -> [Lang -> R]]
  BY <1>1 DEF StoreTypeOK
<1>3. states' = [states EXCEPT ![i][l] = r]
  BY <1>2 DEF Ended
<1>4. row \in LangRow
  BY DEF StoreTypeOK, Row
<1>5. r \in LangRow /\ r.status = s /\ r.reason = why /\ r.attempted = row.attempted
  BY <1>4 DEF LangRow
<1> HIDE DEF r
<1> QED
  BY <1>3, <1>5 DEF Writes, Row

\* The status and reason every method of a worker writes.
LEMMA CallWrites ==
  ASSUME StoreTypeOK, NEW i \in Id, NEW l \in Lang, NEW h \in Hash
  PROVE  /\ MarkInProgress(i, l) => Writes(i, l, "in_progress", "none")
         /\ RequeueInProgress(i, l) =>
              \/ Writes(i, l, "pending", "none")
              \/ UNCHANGED storeVars /\ ~Is(i, l, "in_progress")
         /\ MarkSynced(i, h, l) => Writes(i, l, "synced", "none")
         /\ ResetLanguageToPending(i, h, l) => Writes(i, l, "pending", "none")
         /\ \A why \in FailureReason : MarkFailed(i, h, l, why) => Writes(i, l, "failed", why)
         /\ \A p \in Provider : RecordProviderMiss(i, h, l, p) => Writes(i, l, "pending", "none")
<1> DEFINE row == states[i][l]
<1>0. row # NoRow => row \in LangRow
  BY DEF StoreTypeOK
<1>1. ASSUME row # NoRow, UNCHANGED files, NEW s \in Status, NEW why \in FailureReason \cup {"none"},
             NEW f \in BOOLEAN, NEW tried \in SUBSET Provider, row.attempted \subseteq tried,
             states' = [states EXCEPT ![i][l] = [row EXCEPT !.status = s, !.reason = why,
                                             !.force = f, !.attempted = tried]]
      PROVE  Writes(i, l, s, why)
  <2> DEFINE r == [row EXCEPT !.status = s, !.reason = why, !.force = f, !.attempted = tried]
  <2>1. /\ r \in LangRow /\ r.status = s /\ r.reason = why /\ r.attempted = tried
    BY <1>0, <1>1 DEF LangRow
  <2>2. row.attempted \subseteq r.attempted /\ states' = [states EXCEPT ![i][l] = r]
    BY <1>1, <2>1
  <2> HIDE DEF r
  <2> QED
    BY <1>1, <2>1, <2>2 DEF Writes, Row
<1> USE DEF LangRow
<1>2. MarkInProgress(i, l) => Writes(i, l, "in_progress", "none")
  <2> SUFFICES ASSUME MarkInProgress(i, l) PROVE Writes(i, l, "in_progress", "none")
    OBVIOUS
  <2>1. states' = [states EXCEPT ![i][l] = [row EXCEPT !.status = "in_progress", !.reason = "none",
                                             !.force = row.force, !.attempted = row.attempted]]
    BY <1>0 DEF MarkInProgress, StoreTypeOK
  <2> QED
    BY <1>0, <1>1, <2>1 DEF MarkInProgress, Status
<1>3. ASSUME RequeueInProgress(i, l), Is(i, l, "in_progress")
      PROVE  Writes(i, l, "pending", "none")
  <2>1. row # NoRow /\ row.status = "in_progress"
    BY <1>3 DEF Is, Row
  <2>2. states' = [states EXCEPT ![i][l] = [row EXCEPT !.status = "pending", !.reason = "none",
                                             !.force = row.force, !.attempted = row.attempted]]
    BY <1>0, <1>3, <2>1 DEF RequeueInProgress, StoreTypeOK
  <2> QED
    BY <1>0, <1>1, <1>3, <2>1, <2>2 DEF RequeueInProgress, Status
<1>4. ASSUME RequeueInProgress(i, l), ~Is(i, l, "in_progress")
      PROVE  UNCHANGED storeVars
  BY <1>4 DEF RequeueInProgress, Is, Row, storeVars
<1>5. ASSUME MarkSynced(i, h, l)
      PROVE  Writes(i, l, "synced", "none")
  <2>1. row # NoRow /\ UNCHANGED files
    BY <1>5 DEF MarkSynced, Fenced
  <2>2. states' = Ended(i, l, "synced", "none")
    BY <1>5 DEF MarkSynced, Ended
  <2> QED
    BY <2>1, <2>2, EndWrites DEF Status, Row
<1>6. ASSUME ResetLanguageToPending(i, h, l)
      PROVE  Writes(i, l, "pending", "none")
  <2>1. row # NoRow /\ UNCHANGED files
    BY <1>6 DEF ResetLanguageToPending, Fenced
  <2>2. states' = [states EXCEPT ![i][l] = [row EXCEPT !.status = "pending", !.reason = "none",
                                             !.force = row.force, !.attempted = row.attempted]]
    BY <1>0, <1>6, <2>1 DEF ResetLanguageToPending, StoreTypeOK
  <2> QED
    BY <1>0, <1>1, <2>1, <2>2 DEF Status
<1>7. ASSUME NEW why \in FailureReason, MarkFailed(i, h, l, why)
      PROVE  Writes(i, l, "failed", why)
  <2>1. row # NoRow /\ UNCHANGED files
    BY <1>7 DEF MarkFailed, Fenced
  <2>2. states' = Ended(i, l, "failed", why)
    BY <1>7 DEF MarkFailed, Ended
  <2> QED
    BY <2>1, <2>2, EndWrites DEF Status, Row
<1>8. ASSUME NEW p \in Provider, RecordProviderMiss(i, h, l, p)
      PROVE  Writes(i, l, "pending", "none")
  <2>1. row # NoRow /\ UNCHANGED files
    BY <1>8 DEF RecordProviderMiss, Fenced
  <2>2. states' = [states EXCEPT ![i][l] = [row EXCEPT !.status = "pending", !.reason = "none",
                                             !.force = row.force, !.attempted = row.attempted \cup {p}]]
    BY <1>0, <1>8, <2>1, ZenonT(80) DEF RecordProviderMiss, StoreTypeOK
  <2>3. row.attempted \cup {p} \in SUBSET Provider /\ row.attempted \subseteq row.attempted \cup {p}
    BY <1>0, <2>1
  <2>4. row.force \in BOOLEAN /\ "pending" \in Status
    BY <1>0, <2>1 DEF Status
  <2> QED
    BY <1>1, <2>1, <2>2, <2>3, <2>4
<1> QED
  BY <1>2, <1>3, <1>4, <1>5, <1>6, <1>7, <1>8

\* The row that was written says so, and every other row is as before.
LEMMA WrittenRow ==
  ASSUME StoreTypeOK, NEW i \in Id, NEW l \in Lang, NEW status, NEW reason,
         Writes(i, l, status, reason)
  PROVE  /\ Row(i, l) # NoRow /\ Row(i, l)' # NoRow
         /\ Row(i, l)'.status = status /\ Row(i, l)'.reason = reason
         /\ Row(i, l).attempted \subseteq Row(i, l)'.attempted
         /\ \A j \in Id, m \in Lang : <<j, m>> # <<i, l>> => Row(j, m)' = Row(j, m)
<1>1. PICK r \in LangRow : /\ r.status = status /\ r.reason = reason
                          /\ Row(i, l).attempted \subseteq r.attempted
                          /\ states' = [states EXCEPT ![i][l] = r]
  BY DEF Writes
<1>2. states'[i][l] = r /\ \A j \in Id, m \in Lang : <<j, m>> # <<i, l>> => states'[j][m] = states[j][m]
  BY <1>1 DEF StoreTypeOK
<1> QED
  BY <1>1, <1>2, StoreConstants DEF Writes, Row

\* Triggers and restarts only ever put a row back to Pending, or remove it.
RowsReset ==
  \A i \in Id, l \in Lang :
    Row(i, l)' # NoRow =>
      \/ Row(i, l)' = Row(i, l)
      \/ Row(i, l)'.status = "pending" /\ Row(i, l)'.reason # "no_candidate"

\* A call of worker w for its own pair lands and moves w on.
Wrote(w, from, status, reason, to) ==
  At(w, from) /\ Writes(job[w].id, job[w].lang, status, reason) /\ Goto(w, to)

\* Every write a worker ever makes.  All but the claim and the requeue are fenced.
PairWrite(w) ==
  \/ Wrote(w, "claim", "in_progress", "none", "fetch") /\ Is(job[w].id, job[w].lang, "pending")
  \/ Wrote(w, "failed", "pending", "none", "release") /\ Is(job[w].id, job[w].lang, "in_progress")
  \/ /\ Lands(w)
     /\ \/ Wrote(w, "skip", "synced", "none", "release")
        \/ Wrote(w, "finish", "synced", "none", "release")
        \/ Wrote(w, "fetch", "pending", "none", "release")
        \/ Wrote(w, "fetch", "pending", "none", "missed")
        \/ \E why \in FailureReason \ {"no_candidate"} : Wrote(w, "fetch", "failed", why, "failed")
        \/ Wrote(w, "abort", "failed", "internal_error", "failed")
        \/ Wrote(w, "exhausted", "failed", "no_candidate", "release")

\* Every step of a worker that writes no row: within its claim, giving up a claim
\* whose write was lost, or outside a claim.
PairQuiet(w) ==
  /\ UNCHANGED states
  /\ \/ pc[w] \in Claimed /\ \E to \in Claimed : Goto(w, to)
     \/ /\ pc[w] \in Claimed /\ Goto(w, "failed")
        /\ ctxDone \/ ~Fenced(job[w].id, job[w].hash, job[w].lang)
     \/ /\ At(w, "failed") /\ Goto(w, "release")
        /\ ctxDone => ~Is(job[w].id, job[w].lang, "in_progress")
     \/ /\ At(w, "gate") /\ Goto(w, "skip")
        /\ sidecar[job[w].path][job[w].lang] = job[w].hash
     \/ /\ At(w, "missed") /\ Goto(w, "exhausted")
        /\ Row(job[w].id, job[w].lang) # NoRow
        /\ AllAttempted(Row(job[w].id, job[w].lang).attempted)
     \/ /\ pc[w] \in Label \ (Claimed \cup {"failed"})
        /\ \E to \in {"claim", "release", "end", "idle"} : Goto(w, to)

\* While it is at work a worker keeps its pair, and its hash but for RecordHash.
KeepsJob(w) ==
  pc'[w] # "idle" =>
    /\ job'[w].id = job[w].id /\ job'[w].lang = job[w].lang /\ job'[w].path = job[w].path
    /\ job'[w].provider = job[w].provider /\ job'[w].force = job[w].force
    /\ pc[w] # "record" => job'[w].hash = job[w].hash

\* The steps of a worker's goroutine, as its pair sees them.
LEMMA WorkerTable ==
  ASSUME TypeOK, NEW w \in Worker, Goroutine(w) \/ Suspend(w)
  PROVE  /\ pc[w] # "idle"
         /\ PairWrite(w) \/ PairQuiet(w)
         /\ KeepsJob(w)
         /\ \A v \in Worker : v # w => pc'[v] = pc[v] /\ job'[v] = job[v]
         /\ ctxDone' = ctxDone
         /\ pc[w] # "record" => UNCHANGED files
<1> USE DEF At
<1> DEFINE i == job[w].id
           l == job[w].lang
           h == job[w].hash
<1>1. PipelineTypeOK /\ StoreTypeOK
  BY DEF TypeOK, DispatcherTypeOK, PipelineTypeOK
<1>2. pc[w] # "idle"
  BY DEF Goroutine, GoroutineStep, Suspend, WorkerSuspends, FetchSuspended, WorkerStep, Gate,
         GateError, SkipFetch, Claim, FetchFailed, FetchMiss, FetchOk, StripError, StripEmbedded,
         RenameOver, Rehash, RecordHash, Swap, SwapError, Finish, Abort, ReturnFailed,
         CheckExhausted, MarkNoCandidate, ReleaseSlot, EndPair
<1>3. i \in Id /\ l \in Lang /\ h \in Hash /\ job[w].provider \in Provider /\ job[w] \in Job
  BY <1>1, <1>2, ActiveJob
<1>4. /\ MarkInProgress(i, l) => Writes(i, l, "in_progress", "none")
      /\ RequeueInProgress(i, l) =>
           \/ Writes(i, l, "pending", "none")
           \/ UNCHANGED storeVars /\ ~Is(i, l, "in_progress")
      /\ MarkSynced(i, h, l) => Writes(i, l, "synced", "none")
      /\ ResetLanguageToPending(i, h, l) => Writes(i, l, "pending", "none")
      /\ \A why \in FailureReason : MarkFailed(i, h, l, why) => Writes(i, l, "failed", why)
      /\ RecordProviderMiss(i, h, l, job[w].provider) => Writes(i, l, "pending", "none")
  BY <1>1, <1>3, CallWrites
<1>5. \A label : Goto(w, label) => pc'[w] = label /\ \A v \in Worker : v # w => pc'[v] = pc[v]
  BY <1>1 DEF Goto, PipelineTypeOK
<1>6. \E label : Goto(w, label)
  BY DEF Goroutine, GoroutineStep, Suspend, WorkerSuspends, FetchSuspended, WorkerStep, Gate,
         GateError, SkipFetch, Claim, FetchFailed, FetchMiss, FetchOk, StripError, StripEmbedded,
         RenameOver, Rehash, RecordHash, Swap, SwapError, Finish, Abort, ReturnFailed,
         CheckExhausted, MarkNoCandidate, ReleaseSlot, EndPair, Settle, Local
<1>7. PairWrite(w) \/ PairQuiet(w)
  <2>1. CASE Gate(w) \/ GateError(w)
    BY <2>1 DEF Gate, GateError, Local, PairQuiet, storeVars, Label, Unclaimed, Claimed
  <2>2. CASE SkipFetch(w) \/ MarkNoCandidate(w)
    BY <1>4, <2>2 DEF SkipFetch, MarkNoCandidate, Settle, PairWrite, Wrote, PairQuiet, storeVars,
                      Label, Unclaimed, Claimed, Returned, FailureReason
  <2>3. CASE Claim(w)
    BY <1>3, <1>4, <2>3 DEF Claim, PairWrite, Wrote, PairQuiet, storeVars, Label, Unclaimed, Claimed,
                            MarkInProgress, Is, Row
  <2>4. CASE FetchFailed(w)
    BY <1>4, <2>4 DEF FetchFailed, Settle, Lands, PairWrite, Wrote, PairQuiet, storeVars, Claimed
  <2>5. CASE FetchMiss(w) \/ FetchSuspended(w)
    BY <1>4, <2>5 DEF FetchMiss, FetchSuspended, Settle, Lands, PairWrite, Wrote, PairQuiet,
                      storeVars, Claimed
  <2>6. CASE FetchOk(w) \/ StripError(w) \/ StripEmbedded(w) \/ RenameOver(w) \/ Rehash(w)
    BY <2>6 DEF FetchOk, StripError, StripEmbedded, RenameOver, Rehash, Local, PairQuiet, storeVars,
                Claimed
  <2>7. CASE RecordHash(w)
    BY <2>7 DEF RecordHash, UpdateContentHash, PairQuiet, storeVars, Claimed, Fenced
  <2>8. CASE Swap(w) \/ SwapError(w)
    BY <2>8 DEF Swap, SwapError, PairQuiet, storeVars, Claimed
  <2>9. CASE Finish(w) \/ Abort(w)
    BY <1>4, <2>9 DEF Finish, Abort, Settle, Lands, PairWrite, Wrote, PairQuiet, storeVars, Claimed,
                      FailureReason
  <2>10. CASE ReturnFailed(w)
    BY <1>4, <2>10 DEF ReturnFailed, RequeueInProgress, Is, Row, PairWrite, Wrote, PairQuiet, storeVars
  <2>11. CASE CheckExhausted(w) \/ ReleaseSlot(w) \/ EndPair(w)
    BY <2>11 DEF CheckExhausted, ReleaseSlot, EndPair, PairQuiet, storeVars, Row, Label, Returned,
                 Claimed, Unclaimed
  <2> QED
    BY <2>1, <2>2, <2>3, <2>4, <2>5, <2>6, <2>7, <2>8, <2>9, <2>10, <2>11
       DEF Goroutine, GoroutineStep, WorkerStep, Suspend, WorkerSuspends
<1>8. KeepsJob(w) /\ \A v \in Worker : v # w => job'[v] = job[v]
  <2>1. CASE job' = job
    BY <2>1 DEF KeepsJob
  <2>2. ASSUME NEW x, job' = [job EXCEPT ![w].fixed = x]
        PROVE  KeepsJob(w) /\ \A v \in Worker : v # w => job'[v] = job[v]
    BY <1>1, <1>3, <2>2 DEF KeepsJob, PipelineTypeOK, Job
  <2>3. ASSUME pc[w] = "record", NEW x, job' = [job EXCEPT ![w].hash = x]
        PROVE  KeepsJob(w) /\ \A v \in Worker : v # w => job'[v] = job[v]
    BY <1>1, <1>3, <2>3 DEF KeepsJob, PipelineTypeOK, Job
  <2>4. CASE EndPair(w)
    BY <1>1, <1>5, <2>4 DEF EndPair, KeepsJob, PipelineTypeOK
  <2> QED
    BY <2>1, <2>2, <2>3, <2>4
       DEF Goroutine, GoroutineStep, Suspend, WorkerSuspends, FetchSuspended, WorkerStep, Gate,
           GateError, SkipFetch, Claim, FetchFailed, FetchMiss, FetchOk, StripError, StripEmbedded,
           RenameOver, Rehash, RecordHash, Swap, SwapError, Finish, Abort, ReturnFailed,
           CheckExhausted, MarkNoCandidate, ReleaseSlot, Settle, Local
<1>9. ctxDone' = ctxDone
  BY DEF Goroutine, GoroutineStep, Suspend, WorkerSuspends, FetchSuspended, WorkerStep, Gate,
         GateError, SkipFetch, Claim, FetchFailed, FetchMiss, FetchOk, StripError, StripEmbedded,
         RenameOver, Rehash, RecordHash, Swap, SwapError, Finish, Abort, ReturnFailed,
         CheckExhausted, MarkNoCandidate, ReleaseSlot, EndPair, Settle, Local
<1>10. pc[w] # "record" => UNCHANGED files
  BY DEF Goroutine, GoroutineStep, Suspend, WorkerSuspends, FetchSuspended, WorkerStep, Gate,
         GateError, SkipFetch, Claim, FetchFailed, FetchMiss, FetchOk, StripError, StripEmbedded,
         RenameOver, Rehash, RecordHash, Swap, SwapError, Finish, Abort, ReturnFailed,
         CheckExhausted, MarkNoCandidate, ReleaseSlot, EndPair, Settle, Local, storeVars,
         MarkSynced, MarkInProgress, MarkFailed, RecordProviderMiss, ResetLanguageToPending,
         RequeueInProgress
<1> QED
  BY <1>2, <1>5, <1>6, <1>7, <1>8, <1>9, <1>10

\* No method the Triggers call, and no restart, finishes or claims a pair.
LEMMA ResetCalls ==
  ASSUME StoreTypeOK, CycleFlags
  PROVE  /\ UNCHANGED states => RowsReset
         /\ \A i \in Id, l \in Lang : EnsureLanguage(i, l) => RowsReset
         /\ \A v \in Path, h \in Hash, i \in Id :
              ObserveNew(v, h, i) \/ ObserveChanged(v, h, i) \/ ObserveUnchanged(v, h, i) => RowsReset
         /\ \A v \in Path : DeleteFile(v) => RowsReset
         /\ \A i \in Id : ResetToPendingForced(i) => RowsReset
         /\ RecoverInProgress => RowsReset
<1> USE DEF RowsReset, Row
<1>1. UNCHANGED states => RowsReset
  OBVIOUS
<1>2. ASSUME NEW i \in Id, NEW r \in {NewRow, [NewRow EXCEPT !.force = TRUE]}, states' = AllReset(i, r)
      PROVE  RowsReset
  <2>1. r.status = "pending" /\ r.reason = "none"
    BY DEF NewRow
  <2> QED
    BY <1>2, <2>1 DEF StoreTypeOK, AllReset
<1>3. ASSUME NEW i \in Id, NEW l \in Lang, EnsureLanguage(i, l)
      PROVE  RowsReset
  BY <1>3 DEF EnsureLanguage, NewRow, StoreTypeOK
<1>4. ASSUME NEW v \in Path, NEW h \in Hash, NEW i \in Id,
             ObserveNew(v, h, i) \/ ObserveChanged(v, h, i) \/ ObserveUnchanged(v, h, i)
      PROVE  RowsReset
  BY <1>1, <1>2, <1>4 DEF ObserveNew, ObserveChanged, ObserveUnchanged, storeVars
<1>5. ASSUME NEW v \in Path, DeleteFile(v)
      PROVE  RowsReset
  BY <1>5 DEF DeleteFile, NoRows, StoreTypeOK
<1>6. ASSUME NEW i \in Id, ResetToPendingForced(i)
      PROVE  RowsReset
  BY <1>2, <1>6 DEF ResetToPendingForced
<1>7. ASSUME RecoverInProgress, NEW i \in Id, NEW l \in Lang
      PROVE  \/ states'[i][l] = states[i][l]
             \/ states'[i][l].status = "pending" /\ states'[i][l].reason # "no_candidate"
  <2>1. CASE states[i][l] # NoRow /\ states[i][l].status = "in_progress"
    <3>1. states[i][l] \in LangRow /\ states[i][l].reason = "none"
      BY <2>1 DEF StoreTypeOK, CycleFlags
    <3>2. states'[i][l] = [states[i][l] EXCEPT !.status = "pending"]
      BY <1>7, <2>1 DEF RecoverInProgress
    <3> QED
      BY <3>1, <3>2 DEF LangRow
  <2>2. CASE ~(states[i][l] # NoRow /\ states[i][l].status = "in_progress")
    BY <1>7, <2>2 DEF RecoverInProgress
  <2> QED
    BY <2>1, <2>2
<1> QED
  BY <1>1, <1>3, <1>4, <1>5, <1>6, <1>7

\* The daemon's steps other than the workers'.
NonWorkerStep ==
  \/ Pass
  \/ \E r \in Registrar : Register(r)
  \/ \E p \in Path : FireChanged(p) \/ FireRemoved(p)
  \/ \E p \in Provider : Resumed(p)
  \/ Outside \/ Start \/ Shutdown \/ Exit \/ Crash

\* They only reset rows, and a worker stays as it is unless it is started or all
\* of them are stopped.
LEMMA NonWorkerRows ==
  ASSUME TypeOK, CycleFlags, NonWorkerStep
  PROVE  /\ RowsReset
         /\ \/ UNCHANGED workVars /\ (ctxDone' = ctxDone \/ ctxDone')
            \/ (\A w \in Worker : pc'[w] = "idle") /\ down'
            \/ UNCHANGED <<storeVars, diskVars, ctxDone, down>> /\ \E w \in Worker, pair \in snap : StartWorker(w, pair)
<1>1. StoreTypeOK /\ PipelineTypeOK
  BY DEF TypeOK, DispatcherTypeOK, PipelineTypeOK
<1>2. CASE Pass
  <2>1. UNCHANGED storeVars /\ UNCHANGED <<diskVars, ctxDone, down>>
    BY <1>2 DEF Pass, PassBegin, PassStop, PassSkip, StartWorker, pipelineVars, daemonVars
  <2>2. UNCHANGED workVars \/ \E w \in Worker, pair \in snap : StartWorker(w, pair)
    BY <1>2 DEF Pass, PassBegin, PassStop, PassSkip, pipelineVars
  <2> QED
    BY <1>1, <2>1, <2>2, ResetCalls DEF storeVars
<1>3. ASSUME NEW r \in Registrar, Register(r)
      PROVE  RowsReset /\ UNCHANGED workVars /\ ctxDone' = ctxDone
  <2>1. UNCHANGED workVars /\ ctxDone' = ctxDone
    BY <1>3 DEF Register, RegisterStep, RegisterObserve, RegisterForce, RegisterEnsure, RegisterError
  <2>2. reg[r] \in Registration \/ regPc[r] = "idle"
    BY <1>1 DEF PipelineTypeOK
  <2>3. /\ regPc[r] # "idle" => reg[r].path \in Path /\ reg[r].hash \in Hash /\ reg[r].todo \subseteq Lang
        /\ regPc[r] \in {"force", "ensure"} => reg[r].id \in Id
    BY <1>1, <2>2 DEF PipelineTypeOK, Registration
  <2>4. CASE RegisterObserve(r)
    <3>1. PICK i \in Id : LET g == [reg[r] EXCEPT !.id = i]
                          IN  \/ ObserveNew(g.path, g.hash, i) \/ ObserveChanged(g.path, g.hash, i)
                              \/ ObserveUnchanged(g.path, g.hash, i)
      BY <2>4 DEF RegisterObserve
    <3>2. /\ [reg[r] EXCEPT !.id = i].path = reg[r].path
          /\ [reg[r] EXCEPT !.id = i].hash = reg[r].hash
      BY <2>2, <2>4 DEF RegisterObserve, Registration
    <3> QED
      BY <1>1, <2>1, <2>3, <2>4, <3>1, <3>2, ResetCalls DEF RegisterObserve
  <2>5. CASE RegisterForce(r) \/ RegisterEnsure(r) \/ RegisterError(r)
    BY <1>1, <2>1, <2>3, <2>5, ResetCalls DEF RegisterForce, RegisterEnsure, RegisterError, storeVars
  <2> QED
    BY <1>3, <2>4, <2>5 DEF Register, RegisterStep
<1>4. ASSUME NEW p \in Path, FireChanged(p) \/ FireRemoved(p) \/ Reprocess(p) \/ Edit(p) \/ Delete(p)
      PROVE  RowsReset /\ UNCHANGED workVars /\ ctxDone' = ctxDone
  BY <1>1, <1>4, ResetCalls DEF FireChanged, FireRemoved, Reprocess, Edit, Delete, DiskUnchangedBut, storeVars
<1>5. ASSUME NEW p \in Path, NEW q \in Path, Rename(p, q)
      PROVE  RowsReset /\ UNCHANGED workVars /\ ctxDone' = ctxDone
  BY <1>1, <1>5, ResetCalls DEF Rename, DiskUnchangedBut, storeVars
<1>6. ASSUME NEW p \in Provider, Resumed(p)
      PROVE  RowsReset /\ UNCHANGED workVars /\ ctxDone' = ctxDone
  BY <1>1, <1>6, ResetCalls DEF Resumed, Resume, pipelineVars, storeVars
<1>7. CASE Start \/ Shutdown
  BY <1>1, <1>7, ResetCalls DEF Start, Shutdown, storeVars
<1>8. CASE Exit \/ Crash
  BY <1>1, <1>8, ResetCalls DEF Exit, Crash, Volatile, storeVars
<1> QED
  BY <1>2, <1>3, <1>4, <1>5, <1>6, <1>7, <1>8 DEF NonWorkerStep, Outside

-----------------------------------------------------------------------------
(* Every pair that is In Progress has its worker. *)

\* No claimed pair's file has come to other content under its worker: the fence
\* of the worker's writes holds for as long as the file is tracked.
ClaimsCurrent ==
  \A w \in Worker :
    pc[w] \in Claimed /\ files[job[w].id] # NoFile => files[job[w].id].hash = job[w].hash

\* A worker that has failed has written its failure, unless it was interrupted.
FailuresWritten ==
  \A w \in Worker : At(w, "failed") /\ ~ctxDone => ~Is(job[w].id, job[w].lang, "in_progress")

\* A worker's step keeps every In Progress pair in somebody's hands.
LEMMA WorkerKeepsOwned ==
  ASSUME TypeOK, Held, RowIntegrity, ClaimsCurrent, InProgressOwned, FailuresWritten,
         NEW w \in Worker, Goroutine(w) \/ Suspend(w)
  PROVE  InProgressOwned' /\ FailuresWritten'
<1> USE DEF At
<1>1. PipelineTypeOK /\ StoreTypeOK /\ ExclusivePairs
  BY DEF TypeOK, DispatcherTypeOK, PipelineTypeOK, Held, HeldPairs
<1>2. /\ pc[w] # "idle"
      /\ PairWrite(w) \/ PairQuiet(w)
      /\ KeepsJob(w)
      /\ \A v \in Worker : v # w => pc'[v] = pc[v] /\ job'[v] = job[v]
      /\ ctxDone' = ctxDone
  BY WorkerTable
<1>3. down' = down
  BY DEF Goroutine, Suspend, daemonVars
<1>4. \A v \in Worker : pc[v] # "idle" => job[v].id \in Id /\ job[v].lang \in Lang
  BY <1>1, ActiveJob
<1>5. PICK i \in Id : i = job[w].id
  BY <1>2, <1>4
<1>6. PICK l \in Lang : l = job[w].lang
  BY <1>2, <1>4
<1>7. \A label : Goto(w, label) => pc'[w] = label
  BY <1>1 DEF Goto, PipelineTypeOK
<1>8. \A v \in Worker : v # w /\ pc[v] # "idle" => <<job[v].id, job[v].lang>> # <<i, l>>
  BY <1>1, <1>2, <1>5, <1>6 DEF ExclusivePairs, Active, Key
<1>9. ASSUME NEW s, NEW why, NEW from, NEW to, Wrote(w, from, s, why, to)
      PROVE  /\ pc'[w] = to
             /\ s # "in_progress" => ~Is(i, l, "in_progress")'
             /\ \A j \in Id, m \in Lang : <<j, m>> # <<i, l>> => Row(j, m)' = Row(j, m)
  BY <1>1, <1>5, <1>6, <1>7, <1>9, WrittenRow DEF Wrote, Is
<1>10. \A j \in Id, m \in Lang : <<j, m>> # <<i, l>> => Row(j, m)' = Row(j, m)
  BY <1>2, <1>9 DEF PairWrite, PairQuiet, Row
<1>11. /\ ~down /\ Is(i, l, "in_progress")' => pc'[w] \in Claimed \cup {"failed"}
       /\ pc'[w] = "failed" /\ ~ctxDone => ~Is(i, l, "in_progress")'
  <2>1. CASE PairWrite(w)
    BY <1>9, <2>1 DEF PairWrite, Claimed
  <2>2. CASE PairQuiet(w)
    <3>1. Is(i, l, "in_progress")' <=> Is(i, l, "in_progress")
      BY <2>2 DEF PairQuiet, Is, Row
    <3>2. pc[w] \in Claimed /\ ~Fenced(i, job[w].hash, l) => ~Is(i, l, "in_progress")
      BY <1>5 DEF ClaimsCurrent, Fenced, HashFence, RowIntegrity, Is, Row
    <3>3. ~down /\ Is(i, l, "in_progress") => pc[w] \in Claimed \cup {"failed"}
      BY <1>8 DEF InProgressOwned, Holds, Active, Key
    <3>4. pc[w] = "failed" /\ ~ctxDone => ~Is(i, l, "in_progress")
      BY <1>5, <1>6 DEF FailuresWritten
    <3> QED
      BY <1>5, <1>6, <1>7, <2>2, <3>1, <3>2, <3>3, <3>4 DEF PairQuiet, Claimed
  <2> QED
    BY <1>2, <2>1, <2>2
<1>12. pc'[w] # "idle" => job'[w].id = i /\ job'[w].lang = l
  BY <1>2, <1>5, <1>6 DEF KeepsJob
<1>13. InProgressOwned'
  <2> SUFFICES ASSUME ~down, NEW j \in Id, NEW m \in Lang, Is(j, m, "in_progress")'
               PROVE  \E v \in Worker : Holds(v, j, m)' /\ pc'[v] \in Claimed \cup {"failed"}
    BY <1>3 DEF InProgressOwned
  <2>1. CASE <<j, m>> = <<i, l>>
    BY <1>11, <1>12, <2>1 DEF Holds, Active, Key, Claimed
  <2>2. CASE <<j, m>> # <<i, l>>
    <3>1. Is(j, m, "in_progress")
      BY <1>10, <2>2 DEF Is
    <3>2. PICK v \in Worker : Holds(v, j, m) /\ pc[v] \in Claimed \cup {"failed"}
      BY <3>1 DEF InProgressOwned
    <3>3. v # w
      BY <1>5, <1>6, <2>2, <3>2 DEF Holds, Key
    <3> QED
      BY <1>2, <3>2, <3>3 DEF Holds, Active, Key
  <2> QED
    BY <2>1, <2>2
<1>14. FailuresWritten'
  <2> SUFFICES ASSUME NEW v \in Worker, pc'[v] = "failed", ~ctxDone
               PROVE  ~Is(job[v].id, job[v].lang, "in_progress")'
    BY <1>2 DEF FailuresWritten
  <2>1. CASE v = w
    BY <1>11, <1>12, <2>1 DEF Is, Row
  <2>2. CASE v # w
    <3>1. pc[v] = "failed" /\ job'[v] = job[v] /\ ~Is(job[v].id, job[v].lang, "in_progress")
      BY <1>2, <2>2 DEF FailuresWritten
    <3> QED
      BY <1>4, <1>8, <1>10, <2>2, <3>1 DEF Is, Row
  <2> QED
    BY <2>1, <2>2
<1> QED
  BY <1>13, <1>14

\* The other steps claim nothing, and stop the workers only with the daemon.
LEMMA OthersKeepOwned ==
  ASSUME TypeOK, CycleFlags, InProgressOwned, FailuresWritten, NonWorkerStep
  PROVE  InProgressOwned' /\ FailuresWritten'
<1> USE DEF At
<1>1. PipelineTypeOK
  BY DEF TypeOK, DispatcherTypeOK
<1>2. RowsReset
  BY NonWorkerRows
<1>3. \A j \in Id, m \in Lang : Is(j, m, "in_progress")' => Is(j, m, "in_progress")
  BY <1>2 DEF RowsReset, Is
<1>4. \A v \in Worker : pc[v] # "idle" => job[v].id \in Id /\ job[v].lang \in Lang
  BY <1>1, ActiveJob
<1>5. CASE Start
  <2>1. \A j \in Id, m \in Lang : ~Is(j, m, "in_progress")'
    BY <1>1, <1>5 DEF Start, RecoverInProgress, Is, Row, PipelineTypeOK, StoreTypeOK, LangRow
  <2> QED
    BY <1>4, <1>5, <2>1 DEF Start, workVars, InProgressOwned, FailuresWritten, Is, Row
<1>6. CASE UNCHANGED workVars /\ (ctxDone' = ctxDone \/ ctxDone') /\ ~Start
  <2>1. down' = down \/ down'
    BY <1>6 DEF NonWorkerStep, Pass, Register, FireChanged, FireRemoved, Resumed, Outside, Edit,
                Delete, Rename, Reprocess, Shutdown, Exit, Crash, Volatile, daemonVars, DiskUnchangedBut
  <2>2. InProgressOwned'
    BY <1>3, <1>6, <2>1 DEF InProgressOwned, Holds, Active, Key, workVars
  <2>3. FailuresWritten'
    <3> SUFFICES ASSUME NEW v \in Worker, pc[v] = "failed", ~ctxDone
                 PROVE  ~Is(job[v].id, job[v].lang, "in_progress")'
      BY <1>6 DEF FailuresWritten, workVars
    <3>1. PICK j \in Id : j = job[v].id
      BY <1>4
    <3>2. PICK m \in Lang : m = job[v].lang
      BY <1>4
    <3>3. ~Is(j, m, "in_progress")'
      BY <1>3, <3>1, <3>2 DEF FailuresWritten
    <3> QED
      BY <1>6, <3>1, <3>2, <3>3 DEF Is, Row, workVars
  <2> QED
    BY <2>2, <2>3
<1>7. CASE (\A w \in Worker : pc'[w] = "idle") /\ down'
  BY <1>7 DEF InProgressOwned, FailuresWritten
<1>8. ASSUME NEW w \in Worker, NEW pair \in snap, StartWorker(w, pair),
             UNCHANGED <<storeVars, diskVars, ctxDone, down>>
      PROVE  InProgressOwned' /\ FailuresWritten'
  <2>1. \A v \in Worker : /\ v # w => pc'[v] = pc[v] /\ job'[v] = job[v]
                          /\ v = w => pc[v] = "idle" /\ pc'[v] = "gate"
    BY <1>1, <1>8 DEF StartWorker, Goto, Place, PipelineTypeOK
  <2>2. \A j \in Id, m \in Lang : Is(j, m, "in_progress")' <=> Is(j, m, "in_progress")
    BY <1>8 DEF Is, Row, storeVars
  <2>3. InProgressOwned'
    <3> SUFFICES ASSUME ~down, NEW j \in Id, NEW m \in Lang, Is(j, m, "in_progress")
                 PROVE  \E v \in Worker : Holds(v, j, m)' /\ pc'[v] \in Claimed \cup {"failed"}
      BY <1>8, <2>2 DEF InProgressOwned
    <3>1. PICK v \in Worker : Holds(v, j, m) /\ pc[v] \in Claimed \cup {"failed"}
      BY DEF InProgressOwned
    <3> QED
      BY <2>1, <3>1 DEF Holds, Active, Key
  <2>4. FailuresWritten'
    BY <1>8, <2>1 DEF FailuresWritten, Is, Row, storeVars
  <2> QED
    BY <2>3, <2>4
<1> QED
  BY <1>5, <1>6, <1>7, <1>8, NonWorkerRows

\* A pair is In Progress only while its worker has it: a claim is never left
\* behind, by no failure, interruption, crash or restart, unless the file's
\* content changed under a worker that had claimed it.
THEOREM ClaimsOwned == Spec /\ []ClaimsCurrent => []InProgressOwned
<1> DEFINE Known == TypeOK /\ Held /\ RowIntegrity /\ CycleFlags
           Owned == InProgressOwned /\ FailuresWritten
<1>1. Init => Owned
  BY DEF Init, DispatcherInit, PipelineInit, InProgressOwned, FailuresWritten, At
<1>2. Known /\ ClaimsCurrent /\ Owned /\ [Next]_vars => Owned'
  <2> SUFFICES ASSUME Known, ClaimsCurrent, Owned, [Next]_vars
               PROVE  Owned'
    OBVIOUS
  <2>1. CASE \E w \in Worker : Goroutine(w) \/ Suspend(w)
    BY <2>1, WorkerKeepsOwned
  <2>2. CASE NonWorkerStep
    BY <2>2, OthersKeepOwned
  <2>3. CASE UNCHANGED vars
    BY <2>3 DEF vars, pipelineVars, workVars, storeVars, daemonVars, InProgressOwned, FailuresWritten,
                Is, Row, Holds, Active, Key, At
  <2> QED
    BY <2>1, <2>2, <2>3 DEF Next, NonWorkerStep
<1> HIDE DEF Owned
<1>3. Spec => []Known
  BY DaemonInvariant, DaemonRowsConsistent, DaemonFlags, PTL
<1>4. Owned => InProgressOwned
  BY DEF Owned
<1> QED
  BY <1>1, <1>2, <1>3, <1>4, PTL DEF Spec

\* In a Library where every video has the same content no fence is ever stale.
THEOREM OneContentOwned ==
  ASSUME \A g, h \in Hash : g = h
  PROVE  Spec => []InProgressOwned
<1>1. TypeOK => ClaimsCurrent
  <2> SUFFICES ASSUME TypeOK, NEW w \in Worker, pc[w] \in Claimed, files[job[w].id] # NoFile
               PROVE  files[job[w].id].hash = job[w].hash
    BY DEF ClaimsCurrent
  <2>1. PipelineTypeOK /\ StoreTypeOK
    BY DEF TypeOK, DispatcherTypeOK, PipelineTypeOK
  <2>2. job[w].id \in Id /\ job[w].hash \in Hash
    BY <2>1, ActiveJob DEF Claimed
  <2>3. files[job[w].id].hash \in Hash
    BY <2>1, <2>2 DEF StoreTypeOK, FileRow
  <2> QED
    BY <2>2, <2>3
<1> QED
  BY <1>1, ClaimsOwned, TypeCorrect, PTL

-----------------------------------------------------------------------------
(* A Library from which nothing is removed. *)

\* Then every row, snapshot, registration and job is about a video that is there,
\* and names the row the video has had since it was found.
Rooted ==
  /\ budget["remove"] = 0 /\ gone = {}
  /\ \A i \in Id : files[i] # NoFile => disk[files[i].path] # Absent
  /\ \A r \in Registrar : regPc[r] # "idle" => disk[reg[r].path] # Absent
  /\ \A w \in Worker : Active(w) => IsRowOf(job[w].id, job[w].path)
  /\ \A x \in snap : IsRowOf(x.id, x.path)

\* What a worker's step does to everything that is shared but the rows.
LEMMA WorkerShared ==
  ASSUME TypeOK, NEW w \in Worker, Goroutine(w) \/ Suspend(w)
  PROVE  /\ \/ disk' = disk
            \/ At(w, "rename") /\ disk' = [disk EXCEPT ![job[w].path] = job[w].fixed]
         /\ sidecar' = sidecar \/ (At(w, "swap") /\ sidecar' \in {Written(w), Swapped(w)})
         /\ \/ UNCHANGED files /\ (pc'[w] # "idle" => job'[w].hash = job[w].hash)
            \/ /\ At(w, "record") /\ HashFence(job[w].id, job[w].hash) /\ files[job[w].id] # NoFile
               /\ files' = [files EXCEPT ![job[w].id].hash = job[w].fixed]
               /\ job'[w].hash = job[w].fixed
         /\ UNCHANGED <<regVars, snap, gone, down>>
         /\ \A e \in Event : e # "suspend" => budget'[e] = budget[e]
<1> USE DEF At
<1>1. PipelineTypeOK
  BY DEF TypeOK, DispatcherTypeOK
<1>2. UNCHANGED <<regVars, snap, gone, down>>
  BY DEF Goroutine, GoroutineStep, Suspend, WorkerSuspends, FetchSuspended, WorkerStep, Gate,
         GateError, SkipFetch, Claim, FetchFailed, FetchMiss, FetchOk, StripError, StripEmbedded,
         RenameOver, Rehash, RecordHash, Swap, SwapError, Finish, Abort, ReturnFailed,
         CheckExhausted, MarkNoCandidate, ReleaseSlot, EndPair, Settle, Local, dispatchVars, daemonVars
<1>3. \A e \in Event : e # "suspend" => budget'[e] = budget[e]
  BY DEF Goroutine, Suspend, Spend, daemonVars, TypeOK
<1>4. \/ disk' = disk
      \/ At(w, "rename") /\ disk' = [disk EXCEPT ![job[w].path] = job[w].fixed]
  BY DEF Goroutine, GoroutineStep, Suspend, WorkerSuspends, FetchSuspended, WorkerStep, Gate,
         GateError, SkipFetch, Claim, FetchFailed, FetchMiss, FetchOk, StripError, StripEmbedded,
         RenameOver, Rehash, RecordHash, Swap, SwapError, Finish, Abort, ReturnFailed,
         CheckExhausted, MarkNoCandidate, ReleaseSlot, EndPair, Settle, Local, diskVars
<1>5. sidecar' = sidecar \/ (At(w, "swap") /\ sidecar' \in {Written(w), Swapped(w)})
  BY DEF Goroutine, GoroutineStep, Suspend, WorkerSuspends, FetchSuspended, WorkerStep, Gate,
         GateError, SkipFetch, Claim, FetchFailed, FetchMiss, FetchOk, StripError, StripEmbedded,
         RenameOver, Rehash, RecordHash, Swap, SwapError, Finish, Abort, ReturnFailed,
         CheckExhausted, MarkNoCandidate, ReleaseSlot, EndPair, Settle, Local, diskVars
<1>6. \/ UNCHANGED files /\ (pc'[w] # "idle" => job'[w].hash = job[w].hash)
      \/ /\ At(w, "record") /\ HashFence(job[w].id, job[w].hash) /\ files[job[w].id] # NoFile
         /\ files' = [files EXCEPT ![job[w].id].hash = job[w].fixed]
         /\ job'[w].hash = job[w].fixed
  <2>1. CASE pc[w] # "record"
    BY <2>1, WorkerTable DEF KeepsJob
  <2>2. CASE pc[w] = "record"
    <3>1. RecordHash(w)
      BY <2>2 DEF Goroutine, GoroutineStep, Suspend, WorkerSuspends, FetchSuspended, WorkerStep, Gate,
         GateError, SkipFetch, Claim, FetchFailed, FetchMiss, FetchOk, StripError, StripEmbedded,
         RenameOver, Rehash, RecordHash, Swap, SwapError, Finish, Abort, ReturnFailed,
         CheckExhausted, MarkNoCandidate, ReleaseSlot, EndPair
    <3>2. job[w] \in Job
      BY <1>1, <2>2, ActiveJob
    <3>3. job' = [job EXCEPT ![w].hash = job[w].fixed] => job'[w].hash = job[w].fixed
      BY <1>1, <3>2 DEF PipelineTypeOK, Job
    <3> QED
      BY <2>2, <3>1, <3>3 DEF RecordHash, UpdateContentHash, HashFence, storeVars
  <2> QED
    BY <2>1, <2>2
<1> QED
  BY <1>2, <1>3, <1>4, <1>5, <1>6

\* A pass takes into its snapshot what the tables say of a pair, and nothing later.
LEMMA SnapshotIs ==
  ASSUME Pass
  PROVE  \A x \in snap' : x \in snap \/ (x.id \in Id /\ files[x.id] # NoFile
                                         /\ x.path = files[x.id].path /\ x.hash = files[x.id].hash)
<1>1. CASE PassBegin
  <2>1. \A q \in PendingPairs : q[1] \in Id /\ files[q[1]] # NoFile
    BY DEF PendingPairs
  <2> QED
    BY <1>1, <2>1 DEF PassBegin
<1>2. CASE ~PassBegin
  BY <1>2 DEF Pass, PassStop, PassSkip, StartWorker
<1> QED
  BY <1>1, <1>2

\* Rows and videos stay where they are.
RowsStay == \A i \in Id : files[i] # NoFile => files'[i] # NoFile /\ files'[i].path = files[i].path
VideosStay == \A p \in Path : disk[p] # Absent => disk'[p] # Absent

\* If the rows and videos stay, and what is new is about them, all of it is rooted.
LEMMA RootedFrame ==
  ASSUME TypeOK, Rooted, RowsStay, VideosStay, budget'["remove"] = budget["remove"], gone' = {},
         \A i \in Id : files[i] = NoFile /\ files'[i] # NoFile => disk'[files'[i].path] # Absent,
         \A r \in Registrar : regPc'[r] # "idle" =>
           \/ regPc[r] # "idle" /\ reg'[r].path = reg[r].path
           \/ \E p \in Path : disk'[p] # Absent /\ reg'[r].path = p,
         \A w \in Worker : Active(w)' =>
           \/ Active(w) /\ job'[w].id = job[w].id /\ job'[w].path = job[w].path
           \/ \E x \in snap : job'[w].id = x.id /\ job'[w].path = x.path,
         \A x \in snap' : x \in snap \/ (x.id \in Id /\ IsRowOf(x.id, x.path))
  PROVE  Rooted'
<1>1. PipelineTypeOK /\ StoreTypeOK /\ snap \subseteq PendingPair
  BY DEF TypeOK, DispatcherTypeOK, PipelineTypeOK
<1>2. \A i \in Id : files[i] # NoFile => files[i].path \in Path
  BY <1>1 DEF StoreTypeOK, FileRow
<1>3. \A i \in Id : \A q : IsRowOf(i, q) => IsRowOf(i, q)'
  BY DEF RowsStay, IsRowOf
<1>4. \A i \in Id : files'[i] # NoFile => disk'[files'[i].path] # Absent
  BY <1>2 DEF Rooted, RowsStay, VideosStay
<1>5. \A r \in Registrar : regPc'[r] # "idle" => disk'[reg'[r].path] # Absent
  <2>1. \A r \in Registrar : regPc[r] # "idle" => reg[r].path \in Path
    BY <1>1 DEF PipelineTypeOK, Registration
  <2> QED
    BY <2>1 DEF Rooted, VideosStay
<1>6. \A x \in snap : x.id \in Id /\ IsRowOf(x.id, x.path)
  BY <1>1 DEF Rooted, PendingPair
<1>7. \A w \in Worker : Active(w) => job[w].id \in Id /\ IsRowOf(job[w].id, job[w].path)
  BY <1>1, ActiveJob DEF Rooted, Active, At
<1>8. \A w \in Worker : Active(w)' => IsRowOf(job[w].id, job[w].path)'
  BY <1>3, <1>6, <1>7 DEF IsRowOf
<1>9. \A x \in snap' : IsRowOf(x.id, x.path)'
  BY <1>3, <1>6
<1> QED
  BY <1>4, <1>5, <1>8, <1>9 DEF Rooted

\* Nothing is ever un-rooted while nothing may be removed.
LEMMA RootedStep ==
  ASSUME TypeOK, Rooted, [Next]_vars
  PROVE  Rooted'
<1>1. PipelineTypeOK /\ StoreTypeOK /\ snap \subseteq PendingPair /\ budget \in [Event -> Nat]
  BY DEF TypeOK, DispatcherTypeOK, PipelineTypeOK
<1>2. /\ "remove" \in Event /\ ~Spend("remove")
      /\ \A e \in Event : e # "remove" /\ Spend(e) => budget'["remove"] = budget["remove"]
  BY <1>1 DEF Event, Spend, Rooted
<1>3. \A i \in Id : files[i] # NoFile => files[i] \in FileRow
  BY <1>1 DEF StoreTypeOK
<1>4. ASSUME UNCHANGED files
      PROVE  RowsStay
  BY <1>4 DEF RowsStay
<1>5. ASSUME NEW i \in Id, NEW h \in Hash, files[i] # NoFile, files' = [files EXCEPT ![i].hash = h]
      PROVE  RowsStay /\ \A j \in Id : files'[j] # NoFile => files[j] # NoFile
  BY <1>1, <1>3, <1>5, StoreConstants DEF RowsStay, StoreTypeOK, FileRow
<1>6. ASSUME NEW w \in Worker, Goroutine(w) \/ Suspend(w)
      PROVE  Rooted'
  <2>1. job[w].id \in Id /\ job[w].fixed \in Hash /\ job[w].path \in Path
    BY <1>1, <1>6, WorkerTable, ActiveJob
  <2>2. RowsStay /\ \A j \in Id : files'[j] # NoFile => files[j] # NoFile
    BY <1>4, <1>5, <1>6, <2>1, WorkerShared
  <2>3. VideosStay
    <3>1. ASSUME disk' = [disk EXCEPT ![job[w].path] = job[w].fixed]
          PROVE  VideosStay
      BY <1>1, <2>1, <3>1, PipelineConstants DEF VideosStay, PipelineTypeOK
    <3> QED
      BY <1>6, <3>1, WorkerShared DEF VideosStay
  <2>4. \A v \in Worker : Active(v)' => Active(v) /\ job'[v].id = job[v].id /\ job'[v].path = job[v].path
    BY <1>6, WorkerTable DEF KeepsJob, Active, At
  <2>5. budget'["remove"] = budget["remove"] /\ gone' = gone /\ snap' = snap /\ UNCHANGED regVars
    BY <1>2, <1>6, WorkerShared
  <2> QED
    BY <2>2, <2>3, <2>4, <2>5, RootedFrame DEF regVars, Rooted
<1>7. CASE Pass
  <2>1. /\ UNCHANGED <<storeVars, diskVars, regVars, daemonVars>>
        /\ RowsStay /\ VideosStay
    BY <1>4, <1>7 DEF Pass, PassBegin, PassStop, PassSkip, StartWorker, pipelineVars, VideosStay,
                      diskVars, storeVars
  <2>2. CASE PassBegin
    <3>1. \A x \in snap' : x.id \in Id /\ IsRowOf(x.id, x.path)
      BY <2>2 DEF PassBegin, PendingPairs, IsRowOf
    <3> QED
      BY <2>1, <2>2, <3>1, RootedFrame
         DEF PassBegin, pipelineVars, workVars, regVars, daemonVars, Active, At, Rooted, storeVars, diskVars
  <2>3. CASE PassStop \/ \E x \in snap : PassSkip(x)
    <3>1. snap' \subseteq snap
      BY <2>3 DEF PassStop, PassSkip
    <3> QED
      BY <2>1, <2>3, <3>1, RootedFrame
         DEF PassStop, PassSkip, pipelineVars, workVars, regVars, daemonVars, Active, At, Rooted, storeVars, diskVars
  <2>4. ASSUME NEW x \in snap, NEW w \in Worker, StartWorker(w, x)
        PROVE  Rooted'
    <3>1. /\ \A v \in Worker : v # w => pc'[v] = pc[v] /\ job'[v] = job[v]
          /\ job'[w].id = x.id /\ job'[w].path = x.path
      BY <1>1, <2>4 DEF StartWorker, Goto, Place, PipelineTypeOK
    <3>2. snap' \subseteq snap
      BY <2>4 DEF StartWorker
    <3> QED
      BY <2>1, <2>4, <3>1, <3>2, RootedFrame
         DEF regVars, daemonVars, Active, At, Rooted, storeVars, diskVars
  <2> QED
    BY <1>7, <2>2, <2>3, <2>4 DEF Pass
<1>8. ASSUME NEW r \in Registrar, Register(r)
      PROVE  Rooted'
  <2>1. /\ UNCHANGED <<diskVars, ctxDone, workVars, dispatchVars, daemonVars>> /\ VideosStay
    BY <1>8 DEF Register, RegisterStep, RegisterObserve, RegisterForce, RegisterEnsure, RegisterError,
                VideosStay, diskVars
  <2>2. regPc[r] # "idle" /\ reg[r] \in Registration
    BY <1>1, <1>8 DEF Register, RegisterStep, RegisterObserve, RegisterForce, RegisterEnsure,
                      RegisterError, PipelineTypeOK
  <2>3. \A s \in Registrar : regPc'[s] # "idle" => regPc[s] # "idle" /\ reg'[s].path = reg[s].path
    <3>1. ASSUME NEW label, NEW g, RegGoto(r, label, g), label = "idle" \/ g.path = reg[r].path
          PROVE  \A s \in Registrar : regPc'[s] # "idle" => regPc[s] # "idle" /\ reg'[s].path = reg[s].path
      BY <1>1, <2>2, <3>1 DEF RegGoto, PipelineTypeOK
    <3>2. /\ \A i : [reg[r] EXCEPT !.id = i].path = reg[r].path
          /\ \A t : [reg[r] EXCEPT !.todo = t].path = reg[r].path
      BY <2>2 DEF Registration
    <3> QED
      BY <1>8, <3>1, <3>2 DEF Register, RegisterStep, RegisterObserve, RegisterForce, RegisterEnsure,
                              RegisterError
  <2>4. /\ RowsStay
        /\ \A i \in Id : files[i] = NoFile /\ files'[i] # NoFile => disk'[files'[i].path] # Absent
    <3>1. CASE RegisterObserve(r)
      <4>1. PICK i \in Id : LET g == [reg[r] EXCEPT !.id = i]
                            IN  \/ ObserveNew(g.path, g.hash, i) \/ ObserveChanged(g.path, g.hash, i)
                                \/ ObserveUnchanged(g.path, g.hash, i)
        BY <3>1 DEF RegisterObserve
      <4>2. /\ [reg[r] EXCEPT !.id = i].path = reg[r].path /\ reg[r].path \in Path
            /\ [reg[r] EXCEPT !.id = i].hash = reg[r].hash /\ reg[r].hash \in Hash
        BY <2>2 DEF Registration
      <4>3. CASE ObserveNew(reg[r].path, reg[r].hash, i)
        <5>1. /\ files' = [files EXCEPT ![i] = [path |-> reg[r].path, hash |-> reg[r].hash]]
              /\ files[i] = NoFile
          <6>1. i >= i
            BY DEF Id
          <6> QED
            BY <4>3, <6>1 DEF ObserveNew, IsNextId
        <5>2. disk'[reg[r].path] # Absent
          BY <2>1, <2>2 DEF Rooted, diskVars
        <5> QED
          BY <1>1, <5>1, <5>2 DEF RowsStay, StoreTypeOK
      <4>4. CASE ObserveChanged(reg[r].path, reg[r].hash, i)
        BY <1>5, <4>2, <4>4 DEF ObserveChanged, IsRowOf
      <4>5. CASE ObserveUnchanged(reg[r].path, reg[r].hash, i)
        BY <4>5 DEF ObserveUnchanged, RowsStay, storeVars
      <4> QED
        BY <4>1, <4>2, <4>3, <4>4, <4>5
    <3>2. CASE RegisterForce(r) \/ RegisterEnsure(r) \/ RegisterError(r)
      BY <3>2 DEF RegisterForce, RegisterEnsure, RegisterError, ResetToPendingForced, EnsureLanguage,
                  RowsStay, storeVars
    <3> QED
      BY <1>8, <3>1, <3>2 DEF Register, RegisterStep
  <2> QED
    BY <2>1, <2>3, <2>4, RootedFrame DEF workVars, dispatchVars, daemonVars, Active, At, Rooted
<1>9. ASSUME NEW p \in Path, FireChanged(p) \/ Reprocess(p)
      PROVE  Rooted'
  <2>1. /\ UNCHANGED <<storeVars, disk, workVars, snap, gone>>
        /\ RowsStay /\ VideosStay
    BY <1>9 DEF FireChanged, Reprocess, diskVars, dispatchVars, daemonVars, storeVars, RowsStay, VideosStay
  <2>2. budget'["remove"] = budget["remove"]
    BY <1>2, <1>9 DEF FireChanged, Reprocess, daemonVars, Event
  <2>3. \A r \in Registrar : regPc'[r] # "idle" =>
           \/ regPc[r] # "idle" /\ reg'[r].path = reg[r].path
           \/ \E q \in Path : disk'[q] # Absent /\ reg'[r].path = q
    <3>1. CASE UNCHANGED regVars
      BY <3>1 DEF regVars
    <3>2. ASSUME NEW r \in Registrar, NEW force \in BOOLEAN, RegisterBegin(r, p, force)
          PROVE  \A s \in Registrar : regPc'[s] # "idle" =>
                   \/ regPc[s] # "idle" /\ reg'[s].path = reg[s].path
                   \/ disk'[p] # Absent /\ reg'[s].path = p
      BY <1>1, <2>1, <3>2 DEF RegisterBegin, RegGoto, PipelineTypeOK
    <3> QED
      BY <1>9, <3>1, <3>2 DEF FireChanged, Reprocess
  <2> QED
    BY <2>1, <2>2, <2>3, RootedFrame DEF workVars, Active, At, Rooted, storeVars
<1>10. ASSUME NEW p \in Path
       PROVE  ~FireRemoved(p) /\ ~Delete(p) /\ \A q \in Path : ~Rename(p, q)
  BY <1>2 DEF FireRemoved, Delete, Rename, Rooted
<1>11. ASSUME NEW p \in Path, Edit(p)
       PROVE  Rooted'
  <2>1. UNCHANGED <<storeVars, workVars, regVars, snap, gone>> /\ RowsStay
    BY <1>11 DEF Edit, DiskUnchangedBut, dispatchVars, storeVars, RowsStay
  <2>2. budget'["remove"] = budget["remove"]
    BY <1>2, <1>11 DEF Edit, Event
  <2>3. VideosStay
    BY <1>1, <1>11, PipelineConstants DEF Edit, VideosStay, PipelineTypeOK
  <2> QED
    BY <2>1, <2>2, <2>3, RootedFrame DEF workVars, regVars, Active, At, Rooted, storeVars
<1>12. CASE Start
  <2>1. UNCHANGED <<files, disk, workVars, regVars, snap, budget>> /\ RowsStay /\ VideosStay
    BY <1>12 DEF Start, RecoverInProgress, dispatchVars, RowsStay, VideosStay
  <2>2. gone' = {}
    BY <1>12 DEF Start, Present, Tracked, Rooted
  <2> QED
    BY <2>1, <2>2, RootedFrame DEF workVars, regVars, Active, At
<1>13. CASE Shutdown \/ \E p \in Provider : Resumed(p)
  <2>1. UNCHANGED <<storeVars, diskVars, workVars, regVars, snap, gone>> /\ RowsStay /\ VideosStay
    BY <1>13 DEF Shutdown, Resumed, Resume, pipelineVars, dispatchVars, daemonVars, storeVars,
                 diskVars, RowsStay, VideosStay
  <2>2. budget'["remove"] = budget["remove"]
    BY <1>2, <1>13 DEF Shutdown, Resumed, daemonVars, Event
  <2> QED
    BY <2>1, <2>2, RootedFrame DEF workVars, regVars, Active, At, Rooted, storeVars
<1>14. CASE Exit \/ Crash
  <2>1. /\ UNCHANGED <<storeVars, disk>> /\ RowsStay /\ VideosStay
        /\ snap' = {} /\ gone' = {}
        /\ \A w \in Worker : pc'[w] = "idle"
        /\ \A r \in Registrar : regPc'[r] = "idle"
    BY <1>14 DEF Exit, Crash, Volatile, storeVars, RowsStay, VideosStay
  <2>2. budget'["remove"] = budget["remove"]
    BY <1>2, <1>14 DEF Exit, Crash, Event
  <2> QED
    BY <2>1, <2>2, RootedFrame DEF Active, At, storeVars
<1>15. CASE UNCHANGED vars
  BY <1>15 DEF vars, pipelineVars, storeVars, diskVars, workVars, regVars, dispatchVars, daemonVars,
               Rooted, Active, At, IsRowOf
<1> QED
  BY <1>6, <1>7, <1>8, <1>9, <1>10, <1>11, <1>12, <1>13, <1>14, <1>15 DEF Next, Outside

\* Where nothing is removed, a row id stands for the same video for good.
LEMMA StaysRooted ==
  ASSUME Budget["remove"] = 0
  PROVE  Spec => []Rooted
<1>1. Init => Rooted
  BY DEF Init, DispatcherInit, PipelineInit, StoreInit, Rooted, Active, At
<1> QED
  BY <1>1, RootedStep, TypeCorrect, PTL DEF Spec

-----------------------------------------------------------------------------
(* A Library with no embedded stream to strip. *)

NothingToStrip == \A h \in Hash, l \in Lang : StripOf[h][l] = h

\* No worker rewrites its video.
Unstripped == \A w \in Worker : pc[w] \notin {"rename", "rehash", "record"}

\* Then a worker's step changes no video and no file row, and keeps its hash.
LEMMA WorkerLeavesVideo ==
  ASSUME TypeOK, NothingToStrip, Unstripped, NEW w \in Worker, Goroutine(w) \/ Suspend(w)
  PROVE  /\ UNCHANGED <<files, disk, regVars, snap>>
         /\ pc'[w] # "idle" => job'[w].hash = job[w].hash
         /\ Unstripped'
<1> USE DEF At
<1>1. PipelineTypeOK
  BY DEF TypeOK, DispatcherTypeOK
<1>2. /\ pc[w] # "idle" /\ pc[w] \notin {"rename", "rehash", "record"}
      /\ job[w].lang \in Lang /\ job[w].path \in Path
  BY <1>1, WorkerTable, ActiveJob DEF Unstripped
<1>3. /\ UNCHANGED <<files, disk, regVars, snap>>
      /\ pc'[w] # "idle" => job'[w].hash = job[w].hash
  BY <1>2, WorkerShared
<1>4. pc'[w] \notin {"rename", "rehash", "record"}
  <2>1. \A label : Goto(w, label) => pc'[w] = label
    BY <1>1 DEF Goto, PipelineTypeOK
  <2>2. disk[job[w].path] # Absent => StripOf[disk[job[w].path]][job[w].lang] = disk[job[w].path]
    BY <1>1, <1>2 DEF NothingToStrip, PipelineTypeOK
  <2> QED
    BY <1>2, <2>1, <2>2
       DEF Goroutine, GoroutineStep, Suspend, WorkerSuspends, FetchSuspended, WorkerStep, Gate,
           GateError, SkipFetch, Claim, FetchFailed, FetchMiss, FetchOk, StripError, StripEmbedded,
           RenameOver, Rehash, RecordHash, Swap, SwapError, Finish, Abort, ReturnFailed,
           CheckExhausted, MarkNoCandidate, ReleaseSlot, EndPair, Settle, Local
<1> QED
  BY <1>3, <1>4, WorkerTable DEF Unstripped

LEMMA StaysUnstripped ==
  ASSUME NothingToStrip
  PROVE  Spec => []Unstripped
<1>1. Init => Unstripped
  BY DEF Init, DispatcherInit, PipelineInit, Unstripped
<1>2. TypeOK /\ CycleFlags /\ Unstripped /\ [Next]_vars => Unstripped'
  <2> SUFFICES ASSUME TypeOK, CycleFlags, Unstripped, [Next]_vars
               PROVE  Unstripped'
    OBVIOUS
  <2>1. CASE \E w \in Worker : Goroutine(w) \/ Suspend(w)
    BY <2>1, WorkerLeavesVideo
  <2>2. CASE NonWorkerStep
    <3>1. PipelineTypeOK
      BY DEF TypeOK, DispatcherTypeOK
    <3>2. ASSUME NEW w \in Worker, NEW pair \in snap, StartWorker(w, pair)
          PROVE  Unstripped'
      BY <3>1, <3>2 DEF StartWorker, Goto, PipelineTypeOK, Unstripped
    <3> QED
      BY <2>2, <3>2, NonWorkerRows DEF Unstripped, workVars
  <2>3. CASE UNCHANGED vars
    BY <2>3 DEF vars, pipelineVars, workVars, Unstripped
  <2> QED
    BY <2>1, <2>2, <2>3 DEF Next, NonWorkerStep
<1> QED
  BY <1>1, <1>2, TypeCorrect, DaemonFlags, PTL DEF Spec

-----------------------------------------------------------------------------
(* Synced means up to date. *)

\* Something in use says that row i is the row of the video at p.
Names(i, p) ==
  \/ IsRowOf(i, p)
  \/ \E w \in Worker : Active(w) /\ job[w].id = i /\ job[w].path = p
  \/ \E x \in snap : x.id = i /\ x.path = p

\* No two of them disagree: an id is not handed on while it is still in use.
IdsStable ==
  \A i, j \in Id, p, q \in Path : Names(i, p) /\ Names(j, q) => (i = j <=> p = q)

OneLanguage == \A k, l \in Lang : k = l

\* No pair's worker touches what another language's outcome stands on: the other
\* sidecars of the video, and its recorded Content Hash.
LanguagesApart == OneLanguage \/ (~StripAll /\ NothingToStrip)

OpenNotSynced ==
  \A w \in Worker : pc[w] \in Claimed => ~Is(job[w].id, job[w].lang, "synced")

\* A worker about to mark its pair Synced has seen, or written, its sidecar.
SidecarInPlace ==
  \A w \in Worker : pc[w] \in {"skip", "finish"} => sidecar[job[w].path][job[w].lang] = job[w].hash

\* The hash is only recorded anew for a video with one configured language.
NothingRecorded ==
  OneLanguage \/ Unstripped

SyncInv == SyncedIsCurrent /\ OpenNotSynced /\ SidecarInPlace /\ NothingRecorded

\* A worker writes its own sidecar and, its language being apart, no other.
LEMMA SwapWritesOwn ==
  ASSUME TypeOK, LanguagesApart, NEW w \in Worker, Goroutine(w) \/ Suspend(w)
  PROVE  /\ \A q \in Path, m \in Lang :
              sidecar'[q][m] = sidecar[q][m]
                \/ (At(w, "swap") /\ q = job[w].path /\ m = job[w].lang)
         /\ pc'[w] = "finish" => sidecar'[job[w].path][job[w].lang] = job[w].hash
         /\ pc'[w] \in {"skip", "finish"} => pc[w] # "record"
<1> USE DEF At
<1>1. PipelineTypeOK
  BY DEF TypeOK, DispatcherTypeOK
<1>2. /\ job[w].path \in Path /\ job[w].lang \in Lang
      /\ sidecar \in [Path -> [Lang -> Hash \cup {NoSidecar}]]
  BY <1>1, WorkerTable, ActiveJob DEF PipelineTypeOK
<1>3. ASSUME NEW q \in Path, NEW m \in Lang
      PROVE  /\ Written(w)[q][m] = IF q = job[w].path /\ m = job[w].lang THEN job[w].hash ELSE sidecar[q][m]
             /\ Swapped(w)[q][m] = Written(w)[q][m]
  <2>1. Written(w)[q][m] = IF q = job[w].path /\ m = job[w].lang THEN job[w].hash ELSE sidecar[q][m]
    BY <1>2 DEF Written
  <2>2. Swapped(w)[q][m] = IF q = job[w].path /\ StripAll /\ Written(w)[q][m] # job[w].hash
                           THEN NoSidecar ELSE Written(w)[q][m]
    BY <1>2 DEF Swapped, Written
  <2>3. m # job[w].lang => ~StripAll
    BY <1>2 DEF LanguagesApart, OneLanguage
  <2> QED
    BY <2>1, <2>2, <2>3
<1>4. /\ pc'[w] = "finish" => sidecar' = Swapped(w)
      /\ pc'[w] \in {"skip", "finish"} => pc[w] # "record"
  BY <1>1 DEF Goroutine, GoroutineStep, Suspend, WorkerSuspends, FetchSuspended, WorkerStep, Gate,
         GateError, SkipFetch, Claim, FetchFailed, FetchMiss, FetchOk, StripError, StripEmbedded,
         RenameOver, Rehash, RecordHash, Swap, SwapError, Finish, Abort, ReturnFailed,
         CheckExhausted, MarkNoCandidate, ReleaseSlot, EndPair, Settle, Local, Goto, PipelineTypeOK
<1>5. sidecar' = sidecar \/ (At(w, "swap") /\ (sidecar' = Written(w) \/ sidecar' = Swapped(w)))
  BY WorkerShared
<1>6. \A q \in Path, m \in Lang :
        sidecar'[q][m] = sidecar[q][m] \/ (At(w, "swap") /\ q = job[w].path /\ m = job[w].lang)
  BY <1>3, <1>5
<1>7. pc'[w] = "finish" => sidecar'[job[w].path][job[w].lang] = job[w].hash
  BY <1>2, <1>3, <1>4
<1> QED
  BY <1>4, <1>6, <1>7

\* A step of a worker keeps what Synced means.
LEMMA WorkerKeepsSynced ==
  ASSUME TypeOK, Held, RowIntegrity, IdsStable, LanguagesApart, SyncInv, NEW w \in Worker, Goroutine(w) \/ Suspend(w)
  PROVE  SyncInv'
<1> USE DEF At
<1>1. PipelineTypeOK /\ StoreTypeOK /\ ExclusivePairs
  BY DEF TypeOK, DispatcherTypeOK, PipelineTypeOK, Held, HeldPairs
<1>2. /\ pc[w] # "idle"
      /\ PairWrite(w) \/ PairQuiet(w)
      /\ KeepsJob(w)
      /\ \A v \in Worker : v # w => pc'[v] = pc[v] /\ job'[v] = job[v]
  BY WorkerTable
<1>3. \A v \in Worker : pc[v] # "idle" => job[v].id \in Id /\ job[v].lang \in Lang /\ job[v].path \in Path
  BY <1>1, ActiveJob
<1>4. PICK i \in Id, l \in Lang, p \in Path : i = job[w].id /\ l = job[w].lang /\ p = job[w].path
  BY <1>2, <1>3
<1>5. \A label : Goto(w, label) => pc'[w] = label
  BY <1>1 DEF Goto, PipelineTypeOK
<1>6. \A v \in Worker : v # w /\ pc[v] # "idle" =>
        <<job[v].id, job[v].lang>> # <<i, l>> /\ <<job[v].path, job[v].lang>> # <<p, l>>
  <2>1. \A v \in Worker : pc[v] # "idle" => Names(job[v].id, job[v].path)
    BY DEF Names, Active
  <2> QED
    BY <1>1, <1>2, <1>3, <1>4, <2>1 DEF ExclusivePairs, Active, Key, IdsStable
<1>7. ASSUME NEW s, NEW why, NEW from, NEW to, Wrote(w, from, s, why, to)
      PROVE  /\ pc'[w] = to
             /\ s # "synced" => ~Is(i, l, "synced")'
             /\ \A j \in Id, m \in Lang : <<j, m>> # <<i, l>> => Row(j, m)' = Row(j, m)
  BY <1>1, <1>4, <1>5, <1>7, WrittenRow DEF Wrote, Is
<1>8. \A j \in Id, m \in Lang : <<j, m>> # <<i, l>> => Row(j, m)' = Row(j, m)
  BY <1>2, <1>7 DEF PairWrite, PairQuiet, Row
<1>9. \A q \in Path, m \in Lang :
        sidecar'[q][m] = sidecar[q][m] \/ (pc[w] = "swap" /\ q = p /\ m = l)
  BY <1>4, SwapWritesOwn
<1>10. pc'[w] # "idle" => job'[w].id = i /\ job'[w].lang = l /\ job'[w].path = p
  BY <1>2, <1>4 DEF KeepsJob
<1>11. Is(i, l, "synced")' => Is(i, l, "synced") \/ (Lands(w) /\ pc[w] \in {"skip", "finish"})
  <2>1. ASSUME NEW s, NEW why, NEW from, NEW to, Wrote(w, from, s, why, to), s # "synced"
        PROVE  ~Is(i, l, "synced")'
    BY <1>7, <2>1
  <2>2. CASE PairWrite(w)
    BY <2>1, <2>2 DEF PairWrite, Wrote
  <2>3. CASE PairQuiet(w)
    BY <2>3 DEF PairQuiet, Is, Row
  <2> QED
    BY <1>2, <2>2, <2>3
<1>12. OpenNotSynced'
  <2> SUFFICES ASSUME NEW v \in Worker, pc'[v] \in Claimed
               PROVE  ~Is(job[v].id, job[v].lang, "synced")'
    BY DEF OpenNotSynced
  <2>1. CASE v = w
    <3>1. CASE PairWrite(w)
      BY <1>7, <1>10, <2>1, <3>1 DEF PairWrite, Claimed, Is, Row
    <3>2. CASE PairQuiet(w)
      <4>1. pc[w] \in Claimed /\ ~Is(i, l, "synced")
        BY <1>4, <1>5, <2>1, <3>2 DEF PairQuiet, Claimed, SyncInv, OpenNotSynced
      <4> QED
        BY <1>10, <2>1, <3>2, <4>1 DEF PairQuiet, Claimed, Is, Row
    <3> QED
      BY <1>2, <3>1, <3>2
  <2>2. CASE v # w
    <3>1. /\ job'[v] = job[v] /\ pc[v] \in Claimed /\ pc[v] # "idle"
          /\ ~Is(job[v].id, job[v].lang, "synced")
      BY <1>2, <2>2 DEF SyncInv, OpenNotSynced, Claimed
    <3> QED
      BY <1>3, <1>6, <1>8, <2>2, <3>1 DEF Is, Row
  <2> QED
    BY <2>1, <2>2
<1>13. SidecarInPlace'
  <2> SUFFICES ASSUME NEW v \in Worker, pc'[v] \in {"skip", "finish"}
               PROVE  sidecar'[job'[v].path][job'[v].lang] = job'[v].hash
    BY DEF SidecarInPlace
  <2>1. CASE v = w
    <3>1. pc[w] # "record" /\ (pc'[w] = "finish" => sidecar'[p][l] = job[w].hash)
      BY <1>4, <2>1, SwapWritesOwn
    <3>2. pc'[w] = "skip" => pc[w] = "gate" /\ sidecar[p][l] = job[w].hash
      BY <1>2, <1>4, <1>5, <1>7 DEF PairWrite, PairQuiet, Claimed
    <3>3. job'[w].hash = job[w].hash
      BY <2>1, <3>1, <1>2 DEF KeepsJob
    <3> QED
      BY <1>9, <1>10, <2>1, <3>1, <3>2, <3>3
  <2>2. CASE v # w
    <3>1. /\ job'[v] = job[v] /\ pc[v] \in {"skip", "finish"}
          /\ sidecar[job[v].path][job[v].lang] = job[v].hash
      BY <1>2, <2>2 DEF SyncInv, SidecarInPlace
    <3> QED
      BY <1>3, <1>6, <1>9, <2>2, <3>1
  <2> QED
    BY <2>1, <2>2
<1>14. NothingRecorded'
  <2>1. CASE OneLanguage
    BY <2>1 DEF NothingRecorded, Unstripped, OneLanguage
  <2>2. CASE ~OneLanguage
    <3>1. Unstripped /\ NothingToStrip
      BY <2>2 DEF SyncInv, NothingRecorded, LanguagesApart
    <3> QED
      BY <3>1, WorkerLeavesVideo DEF NothingRecorded
  <2> QED
    BY <2>1, <2>2
<1>15. SyncedIsCurrent'
  <2> SUFFICES ASSUME NEW j \in Id, NEW m \in Lang, Is(j, m, "synced")'
               PROVE  sidecar'[files'[j].path][m] = files'[j].hash
    BY DEF SyncedIsCurrent
  <2>1. /\ \A k \in Id : files[k] # NoFile => files[k] \in FileRow /\ files[k].path \in Path
                                           /\ Names(k, files[k].path)
        /\ Names(i, p)
    BY <1>1, <1>2, <1>4 DEF StoreTypeOK, FileRow, Names, IsRowOf, Active
  <2>2. \A k \in Id : files[k] # NoFile => (k = i <=> files[k].path = p)
    BY <2>1 DEF IdsStable
  <2>3. CASE Is(j, m, "synced")
    <3>1. /\ files[j] # NoFile /\ files[j].path \in Path
          /\ sidecar[files[j].path][m] = files[j].hash
      BY <2>1, <2>3 DEF SyncInv, SyncedIsCurrent, RowIntegrity, Is, Row
    <3>2. ~(pc[w] = "swap" /\ j = i /\ m = l)
      BY <1>4, <2>3 DEF SyncInv, OpenNotSynced, Claimed
    <3>3. sidecar'[files[j].path][m] = files[j].hash
      BY <1>9, <2>2, <3>1, <3>2
    <3>4. ~(pc[w] = "record" /\ j = i)
      <4> SUFFICES ASSUME pc[w] = "record", j = i PROVE FALSE
        OBVIOUS
      <4>1. m = l
        BY DEF SyncInv, NothingRecorded, Unstripped, OneLanguage
      <4> QED
        BY <1>4, <2>3, <4>1 DEF SyncInv, OpenNotSynced, Claimed
    <3>5. files'[j] = files[j]
      BY <1>1, <1>4, <3>4, WorkerShared DEF StoreTypeOK
    <3> QED
      BY <3>3, <3>5
  <2>4. CASE ~Is(j, m, "synced")
    <3>1. j = i /\ m = l
      BY <1>8, <2>4 DEF Is
    <3>2. Lands(w) /\ pc[w] \in {"skip", "finish"}
      BY <1>11, <2>4, <3>1
    <3>3. /\ files[i] # NoFile /\ files[i].hash = job[w].hash
          /\ sidecar[p][l] = job[w].hash
      BY <1>4, <3>2 DEF Lands, Fenced, HashFence, SyncInv, SidecarInPlace
    <3>4. files'[i] = files[i] /\ sidecar'[p][l] = sidecar[p][l] /\ files[i].path = p
      BY <1>2, <1>4, <1>9, <2>2, <3>2, <3>3, WorkerTable
    <3> QED
      BY <3>1, <3>3, <3>4
  <2> QED
    BY <2>3, <2>4
<1> QED
  BY <1>12, <1>13, <1>14, <1>15 DEF SyncInv

\* Outside the workers a row that changes its file loses its language outcomes.
LEMMA NonWorkerFiles ==
  ASSUME TypeOK, RowIntegrity, NonWorkerStep
  PROVE  /\ UNCHANGED sidecar
         /\ \A i \in Id : files'[i] = files[i] \/ \A l \in Lang : ~Is(i, l, "synced")'
<1> DEFINE Forgets == \A i \in Id : files'[i] = files[i] \/ \A l \in Lang : ~Is(i, l, "synced")'
<1>1. PipelineTypeOK /\ StoreTypeOK
  BY DEF TypeOK, DispatcherTypeOK, PipelineTypeOK
<1>2. UNCHANGED sidecar
  BY DEF NonWorkerStep, Pass, PassBegin, PassStop, PassSkip, StartWorker, Register, RegisterStep,
         RegisterObserve, RegisterForce, RegisterEnsure, RegisterError, FireChanged, FireRemoved,
         Resumed, Resume, Outside, Edit, Delete, Rename, Reprocess, Start, Shutdown, Exit, Crash,
         DiskUnchangedBut, diskVars, pipelineVars
<1>3. ASSUME UNCHANGED files
      PROVE  Forgets
  BY <1>3
<1>4. ASSUME NEW r \in Registrar, RegisterObserve(r)
      PROVE  Forgets
  <2>1. PICK i \in Id : LET g == [reg[r] EXCEPT !.id = i]
                        IN  \/ ObserveNew(g.path, g.hash, i) \/ ObserveChanged(g.path, g.hash, i)
                            \/ ObserveUnchanged(g.path, g.hash, i)
    BY <1>4 DEF RegisterObserve
  <2>2. PICK v, h : \/ ObserveNew(v, h, i) \/ ObserveChanged(v, h, i)
                    \/ ObserveUnchanged(v, h, i)
    BY <2>1
  <2>3. CASE ObserveNew(v, h, i)
    <3>1. files[i] = NoFile
      BY <2>3 DEF ObserveNew, IsNextId, Id
    <3>2. \A l \in Lang : Row(i, l) = NoRow
      BY <3>1 DEF RowIntegrity
    <3> QED
      BY <1>1, <2>3, <3>2 DEF ObserveNew, StoreTypeOK, Is, Row
  <2>4. CASE ObserveChanged(v, h, i)
    <3>1. \A l \in Lang : ~Is(i, l, "synced")'
      BY <1>1, <2>4 DEF ObserveChanged, AllReset, NewRow, StoreTypeOK, Is, Row
    <3> QED
      BY <1>1, <2>4, <3>1 DEF ObserveChanged, StoreTypeOK
  <2>5. CASE ObserveUnchanged(v, h, i)
    BY <1>3, <2>5 DEF ObserveUnchanged, storeVars
  <2> QED
    BY <2>2, <2>3, <2>4, <2>5
<1>5. ASSUME NEW p \in Path, FireRemoved(p)
      PROVE  Forgets
  BY <1>5 DEF FireRemoved, DeleteFile, NoRows, Is, Row
<1>6. CASE ~(\E r \in Registrar : RegisterObserve(r)) /\ ~(\E p \in Path : FireRemoved(p))
  <2> SUFFICES UNCHANGED files
    BY <1>2, <1>3
  <2>1. ASSUME NEW r \in Registrar, Register(r)
        PROVE  UNCHANGED files
    BY <1>6, <2>1 DEF Register, RegisterStep, RegisterForce, RegisterEnsure, RegisterError, storeVars,
                      ResetToPendingForced, EnsureLanguage
  <2>2. CASE Pass \/ (\E p \in Path : FireChanged(p)) \/ \E p \in Provider : Resumed(p)
    BY <2>2 DEF Pass, PassBegin, PassStop, PassSkip, StartWorker, FireChanged, Resumed, Resume,
                pipelineVars, storeVars
  <2>3. CASE Outside
    BY <2>3 DEF Outside, Edit, Delete, Rename, Reprocess, DiskUnchangedBut, storeVars
  <2>4. CASE Start \/ Shutdown \/ Exit \/ Crash
    BY <2>4 DEF Start, Shutdown, Exit, Crash, RecoverInProgress, storeVars
  <2> QED
    BY <1>6, <2>1, <2>2, <2>3, <2>4 DEF NonWorkerStep
<1> QED
  BY <1>2, <1>4, <1>5, <1>6

\* The other steps keep what Synced means: what they change they reset.
LEMMA OthersKeepSynced ==
  ASSUME TypeOK, CycleFlags, RowIntegrity, SyncInv, NonWorkerStep
  PROVE  SyncInv'
<1> USE DEF At
<1>1. PipelineTypeOK
  BY DEF TypeOK, DispatcherTypeOK
<1>2. /\ RowsReset /\ UNCHANGED sidecar
      /\ \A i \in Id : files'[i] = files[i] \/ \A l \in Lang : ~Is(i, l, "synced")'
  BY NonWorkerRows, NonWorkerFiles
<1>3. \A i \in Id, l \in Lang : Is(i, l, "synced")' => Is(i, l, "synced") /\ files'[i] = files[i]
  BY <1>2 DEF RowsReset, Is
<1>4. SyncedIsCurrent'
  BY <1>2, <1>3 DEF SyncedIsCurrent, SyncInv
<1>5. \A v \in Worker : pc'[v] \in Claimed \cup {"skip"} => pc'[v] = pc[v] /\ job'[v] = job[v]
  <2>1. CASE UNCHANGED workVars
    BY <2>1 DEF workVars
  <2>2. CASE \A v \in Worker : pc'[v] = "idle"
    BY <2>2 DEF Claimed
  <2>3. ASSUME NEW w \in Worker, NEW pair \in snap, StartWorker(w, pair)
        PROVE  \A v \in Worker : pc'[v] \in Claimed \cup {"skip"} => pc'[v] = pc[v] /\ job'[v] = job[v]
    BY <1>1, <2>3 DEF StartWorker, Goto, Place, PipelineTypeOK, Claimed
  <2> QED
    BY <2>1, <2>2, <2>3, NonWorkerRows
<1>6. OpenNotSynced'
  <2> SUFFICES ASSUME NEW v \in Worker, pc'[v] \in Claimed
               PROVE  ~Is(job[v].id, job[v].lang, "synced")'
    BY DEF OpenNotSynced
  <2>1. pc[v] \in Claimed /\ job'[v] = job[v] /\ pc[v] # "idle"
    BY <1>5 DEF Claimed
  <2>2. PICK i \in Id, l \in Lang : i = job[v].id /\ l = job[v].lang
    BY <1>1, <2>1, ActiveJob
  <2>3. ~Is(i, l, "synced")'
    BY <1>3, <2>1, <2>2 DEF SyncInv, OpenNotSynced
  <2> QED
    BY <2>1, <2>2, <2>3 DEF Is, Row
<1>7. SidecarInPlace' /\ NothingRecorded'
  BY <1>2, <1>5 DEF SyncInv, SidecarInPlace, NothingRecorded, Unstripped, Claimed
<1> QED
  BY <1>4, <1>6, <1>7 DEF SyncInv

\* Synced keeps meaning up to date while no row id is handed on that is still in
\* use, and no other language's worker touches what the pair's outcome stands on.
THEOREM StableSynced ==
  ASSUME LanguagesApart
  PROVE  Spec /\ []IdsStable => []SyncedIsCurrent
<1> DEFINE Known == TypeOK /\ Held /\ RowIntegrity /\ CycleFlags
<1>1. Init => SyncInv
  BY DEF Init, DispatcherInit, PipelineInit, StoreInit, SyncInv, SyncedIsCurrent, OpenNotSynced,
         SidecarInPlace, NothingRecorded, Unstripped, Is, Row, Claimed
<1>2. Known /\ IdsStable /\ SyncInv /\ [Next]_vars => SyncInv'
  <2> SUFFICES ASSUME Known, IdsStable, SyncInv, [Next]_vars
               PROVE  SyncInv'
    OBVIOUS
  <2>1. CASE \E w \in Worker : Goroutine(w) \/ Suspend(w)
    BY <2>1, WorkerKeepsSynced
  <2>2. CASE NonWorkerStep
    BY <2>2, OthersKeepSynced
  <2>3. CASE UNCHANGED vars
    BY <2>3 DEF vars, pipelineVars, workVars, storeVars, diskVars, SyncInv, SyncedIsCurrent,
                OpenNotSynced, SidecarInPlace, NothingRecorded, Unstripped, Is, Row, At
  <2> QED
    BY <2>1, <2>2, <2>3 DEF Next, NonWorkerStep
<1>3. Spec => []Known
  BY DaemonInvariant, DaemonRowsConsistent, DaemonFlags, PTL
<1>4. SyncInv => SyncedIsCurrent
  BY DEF SyncInv
<1> QED
  BY <1>1, <1>2, <1>3, <1>4, PTL DEF Spec

\* With nothing removed every id in use is a row's, and the rows are distinct.
LEMMA RootedStable ==
  ASSUME TypeOK, RowIntegrity, Rooted
  PROVE  IdsStable
<1>1. PipelineTypeOK
  BY DEF TypeOK, DispatcherTypeOK
<1>2. \A i \in Id, p \in Path : Names(i, p) => IsRowOf(i, p)
  BY DEF Names, Rooted
<1> QED
  BY <1>2 DEF IdsStable, IsRowOf, RowIntegrity

\* With one path there is one row, and its id is 1.
OnlyOne ==
  /\ \A i \in Id : files[i] # NoFile => i = 1
  /\ \A w \in Worker : Active(w) => job[w].id = 1
  /\ \A x \in snap : x.id = 1

LEMMA OnlyOneStep ==
  ASSUME TypeOK, OnlyOne, [Next]_vars, \A p, q \in Path : p = q
  PROVE  OnlyOne'
<1> USE DEF At, Active
<1>1. PipelineTypeOK /\ StoreTypeOK /\ snap \subseteq PendingPair
  BY DEF TypeOK, DispatcherTypeOK, PipelineTypeOK
<1>2. ASSUME NEW w \in Worker, Goroutine(w) \/ Suspend(w)
      PROVE  OnlyOne'
  <2>1. \A i \in Id : files'[i] # NoFile => files[i] # NoFile
    BY <1>1, <1>2, WorkerShared DEF StoreTypeOK
  <2>2. \A v \in Worker : pc'[v] # "idle" => pc[v] # "idle" /\ job'[v].id = job[v].id
    BY <1>2, WorkerTable DEF KeepsJob
  <2>3. snap' = snap
    BY <1>2, WorkerShared
  <2> QED
    BY <2>1, <2>2, <2>3 DEF OnlyOne
<1>3. CASE Pass
  <2>1. files' = files
    BY <1>3 DEF Pass, PassBegin, PassStop, PassSkip, StartWorker, pipelineVars, storeVars
  <2>2. \A x \in snap' : x.id = 1
    BY <1>3, SnapshotIs DEF OnlyOne
  <2>3. \A w \in Worker : pc'[w] # "idle" => job'[w].id = 1
    <3>1. CASE UNCHANGED workVars
      BY <3>1 DEF workVars, OnlyOne
    <3>2. ASSUME NEW w \in Worker, NEW pair \in snap, StartWorker(w, pair)
          PROVE  \A v \in Worker : pc'[v] # "idle" => job'[v].id = 1
      BY <1>1, <3>2 DEF StartWorker, Goto, Place, PipelineTypeOK, OnlyOne
    <3> QED
      BY <1>3, <3>1, <3>2 DEF Pass, PassBegin, PassStop, PassSkip, pipelineVars
  <2> QED
    BY <2>1, <2>2, <2>3 DEF OnlyOne
<1>4. ASSUME NEW r \in Registrar, Register(r)
      PROVE  OnlyOne'
  <2>1. \A i \in Id : files'[i] # NoFile => i = 1
    <3>1. CASE RegisterObserve(r)
      <4>1. reg[r] \in Registration
        BY <1>1, <3>1 DEF RegisterObserve, PipelineTypeOK
      <4>2. PICK i \in Id : LET g == [reg[r] EXCEPT !.id = i]
                            IN  \/ ObserveNew(g.path, g.hash, i) \/ ObserveChanged(g.path, g.hash, i)
                                \/ ObserveUnchanged(g.path, g.hash, i)
        BY <3>1 DEF RegisterObserve
      <4>3. PICK v \in Path, h \in Hash : \/ ObserveNew(v, h, i) \/ ObserveChanged(v, h, i)
                                          \/ ObserveUnchanged(v, h, i)
        BY <4>1, <4>2 DEF Registration
      <4>4. CASE ObserveNew(v, h, i)
        <5>1. \A j \in Id : files[j] = NoFile
          BY <1>1, <4>4 DEF ObserveNew, Tracked, StoreTypeOK, FileRow
        <5>2. ~(i > 1)
          BY <4>4, <5>1, StoreConstants DEF ObserveNew, IsNextId, Id
        <5>3. i = 1
          BY <5>2 DEF Id
        <5> QED
          BY <1>1, <4>4, <5>1, <5>3 DEF ObserveNew, StoreTypeOK
      <4>5. CASE ObserveChanged(v, h, i) \/ ObserveUnchanged(v, h, i)
        BY <1>1, <4>5 DEF ObserveChanged, ObserveUnchanged, IsRowOf, OnlyOne, storeVars, StoreTypeOK
      <4> QED
        BY <4>3, <4>4, <4>5
    <3>2. CASE ~RegisterObserve(r)
      BY <1>4, <3>2 DEF Register, RegisterStep, RegisterForce, RegisterEnsure, RegisterError, storeVars,
                        ResetToPendingForced, EnsureLanguage, OnlyOne
    <3> QED
      BY <3>1, <3>2
  <2>2. UNCHANGED <<workVars, snap>>
    BY <1>4 DEF Register, RegisterStep, RegisterObserve, RegisterForce, RegisterEnsure, RegisterError,
                dispatchVars
  <2> QED
    BY <2>1, <2>2 DEF OnlyOne, workVars
<1>5. CASE \E p \in Path : FireChanged(p) \/ FireRemoved(p)
  <2>1. UNCHANGED <<workVars, snap>>
    BY <1>5 DEF FireChanged, FireRemoved, dispatchVars
  <2>2. \A i \in Id : files'[i] # NoFile => files[i] # NoFile
    BY <1>5 DEF FireChanged, FireRemoved, DeleteFile, storeVars
  <2> QED
    BY <2>1, <2>2 DEF OnlyOne, workVars
<1>6. CASE Outside \/ Shutdown \/ (\E p \in Provider : Resumed(p)) \/ UNCHANGED vars
  BY <1>6 DEF Outside, Edit, Delete, Rename, Reprocess, Shutdown, Resumed, Resume, DiskUnchangedBut,
              OnlyOne, workVars, dispatchVars, pipelineVars, storeVars, vars
<1>7. CASE Start
  BY <1>7 DEF Start, RecoverInProgress, OnlyOne, workVars, dispatchVars
<1>8. CASE Exit \/ Crash
  BY <1>8 DEF Exit, Crash, Volatile, OnlyOne, storeVars
<1> QED
  BY <1>2, <1>3, <1>4, <1>5, <1>6, <1>7, <1>8 DEF Next

LEMMA OnlyOneStable ==
  ASSUME OnlyOne, \A p, q \in Path : p = q
  PROVE  IdsStable
<1>1. \A i \in Id, p \in Path : Names(i, p) => i = 1
  BY DEF Names, OnlyOne, IsRowOf
<1> QED
  BY <1>1 DEF IdsStable

\* A pair that is Synced has a sidecar for the content its file is recorded with:
\* whatever crashes, edits, reprocesses and races there are, in a Library from
\* which nothing is removed, and for a single path also when it is.
THEOREM SyncedCurrent ==
  ASSUME LanguagesApart,
         Budget["remove"] = 0 \/ \A p, q \in Path : p = q
  PROVE  Spec => []SyncedIsCurrent
<1>1. CASE Budget["remove"] = 0
  <2>1. Spec => []IdsStable
    BY <1>1, StaysRooted, RootedStable, TypeCorrect, DaemonRowsConsistent, PTL
  <2> QED
    BY <2>1, StableSynced, PTL
<1>2. CASE \A p, q \in Path : p = q
  <2>1. Init => OnlyOne
    BY DEF Init, DispatcherInit, PipelineInit, StoreInit, OnlyOne, Active, At
  <2>2. TypeOK /\ OnlyOne /\ [Next]_vars => OnlyOne'
    BY <1>2, OnlyOneStep
  <2>3. OnlyOne => IdsStable
    BY <1>2, OnlyOneStable
  <2>4. Spec => []IdsStable
    BY <2>1, <2>2, <2>3, TypeCorrect, PTL DEF Spec
  <2> QED
    BY <2>4, StableSynced, PTL
<1> QED
  BY <1>1, <1>2

-----------------------------------------------------------------------------
(* Failed(no_candidate) means that every Provider has missed. *)

\* What a worker saw before it marks its pair no_candidate is still so if the
\* write lands: its row has not been reset in between.
ExhaustedStands ==
  \A w \in Worker :
    At(w, "exhausted") /\ Lands(w) => AllAttempted(Row(job[w].id, job[w].lang).attempted)

\* Each Provider is in some Tier, so spent Tiers leave none out.
LEMMA AllMeansEach ==
  ASSUME NEW attempted \in SUBSET Provider
  PROVE  AllAttempted(attempted) <=> attempted = Provider
<1>1. ASSUME AllAttempted(attempted), NEW p \in Provider
      PROVE  p \in attempted
  <2>1. PICK t \in DOMAIN Tiers : \E k \in DOMAIN Tiers[t] : Tiers[t][k] = p
    BY DispatcherConstants DEF Chained
  <2> QED
    BY <1>1, <2>1 DEF AllAttempted, Unattempted
<1>2. ASSUME NEW t \in DOMAIN Tiers, NEW k \in DOMAIN Tiers[t]
      PROVE  Tiers[t][k] \in Provider
  BY <1>2, DispatcherConstants
<1> QED
  BY <1>1, <1>2 DEF AllAttempted, Unattempted

\* Only a worker that has seen every Provider miss writes no_candidate.
LEMMA WorkerJustifies ==
  ASSUME TypeOK, TypeOK', ExhaustedStands, NoCandidateJustified,
         NEW w \in Worker, Goroutine(w) \/ Suspend(w)
  PROVE  NoCandidateJustified'
<1> USE DEF At
<1>1. PipelineTypeOK /\ StoreTypeOK /\ StoreTypeOK'
  BY DEF TypeOK, DispatcherTypeOK, PipelineTypeOK
<1>2. pc[w] # "idle" /\ (PairWrite(w) \/ PairQuiet(w))
  BY WorkerTable
<1>3. PICK i \in Id, l \in Lang : i = job[w].id /\ l = job[w].lang
  BY <1>1, <1>2, ActiveJob
<1>4. ASSUME NEW s, NEW why, NEW from, NEW to, Wrote(w, from, s, why, to)
      PROVE  /\ Row(i, l) # NoRow /\ Row(i, l)' # NoRow /\ Row(i, l)'.reason = why
             /\ Row(i, l).attempted \subseteq Row(i, l)'.attempted
             /\ \A j \in Id, m \in Lang : <<j, m>> # <<i, l>> => Row(j, m)' = Row(j, m)
             /\ pc[w] = from
  BY <1>1, <1>3, <1>4, WrittenRow DEF Wrote
<1>5. CASE PairQuiet(w)
  BY <1>5 DEF PairQuiet, NoCandidateJustified, Row
<1>6. ASSUME NEW s, NEW why, NEW from, NEW to, Wrote(w, from, s, why, to), why # "no_candidate"
      PROVE  NoCandidateJustified'
  BY <1>4, <1>6 DEF NoCandidateJustified
<1>7. ASSUME Lands(w), Wrote(w, "exhausted", "failed", "no_candidate", "release")
      PROVE  NoCandidateJustified'
  <2>1. Row(i, l) # NoRow /\ AllAttempted(Row(i, l).attempted)
    BY <1>3, <1>4, <1>7 DEF Wrote, ExhaustedStands
  <2>2. Row(i, l).attempted = Provider
    BY <1>1, <2>1, AllMeansEach DEF StoreTypeOK, LangRow, Row
  <2>3. Row(i, l)'.attempted \subseteq Provider
    BY <1>1, <1>4, <1>7 DEF StoreTypeOK, LangRow, Row
  <2>4. Row(i, l)'.attempted = Provider
    BY <1>4, <1>7, <2>2, <2>3
  <2> QED
    BY <1>4, <1>7, <2>4 DEF NoCandidateJustified
<1> QED
  BY <1>2, <1>5, <1>6, <1>7 DEF PairWrite, FailureReason

\* no_candidate is justified as long as no row is reset under a worker that is
\* about to write it.
LEMMA StandingJustified == Spec /\ []ExhaustedStands => []NoCandidateJustified
<1> DEFINE Known == TypeOK /\ CycleFlags
<1>1. Init => NoCandidateJustified
  BY DEF Init, DispatcherInit, PipelineInit, StoreInit, NoCandidateJustified, Row
<1>2. Known /\ Known' /\ ExhaustedStands /\ NoCandidateJustified /\ [Next]_vars => NoCandidateJustified'
  <2> SUFFICES ASSUME Known, Known', ExhaustedStands, NoCandidateJustified, [Next]_vars
               PROVE  NoCandidateJustified'
    OBVIOUS
  <2>1. CASE \E w \in Worker : Goroutine(w) \/ Suspend(w)
    BY <2>1, WorkerJustifies
  <2>2. CASE NonWorkerStep
    <3>1. RowsReset
      BY <2>2, NonWorkerRows
    <3> QED
      BY <3>1 DEF RowsReset, NoCandidateJustified
  <2>3. CASE UNCHANGED vars
    BY <2>3 DEF vars, pipelineVars, storeVars, NoCandidateJustified, Row
  <2> QED
    BY <2>1, <2>2, <2>3 DEF Next, NonWorkerStep
<1>3. Spec => []Known
  BY TypeCorrect, DaemonFlags, PTL
<1> QED
  BY <1>1, <1>2, <1>3, PTL DEF Spec

-----------------------------------------------------------------------------
(* A Library whose videos keep their content. *)

OneContent == \A g, h \in Hash : g = h

\* Every hash that is stored, remembered or worked with is the video's.
Calm ==
  /\ budget["edit"] = 0
  /\ \A i \in Id : files[i] # NoFile => files[i].hash = disk[files[i].path]
  /\ \A r \in Registrar : regPc[r] # "idle" => reg[r].hash = disk[reg[r].path]
  /\ \A w \in Worker : Active(w) => job[w].hash = disk[job[w].path]
  /\ \A x \in snap : x.hash = disk[x.path]

\* The disk being as it was, whatever is new has its hash from it.
LEMMA CalmFrame ==
  ASSUME Calm, disk' = disk, budget'["edit"] = budget["edit"],
         \A i \in Id : files'[i] # NoFile =>
           files'[i] = files[i] \/ files'[i].hash = disk[files'[i].path],
         \A r \in Registrar : regPc'[r] # "idle" =>
           \/ regPc[r] # "idle" /\ reg'[r].hash = reg[r].hash /\ reg'[r].path = reg[r].path
           \/ reg'[r].hash = disk[reg'[r].path],
         \A w \in Worker : Active(w)' =>
           \/ Active(w) /\ job'[w].hash = job[w].hash /\ job'[w].path = job[w].path
           \/ job'[w].hash = disk[job'[w].path],
         \A x \in snap' : x \in snap \/ x.hash = disk[x.path]
  PROVE  Calm'
BY DEF Calm

LEMMA CalmStep ==
  ASSUME TypeOK, Rooted, Calm, NothingToStrip, Unstripped, [Next]_vars
  PROVE  Calm'
<1> USE DEF At
<1>1. PipelineTypeOK /\ StoreTypeOK /\ snap \subseteq PendingPair /\ budget \in [Event -> Nat]
  BY DEF TypeOK, DispatcherTypeOK, PipelineTypeOK
<1>2. /\ ~Spend("edit") /\ ~Spend("remove")
      /\ \A e \in Event : e # "edit" /\ Spend(e) => budget'["edit"] = budget["edit"]
  BY <1>1 DEF Event, Spend, Rooted, Calm
<1>3. ASSUME NEW w \in Worker, Goroutine(w) \/ Suspend(w)
      PROVE  Calm'
  <2>1. UNCHANGED <<files, disk, regVars, snap>> /\ (pc'[w] # "idle" => job'[w].hash = job[w].hash)
    BY <1>3, WorkerLeavesVideo
  <2>2. budget'["edit"] = budget["edit"]
    BY <1>3, WorkerShared DEF Event
  <2>3. /\ pc[w] # "idle"
        /\ \A v \in Worker : v # w => pc'[v] = pc[v] /\ job'[v] = job[v]
        /\ pc'[w] # "idle" => job'[w].path = job[w].path
    BY <1>3, WorkerTable DEF KeepsJob
  <2>4. \A v \in Worker : Active(v)' =>
          Active(v) /\ job'[v].hash = job[v].hash /\ job'[v].path = job[v].path
    BY <2>1, <2>3 DEF Active
  <2> QED
    BY <2>1, <2>2, <2>4, CalmFrame DEF regVars
<1>4. CASE Pass
  <2>1. UNCHANGED <<files, disk, regVars>> /\ budget' = budget
    BY <1>4 DEF Pass, PassBegin, PassStop, PassSkip, StartWorker, pipelineVars, storeVars, diskVars,
                daemonVars
  <2>2. \A x \in snap' : x \in snap \/ x.hash = disk[x.path]
    BY <1>4, SnapshotIs DEF Calm
  <2>3. \A w \in Worker : Active(w)' =>
           \/ Active(w) /\ job'[w].hash = job[w].hash /\ job'[w].path = job[w].path
           \/ job'[w].hash = disk[job'[w].path]
    <3>1. CASE UNCHANGED workVars
      BY <3>1 DEF workVars, Active, Calm
    <3>2. ASSUME NEW w \in Worker, NEW pair \in snap, StartWorker(w, pair)
          PROVE  \A v \in Worker :
                   \/ pc'[v] = pc[v] /\ job'[v] = job[v]
                   \/ pc'[v] = "gate" /\ job'[v].hash = pair.hash /\ job'[v].path = pair.path
      BY <1>1, <3>2 DEF StartWorker, Goto, Place, PipelineTypeOK
    <3>3. ASSUME NEW w \in Worker, NEW pair \in snap, StartWorker(w, pair)
          PROVE  \A v \in Worker : Active(v)' =>
                   \/ Active(v) /\ job'[v].hash = job[v].hash /\ job'[v].path = job[v].path
                   \/ job'[v].hash = disk[job'[v].path]
      BY <3>2, <3>3 DEF Active, Calm
    <3> QED
      BY <1>4, <3>1, <3>3 DEF Pass, PassBegin, PassStop, PassSkip, pipelineVars
  <2> QED
    BY <2>1, <2>2, <2>3, CalmFrame DEF regVars
<1>5. ASSUME NEW r \in Registrar, Register(r)
      PROVE  Calm'
  <2>1. UNCHANGED <<disk, workVars, snap>> /\ budget' = budget
    BY <1>5 DEF Register, RegisterStep, RegisterObserve, RegisterForce, RegisterEnsure, RegisterError,
                dispatchVars, daemonVars, diskVars
  <2>2. reg[r] \in Registration /\ regPc[r] # "idle"
    BY <1>1, <1>5 DEF Register, RegisterStep, RegisterObserve, RegisterForce, RegisterEnsure,
                      RegisterError, PipelineTypeOK
  <2>3. \A s \in Registrar : regPc'[s] # "idle" =>
           regPc[s] # "idle" /\ reg'[s].hash = reg[s].hash /\ reg'[s].path = reg[s].path
    <3>1. ASSUME NEW label, NEW rec, RegGoto(r, label, rec),
                 label = "idle" \/ (rec.path = reg[r].path /\ rec.hash = reg[r].hash)
          PROVE  \A s \in Registrar : regPc'[s] # "idle" =>
                   regPc[s] # "idle" /\ reg'[s].hash = reg[s].hash /\ reg'[s].path = reg[s].path
      BY <1>1, <2>2, <3>1 DEF RegGoto, PipelineTypeOK
    <3>2. /\ \A i : /\ [reg[r] EXCEPT !.id = i].path = reg[r].path
                    /\ [reg[r] EXCEPT !.id = i].hash = reg[r].hash
          /\ \A t : /\ [reg[r] EXCEPT !.todo = t].path = reg[r].path
                    /\ [reg[r] EXCEPT !.todo = t].hash = reg[r].hash
      BY <2>2 DEF Registration
    <3> QED
      BY <1>5, <3>1, <3>2 DEF Register, RegisterStep, RegisterObserve, RegisterForce, RegisterEnsure,
                              RegisterError
  <2>4. \A i \in Id : files'[i] # NoFile =>
           files'[i] = files[i] \/ files'[i].hash = disk[files'[i].path]
    <3>1. CASE RegisterObserve(r)
      <4>1. PICK i \in Id : LET g == [reg[r] EXCEPT !.id = i]
                            IN  \/ ObserveNew(g.path, g.hash, i) \/ ObserveChanged(g.path, g.hash, i)
                                \/ ObserveUnchanged(g.path, g.hash, i)
        BY <3>1 DEF RegisterObserve
      <4>2. /\ [reg[r] EXCEPT !.id = i].path = reg[r].path
            /\ [reg[r] EXCEPT !.id = i].hash = reg[r].hash
            /\ reg[r].hash = disk[reg[r].path]
        BY <2>2 DEF Registration, Calm
      <4>3. ~ObserveChanged(reg[r].path, reg[r].hash, i)
        BY <4>2 DEF ObserveChanged, IsRowOf, Calm
      <4> QED
        BY <1>1, <4>1, <4>2, <4>3 DEF ObserveNew, ObserveUnchanged, storeVars, StoreTypeOK
    <3>2. CASE ~RegisterObserve(r)
      BY <1>5, <3>2 DEF Register, RegisterStep, RegisterForce, RegisterEnsure, RegisterError, storeVars,
                        ResetToPendingForced, EnsureLanguage
    <3> QED
      BY <3>1, <3>2
  <2> QED
    BY <2>1, <2>3, <2>4, CalmFrame DEF workVars, Active, Calm
<1>6. ASSUME NEW p \in Path, FireChanged(p) \/ Reprocess(p)
      PROVE  Calm'
  <2>1. UNCHANGED <<files, disk, workVars, snap>>
    BY <1>6 DEF FireChanged, Reprocess, diskVars, dispatchVars, storeVars
  <2>2. budget'["edit"] = budget["edit"]
    BY <1>2, <1>6 DEF FireChanged, Reprocess, daemonVars, Event
  <2>3. \A r \in Registrar : regPc'[r] # "idle" =>
           \/ regPc[r] # "idle" /\ reg'[r].hash = reg[r].hash /\ reg'[r].path = reg[r].path
           \/ reg'[r].hash = disk[reg'[r].path]
    <3>1. CASE UNCHANGED regVars
      BY <3>1 DEF regVars
    <3>2. ASSUME NEW r \in Registrar, NEW force \in BOOLEAN, RegisterBegin(r, p, force)
          PROVE  \A s \in Registrar : regPc'[s] # "idle" =>
                   \/ regPc[s] # "idle" /\ reg'[s].hash = reg[s].hash /\ reg'[s].path = reg[s].path
                   \/ reg'[s].hash = disk[reg'[s].path]
      BY <1>1, <3>2 DEF RegisterBegin, RegGoto, PipelineTypeOK
    <3> QED
      BY <1>6, <3>1, <3>2 DEF FireChanged, Reprocess
  <2> QED
    BY <2>1, <2>2, <2>3, CalmFrame DEF workVars, Active, Calm
<1>7. ASSUME NEW p \in Path
      PROVE  ~FireRemoved(p) /\ ~Edit(p) /\ ~Delete(p) /\ \A q \in Path : ~Rename(p, q)
  BY <1>2 DEF FireRemoved, Edit, Delete, Rename, Rooted
<1>8. CASE Start \/ Shutdown \/ \E p \in Provider : Resumed(p)
  <2>1. UNCHANGED <<files, disk, workVars, regVars, snap>>
    BY <1>8 DEF Start, RecoverInProgress, Shutdown, Resumed, Resume, pipelineVars, dispatchVars,
                storeVars, diskVars
  <2>2. budget'["edit"] = budget["edit"]
    BY <1>2, <1>8 DEF Start, Shutdown, Resumed, daemonVars, Event
  <2> QED
    BY <2>1, <2>2, CalmFrame DEF workVars, regVars, Active, Calm
<1>9. CASE Exit \/ Crash
  <2>1. /\ UNCHANGED <<storeVars, disk>> /\ snap' = {}
        /\ \A w \in Worker : pc'[w] = "idle"
        /\ \A r \in Registrar : regPc'[r] = "idle"
    BY <1>9 DEF Exit, Crash, Volatile, storeVars
  <2>2. budget'["edit"] = budget["edit"]
    BY <1>2, <1>9 DEF Exit, Crash, Event
  <2> QED
    BY <2>1, <2>2, CalmFrame DEF Active, storeVars
<1>10. CASE UNCHANGED vars
  BY <1>10 DEF vars, pipelineVars, storeVars, diskVars, workVars, regVars, dispatchVars, daemonVars,
               Calm, Active
<1> QED
  BY <1>3, <1>4, <1>5, <1>6, <1>7, <1>8, <1>9, <1>10 DEF Next, Outside

\* Then no claimed pair's fence is stale.
LEMMA CalmCurrent ==
  ASSUME TypeOK, Rooted, Calm
  PROVE  ClaimsCurrent
<1>1. PipelineTypeOK
  BY DEF TypeOK, DispatcherTypeOK
<1>2. \A w \in Worker : pc[w] \in Claimed => Active(w) /\ job[w].id \in Id
  BY <1>1, ActiveJob DEF Claimed, Active, At
<1> QED
  BY <1>2 DEF ClaimsCurrent, Rooted, Calm, IsRowOf

\* Where nothing is removed or edited and nothing embedded is to be stripped.
LEMMA StaysCalm ==
  ASSUME Budget["remove"] = 0, Budget["edit"] = 0, NothingToStrip
  PROVE  Spec => []Calm
<1>1. Init => Calm
  BY DEF Init, DispatcherInit, PipelineInit, StoreInit, Calm, Active, At
<1>2. TypeOK /\ Rooted /\ Unstripped /\ Calm /\ [Next]_vars => Calm'
  BY CalmStep
<1> QED
  BY <1>1, <1>2, TypeCorrect, StaysRooted, StaysUnstripped, PTL DEF Spec

\* The same for videos that keep their content, however often they are
\* reprocessed and the daemon fails: an In Progress pair has its worker.
THEOREM CalmOwned ==
  ASSUME Budget["remove"] = 0, Budget["edit"] = 0, NothingToStrip
  PROVE  Spec => []InProgressOwned
BY ClaimsOwned, CalmCurrent, StaysCalm, StaysRooted, TypeCorrect, PTL

\* No reprocess request is waiting or being served.
Unforced ==
  /\ budget["reprocess"] = 0
  /\ \A r \in Registrar : regPc[r] # "idle" => ~reg[r].force /\ regPc[r] # "force"

LEMMA UnforcedStep ==
  ASSUME TypeOK, Unforced, [Next]_vars
  PROVE  Unforced'
<1> USE DEF At
<1>1. PipelineTypeOK /\ budget \in [Event -> Nat]
  BY DEF TypeOK, DispatcherTypeOK
<1>2. /\ ~Spend("reprocess")
      /\ \A e \in Event : e # "reprocess" /\ Spend(e) => budget'["reprocess"] = budget["reprocess"]
  BY <1>1 DEF Event, Spend, Unforced
<1>3. CASE UNCHANGED regVars /\ budget'["reprocess"] = budget["reprocess"]
  BY <1>3 DEF Unforced, regVars
<1>4. ASSUME NEW w \in Worker, Goroutine(w) \/ Suspend(w)
      PROVE  Unforced'
  BY <1>3, <1>4, WorkerShared DEF Event
<1>5. CASE Pass \/ \E p \in Provider : Resumed(p)
  BY <1>3, <1>5 DEF Pass, PassBegin, PassStop, PassSkip, StartWorker, Resumed, Resume, pipelineVars,
                    daemonVars
<1>6. ASSUME NEW r \in Registrar, NEW label, NEW rec, RegGoto(r, label, rec),
             budget'["reprocess"] = budget["reprocess"],
             label = "idle" \/ (label # "force" /\ ~rec.force)
      PROVE  Unforced'
  BY <1>1, <1>6 DEF RegGoto, PipelineTypeOK, Unforced
<1>7. ASSUME NEW r \in Registrar, Register(r)
      PROVE  Unforced'
  <2>1. reg[r] \in Registration /\ ~reg[r].force /\ regPc[r] # "force"
    BY <1>1, <1>7 DEF Register, RegisterStep, RegisterObserve, RegisterForce, RegisterEnsure,
                      RegisterError, PipelineTypeOK, Unforced
  <2>2. /\ \A i : ~[reg[r] EXCEPT !.id = i].force
        /\ \A t : ~[reg[r] EXCEPT !.todo = t].force
    BY <2>1 DEF Registration
  <2>3. budget' = budget
    BY <1>7 DEF Register, daemonVars
  <2>4. CASE RegisterObserve(r)
    <3>1. PICK i \in Id : LET g == [reg[r] EXCEPT !.id = i]
                          IN  \/ RegGoto(r, "ensure", g)
                              \/ RegGoto(r, IF g.force THEN "force" ELSE "ensure", g)
      BY <2>4 DEF RegisterObserve
    <3> QED
      BY <1>6, <2>2, <2>3, <3>1
  <2>5. CASE RegisterEnsure(r) \/ RegisterError(r)
    BY <1>6, <2>2, <2>3, <2>5 DEF RegisterEnsure, RegisterError
  <2> QED
    BY <1>7, <2>1, <2>4, <2>5 DEF Register, RegisterStep, RegisterForce
<1>8. ASSUME NEW p \in Path, FireChanged(p)
      PROVE  Unforced'
  <2>1. budget' = budget
    BY <1>8 DEF FireChanged, daemonVars
  <2>2. CASE UNCHANGED regVars
    BY <1>3, <2>1, <2>2
  <2>3. ASSUME NEW r \in Registrar, RegisterBegin(r, p, FALSE)
        PROVE  Unforced'
    BY <1>6, <2>1, <2>3 DEF RegisterBegin
  <2> QED
    BY <1>8, <2>2, <2>3 DEF FireChanged
<1>9. ASSUME NEW p \in Path, FireRemoved(p) \/ Edit(p) \/ Delete(p) \/ \E q \in Path : Rename(p, q)
      PROVE  Unforced'
  <2>1. UNCHANGED regVars
    BY <1>9 DEF FireRemoved, Edit, Delete, Rename, DiskUnchangedBut
  <2>2. budget'["reprocess"] = budget["reprocess"]
    BY <1>2, <1>9 DEF FireRemoved, Edit, Delete, Rename, Event
  <2> QED
    BY <1>3, <2>1, <2>2
<1>10. \A p \in Path : ~Reprocess(p)
  BY <1>2 DEF Reprocess
<1>11. CASE Start \/ Shutdown
  BY <1>2, <1>3, <1>11 DEF Start, Shutdown, Event
<1>12. CASE Exit \/ Crash
  BY <1>2, <1>12 DEF Exit, Crash, Volatile, Event, Unforced
<1>13. CASE UNCHANGED vars
  BY <1>3, <1>13 DEF vars, pipelineVars, daemonVars
<1> QED
  BY <1>4, <1>5, <1>7, <1>8, <1>9, <1>10, <1>11, <1>12, <1>13 DEF Next, Outside

LEMMA StaysUnforced ==
  ASSUME Budget["reprocess"] = 0
  PROVE  Spec => []Unforced
<1>1. Init => Unforced
  BY DEF Init, DispatcherInit, PipelineInit, Unforced
<1> QED
  BY <1>1, UnforcedStep, TypeCorrect, PTL DEF Spec

\* No worker is left when the process is.
DownIdle == down => \A w \in Worker : At(w, "idle")

LEMMA DownStep ==
  ASSUME TypeOK, DownIdle, [Next]_vars
  PROVE  DownIdle'
<1> USE DEF At
<1>1. ASSUME NEW w \in Worker, Goroutine(w) \/ Suspend(w)
      PROVE  DownIdle'
  BY <1>1, WorkerTable, WorkerShared DEF DownIdle
<1>2. CASE Pass \/ Start
  BY <1>2 DEF Pass, Start, DownIdle, daemonVars
<1>3. CASE Exit \/ Crash
  BY <1>3 DEF Exit, Crash, Volatile, DownIdle
<1>4. CASE UNCHANGED <<workVars, down>>
  BY <1>4 DEF DownIdle, workVars
<1>5. ASSUME NEW r \in Registrar, Register(r)
      PROVE  UNCHANGED <<workVars, down>>
  BY <1>5 DEF Register, RegisterStep, RegisterObserve, RegisterForce, RegisterEnsure, RegisterError,
              daemonVars
<1>6. CASE Outside \/ Shutdown \/ \E p \in Path : FireChanged(p) \/ FireRemoved(p)
  BY <1>4, <1>6 DEF Outside, Edit, Delete, Rename, Reprocess, Shutdown, FireChanged, FireRemoved,
                    DiskUnchangedBut, daemonVars
<1>7. CASE UNCHANGED vars \/ \E p \in Provider : Resumed(p)
  BY <1>4, <1>7 DEF vars, Resumed, Resume, pipelineVars, daemonVars
<1> QED
  BY <1>1, <1>2, <1>3, <1>4, <1>5, <1>6, <1>7 DEF Next

-----------------------------------------------------------------------------
(* Rows that nothing resets under a live fence. *)

\* A row that is there stays as it is, but that a restart requeues it and that a
\* change of its file resets or removes it.
RowsKept ==
  \A i \in Id, l \in Lang :
    Row(i, l) # NoRow =>
      \/ Row(i, l)' = Row(i, l)
      \/ Start
      \/ files'[i] # files[i]

\* With nothing forced, nothing but a worker writes a row of an unchanged file.
LEMMA NonWorkerKeeps ==
  ASSUME TypeOK, Unforced, NonWorkerStep
  PROVE  RowsKept
<1>1. PipelineTypeOK /\ StoreTypeOK
  BY DEF TypeOK, DispatcherTypeOK, PipelineTypeOK
<1>2. CASE UNCHANGED states
  BY <1>2 DEF RowsKept, Row
<1>3. ASSUME NEW r \in Registrar, Register(r)
      PROVE  RowsKept
  <2>1. /\ reg[r] \in Registration /\ regPc[r] # "idle" /\ regPc[r] # "force"
        /\ regPc[r] \in {"force", "ensure"} => reg[r].id \in Id
    BY <1>1, <1>3 DEF Register, RegisterStep, RegisterObserve, RegisterForce, RegisterEnsure,
                      RegisterError, PipelineTypeOK, Unforced
  <2>2. CASE RegisterObserve(r)
    <3>1. PICK i \in Id : LET g == [reg[r] EXCEPT !.id = i]
                          IN  \/ ObserveNew(g.path, g.hash, i) \/ ObserveChanged(g.path, g.hash, i)
                              \/ ObserveUnchanged(g.path, g.hash, i)
      BY <2>2 DEF RegisterObserve
    <3>2. /\ [reg[r] EXCEPT !.id = i].path = reg[r].path /\ reg[r].hash \in Hash
          /\ [reg[r] EXCEPT !.id = i].hash = reg[r].hash
      BY <2>1 DEF Registration
    <3>3. CASE ObserveChanged(reg[r].path, reg[r].hash, i)
      <4>1. files[i] \in FileRow /\ files[i].hash # reg[r].hash
        BY <1>1, <3>3 DEF ObserveChanged, IsRowOf, StoreTypeOK
      <4>2. files'[i].hash = reg[r].hash
        BY <1>1, <3>3, <4>1 DEF ObserveChanged, StoreTypeOK, FileRow
      <4>3. \A j \in Id, l \in Lang : j # i => Row(j, l)' = Row(j, l)
        BY <1>1, <3>3 DEF ObserveChanged, AllReset, StoreTypeOK, Row
      <4> QED
        BY <4>1, <4>2, <4>3 DEF RowsKept
    <3> QED
      BY <1>2, <3>1, <3>2, <3>3 DEF ObserveNew, ObserveUnchanged, storeVars
  <2>3. CASE RegisterEnsure(r)
    <3>1. PICK l \in Lang : EnsureLanguage(reg[r].id, l)
      BY <2>1, <2>3 DEF RegisterEnsure, Registration
    <3>2. reg[r].id \in Id
      BY <2>1, <2>3 DEF RegisterEnsure
    <3> QED
      BY <1>1, <3>1, <3>2 DEF EnsureLanguage, RowsKept, Row, StoreTypeOK
  <2>4. CASE RegisterError(r)
    BY <1>2, <2>4 DEF RegisterError, storeVars
  <2> QED
    BY <1>3, <2>1, <2>2, <2>3, <2>4 DEF Register, RegisterStep, RegisterForce
<1>4. CASE Pass \/ (\E p \in Path : FireChanged(p)) \/ \E p \in Provider : Resumed(p)
  BY <1>2, <1>4 DEF Pass, PassBegin, PassStop, PassSkip, StartWorker, FireChanged, Resumed, Resume,
                    pipelineVars, storeVars
<1>5. ASSUME NEW p \in Path, FireRemoved(p)
      PROVE  RowsKept
  <2>1. \A i \in Id : IsRowOf(i, p) => files[i] # NoFile /\ files'[i] = NoFile
    BY <1>5 DEF FireRemoved, DeleteFile, IsRowOf
  <2>2. \A i \in Id, l \in Lang : ~IsRowOf(i, p) => Row(i, l)' = Row(i, l)
    BY <1>5 DEF FireRemoved, DeleteFile, Row
  <2> QED
    BY <2>1, <2>2 DEF RowsKept
<1>6. CASE Outside
  BY <1>2, <1>6 DEF Outside, Edit, Delete, Rename, Reprocess, DiskUnchangedBut, storeVars
<1>7. CASE Shutdown \/ Exit \/ Crash
  BY <1>2, <1>7 DEF Shutdown, Exit, Crash, storeVars
<1>8. CASE Start
  BY <1>8 DEF RowsKept
<1> QED
  BY <1>3, <1>4, <1>5, <1>6, <1>7, <1>8 DEF NonWorkerStep

\* A step that changes the file row of a worker's pair, without being the worker's
\* own, does not give it the hash that worker is fenced on.
RecordsNew ==
  \A i \in Id, w \in Worker :
    files'[i] # files[i] /\ pc[w] # "idle" /\ job[w].id = i /\ job'[w] = job[w]
      => ~HashFence(i, job[w].hash)'

\* A claimed pair whose worker's writes can land is In Progress, and one that has
\* had its miss recorded is Pending again: with every Provider's miss, if its
\* worker has seen so.
InStep ==
  \A w \in Worker : pc[w] # "idle" /\ HashFence(job[w].id, job[w].hash) =>
    /\ pc[w] \in Claimed => Is(job[w].id, job[w].lang, "in_progress")
    /\ pc[w] \in {"missed", "exhausted"} => Is(job[w].id, job[w].lang, "pending")
    /\ At(w, "exhausted") => AllAttempted(Row(job[w].id, job[w].lang).attempted)

LEMMA InStepByWorker ==
  ASSUME TypeOK, Held, InStep, RecordsNew, NEW w \in Worker, Goroutine(w) \/ Suspend(w)
  PROVE  InStep'
<1> USE DEF At
<1>1. PipelineTypeOK /\ StoreTypeOK /\ ExclusivePairs
  BY DEF TypeOK, DispatcherTypeOK, PipelineTypeOK, Held, HeldPairs
<1>2. /\ pc[w] # "idle"
      /\ PairWrite(w) \/ PairQuiet(w)
      /\ KeepsJob(w)
      /\ \A v \in Worker : v # w => pc'[v] = pc[v] /\ job'[v] = job[v]
  BY WorkerTable
<1>3. \A v \in Worker : pc[v] # "idle" => job[v].id \in Id /\ job[v].lang \in Lang
  BY <1>1, ActiveJob
<1>4. PICK i \in Id, l \in Lang : i = job[w].id /\ l = job[w].lang
  BY <1>2, <1>3
<1>5. \A label : Goto(w, label) => pc'[w] = label
  BY <1>1 DEF Goto, PipelineTypeOK
<1>6. \A v \in Worker : v # w /\ pc[v] # "idle" => <<job[v].id, job[v].lang>> # <<i, l>>
  BY <1>1, <1>2, <1>4 DEF ExclusivePairs, Active, Key
<1>7. ASSUME NEW s, NEW why, NEW from, NEW to, Wrote(w, from, s, why, to)
      PROVE  /\ pc'[w] = to /\ Is(i, l, s)'
             /\ \A j \in Id, m \in Lang : <<j, m>> # <<i, l>> => Row(j, m)' = Row(j, m)
  BY <1>1, <1>4, <1>5, <1>7, WrittenRow DEF Wrote, Is
<1>8. \A j \in Id, m \in Lang : <<j, m>> # <<i, l>> => Row(j, m)' = Row(j, m)
  BY <1>2, <1>7 DEF PairWrite, PairQuiet, Row
<1>9. pc'[w] # "idle" => job'[w].id = i /\ job'[w].lang = l
  BY <1>2, <1>4 DEF KeepsJob
<1>10. ASSUME pc'[w] # "idle", HashFence(i, job[w].hash)'
       PROVE  HashFence(i, job[w].hash)
  <2>1. CASE UNCHANGED files /\ (pc'[w] # "idle" => job'[w].hash = job[w].hash)
    BY <1>10, <2>1 DEF HashFence
  <2> QED
    BY <1>4, <2>1, WorkerShared
<1>11. pc'[w] # "idle" /\ HashFence(i, job[w].hash)' =>
         /\ pc'[w] \in Claimed => Is(i, l, "in_progress")'
         /\ pc'[w] \in {"missed", "exhausted"} => Is(i, l, "pending")'
         /\ pc'[w] = "exhausted" => AllAttempted(Row(i, l)'.attempted)
  <2>1. CASE PairWrite(w)
    BY <1>7, <2>1 DEF PairWrite, Claimed
  <2>2. CASE PairQuiet(w)
    <3>1. /\ \A s : Is(i, l, s)' <=> Is(i, l, s)
          /\ Row(i, l)' = Row(i, l)
      BY <2>2 DEF PairQuiet, Is, Row
    <3>2. /\ pc'[w] \in Claimed => pc[w] \in Claimed
          /\ pc'[w] # "missed"
          /\ pc'[w] = "exhausted" => pc[w] = "missed" /\ AllAttempted(Row(i, l).attempted)
      BY <1>4, <1>5, <2>2 DEF PairQuiet, Claimed
    <3>3. HashFence(i, job[w].hash) =>
            /\ pc[w] \in Claimed => Is(i, l, "in_progress")
            /\ pc[w] = "missed" => Is(i, l, "pending")
      BY <1>2, <1>4 DEF InStep
    <3> QED
      BY <1>10, <3>1, <3>2, <3>3
  <2> QED
    BY <1>2, <2>1, <2>2
<1> SUFFICES ASSUME NEW v \in Worker, pc'[v] # "idle", HashFence(job[v].id, job[v].hash)'
             PROVE  /\ pc'[v] \in Claimed => Is(job[v].id, job[v].lang, "in_progress")'
                    /\ pc'[v] \in {"missed", "exhausted"} => Is(job[v].id, job[v].lang, "pending")'
                    /\ pc'[v] = "exhausted" => AllAttempted(Row(job[v].id, job[v].lang)'.attempted)
  BY DEF InStep
<1>12. CASE v = w
  <2>1. HashFence(i, job[w].hash)'
    BY <1>9, <1>12 DEF HashFence
  <2> QED
    BY <1>9, <1>11, <1>12, <2>1 DEF Is, Row
<1>13. CASE v # w
  <2>1. pc'[v] = pc[v] /\ job'[v] = job[v] /\ pc[v] # "idle" /\ job[v].id \in Id
    BY <1>2, <1>3, <1>13
  <2>2. HashFence(job[v].id, job[v].hash)
    <3>1. HashFence(job[v].id, job[v].hash)' => files'[job[v].id] = files[job[v].id]
      BY <2>1 DEF RecordsNew
    <3> QED
      BY <2>1, <3>1 DEF HashFence
  <2>3. /\ pc[v] \in Claimed => Is(job[v].id, job[v].lang, "in_progress")
        /\ pc[v] \in {"missed", "exhausted"} => Is(job[v].id, job[v].lang, "pending")
        /\ pc[v] = "exhausted" => AllAttempted(Row(job[v].id, job[v].lang).attempted)
    BY <2>1, <2>2 DEF InStep
  <2>4. Row(job[v].id, job[v].lang)' = Row(job[v].id, job[v].lang)
    BY <1>3, <1>6, <1>8, <1>13, <2>1 DEF Row
  <2> QED
    BY <2>1, <2>3, <2>4 DEF Is
<1> QED
  BY <1>12, <1>13

LEMMA InStepByOthers ==
  ASSUME TypeOK, CycleFlags, DownIdle, InStep, RowsKept, RecordsNew, NonWorkerStep
  PROVE  InStep'
<1> USE DEF At
<1>1. PipelineTypeOK
  BY DEF TypeOK, DispatcherTypeOK
<1>2. CASE Start
  <2>1. \A w \in Worker : pc'[w] = "idle"
    BY <1>2 DEF Start, DownIdle, workVars
  <2> QED
    BY <2>1 DEF InStep
<1>3. CASE ~Start
  <2>1. \A v \in Worker : pc'[v] \in Claimed \cup {"missed", "exhausted"} =>
                            pc'[v] = pc[v] /\ job'[v] = job[v]
    <3>1. CASE UNCHANGED workVars
      BY <3>1 DEF workVars
    <3>2. CASE \A v \in Worker : pc'[v] = "idle"
      BY <3>2 DEF Claimed
    <3>3. ASSUME NEW w \in Worker, NEW pair \in snap, StartWorker(w, pair)
          PROVE  \A v \in Worker : pc'[v] \in Claimed \cup {"missed", "exhausted"} =>
                                     pc'[v] = pc[v] /\ job'[v] = job[v]
      BY <1>1, <3>3 DEF StartWorker, Goto, Place, PipelineTypeOK, Claimed
    <3> QED
      BY <3>1, <3>2, <3>3, NonWorkerRows
  <2> SUFFICES ASSUME NEW v \in Worker, pc'[v] \in Claimed \cup {"missed", "exhausted"},
                      HashFence(job[v].id, job[v].hash)'
               PROVE  /\ pc'[v] \in Claimed => Is(job[v].id, job[v].lang, "in_progress")'
                      /\ pc'[v] \in {"missed", "exhausted"} => Is(job[v].id, job[v].lang, "pending")'
                      /\ pc'[v] = "exhausted" => AllAttempted(Row(job[v].id, job[v].lang)'.attempted)
    BY DEF InStep
  <2>2. pc'[v] = pc[v] /\ job'[v] = job[v] /\ pc[v] # "idle"
    BY <2>1 DEF Claimed
  <2>3. PICK i \in Id, l \in Lang : i = job[v].id /\ l = job[v].lang
    BY <1>1, <2>2, ActiveJob
  <2>4. files'[i] = files[i]
    <3>1. HashFence(i, job[v].hash)'
      BY <2>2, <2>3 DEF HashFence
    <3> QED
      BY <2>2, <2>3, <3>1 DEF RecordsNew
  <2>5. HashFence(i, job[v].hash)
    BY <2>2, <2>3, <2>4 DEF HashFence
  <2>6. /\ pc[v] \in Claimed => Is(i, l, "in_progress")
        /\ pc[v] \in {"missed", "exhausted"} => Is(i, l, "pending")
        /\ pc[v] = "exhausted" => AllAttempted(Row(i, l).attempted)
    BY <2>2, <2>3, <2>5 DEF InStep
  <2>7. Row(i, l)' = Row(i, l)
    BY <1>3, <2>2, <2>4, <2>6 DEF RowsKept, Is
  <2>8. Row(job[v].id, job[v].lang)' = Row(i, l)
    BY <2>2, <2>3, <2>7 DEF Row
  <2> QED
    BY <2>2, <2>6, <2>8 DEF Is
<1> QED
  BY <1>2, <1>3

\* Nothing is reprocessed, and a file's hash is never recorded anew while a worker
\* is fenced on it.
LEMMA StaysInStep ==
  ASSUME Budget["reprocess"] = 0
  PROVE  Spec /\ [][RecordsNew]_vars => []InStep
<1> DEFINE Known == TypeOK /\ Held /\ CycleFlags /\ Unforced /\ DownIdle
<1>1. Init => InStep /\ DownIdle
  BY DEF Init, DispatcherInit, PipelineInit, InStep, DownIdle, At
<1>2. Known /\ InStep /\ [Next]_vars /\ [RecordsNew]_vars => InStep'
  <2> SUFFICES ASSUME Known, InStep, [Next]_vars, [RecordsNew]_vars
               PROVE  InStep'
    OBVIOUS
  <2>1. CASE UNCHANGED vars
    BY <2>1 DEF vars, pipelineVars, workVars, storeVars, InStep, Is, Row, At, HashFence
  <2>2. CASE RecordsNew /\ \E w \in Worker : Goroutine(w) \/ Suspend(w)
    BY <2>2, InStepByWorker
  <2>3. CASE RecordsNew /\ NonWorkerStep
    BY <2>3, NonWorkerKeeps, InStepByOthers
  <2> QED
    BY <2>1, <2>2, <2>3 DEF Next, NonWorkerStep
<1>3. TypeOK /\ DownIdle /\ [Next]_vars => DownIdle'
  BY DownStep
<1>4. Spec => []Known
  BY <1>1, <1>3, DaemonInvariant, DaemonFlags, StaysUnforced, PTL DEF Spec
<1> QED
  BY <1>1, <1>2, <1>4, PTL DEF Spec

-----------------------------------------------------------------------------
(* Where no file row gets a hash back that a worker is fenced on. *)

\* Only a worker that strips, or a registration that finds other content, changes
\* the file row of a tracked video.
LEMMA FileChanges ==
  ASSUME TypeOK, Rooted, [Next]_vars, NEW i \in Id, files[i] # NoFile
  PROVE  \/ files'[i] = files[i]
         \/ \E w \in Worker : /\ Goroutine(w) \/ Suspend(w)
                              /\ At(w, "record")
                              /\ files'[i] = [files[i] EXCEPT !.hash = job[w].fixed]
         \/ \E r \in Registrar : /\ regPc[r] = "observe"
                                 /\ IsRowOf(i, reg[r].path)
                                 /\ files[i].hash # reg[r].hash
                                 /\ files'[i] = [files[i] EXCEPT !.hash = reg[r].hash]
<1>1. PipelineTypeOK /\ StoreTypeOK
  BY DEF TypeOK, DispatcherTypeOK, PipelineTypeOK
<1>2. ASSUME NEW w \in Worker, Goroutine(w) \/ Suspend(w), files'[i] # files[i]
      PROVE  At(w, "record") /\ files'[i] = [files[i] EXCEPT !.hash = job[w].fixed]
  <2>1. At(w, "record") /\ files' = [files EXCEPT ![job[w].id].hash = job[w].fixed]
    BY <1>2, WorkerShared
  <2>2. job[w].id = i
    BY <1>1, <1>2, <2>1 DEF StoreTypeOK
  <2> QED
    BY <1>1, <2>1, <2>2 DEF StoreTypeOK
<1>3. ASSUME NEW r \in Registrar, Register(r), files'[i] # files[i]
      PROVE  /\ regPc[r] = "observe" /\ IsRowOf(i, reg[r].path)
             /\ files[i].hash # reg[r].hash
             /\ files'[i] = [files[i] EXCEPT !.hash = reg[r].hash]
  <2>1. RegisterObserve(r)
    BY <1>3 DEF Register, RegisterStep, RegisterForce, RegisterEnsure, RegisterError,
                ResetToPendingForced, EnsureLanguage, storeVars
  <2>2. PICK j \in Id : LET g == [reg[r] EXCEPT !.id = j]
                        IN  \/ ObserveNew(g.path, g.hash, j) \/ ObserveChanged(g.path, g.hash, j)
                            \/ ObserveUnchanged(g.path, g.hash, j)
    BY <2>1 DEF RegisterObserve
  <2>3. reg[r] \in Registration
    BY <1>1, <2>1 DEF RegisterObserve, PipelineTypeOK
  <2>4. /\ [reg[r] EXCEPT !.id = j].path = reg[r].path
        /\ [reg[r] EXCEPT !.id = j].hash = reg[r].hash
    BY <2>3 DEF Registration
  <2>5. ~ObserveNew(reg[r].path, reg[r].hash, j)
    <3>1. j >= j
      BY DEF Id
    <3> QED
      BY <1>1, <1>3, <3>1 DEF ObserveNew, IsNextId, StoreTypeOK
  <2>6. ObserveChanged(reg[r].path, reg[r].hash, j)
    BY <1>3, <2>2, <2>4, <2>5 DEF ObserveUnchanged, storeVars
  <2> QED
    BY <1>1, <1>3, <2>1, <2>6 DEF RegisterObserve, ObserveChanged, StoreTypeOK
<1>4. ASSUME ~(\E w \in Worker : Goroutine(w) \/ Suspend(w)), ~(\E r \in Registrar : Register(r))
      PROVE  files' = files
  <2>1. CASE Pass \/ (\E p \in Path : FireChanged(p)) \/ (\E p \in Provider : Resumed(p)) \/ UNCHANGED vars
    BY <2>1 DEF Pass, PassBegin, PassStop, PassSkip, StartWorker, FireChanged, Resumed, Resume,
                pipelineVars, storeVars, vars
  <2>2. CASE Outside \/ Shutdown
    BY <2>2 DEF Outside, Edit, Delete, Rename, Reprocess, DiskUnchangedBut, Shutdown, storeVars
  <2>3. CASE Start \/ Exit \/ Crash
    BY <2>3 DEF Start, RecoverInProgress, Exit, Crash, storeVars
  <2>4. \A p \in Path : ~FireRemoved(p)
    BY DEF FireRemoved, Rooted
  <2> QED
    BY <1>4, <2>1, <2>2, <2>3, <2>4 DEF Next
<1> QED
  BY <1>2, <1>3, <1>4

\* Where videos keep their content it is never recorded anew.
LEMMA KeptContentNew ==
  ASSUME TypeOK, Rooted, OneContent \/ (Calm /\ Unstripped), [Next]_vars
  PROVE  RecordsNew
<1> SUFFICES ASSUME NEW i \in Id, NEW w \in Worker, pc[w] # "idle", job[w].id = i, job'[w] = job[w],
                    HashFence(i, job[w].hash)'
             PROVE  files'[i] = files[i]
  BY DEF RecordsNew
<1>1. PipelineTypeOK /\ StoreTypeOK
  BY DEF TypeOK, DispatcherTypeOK, PipelineTypeOK
<1>2. CASE Active(w)
  <2>1. files[i] \in FileRow /\ files[i] # NoFile
    BY <1>1, <1>2 DEF Rooted, IsRowOf, StoreTypeOK
  <2>2. CASE OneContent
    <3>1. ASSUME NEW h \in Hash
          PROVE  [files[i] EXCEPT !.hash = h] = files[i]
      BY <2>1, <2>2 DEF FileRow, OneContent
    <3>2. /\ \A v \in Worker : Goroutine(v) \/ Suspend(v) => job[v].fixed \in Hash
          /\ \A r \in Registrar : regPc[r] = "observe" => reg[r].hash \in Hash
      BY <1>1, WorkerTable, ActiveJob DEF PipelineTypeOK, Registration
    <3> QED
      BY <2>1, <3>1, <3>2, FileChanges
  <2>3. CASE Calm /\ Unstripped
    <3>1. /\ \A v \in Worker : ~At(v, "record")
          /\ \A r \in Registrar : regPc[r] = "observe" /\ IsRowOf(i, reg[r].path) =>
               files[i].hash = reg[r].hash
      BY <2>3 DEF Calm, Unstripped, At, IsRowOf
    <3> QED
      BY <2>1, <3>1, FileChanges
  <2> QED
    BY <2>2, <2>3
<1> QED
  BY <1>2 DEF Active, At

-----------------------------------------------------------------------------
(* A Library whose videos are edited, but never back to an earlier content. *)

\* Contents are ranked per path, and every edit moves on to a later one.
Forward(rank) ==
  \A p \in Path :
    disk[p] # Absent /\ disk'[p] # disk[p] => rank[p][disk[p]] < rank[p][disk'[p]]

\* No two registrations of one path are under way between hashing the video and
\* recording its hash.
OneAtATime ==
  \A r, s \in Registrar :
    regPc[r] = "observe" /\ regPc[s] = "observe" /\ reg[r].path = reg[s].path => r = s

NotAfter(rank, p, g, h) == g = h \/ rank[p][g] < rank[p][h]

\* What is recorded is not after what is on the disk, what a registration has read
\* lies between the two, and what a worker or a snapshot holds is before all of it.
Onward(rank) ==
  /\ \A i \in Id : files[i] # NoFile =>
       NotAfter(rank, files[i].path, files[i].hash, disk[files[i].path])
  /\ \A r \in Registrar : regPc[r] = "observe" =>
       /\ NotAfter(rank, reg[r].path, reg[r].hash, disk[reg[r].path])
       /\ \A i \in Id : IsRowOf(i, reg[r].path) =>
            NotAfter(rank, reg[r].path, files[i].hash, reg[r].hash)
  /\ \A w \in Worker : Active(w) =>
       NotAfter(rank, job[w].path, job[w].hash, files[job[w].id].hash)
  /\ \A x \in snap : NotAfter(rank, x.path, x.hash, files[x.id].hash)

LEMMA NotAfterThrough ==
  ASSUME NEW rank \in [Path -> [Hash -> Nat]], NEW p \in Path, NEW f \in Hash, NEW g \in Hash,
         NEW h \in Hash, NotAfter(rank, p, f, g), NotAfter(rank, p, g, h)
  PROVE  /\ NotAfter(rank, p, f, h)
         /\ g # h => f # h
<1>1. rank[p][f] \in Nat /\ rank[p][g] \in Nat /\ rank[p][h] \in Nat
  OBVIOUS
<1> QED
  BY <1>1 DEF NotAfter

\* The disk and the file rows being as they were, whatever is new is up to date.
LEMMA OnwardFrame ==
  ASSUME NEW rank, Onward(rank), UNCHANGED <<files, disk>>,
         \A r \in Registrar : regPc'[r] = "observe" =>
           \/ regPc[r] = "observe" /\ reg'[r].hash = reg[r].hash /\ reg'[r].path = reg[r].path
           \/ reg'[r].hash = disk[reg'[r].path],
         \A w \in Worker : Active(w)' =>
           \/ /\ Active(w)
              /\ job'[w].hash = job[w].hash /\ job'[w].path = job[w].path /\ job'[w].id = job[w].id
           \/ \E x \in snap : job'[w].hash = x.hash /\ job'[w].path = x.path /\ job'[w].id = x.id,
         \A x \in snap' : x \in snap \/ x.hash = files[x.id].hash
  PROVE  Onward(rank)'
<1>1. \A i \in Id : files'[i] # NoFile =>
        NotAfter(rank, files'[i].path, files'[i].hash, disk'[files'[i].path])
  BY DEF Onward
<1>2. ASSUME NEW r \in Registrar, regPc'[r] = "observe"
      PROVE  /\ NotAfter(rank, reg'[r].path, reg'[r].hash, disk'[reg'[r].path])
             /\ \A i \in Id : IsRowOf(i, reg[r].path)' =>
                  NotAfter(rank, reg'[r].path, files'[i].hash, reg'[r].hash)
  <2>1. CASE regPc[r] = "observe" /\ reg'[r].hash = reg[r].hash /\ reg'[r].path = reg[r].path
    BY <2>1 DEF Onward, IsRowOf
  <2>2. CASE reg'[r].hash = disk[reg'[r].path]
    BY <2>2 DEF Onward, IsRowOf, NotAfter
  <2> QED
    BY <1>2, <2>1, <2>2
<1>3. \A w \in Worker : Active(w)' =>
        NotAfter(rank, job'[w].path, job'[w].hash, files'[job'[w].id].hash)
  BY DEF Onward
<1>4. \A x \in snap' : NotAfter(rank, x.path, x.hash, files'[x.id].hash)
  BY DEF Onward, NotAfter
<1> QED
  BY <1>1, <1>2, <1>3, <1>4 DEF Onward, NotAfter

\* A registration records a hash that is not before the one it replaces.
LEMMA OnwardByRegistration ==
  ASSUME NEW rank \in [Path -> [Hash -> Nat]], TypeOK, Rooted, OneAtATime, Onward(rank),
         NEW r \in Registrar, RegisterObserve(r), UNCHANGED <<dispatchVars, daemonVars>>
  PROVE  Onward(rank)'
<1>1. PipelineTypeOK /\ StoreTypeOK /\ snap \subseteq PendingPair
  BY DEF TypeOK, DispatcherTypeOK, PipelineTypeOK
<1>2. reg[r] \in Registration /\ regPc[r] = "observe"
  BY <1>1 DEF RegisterObserve, PipelineTypeOK
<1>3. PICK p \in Path, h \in Hash : p = reg[r].path /\ h = reg[r].hash
  BY <1>2 DEF Registration
<1>4. PICK i \in Id : LET g == [reg[r] EXCEPT !.id = i]
                      IN  \/ ObserveNew(g.path, g.hash, i) \/ ObserveChanged(g.path, g.hash, i)
                          \/ ObserveUnchanged(g.path, g.hash, i)
  BY DEF RegisterObserve
<1>5. [reg[r] EXCEPT !.id = i].path = p /\ [reg[r] EXCEPT !.id = i].hash = h
  BY <1>2, <1>3 DEF Registration
<1>6. /\ UNCHANGED <<disk, workVars, snap>>
      /\ regPc'[r] # "observe"
      /\ \A s \in Registrar : s # r => regPc'[s] = regPc[s] /\ reg'[s] = reg[s]
  BY <1>1 DEF RegisterObserve, RegGoto, diskVars, dispatchVars, PipelineTypeOK
<1>7. NotAfter(rank, p, h, disk[p])
  BY <1>2, <1>3 DEF Onward
<1>8. ASSUME ~ObserveUnchanged(p, h, i)
      PROVE  /\ files'[i] = [path |-> p, hash |-> h]
             /\ \A j \in Id : j # i => files'[j] = files[j]
             /\ files[i] # NoFile => files[i].path = p /\ files[i].hash \in Hash
                                    /\ NotAfter(rank, p, files[i].hash, h)
  <2>1. CASE ObserveNew(p, h, i)
    <3>1. i >= i
      BY DEF Id
    <3> QED
      BY <1>1, <2>1, <3>1 DEF ObserveNew, IsNextId, StoreTypeOK
  <2>2. CASE ObserveChanged(p, h, i)
    <3>1. files[i] \in FileRow /\ IsRowOf(i, p)
      BY <1>1, <2>2 DEF ObserveChanged, IsRowOf, StoreTypeOK
    <3>2. files'[i] = [files[i] EXCEPT !.hash = h] /\ \A j \in Id : j # i => files'[j] = files[j]
      BY <1>1, <2>2 DEF ObserveChanged, StoreTypeOK
    <3>3. [files[i] EXCEPT !.hash = h] = [path |-> p, hash |-> h] /\ files[i].hash \in Hash
      BY <3>1 DEF FileRow, IsRowOf
    <3>4. NotAfter(rank, p, files[i].hash, h)
      BY <1>2, <1>3, <3>1 DEF Onward
    <3> QED
      BY <3>1, <3>2, <3>3, <3>4 DEF IsRowOf
  <2> QED
    BY <1>4, <1>5, <1>8, <2>1, <2>2
<1>9. CASE ObserveUnchanged(p, h, i)
  <2>1. UNCHANGED <<files, disk>>
    BY <1>6, <1>9 DEF ObserveUnchanged, storeVars
  <2> QED
    BY <1>6, <2>1, OnwardFrame DEF workVars, Active, At
<1>10. CASE ~ObserveUnchanged(p, h, i)
  <2>1. [path |-> p, hash |-> h].path = p /\ [path |-> p, hash |-> h].hash = h
    OBVIOUS
  <2>2. ASSUME NEW j \in Id, files'[j] # NoFile
        PROVE  NotAfter(rank, files'[j].path, files'[j].hash, disk'[files'[j].path])
    <3>1. CASE j = i
      BY <1>6, <1>7, <1>8, <1>10, <2>1, <3>1
    <3>2. CASE j # i
      BY <1>6, <1>8, <1>10, <2>2, <3>2 DEF Onward
    <3> QED
      BY <3>1, <3>2
  <2>3. ASSUME NEW s \in Registrar, regPc'[s] = "observe"
        PROVE  /\ NotAfter(rank, reg'[s].path, reg'[s].hash, disk'[reg'[s].path])
               /\ \A j \in Id : IsRowOf(j, reg[s].path)' =>
                    NotAfter(rank, reg'[s].path, files'[j].hash, reg'[s].hash)
    <3>1. s # r /\ regPc[s] = "observe" /\ reg'[s] = reg[s]
      BY <1>6, <2>3
    <3>2. reg[s].path # p
      BY <1>2, <1>3, <3>1 DEF OneAtATime
    <3>3. \A j \in Id : IsRowOf(j, reg[s].path)' => IsRowOf(j, reg[s].path) /\ files'[j] = files[j]
      BY <1>8, <1>10, <2>1, <3>1, <3>2 DEF IsRowOf
    <3> QED
      BY <1>6, <3>1, <3>3 DEF Onward
  <2>4. ASSUME NEW j \in Id, NEW q \in Path, NEW g \in Hash, IsRowOf(j, q),
               NotAfter(rank, q, g, files[j].hash)
        PROVE  NotAfter(rank, q, g, files'[j].hash)
    <3>1. CASE j = i
      BY <1>8, <1>10, <2>1, <2>4, <3>1, NotAfterThrough DEF IsRowOf
    <3>2. CASE j # i
      BY <1>8, <1>10, <2>4, <3>2
    <3> QED
      BY <3>1, <3>2
  <2>5. ASSUME NEW w \in Worker, Active(w)'
        PROVE  NotAfter(rank, job'[w].path, job'[w].hash, files'[job'[w].id].hash)
    <3>1. Active(w) /\ job'[w] = job[w] /\ IsRowOf(job[w].id, job[w].path)
      BY <1>6, <2>5 DEF workVars, Active, At, Rooted
    <3>2. job[w].id \in Id /\ job[w].path \in Path /\ job[w].hash \in Hash
      BY <1>1, <3>1, ActiveJob DEF Active, At
    <3>3. NotAfter(rank, job[w].path, job[w].hash, files[job[w].id].hash)
      BY <3>1 DEF Onward
    <3> QED
      BY <2>4, <3>1, <3>2, <3>3
  <2>6. ASSUME NEW x \in snap'
        PROVE  NotAfter(rank, x.path, x.hash, files'[x.id].hash)
    <3>1. /\ x \in snap /\ IsRowOf(x.id, x.path)
          /\ x.id \in Id /\ x.path \in Path /\ x.hash \in Hash
      BY <1>1, <1>6, <2>6 DEF Rooted, PendingPair
    <3> QED
      BY <2>4, <3>1 DEF Onward
  <2> QED
    BY <2>2, <2>3, <2>5, <2>6 DEF Onward, NotAfter
<1> QED
  BY <1>9, <1>10

\* An edit moves on from everything that was read before it.
LEMMA OnwardByEdit ==
  ASSUME NEW rank \in [Path -> [Hash -> Nat]], TypeOK, Rooted, Onward(rank), Forward(rank),
         NEW p \in Path, Edit(p)
  PROVE  Onward(rank)'
<1>1. PipelineTypeOK /\ StoreTypeOK
  BY DEF TypeOK, DispatcherTypeOK, PipelineTypeOK
<1>2. /\ UNCHANGED <<files, workVars, regVars, snap>>
      /\ \A q \in Path : q # p => disk'[q] = disk[q]
      /\ disk'[p] \in Hash /\ disk'[p] # disk[p]
  BY <1>1 DEF Edit, DiskUnchangedBut, storeVars, dispatchVars, PipelineTypeOK
<1>3. ASSUME NEW q \in Path, NEW g \in Hash, disk[q] # Absent, NotAfter(rank, q, g, disk[q])
      PROVE  NotAfter(rank, q, g, disk'[q])
  <2>1. CASE q = p
    <3>1. disk[p] \in Hash
      BY <1>1, <1>3, <2>1 DEF PipelineTypeOK
    <3>2. NotAfter(rank, p, disk[p], disk'[p])
      BY <1>2, <1>3, <2>1 DEF Forward, NotAfter
    <3> QED
      BY <1>2, <1>3, <2>1, <3>1, <3>2, NotAfterThrough
  <2>2. CASE q # p
    BY <1>2, <1>3, <2>2
  <2> QED
    BY <2>1, <2>2
<1>4. ASSUME NEW i \in Id, files'[i] # NoFile
      PROVE  NotAfter(rank, files'[i].path, files'[i].hash, disk'[files'[i].path])
  <2>1. files'[i] = files[i] /\ files[i] \in FileRow
    BY <1>1, <1>2, <1>4 DEF StoreTypeOK
  <2>2. files[i].path \in Path /\ files[i].hash \in Hash /\ disk[files[i].path] # Absent
    BY <1>4, <2>1 DEF FileRow, Rooted
  <2> QED
    BY <1>3, <1>4, <2>1, <2>2 DEF Onward
<1>5. ASSUME NEW r \in Registrar, regPc'[r] = "observe"
      PROVE  /\ NotAfter(rank, reg'[r].path, reg'[r].hash, disk'[reg'[r].path])
             /\ \A i \in Id : IsRowOf(i, reg[r].path)' =>
                  NotAfter(rank, reg'[r].path, files'[i].hash, reg'[r].hash)
  <2>1. /\ reg'[r] = reg[r] /\ regPc[r] = "observe" /\ reg[r] \in Registration
        /\ disk[reg[r].path] # Absent
    BY <1>1, <1>2, <1>5 DEF regVars, PipelineTypeOK, Rooted
  <2>2. reg[r].path \in Path /\ reg[r].hash \in Hash
    BY <2>1 DEF Registration
  <2>3. NotAfter(rank, reg[r].path, reg[r].hash, disk'[reg[r].path])
    BY <1>3, <2>1, <2>2 DEF Onward
  <2> QED
    BY <1>2, <2>1, <2>3 DEF Onward, IsRowOf
<1>6. /\ \A w \in Worker : Active(w)' =>
             NotAfter(rank, job'[w].path, job'[w].hash, files'[job'[w].id].hash)
      /\ \A x \in snap' : NotAfter(rank, x.path, x.hash, files'[x.id].hash)
  BY <1>2 DEF Onward, workVars, Active, At
<1> QED
  BY <1>4, <1>5, <1>6 DEF Onward, NotAfter

\* Only an edit changes a video.
LEMMA VideoChanges ==
  ASSUME TypeOK, Rooted, NothingToStrip, Unstripped, [Next]_vars
  PROVE  disk' = disk \/ \E p \in Path : Edit(p)
<1>1. CASE \E w \in Worker : Goroutine(w) \/ Suspend(w)
  BY <1>1, WorkerLeavesVideo
<1>2. CASE Pass \/ (\E p \in Provider : Resumed(p)) \/ UNCHANGED vars
  BY <1>2 DEF Pass, PassBegin, PassStop, PassSkip, StartWorker, Resumed, Resume, pipelineVars,
              diskVars, vars
<1>3. CASE \E r \in Registrar : Register(r)
  BY <1>3 DEF Register, RegisterStep, RegisterObserve, RegisterForce, RegisterEnsure, RegisterError,
              diskVars
<1>4. CASE (\E p \in Path : FireChanged(p) \/ FireRemoved(p)) \/ Start \/ Shutdown \/ Exit \/ Crash
  BY <1>4 DEF FireChanged, FireRemoved, Start, Shutdown, Exit, Crash, diskVars
<1>5. CASE Outside
  <2>1. ~Spend("remove")
    BY DEF Spend, Rooted
  <2> QED
    BY <1>5, <2>1 DEF Outside, Delete, Rename, Reprocess, diskVars
<1> QED
  BY <1>1, <1>2, <1>3, <1>4, <1>5 DEF Next

LEMMA OnwardStep ==
  ASSUME NEW rank \in [Path -> [Hash -> Nat]], TypeOK, CycleFlags, Rooted, NothingToStrip, Unstripped,
         OneAtATime, Onward(rank), [Next]_vars, [Forward(rank)]_vars
  PROVE  Onward(rank)'
<1> USE DEF At
<1>1. PipelineTypeOK
  BY DEF TypeOK, DispatcherTypeOK
<1>2. CASE UNCHANGED vars
  BY <1>2, OnwardFrame DEF vars, pipelineVars, storeVars, diskVars, workVars, regVars, dispatchVars, Active
<1>3. CASE \E p \in Path : Edit(p)
  BY <1>2, <1>3, OnwardByEdit
<1>4. ASSUME NEW r \in Registrar, Register(r)
      PROVE  Onward(rank)'
  <2>1. CASE RegisterObserve(r)
    BY <1>4, <2>1, OnwardByRegistration DEF Register
  <2>2. CASE ~RegisterObserve(r)
    <3>1. UNCHANGED <<files, disk, workVars, snap>>
      BY <1>4, <2>2 DEF Register, RegisterStep, RegisterForce, RegisterEnsure, RegisterError,
                        ResetToPendingForced, EnsureLanguage, storeVars, diskVars, dispatchVars
    <3>2. \A s \in Registrar : regPc'[s] = "observe" => regPc[s] = "observe" /\ reg'[s] = reg[s]
      BY <1>1, <1>4, <2>2 DEF Register, RegisterStep, RegisterForce, RegisterEnsure, RegisterError,
                              RegGoto, PipelineTypeOK
    <3> QED
      BY <3>1, <3>2, OnwardFrame DEF workVars, Active
  <2> QED
    BY <2>1, <2>2
<1>5. ASSUME UNCHANGED <<files, disk, regVars>>,
             \A w \in Worker : Active(w)' =>
               \/ /\ Active(w)
                  /\ job'[w].hash = job[w].hash /\ job'[w].path = job[w].path /\ job'[w].id = job[w].id
               \/ \E x \in snap : job'[w].hash = x.hash /\ job'[w].path = x.path /\ job'[w].id = x.id,
             \A x \in snap' : x \in snap \/ x.hash = files[x.id].hash
      PROVE  Onward(rank)'
  BY <1>5, OnwardFrame DEF regVars
<1>6. ASSUME NEW w \in Worker, Goroutine(w) \/ Suspend(w)
      PROVE  Onward(rank)'
  <2>1. UNCHANGED <<files, disk, regVars, snap>> /\ (pc'[w] # "idle" => job'[w].hash = job[w].hash)
    BY <1>6, WorkerLeavesVideo
  <2>2. /\ pc[w] # "idle"
        /\ \A v \in Worker : v # w => pc'[v] = pc[v] /\ job'[v] = job[v]
        /\ pc'[w] # "idle" => job'[w].path = job[w].path /\ job'[w].id = job[w].id
    BY <1>6, WorkerTable DEF KeepsJob
  <2> QED
    BY <1>5, <2>1, <2>2 DEF Active
<1>7. CASE Pass
  <2>1. UNCHANGED <<files, disk, regVars>>
    BY <1>7 DEF Pass, PassBegin, PassStop, PassSkip, StartWorker, pipelineVars, storeVars, diskVars
  <2>2. CASE UNCHANGED workVars
    <3>1. \A x \in snap' : x \in snap \/ x.hash = files[x.id].hash
      BY <1>7, SnapshotIs
    <3> QED
      BY <1>5, <2>1, <2>2, <3>1 DEF workVars, Active
  <2>3. ASSUME NEW w \in Worker, NEW pair \in snap, StartWorker(w, pair)
        PROVE  Onward(rank)'
    <3>1. /\ \A v \in Worker : v # w => pc'[v] = pc[v] /\ job'[v] = job[v]
          /\ job'[w].id = pair.id /\ job'[w].path = pair.path /\ job'[w].hash = pair.hash
      BY <1>1, <2>3 DEF StartWorker, Goto, Place, PipelineTypeOK
    <3>2. snap' \subseteq snap
      BY <2>3 DEF StartWorker
    <3> QED
      BY <1>5, <2>1, <3>1, <3>2 DEF Active
  <2> QED
    BY <1>7, <2>2, <2>3 DEF Pass, PassBegin, PassStop, PassSkip, pipelineVars
<1>8. ASSUME NEW p \in Path, FireChanged(p) \/ Reprocess(p)
      PROVE  Onward(rank)'
  <2>1. UNCHANGED <<files, disk, workVars, snap>>
    BY <1>8 DEF FireChanged, Reprocess, diskVars, dispatchVars, storeVars
  <2>2. \A r \in Registrar : regPc'[r] = "observe" =>
           \/ regPc[r] = "observe" /\ reg'[r].hash = reg[r].hash /\ reg'[r].path = reg[r].path
           \/ reg'[r].hash = disk[reg'[r].path]
    <3>1. CASE UNCHANGED regVars
      BY <3>1 DEF regVars
    <3>2. ASSUME NEW r \in Registrar, NEW force \in BOOLEAN, RegisterBegin(r, p, force)
          PROVE  \A s \in Registrar : regPc'[s] = "observe" =>
                   \/ regPc[s] = "observe" /\ reg'[s].hash = reg[s].hash /\ reg'[s].path = reg[s].path
                   \/ reg'[s].hash = disk[reg'[s].path]
      BY <1>1, <3>2 DEF RegisterBegin, RegGoto, PipelineTypeOK
    <3> QED
      BY <1>8, <3>1, <3>2 DEF FireChanged, Reprocess
  <2> QED
    BY <2>1, <2>2, OnwardFrame DEF workVars, Active
<1>9. ASSUME NEW p \in Path
      PROVE  ~FireRemoved(p) /\ ~Delete(p) /\ \A q \in Path : ~Rename(p, q)
  BY DEF FireRemoved, Delete, Rename, Spend, Rooted
<1>10. CASE Start \/ Shutdown \/ \E p \in Provider : Resumed(p)
  <2>1. UNCHANGED <<files, disk, workVars, regVars, snap>>
    BY <1>10 DEF Start, RecoverInProgress, Shutdown, Resumed, Resume, pipelineVars, dispatchVars,
                 storeVars, diskVars
  <2> QED
    BY <1>5, <2>1 DEF workVars, Active
<1>11. CASE Exit \/ Crash
  <2>1. /\ UNCHANGED <<files, disk>> /\ snap' = {}
        /\ \A w \in Worker : pc'[w] = "idle"
        /\ \A r \in Registrar : regPc'[r] = "idle"
    BY <1>11 DEF Exit, Crash, Volatile, storeVars
  <2> QED
    BY <2>1, OnwardFrame DEF Active
<1> QED
  BY <1>2, <1>3, <1>4, <1>6, <1>7, <1>8, <1>9, <1>10, <1>11 DEF Next, Outside

\* What is recorded then is after what any worker on the file holds.
LEMMA OnwardNew ==
  ASSUME NEW rank \in [Path -> [Hash -> Nat]], TypeOK, Rooted, Unstripped, Onward(rank), [Next]_vars
  PROVE  RecordsNew
<1> SUFFICES ASSUME NEW i \in Id, NEW w \in Worker, files'[i] # files[i], pc[w] # "idle", job[w].id = i,
                    job'[w] = job[w]
             PROVE  ~HashFence(i, job[w].hash)'
  BY DEF RecordsNew
<1>1. PipelineTypeOK /\ StoreTypeOK
  BY DEF TypeOK, DispatcherTypeOK, PipelineTypeOK
<1>2. /\ Active(w) /\ job[w].path \in Path /\ job[w].hash \in Hash
      /\ IsRowOf(i, job[w].path)
  BY <1>1, ActiveJob DEF Active, At, Rooted
<1>3. files[i] \in FileRow /\ files[i] # NoFile
  BY <1>1, <1>2 DEF IsRowOf, StoreTypeOK
<1>4. PICK r \in Registrar : /\ regPc[r] = "observe" /\ IsRowOf(i, reg[r].path)
                             /\ files[i].hash # reg[r].hash
                             /\ files'[i] = [files[i] EXCEPT !.hash = reg[r].hash]
  <2>1. \A v \in Worker : ~At(v, "record")
    BY DEF Unstripped, At
  <2> QED
    BY <1>3, <2>1, FileChanges
<1>5. reg[r].path = job[w].path /\ reg[r].hash \in Hash /\ files[i].hash \in Hash
  BY <1>1, <1>2, <1>3, <1>4 DEF IsRowOf, PipelineTypeOK, Registration, FileRow
<1>6. /\ NotAfter(rank, job[w].path, job[w].hash, files[i].hash)
      /\ NotAfter(rank, job[w].path, files[i].hash, reg[r].hash)
  BY <1>2, <1>4, <1>5 DEF Onward
<1>7. job[w].hash # reg[r].hash
  BY <1>2, <1>4, <1>5, <1>6, NotAfterThrough
<1>8. files'[i].hash = reg[r].hash
  BY <1>3, <1>4 DEF FileRow
<1> QED
  BY <1>7, <1>8 DEF HashFence

\* However often the videos are edited.
LEMMA ForwardNew ==
  ASSUME NEW rank \in [Path -> [Hash -> Nat]], Budget["remove"] = 0, NothingToStrip
  PROVE  Spec /\ [][Forward(rank)]_vars /\ []OneAtATime => [][RecordsNew]_vars
<1> DEFINE Known == TypeOK /\ CycleFlags /\ Rooted /\ Unstripped
           Inv == Onward(rank)
           Moves == Forward(rank)
<1>1. Init => Inv
  BY DEF Init, DispatcherInit, PipelineInit, StoreInit, Onward, Active, At
<1>2. Known /\ OneAtATime /\ Inv /\ [Next]_vars /\ [Moves]_vars => Inv'
  BY OnwardStep
<1>3. Known /\ Inv /\ [Next]_vars => [RecordsNew]_vars
  BY OnwardNew
<1>4. Spec => []Known
  BY TypeCorrect, DaemonFlags, StaysRooted, StaysUnstripped, PTL
<1> HIDE DEF Known, Inv, Moves
<1>5. Spec /\ [][Moves]_vars /\ []OneAtATime => [][RecordsNew]_vars
  BY <1>1, <1>2, <1>3, <1>4, PTL DEF Spec
<1> QED
  BY <1>5 DEF Moves

\* Of one edit in all: the first content of each path, then any other.
Age == [p \in Path |-> [h \in Hash |-> IF h = InitDisk[p] THEN 0 ELSE 1]]

EditedOnce == budget["edit"] \in {0, 1} /\ (budget["edit"] = 1 => disk = InitDisk)

LEMMA EditedOnceStep ==
  ASSUME TypeOK, Rooted, NothingToStrip, Unstripped, EditedOnce, [Next]_vars
  PROVE  EditedOnce' /\ [Forward(Age)]_vars
<1>1. /\ budget \in [Event -> Nat] /\ "edit" \in Event
      /\ disk \in [Path -> Hash \cup {Absent}] /\ InitDisk \in [Path -> Hash \cup {Absent}]
  BY DaemonConstants DEF TypeOK, DispatcherTypeOK, PipelineTypeOK, Event
<1>2. ASSUME NEW p \in Path, Edit(p)
      PROVE  EditedOnce' /\ Forward(Age)
  <2>1. budget["edit"] = 1 /\ budget'["edit"] = 0 /\ disk = InitDisk
    BY <1>1, <1>2 DEF Edit, Spend, EditedOnce
  <2>2. PICK h \in Hash \ {disk[p]} : disk' = [disk EXCEPT ![p] = h]
    BY <1>2 DEF Edit
  <2>3. \A q \in Path : disk'[q] # disk[q] => q = p /\ disk'[q] = h
    BY <1>1, <2>2
  <2>4. InitDisk[p] # Absent => Age[p][InitDisk[p]] = 0 /\ Age[p][h] = 1
    BY <1>1, <2>1, <2>2 DEF Age
  <2> QED
    BY <2>1, <2>3, <2>4 DEF EditedOnce, Forward
<1>3. ASSUME ~\E p \in Path : Edit(p)
      PROVE  EditedOnce' /\ (disk' = disk)
  <2>1. disk' = disk
    BY <1>3, VideoChanges
  <2>2. \A e \in Event : e # "edit" /\ Spend(e) => budget'["edit"] = budget["edit"]
    BY <1>1 DEF Spend
  <2>3. CASE \E w \in Worker : Goroutine(w) \/ Suspend(w)
    BY <2>1, <2>3, WorkerShared DEF EditedOnce, Event
  <2>4. CASE budget' = budget
    BY <2>1, <2>4 DEF EditedOnce
  <2>5. CASE Pass \/ Start \/ UNCHANGED vars \/ (\E p \in Provider : Resumed(p))
             \/ (\E r \in Registrar : Register(r)) \/ \E p \in Path : FireChanged(p) \/ FireRemoved(p)
    BY <2>4, <2>5 DEF Pass, Start, vars, Resumed, Register, FireChanged, FireRemoved, daemonVars
  <2>6. CASE Outside \/ Shutdown \/ Crash
    BY <1>3, <2>1, <2>2, <2>6
       DEF Outside, Delete, Rename, Reprocess, Shutdown, Crash, EditedOnce, Event
  <2>7. CASE Exit
    BY <2>4, <2>7 DEF Exit
  <2> QED
    BY <2>3, <2>5, <2>6, <2>7 DEF Next
<1> QED
  BY <1>2, <1>3 DEF Forward

\* A video's content never goes back to one that a worker may still be fenced on.
NeverBack ==
  \/ OneContent
  \/ Budget["edit"] = 0 /\ NothingToStrip
  \/ Budget["edit"] = 1 /\ NothingToStrip /\ \A r, s \in Registrar : r = s

LEMMA NeverBackNew ==
  ASSUME Budget["remove"] = 0, NeverBack
  PROVE  Spec => [][RecordsNew]_vars
<1>1. CASE OneContent
  <2>1. TypeOK /\ Rooted /\ [Next]_vars => [RecordsNew]_vars
    BY <1>1, KeptContentNew
  <2> QED
    BY <2>1, TypeCorrect, StaysRooted, PTL DEF Spec
<1>2. CASE Budget["edit"] = 0 /\ NothingToStrip
  <2>1. TypeOK /\ Rooted /\ Calm /\ Unstripped /\ [Next]_vars => [RecordsNew]_vars
    BY KeptContentNew
  <2> QED
    BY <1>2, <2>1, TypeCorrect, StaysRooted, StaysCalm, StaysUnstripped, PTL DEF Spec
<1>3. CASE Budget["edit"] = 1 /\ NothingToStrip /\ \A r, s \in Registrar : r = s
  <2> DEFINE Known == TypeOK /\ CycleFlags /\ Rooted /\ Unstripped
             Inv == EditedOnce /\ Onward(Age)
  <2>1. Age \in [Path -> [Hash -> Nat]]
    BY DEF Age
  <2>2. OneAtATime
    BY <1>3 DEF OneAtATime
  <2>3. Init => Inv
    BY <1>3 DEF Init, DispatcherInit, PipelineInit, StoreInit, EditedOnce, Onward, Active, At
  <2>4. Known /\ Inv /\ [Next]_vars => Inv'
    BY <1>3, <2>1, <2>2, EditedOnceStep, OnwardStep
  <2>5. Known /\ Inv /\ [Next]_vars => [RecordsNew]_vars
    BY <2>1, OnwardNew
  <2>6. Spec => []Known
    BY <1>3, TypeCorrect, DaemonFlags, StaysRooted, StaysUnstripped, PTL
  <2> HIDE DEF Known, Inv
  <2> QED
    BY <2>3, <2>4, <2>5, <2>6, PTL DEF Spec
<1> QED
  BY <1>1, <1>2, <1>3 DEF NeverBack

-----------------------------------------------------------------------------
(* no_candidate, where nothing is reprocessed. *)

\* As long as no file row gets a hash back that a worker is fenced on.
LEMMA NewJustified ==
  ASSUME Budget["reprocess"] = 0
  PROVE  Spec /\ [][RecordsNew]_vars => []NoCandidateJustified
<1>1. TypeOK /\ InStep => ExhaustedStands
  BY DEF InStep, ExhaustedStands, Lands, Fenced, At
<1> QED
  BY <1>1, StaysInStep, StandingJustified, TypeCorrect, PTL

\* A pair is Failed(no_candidate) only once every Provider has missed for it, in a
\* Library in which nothing is removed or reprocessed and no video goes back to an
\* earlier content: whatever the Tiers, the suspensions, the shutdowns and the crashes.
THEOREM NoCandidateAfterAll ==
  ASSUME Budget["remove"] = 0, Budget["reprocess"] = 0, NeverBack
  PROVE  Spec => []NoCandidateJustified
BY NeverBackNew, NewJustified, PTL

-----------------------------------------------------------------------------
(* Every step follows the lifecycle of PairLifecycle. *)

\* The lifecycle's variable, and what a row shows of it.
Life == [p \in Path |-> [l \in Lang |-> StatusOf(p, l)]]

Shown(row) ==
  IF row = NoRow THEN "untracked" ELSE IF row.status = "failed" THEN row.reason ELSE row.status

\* A worker that writes a failure has its pair In Progress, or, for no_candidate,
\* Pending: the row is still in the cycle the worker works on.
OutcomesOwned ==
  \A w \in Worker : Lands(w) =>
    /\ pc[w] \in {"fetch", "abort"} => Is(job[w].id, job[w].lang, "in_progress")
    /\ At(w, "exhausted") => Is(job[w].id, job[w].lang, "pending")

\* A video's status is what its one row shows.
LEMMA LifeOfRow ==
  ASSUME RowIntegrity
  PROVE  /\ \A i \in Id, p \in Path, l \in Lang : IsRowOf(i, p) => StatusOf(p, l) = Shown(Row(i, l))
         /\ \A p \in Path, l \in Lang : (\A i \in Id : ~IsRowOf(i, p)) => StatusOf(p, l) = "untracked"
<1>1. ASSUME NEW i \in Id, NEW p \in Path, NEW l \in Lang, IsRowOf(i, p)
      PROVE  StatusOf(p, l) = Shown(Row(i, l))
  <2>1. \A j \in Id : IsRowOf(j, p) <=> j = i
    BY <1>1 DEF IsRowOf, RowIntegrity
  <2>2. (CHOOSE j \in Id : IsRowOf(j, p)) = i
    BY <2>1
  <2> QED
    BY <2>1, <2>2 DEF StatusOf, Shown
<1>2. ASSUME NEW p \in Path, NEW l \in Lang, \A i \in Id : ~IsRowOf(i, p)
      PROVE  StatusOf(p, l) = "untracked"
  BY <1>2 DEF StatusOf
<1> QED
  BY <1>1, <1>2

LEMMA LifeOfRowNext ==
  ASSUME RowIntegrity'
  PROVE  /\ \A i \in Id, p \in Path, l \in Lang : IsRowOf(i, p)' => StatusOf(p, l)' = Shown(Row(i, l)')
         /\ \A p \in Path, l \in Lang : (\A i \in Id : ~IsRowOf(i, p)') => StatusOf(p, l)' = "untracked"
<1>1. ASSUME NEW i \in Id, NEW p \in Path, NEW l \in Lang, IsRowOf(i, p)'
      PROVE  StatusOf(p, l)' = Shown(Row(i, l)')
  <2>1. \A j \in Id : IsRowOf(j, p)' <=> j = i
    BY <1>1 DEF IsRowOf, RowIntegrity
  <2>2. (CHOOSE j \in Id : IsRowOf(j, p)') = i
    BY <2>1
  <2> QED
    BY <2>1, <2>2 DEF StatusOf, Shown
<1>2. ASSUME NEW p \in Path, NEW l \in Lang, \A i \in Id : ~IsRowOf(i, p)'
      PROVE  StatusOf(p, l)' = "untracked"
  BY <1>2 DEF StatusOf
<1> QED
  BY <1>1, <1>2

\* The videos' rows are the same ones after the step.
SameRows == \A i \in Id, p \in Path : IsRowOf(i, p)' <=> IsRowOf(i, p)

\* A step that writes one language row moves that pair, and only that.
LEMMA PairMoves ==
  ASSUME StoreTypeOK, RowIntegrity, RowIntegrity', SameRows, NEW i \in Id, NEW l \in Lang,
         files[i] # NoFile,
         \A j \in Id, m \in Lang : <<j, m>> # <<i, l>> => Row(j, m)' = Row(j, m)
  PROVE  /\ files[i].path \in Path
         /\ Life[files[i].path][l] = Shown(Row(i, l))
         /\ Life' = [Life EXCEPT ![files[i].path][l] = Shown(Row(i, l)')]
<1>1. PICK p \in Path : p = files[i].path
  BY DEF StoreTypeOK, FileRow
<1>2. IsRowOf(i, p) /\ IsRowOf(i, p)'
  BY <1>1 DEF IsRowOf, SameRows
<1>3. StatusOf(p, l) = Shown(Row(i, l)) /\ StatusOf(p, l)' = Shown(Row(i, l)')
  BY <1>2, LifeOfRow, LifeOfRowNext
<1>4. ASSUME NEW q \in Path, NEW m \in Lang, <<q, m>> # <<p, l>>
      PROVE  StatusOf(q, m)' = StatusOf(q, m)
  <2>1. CASE \E j \in Id : IsRowOf(j, q)
    <3>1. PICK j \in Id : IsRowOf(j, q)
      BY <2>1
    <3>2. <<j, m>> # <<i, l>>
      BY <1>1, <1>4, <3>1 DEF IsRowOf
    <3>3. Row(j, m)' = Row(j, m) /\ IsRowOf(j, q)'
      BY <3>1, <3>2 DEF SameRows
    <3> QED
      BY <3>1, <3>3, LifeOfRow, LifeOfRowNext
  <2>2. CASE \A j \in Id : ~IsRowOf(j, q)
    BY <2>2, LifeOfRow, LifeOfRowNext DEF SameRows
  <2> QED
    BY <2>1, <2>2
<1> QED
  BY <1>1, <1>3, <1>4 DEF Life

\* A step that writes none moves no pair.
LEMMA LifeRests ==
  ASSUME RowIntegrity, RowIntegrity', SameRows,
         \A i \in Id, l \in Lang : files[i] # NoFile => Row(i, l)' = Row(i, l)
  PROVE  Life' = Life
<1>1. ASSUME NEW q \in Path, NEW m \in Lang
      PROVE  StatusOf(q, m)' = StatusOf(q, m)
  <2>1. CASE \E j \in Id : IsRowOf(j, q)
    <3>1. PICK j \in Id : IsRowOf(j, q)
      BY <2>1
    <3>2. Row(j, m)' = Row(j, m) /\ IsRowOf(j, q)'
      BY <3>1 DEF SameRows, IsRowOf
    <3> QED
      BY <3>1, <3>2, LifeOfRow, LifeOfRowNext
  <2>2. CASE \A j \in Id : ~IsRowOf(j, q)
    BY <2>2, LifeOfRow, LifeOfRowNext DEF SameRows
  <2> QED
    BY <2>1, <2>2
<1> QED
  BY <1>1 DEF Life

\* A reset of a file's rows is a change of its video, whatever becomes of the flags.
LEMMA ResetIsChange ==
  ASSUME StoreTypeOK, RowIntegrity, RowIntegrity', SameRows, NEW i \in Id, NEW r \in LangRow,
         r.status = "pending", states' = AllReset(i, r)
  PROVE  [Lifecycle!LifeNext]_Life
<1>1. /\ \A l \in Lang : Row(i, l)' = IF Row(i, l) = NoRow THEN NoRow ELSE r
      /\ \A j \in Id, l \in Lang : j # i => Row(j, l)' = Row(j, l)
  BY DEF StoreTypeOK, AllReset, Row
<1>2. CASE files[i] = NoFile
  <2>1. Life' = Life
    BY <1>1, <1>2, LifeRests
  <2> QED
    BY <2>1
<1>3. CASE files[i] # NoFile
  <2>1. PICK p \in Path : p = files[i].path
    BY <1>3 DEF StoreTypeOK, FileRow
  <2>2. IsRowOf(i, p) /\ IsRowOf(i, p)'
    BY <1>3, <2>1 DEF IsRowOf, SameRows
  <2>3. ASSUME NEW l \in Lang
        PROVE  StatusOf(p, l)' = IF StatusOf(p, l) = "untracked" THEN StatusOf(p, l) ELSE "pending"
    <3>1. StatusOf(p, l) = Shown(Row(i, l)) /\ StatusOf(p, l)' = Shown(Row(i, l)')
      BY <2>2, LifeOfRow, LifeOfRowNext
    <3>2. Row(i, l) # NoRow => Shown(Row(i, l)) # "untracked"
      BY DEF StoreTypeOK, LangRow, Row, Shown, Status, FailureReason
    <3> QED
      BY <1>1, <3>1, <3>2, StoreConstants DEF Shown
  <2>4. ASSUME NEW q \in Path, NEW m \in Lang, q # p
        PROVE  StatusOf(q, m)' = StatusOf(q, m)
    <3>1. CASE \E j \in Id : IsRowOf(j, q)
      <4>1. PICK j \in Id : IsRowOf(j, q)
        BY <3>1
      <4>2. Row(j, m)' = Row(j, m) /\ IsRowOf(j, q)'
        BY <1>1, <2>1, <2>4, <4>1 DEF SameRows, IsRowOf
      <4> QED
        BY <4>1, <4>2, LifeOfRow, LifeOfRowNext
    <3>2. CASE \A j \in Id : ~IsRowOf(j, q)
      BY <3>2, LifeOfRow, LifeOfRowNext DEF SameRows
    <3> QED
      BY <3>1, <3>2
  <2>5. Lifecycle!Changed(p)
    BY <2>3, <2>4 DEF Lifecycle!Changed
  <2> QED
    BY <2>5 DEF Lifecycle!LifeNext
<1> QED
  BY <1>2, <1>3

\* A worker moves its pair along the lifecycle, from In Progress or, with a valid
\* Marker or every Provider spent, from Pending.
LEMMA WorkerFollows ==
  ASSUME TypeOK, RowIntegrity, RowIntegrity', CycleFlags, OutcomesOwned,
         NEW w \in Worker, Goroutine(w) \/ Suspend(w)
  PROVE  [Lifecycle!LifeNext]_Life
<1> USE DEF At
<1>1. PipelineTypeOK /\ StoreTypeOK
  BY DEF TypeOK, DispatcherTypeOK, PipelineTypeOK
<1>2. pc[w] # "idle" /\ (PairWrite(w) \/ PairQuiet(w))
  BY WorkerTable
<1>3. PICK i \in Id, l \in Lang : i = job[w].id /\ l = job[w].lang
  BY <1>1, <1>2, ActiveJob
<1>4. SameRows
  <2>1. \A j \in Id : files[j] # NoFile => files[j] \in FileRow
    BY <1>1 DEF StoreTypeOK
  <2>2. CASE UNCHANGED files
    BY <2>2 DEF SameRows, IsRowOf
  <2>3. CASE files[i] # NoFile /\ files' = [files EXCEPT ![i].hash = job[w].fixed]
    <3>1. job[w].fixed \in Hash
      BY <1>1, <1>2, ActiveJob
    <3>2. files'[i] # NoFile /\ files'[i].path = files[i].path
      BY <1>1, <2>1, <2>3, <3>1, StoreConstants DEF StoreTypeOK, FileRow
    <3>3. \A j \in Id : j # i => files'[j] = files[j]
      BY <1>1, <2>3 DEF StoreTypeOK
    <3> QED
      BY <2>3, <3>2, <3>3 DEF SameRows, IsRowOf
  <2> QED
    BY <1>3, <2>2, <2>3, WorkerShared
<1>5. CASE PairQuiet(w)
  <2>1. Life' = Life
    BY <1>4, <1>5, LifeRests DEF PairQuiet, Row
  <2> QED
    BY <2>1
<1>6. CASE PairWrite(w)
  <2>1. files[i] # NoFile /\ Row(i, l) # NoRow
    BY <1>1, <1>3, <1>6, WrittenRow DEF PairWrite, Wrote, RowIntegrity
  <2>2. PICK p \in Path : p = files[i].path
    BY <1>1, <2>1 DEF StoreTypeOK, FileRow
  <2>3. /\ Life[p][l] = Shown(Row(i, l))
        /\ Life[p][l] \in Lifecycle!Unfinished \cup Lifecycle!Outcome
        /\ Life[p][l] \in {"pending", "in_progress", "synced"} \cup FailureReason
        /\ \A s : Is(i, l, s) /\ s # "failed" => Life[p][l] = s
    <3>1. Life[p][l] = StatusOf(p, l)
      BY DEF Life
    <3>2. StatusOf(p, l) = Shown(Row(i, l))
      BY <2>1, <2>2, LifeOfRow DEF IsRowOf
    <3>3. Row(i, l) \in LangRow /\ (Row(i, l).status = "failed" => Row(i, l).reason \in FailureReason)
      BY <1>1, <2>1 DEF StoreTypeOK, LangRow, Row, CycleFlags
    <3>4. Shown(Row(i, l)) \in {"pending", "in_progress", "synced"} \cup FailureReason
      BY <2>1, <3>3 DEF Shown, LangRow, Status
    <3>5. \A s : Is(i, l, s) /\ s # "failed" => Shown(Row(i, l)) = s
      BY DEF Is, Shown
    <3> QED
      BY <3>1, <3>2, <3>4, <3>5 DEF Lifecycle!Unfinished, Lifecycle!Outcome
  <2>4. ASSUME NEW s, NEW why, NEW from, NEW to, Wrote(w, from, s, why, to)
        PROVE  Life' = [Life EXCEPT ![p][l] = IF s = "failed" THEN why ELSE s]
    <3>1. /\ Row(i, l)' # NoRow /\ Row(i, l)'.status = s /\ Row(i, l)'.reason = why
          /\ \A j \in Id, m \in Lang : <<j, m>> # <<i, l>> => Row(j, m)' = Row(j, m)
      BY <1>1, <1>3, <2>4, WrittenRow DEF Wrote
    <3>2. Shown(Row(i, l)') = IF s = "failed" THEN why ELSE s
      BY <3>1 DEF Shown
    <3> QED
      BY <1>1, <1>4, <2>1, <2>2, <3>1, <3>2, PairMoves
  <2>5. ASSUME NEW from, NEW to, Wrote(w, from, "synced", "none", to)
        PROVE  [Lifecycle!LifeNext]_Life
    <3>1. Life' = [Life EXCEPT ![p][l] = "synced"]
      BY <2>4, <2>5
    <3>2. CASE Life[p][l] \in {"pending"} \cup FailureReason
      <4>1. Lifecycle!GateHit(p, l)
        BY <3>1, <3>2 DEF Lifecycle!GateHit, Lifecycle!Becomes, Life
      <4> QED
        BY <4>1 DEF Lifecycle!LifeNext
    <3>3. CASE Life[p][l] = "in_progress"
      <4>1. Lifecycle!Finished(p, l)
        BY <3>1, <3>3 DEF Lifecycle!Finished, Lifecycle!Becomes, Lifecycle!Outcome, Life
      <4> QED
        BY <4>1 DEF Lifecycle!LifeNext
    <3>4. CASE Life[p][l] = "synced"
      <4>1. Life \in [Path -> [Lang -> {StatusOf(q, m) : q \in Path, m \in Lang}]]
        BY DEF Life
      <4>2. Life' = Life
        BY <3>1, <3>4, <4>1
      <4> QED
        BY <4>2
    <3> QED
      BY <2>3, <3>2, <3>3, <3>4
  <2>6. ASSUME NEW from, NEW to, NEW s \in {"pending", "failed"}, NEW why, Wrote(w, from, s, why, to),
               Is(i, l, "in_progress"), s = "failed" => why \in FailureReason \ {"no_candidate"}
        PROVE  [Lifecycle!LifeNext]_Life
    <3>1. /\ Life[p][l] = "in_progress"
          /\ Life' = [Life EXCEPT ![p][l] = IF s = "failed" THEN why ELSE s]
      BY <2>3, <2>4, <2>6
    <3>2. CASE s = "pending"
      <4>1. Lifecycle!Requeued(p, l)
        BY <3>1, <3>2 DEF Lifecycle!Requeued, Lifecycle!Becomes, Life
      <4> QED
        BY <4>1 DEF Lifecycle!LifeNext
    <3>3. CASE s = "failed"
      <4>1. Lifecycle!Finished(p, l)
        BY <2>6, <3>1, <3>3 DEF Lifecycle!Finished, Lifecycle!Becomes, Lifecycle!Outcome, Life
      <4> QED
        BY <4>1 DEF Lifecycle!LifeNext
    <3> QED
      BY <3>2, <3>3
  <2>7. ASSUME Wrote(w, "claim", "in_progress", "none", "fetch"), Is(i, l, "pending")
        PROVE  [Lifecycle!LifeNext]_Life
    <3>1. Life[p][l] = "pending" /\ Life' = [Life EXCEPT ![p][l] = "in_progress"]
      BY <2>3, <2>4, <2>7
    <3>2. Lifecycle!Claimed(p, l)
      BY <3>1 DEF Lifecycle!Claimed, Lifecycle!Becomes, Life
    <3> QED
      BY <3>2 DEF Lifecycle!LifeNext
  <2>8. ASSUME Wrote(w, "exhausted", "failed", "no_candidate", "release"), Is(i, l, "pending")
        PROVE  [Lifecycle!LifeNext]_Life
    <3>1. Life[p][l] = "pending" /\ Life' = [Life EXCEPT ![p][l] = "no_candidate"]
      BY <2>3, <2>4, <2>8
    <3>2. Lifecycle!Exhausted(p, l)
      BY <3>1 DEF Lifecycle!Exhausted, Lifecycle!Becomes, Life
    <3> QED
      BY <3>2 DEF Lifecycle!LifeNext
  <2>9. /\ Lands(w) /\ pc[w] \in {"fetch", "abort"} => Is(i, l, "in_progress")
        /\ Lands(w) /\ pc[w] = "exhausted" => Is(i, l, "pending")
    BY <1>3 DEF OutcomesOwned
  <2> QED
    BY <1>3, <1>6, <2>5, <2>6, <2>7, <2>8, <2>9 DEF PairWrite, Wrote, FailureReason
<1> QED
  BY <1>2, <1>5, <1>6

\* Triggers and restarts find, change and remove videos, and recover claims.
LEMMA OthersFollow ==
  ASSUME TypeOK, RowIntegrity, RowIntegrity', CycleFlags, NonWorkerStep
  PROVE  [Lifecycle!LifeNext]_Life
<1>1. PipelineTypeOK /\ StoreTypeOK
  BY DEF TypeOK, DispatcherTypeOK, PipelineTypeOK
<1>2. CASE UNCHANGED storeVars
  <2>1. Life' = Life
    BY <1>2, LifeRests DEF storeVars, SameRows, IsRowOf, Row
  <2> QED
    BY <2>1
<1>3. ASSUME NEW v \in Path, NEW h \in Hash, NEW i \in Id, ObserveNew(v, h, i)
      PROVE  [Lifecycle!LifeNext]_Life
  <2>1. /\ files[i] = NoFile /\ \A j \in Id : ~IsRowOf(j, v)
        /\ files' = [files EXCEPT ![i] = [path |-> v, hash |-> h]] /\ states' = states
    BY <1>3 DEF ObserveNew, IsNextId, Id, Tracked, IsRowOf
  <2>2. \A j \in Id : j # i => files'[j] = files[j]
    BY <1>1, <2>1 DEF StoreTypeOK
  <2>3. IsRowOf(i, v)' /\ \A m \in Lang : Row(i, m)' = NoRow
    <3>1. [path |-> v, hash |-> h] \in FileRow /\ files'[i] = [path |-> v, hash |-> h]
      BY <1>1, <2>1 DEF StoreTypeOK, FileRow
    <3>2. \A m \in Lang : Row(i, m) = NoRow
      BY <2>1 DEF RowIntegrity
    <3> QED
      BY <2>1, <3>1, <3>2, StoreConstants DEF IsRowOf, Row
  <2>4. ASSUME NEW q \in Path, NEW m \in Lang
        PROVE  StatusOf(q, m)' = StatusOf(q, m)
    <3>1. CASE q = v
      BY <2>1, <2>3, <3>1, LifeOfRow, LifeOfRowNext DEF Shown
    <3>2. CASE \E j \in Id : IsRowOf(j, q)
      <4>1. PICK j \in Id : IsRowOf(j, q)
        BY <3>2
      <4>2. Row(j, m)' = Row(j, m) /\ IsRowOf(j, q)'
        BY <2>1, <2>2, <4>1 DEF IsRowOf, Row
      <4> QED
        BY <4>1, <4>2, LifeOfRow, LifeOfRowNext
    <3>3. CASE q # v /\ \A j \in Id : ~IsRowOf(j, q)
      <4>1. \A j \in Id : ~IsRowOf(j, q)'
        BY <2>2, <2>3, <3>3 DEF IsRowOf
      <4> QED
        BY <3>3, <4>1, LifeOfRow, LifeOfRowNext
    <3> QED
      BY <3>1, <3>2, <3>3
  <2>5. Life' = Life
    BY <2>4 DEF Life
  <2> QED
    BY <2>5
<1>4. ASSUME NEW v \in Path, NEW h \in Hash, NEW i \in Id, ObserveChanged(v, h, i)
      PROVE  [Lifecycle!LifeNext]_Life
  <2>1. files[i] \in FileRow /\ files' = [files EXCEPT ![i].hash = h] /\ states' = AllReset(i, NewRow)
    BY <1>1, <1>4 DEF ObserveChanged, IsRowOf, StoreTypeOK
  <2>2. files'[i] # NoFile /\ files'[i].path = files[i].path /\ files[i] # NoFile
    BY <1>1, <2>1, StoreConstants DEF StoreTypeOK, FileRow
  <2>3. \A j \in Id : j # i => files'[j] = files[j]
    BY <1>1, <2>1 DEF StoreTypeOK
  <2>4. SameRows
    BY <2>2, <2>3 DEF SameRows, IsRowOf
  <2> QED
    BY <1>1, <2>1, <2>4, ResetIsChange DEF NewRow, LangRow, Status
<1>5. ASSUME NEW i \in Id, ResetToPendingForced(i)
      PROVE  [Lifecycle!LifeNext]_Life
  <2> DEFINE r == [NewRow EXCEPT !.force = TRUE]
  <2>1. r \in LangRow /\ r.status = "pending" /\ states' = AllReset(i, r) /\ SameRows
    BY <1>5 DEF ResetToPendingForced, NewRow, LangRow, Status, SameRows, IsRowOf
  <2> HIDE DEF r
  <2> QED
    BY <1>1, <2>1, ResetIsChange
<1>6. ASSUME NEW i \in Id, NEW l \in Lang, EnsureLanguage(i, l)
      PROVE  [Lifecycle!LifeNext]_Life
  <2>1. files[i] # NoFile /\ SameRows
    BY <1>6 DEF EnsureLanguage, SameRows, IsRowOf
  <2>2. CASE Row(i, l) # NoRow
    BY <1>2, <1>6, <2>2 DEF EnsureLanguage, Row, storeVars
  <2>3. CASE Row(i, l) = NoRow
    <3>1. /\ \A j \in Id, m \in Lang : <<j, m>> # <<i, l>> => Row(j, m)' = Row(j, m)
          /\ Row(i, l)' = NewRow
      BY <1>1, <1>6, <2>3 DEF EnsureLanguage, StoreTypeOK, Row
    <3>2. Shown(Row(i, l)) = "untracked" /\ Shown(NewRow) = "pending"
      <4>1. NewRow \in LangRow
        BY DEF NewRow, LangRow, Status
      <4> QED
        BY <2>3, <4>1, StoreConstants DEF Shown, NewRow
    <3>3. PICK p \in Path : p = files[i].path
      BY <1>1, <2>1 DEF StoreTypeOK, FileRow
    <3>4. Life[p][l] = "untracked" /\ Life' = [Life EXCEPT ![p][l] = "pending"]
      BY <1>1, <2>1, <3>1, <3>2, <3>3, PairMoves
    <3>5. Lifecycle!Found(p, l)
      BY <3>4 DEF Lifecycle!Found, Lifecycle!Becomes, Life
    <3> QED
      BY <3>5 DEF Lifecycle!LifeNext
  <2> QED
    BY <2>2, <2>3
<1>7. ASSUME NEW v \in Path, DeleteFile(v)
      PROVE  [Lifecycle!LifeNext]_Life
  <2>1. \A j \in Id : /\ IsRowOf(j, v) => files'[j] = NoFile
                      /\ ~IsRowOf(j, v) => files'[j] = files[j] /\ \A m \in Lang : Row(j, m)' = Row(j, m)
    BY <1>7 DEF DeleteFile, Row
  <2>2. ASSUME NEW m \in Lang
        PROVE  StatusOf(v, m)' = "untracked"
    <3>1. \A j \in Id : ~IsRowOf(j, v)'
      BY <2>1 DEF IsRowOf
    <3> QED
      BY <3>1, LifeOfRowNext
  <2>3. ASSUME NEW q \in Path, NEW m \in Lang, q # v
        PROVE  StatusOf(q, m)' = StatusOf(q, m)
    <3>1. CASE \E j \in Id : IsRowOf(j, q)
      <4>1. PICK j \in Id : IsRowOf(j, q)
        BY <3>1
      <4>2. Row(j, m)' = Row(j, m) /\ IsRowOf(j, q)'
        BY <2>1, <2>3, <4>1 DEF IsRowOf
      <4> QED
        BY <4>1, <4>2, LifeOfRow, LifeOfRowNext
    <3>2. CASE \A j \in Id : ~IsRowOf(j, q)
      <4>1. \A j \in Id : ~IsRowOf(j, q)'
        BY <2>1, <3>2 DEF IsRowOf
      <4> QED
        BY <3>2, <4>1, LifeOfRow, LifeOfRowNext
    <3> QED
      BY <3>1, <3>2
  <2>4. Lifecycle!Removed(v)
    BY <2>2, <2>3 DEF Lifecycle!Removed
  <2> QED
    BY <2>4 DEF Lifecycle!LifeNext
<1>8. ASSUME RecoverInProgress
      PROVE  [Lifecycle!LifeNext]_Life
  <2>1. \A i \in Id, l \in Lang :
          Row(i, l)' = IF Is(i, l, "in_progress") THEN [Row(i, l) EXCEPT !.status = "pending"] ELSE Row(i, l)
    BY <1>8 DEF RecoverInProgress, Is, Row
  <2>2. ASSUME NEW i \in Id, NEW l \in Lang
        PROVE  Shown(Row(i, l)') = IF Shown(Row(i, l)) = "in_progress" THEN "pending" ELSE Shown(Row(i, l))
    <3>1. Row(i, l) \in LangRow \cup {NoRow}
      BY <1>1 DEF StoreTypeOK, Row
    <3>2. CASE Is(i, l, "in_progress")
      <4>1. /\ Row(i, l)' = [Row(i, l) EXCEPT !.status = "pending"] /\ Row(i, l)' \in LangRow
            /\ Row(i, l)'.status = "pending"
        BY <2>1, <3>1, <3>2 DEF Is, LangRow, Status
      <4> QED
        BY <3>2, <4>1, StoreConstants DEF Is, Shown
    <3>3. CASE ~Is(i, l, "in_progress")
      BY <2>1, <3>1, <3>3 DEF Is, Shown, LangRow, FailureReason
    <3> QED
      BY <3>2, <3>3
  <2>3. ASSUME NEW q \in Path, NEW m \in Lang
        PROVE  StatusOf(q, m)' = IF StatusOf(q, m) = "in_progress" THEN "pending" ELSE StatusOf(q, m)
    <3>1. \A j \in Id : IsRowOf(j, q)' <=> IsRowOf(j, q)
      BY <1>8 DEF RecoverInProgress, IsRowOf
    <3>2. CASE \E j \in Id : IsRowOf(j, q)
      BY <2>2, <3>1, <3>2, LifeOfRow, LifeOfRowNext
    <3>3. CASE \A j \in Id : ~IsRowOf(j, q)
      BY <3>1, <3>3, LifeOfRow, LifeOfRowNext
    <3> QED
      BY <3>2, <3>3
  <2>4. Lifecycle!Recovered
    BY <2>3 DEF Lifecycle!Recovered
  <2> QED
    BY <2>4 DEF Lifecycle!LifeNext
<1>9. ASSUME NEW r \in Registrar, Register(r)
      PROVE  [Lifecycle!LifeNext]_Life
  <2>1. /\ reg[r] \in Registration
        /\ regPc[r] \in {"force", "ensure"} => reg[r].id \in Id
    BY <1>1, <1>9 DEF Register, RegisterStep, RegisterObserve, RegisterForce, RegisterEnsure,
                      RegisterError, PipelineTypeOK
  <2>2. CASE RegisterObserve(r)
    <3>1. PICK i \in Id : LET g == [reg[r] EXCEPT !.id = i]
                          IN  \/ ObserveNew(g.path, g.hash, i) \/ ObserveChanged(g.path, g.hash, i)
                              \/ ObserveUnchanged(g.path, g.hash, i)
      BY <2>2 DEF RegisterObserve
    <3>2. PICK v \in Path, h \in Hash : \/ ObserveNew(v, h, i) \/ ObserveChanged(v, h, i)
                                        \/ ObserveUnchanged(v, h, i)
      BY <2>1, <3>1 DEF Registration
    <3> QED
      BY <1>2, <1>3, <1>4, <3>2 DEF ObserveUnchanged
  <2>3. CASE RegisterForce(r)
    BY <1>5, <2>1, <2>3 DEF RegisterForce
  <2>4. CASE RegisterEnsure(r)
    BY <1>6, <2>1, <2>4 DEF RegisterEnsure, Registration
  <2>5. CASE RegisterError(r)
    BY <1>2, <2>5 DEF RegisterError
  <2> QED
    BY <1>9, <2>2, <2>3, <2>4, <2>5 DEF Register, RegisterStep
<1>10. CASE Pass \/ (\E p \in Path : FireChanged(p)) \/ \E p \in Provider : Resumed(p)
  BY <1>2, <1>10 DEF Pass, PassBegin, PassStop, PassSkip, StartWorker, FireChanged, Resumed, Resume,
                     pipelineVars
<1>11. CASE Outside
  BY <1>2, <1>11 DEF Outside, Edit, Delete, Rename, Reprocess, DiskUnchangedBut
<1>12. CASE Shutdown \/ Exit \/ Crash
  BY <1>2, <1>12 DEF Shutdown, Exit, Crash
<1>13. CASE Start \/ \E p \in Path : FireRemoved(p)
  BY <1>7, <1>8, <1>13 DEF Start, FireRemoved
<1> QED
  BY <1>9, <1>10, <1>11, <1>12, <1>13 DEF NonWorkerStep

\* The daemon moves every pair along the lifecycle as long as no worker writes a
\* failure over a row that was reset after it had claimed it.
THEOREM OwnedFollows == Spec /\ []OutcomesOwned => FollowsLifecycle
<1> DEFINE Known == TypeOK /\ RowIntegrity /\ CycleFlags
<1>1. Init => Lifecycle!LifeInit
  BY DEF Init, DispatcherInit, PipelineInit, StoreInit, Lifecycle!LifeInit, StatusOf, IsRowOf
<1>2. Known /\ Known' /\ OutcomesOwned /\ [Next]_vars =>
        [Lifecycle!LifeNext]_([p \in Path |-> [l \in Lang |-> StatusOf(p, l)]])
  <2> SUFFICES ASSUME Known, Known', OutcomesOwned, [Next]_vars
               PROVE  [Lifecycle!LifeNext]_Life
    BY DEF Life
  <2>1. CASE \E w \in Worker : Goroutine(w) \/ Suspend(w)
    BY <2>1, WorkerFollows
  <2>2. CASE NonWorkerStep
    BY <2>2, OthersFollow
  <2>3. CASE UNCHANGED vars
    <3>1. Life' = Life
      BY <2>3, LifeRests DEF vars, pipelineVars, storeVars, SameRows, IsRowOf, Row
    <3> QED
      BY <3>1
  <2> QED
    BY <2>1, <2>2, <2>3 DEF Next, NonWorkerStep
<1> HIDE DEF Known
<1>3. Spec => []Known
  BY TypeCorrect, DaemonRowsConsistent, DaemonFlags, PTL DEF Known
<1> QED
  BY <1>1, <1>2, <1>3, PTL DEF Spec, FollowsLifecycle, Lifecycle!LifeSpec

\* It does where no file row gets a hash back that a worker is fenced on.
LEMMA NewFollows ==
  ASSUME Budget["reprocess"] = 0
  PROVE  Spec /\ [][RecordsNew]_vars => FollowsLifecycle
<1>1. TypeOK /\ InStep => OutcomesOwned
  BY DEF InStep, OutcomesOwned, Lands, Fenced, Claimed, At
<1> QED
  BY <1>1, StaysInStep, OwnedFollows, TypeCorrect, PTL

\* In a Library in which nothing is removed or reprocessed and no video goes back to
\* an earlier content the daemon implements the lifecycle, whatever fails, is
\* interrupted or crashes.
THEOREM DaemonFollowsLifecycle ==
  ASSUME Budget["remove"] = 0, Budget["reprocess"] = 0, NeverBack
  PROVE  Spec => FollowsLifecycle
BY NeverBackNew, NewFollows, PTL

\* However many edits there are and however many registrations at once: as long as
\* each edit moves on to a later content of its path, and no two registrations of a
\* path overlap, the outcomes are justified and the lifecycle is followed.
THEOREM ForwardFollows ==
  ASSUME NEW rank \in [Path -> [Hash -> Nat]],
         Budget["remove"] = 0, Budget["reprocess"] = 0, NothingToStrip
  PROVE  Spec /\ [][Forward(rank)]_vars /\ []OneAtATime =>
           []NoCandidateJustified /\ FollowsLifecycle
<1> DEFINE Moves == Forward(rank)
<1>1. Spec /\ [][Moves]_vars /\ []OneAtATime => [][RecordsNew]_vars
  BY ForwardNew
<1> HIDE DEF Moves
<1>2. Spec /\ [][Moves]_vars /\ []OneAtATime => []NoCandidateJustified /\ FollowsLifecycle
  BY <1>1, NewJustified, NewFollows, PTL
<1> QED
  BY <1>2 DEF Moves
=============================================================================
