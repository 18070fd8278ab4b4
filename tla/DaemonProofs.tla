----------------------------- MODULE DaemonProofs -----------------------------
(***************************************************************************)
(* Proofs about the store, whoever calls it, and about the daemon that     *)
(* does: for any paths, languages, hashes and Providers, any Library, pool *)
(* sizes, number of workers and registrations, and any bounds on the       *)
(* outside.                                                                *)
(***************************************************************************)
EXTENDS DaemonProperties, StoreProperties, FiniteSetTheorems, TLAPS

-----------------------------------------------------------------------------
(* The store by itself. *)

\* Every row the methods write has the type of the table's rows.
LEMMA RowTypes ==
  /\ NewRow \in LangRow
  /\ [NewRow EXCEPT !.force = TRUE] \in LangRow
  /\ NewRow # NoRow
  /\ [NewRow EXCEPT !.force = TRUE] # NoRow
  /\ NoRows \in [Lang -> LangRow \cup {NoRow}]
<1>1. NewRow \in LangRow
  BY DEF NewRow, LangRow, Status
<1>2. [NewRow EXCEPT !.force = TRUE] \in LangRow
  BY <1>1 DEF LangRow
<1> QED
  BY <1>1, <1>2, StoreConstants DEF NoRows

\* Resetting the rows of a file to a row of the right type leaves a table of the right type.
LEMMA AllResetType ==
  ASSUME StoreTypeOK, NEW i \in Id, NEW r \in LangRow
  PROVE  AllReset(i, r) \in [Id -> [Lang -> LangRow \cup {NoRow}]]
BY DEF AllReset, StoreTypeOK

\* Row r agrees with itself, as CycleFlags asks of every row.
SoundFlags(r) ==
  /\ r.reason # "none" <=> r.status = "failed"
  /\ r.force => r.status \in {"pending", "in_progress"}

\* Row r goes on with the cycle of the row for (i, l): its misses are kept.
Continues(i, l, r) ==
  /\ r \in LangRow
  /\ SoundFlags(r)
  /\ states[i][l].attempted \subseteq r.attempted

\* A write to one language row: the row was there, and the write continues it.
OneRow(i, l) ==
  /\ states[i][l] # NoRow
  /\ \E r : Continues(i, l, r) /\ states' = [states EXCEPT ![i][l] = r]
  /\ UNCHANGED files

\* A language's method inserts a new row, writes to the one that is there, or
\* changes nothing.
LEMMA LangOpShape ==
  ASSUME StoreTypeOK, NEW i \in Id, NEW l \in Lang, LangOp(i, l)
  PROVE  \/ EnsureLanguage(i, l)
         \/ OneRow(i, l)
         \/ UNCHANGED storeVars
<1> DEFINE row == states[i][l]
<1>0. row # NoRow => row \in LangRow
  BY DEF StoreTypeOK
<1>1. CASE EnsureLanguage(i, l)
  BY <1>1
<1>2. CASE MarkInProgress(i, l)
  <2>1. Continues(i, l, [row EXCEPT !.status = "in_progress", !.reason = "none"])
    BY <1>0, <1>2 DEF MarkInProgress, LangRow, Status, Continues, SoundFlags
  <2>2. states' = [states EXCEPT ![i][l] = [row EXCEPT !.status = "in_progress", !.reason = "none"]]
    BY <1>0, <1>2 DEF MarkInProgress, StoreTypeOK, LangRow
  <2> QED
    BY <2>1, <2>2, <1>2 DEF MarkInProgress, OneRow
<1>3. CASE RequeueInProgress(i, l)
  <2>1. CASE row # NoRow /\ row.status = "in_progress"
    <3>1. Continues(i, l, [row EXCEPT !.status = "pending", !.reason = "none"])
      BY <1>0, <2>1 DEF LangRow, Status, FailureReason, Continues, SoundFlags
    <3>2. states' = [states EXCEPT ![i][l] = [row EXCEPT !.status = "pending", !.reason = "none"]]
      BY <1>0, <1>3, <2>1 DEF RequeueInProgress, StoreTypeOK, LangRow
    <3> QED
      BY <3>1, <3>2, <1>3, <2>1 DEF RequeueInProgress, OneRow
  <2>2. CASE ~(row # NoRow /\ row.status = "in_progress")
    BY <1>3, <2>2 DEF RequeueInProgress, storeVars
  <2> QED
    BY <2>1, <2>2
<1>4. ASSUME NEW h \in Hash, MarkSynced(i, h, l)
      PROVE  OneRow(i, l)
  <2>1. row # NoRow
    BY <1>4 DEF MarkSynced, Fenced
  <2>2. Continues(i, l, [row EXCEPT !.status = "synced", !.reason = "none", !.force = FALSE])
    BY <1>0, <2>1 DEF LangRow, Status, FailureReason, Continues, SoundFlags
  <2>3. states' = [states EXCEPT ![i][l] =
                     [row EXCEPT !.status = "synced", !.reason = "none", !.force = FALSE]]
    BY <1>0, <1>4, <2>1 DEF MarkSynced, StoreTypeOK, LangRow
  <2> QED
    BY <2>1, <2>2, <2>3, <1>4 DEF MarkSynced, OneRow
<1>5. ASSUME NEW h \in Hash, ResetLanguageToPending(i, h, l)
      PROVE  OneRow(i, l)
  <2>1. row # NoRow
    BY <1>5 DEF ResetLanguageToPending, Fenced
  <2>2. Continues(i, l, [row EXCEPT !.status = "pending", !.reason = "none"])
    BY <1>0, <2>1 DEF LangRow, Status, FailureReason, Continues, SoundFlags
  <2>3. states' = [states EXCEPT ![i][l] = [row EXCEPT !.status = "pending", !.reason = "none"]]
    BY <1>0, <1>5, <2>1 DEF ResetLanguageToPending, StoreTypeOK, LangRow
  <2> QED
    BY <2>1, <2>2, <2>3, <1>5 DEF ResetLanguageToPending, OneRow
<1>6. ASSUME NEW h \in Hash, NEW why \in FailureReason, MarkFailed(i, h, l, why)
      PROVE  OneRow(i, l)
  <2>1. row # NoRow
    BY <1>6 DEF MarkFailed, Fenced
  <2>2. Continues(i, l, [row EXCEPT !.status = "failed", !.reason = why, !.force = FALSE])
    BY <1>0, <2>1 DEF LangRow, Status, FailureReason, Continues, SoundFlags
  <2>3. states' = [states EXCEPT ![i][l] =
                     [row EXCEPT !.status = "failed", !.reason = why, !.force = FALSE]]
    BY <1>0, <1>6, <2>1 DEF MarkFailed, StoreTypeOK, LangRow
  <2> QED
    BY <2>1, <2>2, <2>3, <1>6 DEF MarkFailed, OneRow
<1>7. ASSUME NEW h \in Hash, NEW p \in Provider, RecordProviderMiss(i, h, l, p)
      PROVE  OneRow(i, l)
  <2>1. row # NoRow
    BY <1>7 DEF RecordProviderMiss, Fenced
  <2>2. Continues(i, l, [row EXCEPT !.status = "pending", !.reason = "none", !.attempted = @ \cup {p}])
    BY <1>0, <2>1 DEF LangRow, Status, FailureReason, Continues, SoundFlags
  <2>3. states' = [states EXCEPT ![i][l] =
                     [row EXCEPT !.status = "pending", !.reason = "none", !.attempted = @ \cup {p}]]
    BY <1>0, <1>7, <2>1 DEF RecordProviderMiss, StoreTypeOK, LangRow
  <2> QED
    BY <2>1, <2>2, <2>3, <1>7 DEF RecordProviderMiss, OneRow
<1> QED
  BY <1>1, <1>2, <1>3, <1>4, <1>5, <1>6, <1>7 DEF LangOp

-----------------------------------------------------------------------------
\* The tables keep their types, whatever is called in whatever order.
LEMMA StoreTypeStep ==
  ASSUME StoreTypeOK, [StoreNext]_storeVars
  PROVE  StoreTypeOK'
<1> USE RowTypes
<1>1. ASSUME NEW p \in Path, NEW h \in Hash, NEW i \in Id, ObserveNew(p, h, i)
      PROVE  StoreTypeOK'
  BY <1>1 DEF StoreTypeOK, ObserveNew, FileRow
<1>2. ASSUME NEW p \in Path, NEW h \in Hash, NEW i \in Id, ObserveChanged(p, h, i)
      PROVE  StoreTypeOK'
  <2>1. files' \in [Id -> FileRow \cup {NoFile}]
    BY <1>2 DEF StoreTypeOK, ObserveChanged, IsRowOf, FileRow
  <2> QED
    BY <1>2, <2>1, AllResetType DEF StoreTypeOK, ObserveChanged
<1>3. ASSUME NEW p \in Path, NEW h \in Hash, NEW i \in Id, ObserveUnchanged(p, h, i)
      PROVE  StoreTypeOK'
  BY <1>3 DEF StoreTypeOK, ObserveUnchanged, storeVars
<1>4. ASSUME NEW p \in Path, DeleteFile(p)
      PROVE  StoreTypeOK'
  BY <1>4 DEF StoreTypeOK, DeleteFile
<1>5. ASSUME NEW i \in Id, NEW h \in Hash, NEW new \in Hash, UpdateContentHash(i, h, new)
      PROVE  StoreTypeOK'
  BY <1>5 DEF StoreTypeOK, UpdateContentHash, HashFence, FileRow
<1>6. CASE RecoverInProgress
  <2>1. ASSUME NEW i \in Id, NEW l \in Lang
        PROVE  states'[i][l] \in LangRow \cup {NoRow}
    <3>1. states[i][l] \in LangRow \cup {NoRow}
      BY DEF StoreTypeOK
    <3>2. states[i][l] \in LangRow => [states[i][l] EXCEPT !.status = "pending"] \in LangRow
      BY DEF LangRow, Status
    <3>3. states'[i][l] = IF states[i][l] # NoRow /\ states[i][l].status = "in_progress"
                          THEN [states[i][l] EXCEPT !.status = "pending"] ELSE states[i][l]
      BY <1>6 DEF RecoverInProgress
    <3> QED
      BY <3>1, <3>2, <3>3
  <2> QED
    BY <1>6, <2>1 DEF StoreTypeOK, RecoverInProgress
<1>7. ASSUME NEW i \in Id, ResetToPending(i) \/ ResetToPendingForced(i)
      PROVE  StoreTypeOK'
  BY <1>7, AllResetType DEF StoreTypeOK, ResetToPending, ResetToPendingForced
<1>8. ASSUME NEW i \in Id, NEW l \in Lang, LangOp(i, l)
      PROVE  StoreTypeOK'
  <2>1. CASE EnsureLanguage(i, l)
    BY <2>1 DEF StoreTypeOK, EnsureLanguage
  <2>2. CASE OneRow(i, l)
    BY <2>2 DEF StoreTypeOK, OneRow, Continues
  <2>3. CASE UNCHANGED storeVars
    BY <2>3 DEF StoreTypeOK, storeVars
  <2> QED
    BY <1>8, <2>1, <2>2, <2>3, LangOpShape
<1>9. CASE UNCHANGED storeVars
  BY <1>9 DEF StoreTypeOK, storeVars
<1> QED
  BY <1>1, <1>2, <1>3, <1>4, <1>5, <1>6, <1>7, <1>8, <1>9 DEF StoreNext, FileOp

\* The two tables of the store hold rows of their types in every reachable state.
THEOREM StoreTypeCorrect == StoreSpec => []StoreTypeOK
<1>1. StoreInit => StoreTypeOK
  BY RowTypes DEF StoreInit, StoreTypeOK, NoRows
<1> QED
  BY <1>1, StoreTypeStep, PTL DEF StoreSpec

-----------------------------------------------------------------------------
\* One row per path and no language row without its file row, although ids are
\* reused: the cascade removes what the next owner of an id would inherit.
LEMMA RowIntegrityStep ==
  ASSUME StoreTypeOK, RowIntegrity, [StoreNext]_storeVars
  PROVE  RowIntegrity'
<1> USE DEF RowIntegrity, Row
<1>1. ASSUME NEW p \in Path, NEW h \in Hash, NEW i \in Id, ObserveNew(p, h, i)
      PROVE  RowIntegrity'
  <2>1. /\ files' = [files EXCEPT ![i] = [path |-> p, hash |-> h]]
        /\ states' = states
        /\ \A j \in Id : files[j] # NoFile => files[j].path # p
    BY <1>1 DEF ObserveNew, Tracked
  <2>2. files'[i] = [path |-> p, hash |-> h] /\ [path |-> p, hash |-> h] # NoFile
    BY <2>1, StoreConstants DEF StoreTypeOK, FileRow
  <2>3. \A j \in Id \ {i} : files'[j] = files[j]
    BY <2>1 DEF StoreTypeOK
  <2> QED
    BY <2>1, <2>2, <2>3
<1>2. ASSUME NEW p \in Path, NEW h \in Hash, NEW i \in Id, ObserveChanged(p, h, i)
      PROVE  RowIntegrity'
  <2>1. files' = [files EXCEPT ![i].hash = h] /\ files[i] # NoFile
    BY <1>2 DEF ObserveChanged, IsRowOf
  <2>2. \A j \in Id : /\ files'[j] # NoFile <=> files[j] # NoFile
                      /\ files[j] # NoFile => files'[j].path = files[j].path
    BY <2>1, StoreConstants DEF StoreTypeOK, FileRow
  <2>3. \A j \in Id, l \in Lang : states'[j][l] # NoRow => states[j][l] # NoRow
    BY <1>2 DEF ObserveChanged, AllReset, StoreTypeOK
  <2> QED
    BY <2>2, <2>3
<1>3. ASSUME NEW p \in Path, DeleteFile(p)
      PROVE  RowIntegrity'
  <2>1. \A j \in Id : /\ files'[j] # NoFile => files'[j] = files[j]
                      /\ states'[j] = IF files'[j] = files[j] THEN states[j] ELSE NoRows
    BY <1>3 DEF DeleteFile, IsRowOf
  <2> QED
    BY <2>1 DEF NoRows
<1>4. ASSUME NEW i \in Id, NEW h \in Hash, NEW new \in Hash, UpdateContentHash(i, h, new)
      PROVE  RowIntegrity'
  <2>1. /\ files' = [files EXCEPT ![i].hash = new] /\ files[i] # NoFile
        /\ states' = states
    BY <1>4 DEF UpdateContentHash, HashFence
  <2>2. \A j \in Id : /\ files'[j] # NoFile <=> files[j] # NoFile
                      /\ files[j] # NoFile => files'[j].path = files[j].path
    BY <2>1, StoreConstants DEF StoreTypeOK, FileRow
  <2> QED
    BY <2>1, <2>2
<1>5. ASSUME UNCHANGED files,
             \A j \in Id, l \in Lang : states[j][l] = NoRow => states'[j][l] = NoRow
      PROVE  RowIntegrity'
  BY <1>5
<1>6. CASE RecoverInProgress
  BY <1>5, <1>6 DEF RecoverInProgress
<1>7. ASSUME NEW i \in Id, ResetToPending(i) \/ ResetToPendingForced(i)
      PROVE  RowIntegrity'
  <2>1. \A j \in Id, l \in Lang : states[j][l] = NoRow => states'[j][l] = NoRow
    BY <1>7 DEF ResetToPending, ResetToPendingForced, AllReset, StoreTypeOK
  <2> QED
    BY <1>5, <1>7, <2>1 DEF ResetToPending, ResetToPendingForced
<1>8. ASSUME NEW i \in Id, NEW l \in Lang, LangOp(i, l)
      PROVE  RowIntegrity'
  <2>1. CASE EnsureLanguage(i, l)
    <3>1. files[i] # NoFile /\ UNCHANGED files
      BY <2>1 DEF EnsureLanguage
    <3>2. \A j \in Id, m \in Lang : j # i => states'[j][m] = states[j][m]
      BY <2>1 DEF EnsureLanguage, StoreTypeOK
    <3> QED
      BY <3>1, <3>2
  <2>2. CASE OneRow(i, l)
    <3>1. \A j \in Id, m \in Lang : states[j][m] = NoRow => states'[j][m] = NoRow
      BY <2>2 DEF OneRow, StoreTypeOK
    <3> QED
      BY <1>5, <2>2, <3>1 DEF OneRow
  <2>3. CASE UNCHANGED storeVars
    BY <1>5, <2>3 DEF storeVars
  <2> QED
    BY <1>8, <2>1, <2>2, <2>3, LangOpShape
<1>9. CASE UNCHANGED storeVars
  BY <1>5, <1>9 DEF storeVars
<1> QED
  BY <1>1, <1>2, <1>3, <1>4, <1>6, <1>7, <1>8, <1>9 DEF StoreNext, FileOp, ObserveUnchanged

\* Found, Removed and id reuse in any order leave one file row per path and no
\* orphaned language row.
THEOREM RowsStayConsistent == StoreSpec => []RowIntegrity
<1>1. StoreInit => RowIntegrity
  BY DEF StoreInit, RowIntegrity, Row
<1> QED
  BY <1>1, RowIntegrityStep, StoreTypeCorrect, PTL DEF StoreSpec

-----------------------------------------------------------------------------
\* What a step does to the row for (i, l): leave it, requeue it at a restart,
\* replace it by a fresh row (or none) like its file's other rows, or continue it.
RowStep(i, l) ==
  \/ Row(i, l)' = Row(i, l)
  \/ Row(i, l) # NoRow /\ Row(i, l)' # NoRow /\ Continues(i, l, Row(i, l)')
  \/ Row(i, l) = NoRow /\ Row(i, l)' = NewRow
  \/ \A m \in Lang : Row(i, m)' \in Fresh

\* Every step on one language row inserts it, goes on with its cycle, deletes it or
\* starts a new cycle for every language of the file.
LEMMA RowSteps ==
  ASSUME StoreTypeOK, CycleFlags, StoreNext, NEW j \in Id, NEW m \in Lang
  PROVE  RowStep(j, m)
<1> USE DEF RowStep, Row
<1>1. ASSUME NEW i \in Id, NEW r \in Fresh, states' = AllReset(i, r)
      PROVE  RowStep(j, m)
  BY <1>1 DEF AllReset, StoreTypeOK, Fresh
<1>2. ASSUME NEW p \in Path, NEW h \in Hash, NEW i \in Id,
             ObserveNew(p, h, i) \/ ObserveChanged(p, h, i) \/ ObserveUnchanged(p, h, i)
      PROVE  RowStep(j, m)
  BY <1>1, <1>2 DEF ObserveNew, ObserveChanged, ObserveUnchanged, Fresh, storeVars
<1>3. ASSUME NEW p \in Path, DeleteFile(p)
      PROVE  RowStep(j, m)
  BY <1>3 DEF DeleteFile, NoRows, Fresh
<1>4. ASSUME NEW i \in Id, NEW h \in Hash, NEW new \in Hash, UpdateContentHash(i, h, new)
      PROVE  RowStep(j, m)
  BY <1>4 DEF UpdateContentHash
<1>5. CASE RecoverInProgress
  <2> DEFINE row == states[j][m]
             back == [row EXCEPT !.status = "pending"]
  <2>1. states'[j][m] = IF row # NoRow /\ row.status = "in_progress" THEN back ELSE row
    BY <1>5 DEF RecoverInProgress
  <2>2. CASE row # NoRow /\ row.status = "in_progress"
    <3>1. row \in LangRow
      BY <2>2 DEF StoreTypeOK
    <3>2. row.reason = "none"
      BY <2>2, <3>1 DEF CycleFlags
    <3>3. back \in LangRow /\ SoundFlags(back) /\ back.attempted = row.attempted
      BY <3>1, <3>2 DEF LangRow, Status, SoundFlags
    <3> QED
      BY <2>1, <2>2, <3>3, StoreConstants DEF Continues
  <2>3. CASE ~(row # NoRow /\ row.status = "in_progress")
    BY <2>1, <2>3
  <2> QED
    BY <2>2, <2>3
<1>6. ASSUME NEW i \in Id, ResetToPending(i) \/ ResetToPendingForced(i)
      PROVE  RowStep(j, m)
  BY <1>1, <1>6 DEF ResetToPending, ResetToPendingForced, Fresh
<1>7. ASSUME NEW i \in Id, NEW l \in Lang, LangOp(i, l)
      PROVE  RowStep(j, m)
  <2>1. CASE EnsureLanguage(i, l)
    BY <2>1 DEF EnsureLanguage, StoreTypeOK
  <2>2. CASE OneRow(i, l)
    <3>1. PICK r : Continues(i, l, r) /\ states' = [states EXCEPT ![i][l] = r]
      BY <2>2 DEF OneRow
    <3>2. CASE i = j /\ l = m
      <4>1. states'[j][m] = r /\ states[j][m] # NoRow
        BY <2>2, <3>1, <3>2 DEF StoreTypeOK, OneRow
      <4> QED
        BY <3>1, <3>2, <4>1, StoreConstants DEF Continues
    <3>3. CASE ~(i = j /\ l = m)
      BY <3>1, <3>3 DEF StoreTypeOK
    <3> QED
      BY <3>2, <3>3
  <2>3. CASE UNCHANGED storeVars
    BY <2>3 DEF storeVars
  <2> QED
    BY <1>7, <2>1, <2>2, <2>3, LangOpShape
<1> QED
  BY <1>2, <1>3, <1>4, <1>5, <1>6, <1>7 DEF StoreNext, FileOp

\* A row's reason and force flag agree with its status after every step.
LEMMA CycleFlagsStep ==
  ASSUME StoreTypeOK, CycleFlags, [StoreNext]_storeVars
  PROVE  CycleFlags'
<1>1. CASE UNCHANGED storeVars
  BY <1>1 DEF CycleFlags, Row, storeVars
<1>2. ASSUME StoreNext, NEW i \in Id, NEW l \in Lang, Row(i, l)' # NoRow
      PROVE  SoundFlags(Row(i, l)')
  <2>1. RowStep(i, l)
    BY <1>2, RowSteps
  <2>2. \A r \in Fresh : r # NoRow => SoundFlags(r)
    BY DEF Fresh, NewRow, SoundFlags
  <2>3. SoundFlags(NewRow)
    BY DEF NewRow, SoundFlags
  <2>4. Row(i, l) # NoRow => SoundFlags(Row(i, l))
    BY DEF CycleFlags, SoundFlags
  <2> QED
    BY <1>2, <2>1, <2>2, <2>3, <2>4 DEF RowStep, Continues
<1>3. CASE StoreNext
  BY <1>2, <1>3 DEF CycleFlags, SoundFlags
<1> QED
  BY <1>1, <1>3

\* Whatever the workers and Triggers call, a row has a failure reason exactly when
\* it is Failed and a force flag only while it is unfinished.
THEOREM FlagsFollowCycle == StoreSpec => []CycleFlags
<1>1. StoreInit => CycleFlags
  BY DEF StoreInit, CycleFlags, Row
<1> QED
  BY <1>1, CycleFlagsStep, StoreTypeCorrect, PTL DEF StoreSpec

\* A Provider leaves an attempted set only when the whole file starts afresh.
THEOREM MissesKept == StoreSpec => MissesSurviveCycle
<1>1. ASSUME StoreTypeOK, CycleFlags, StoreNext, NEW i \in Id, NEW l \in Lang, Row(i, l) # NoRow,
             Row(i, l)' = NoRow \/ ~(Row(i, l).attempted \subseteq Row(i, l)'.attempted)
      PROVE  \A m \in Lang : Row(i, m)' \in Fresh
  <2>1. RowStep(i, l)
    BY <1>1, RowSteps
  <2> QED
    BY <1>1, <2>1 DEF RowStep, Continues, Row
<1>2. StoreTypeOK /\ CycleFlags /\ [StoreNext]_storeVars =>
        [\A i \in Id, l \in Lang :
           Row(i, l) # NoRow /\ (Row(i, l)' = NoRow \/ ~(Row(i, l).attempted \subseteq Row(i, l)'.attempted))
             => \A m \in Lang : Row(i, m)' \in Fresh]_storeVars
  BY <1>1
<1> QED
  BY <1>2, StoreTypeCorrect, FlagsFollowCycle, PTL DEF StoreSpec, MissesSurviveCycle

-----------------------------------------------------------------------------
(* Every step of the daemon calls the store only through its methods. *)

\* A method called with arguments of the right types is a step of the store.
LEMMA StoreCalls ==
  /\ \A i \in Id, l \in Lang :
       /\ MarkInProgress(i, l) => StoreNext
       /\ RequeueInProgress(i, l) => StoreNext
       /\ EnsureLanguage(i, l) => StoreNext
  /\ \A i \in Id, l \in Lang, h \in Hash :
       /\ MarkSynced(i, h, l) => StoreNext
       /\ ResetLanguageToPending(i, h, l) => StoreNext
       /\ \A why \in FailureReason : MarkFailed(i, h, l, why) => StoreNext
       /\ \A p \in Provider : RecordProviderMiss(i, h, l, p) => StoreNext
  /\ \A i \in Id, h, new \in Hash : UpdateContentHash(i, h, new) => StoreNext
  /\ \A v \in Path, h \in Hash, i \in Id :
       ObserveNew(v, h, i) \/ ObserveChanged(v, h, i) \/ ObserveUnchanged(v, h, i) => StoreNext
  /\ \A v \in Path : DeleteFile(v) => StoreNext
  /\ \A i \in Id : ResetToPendingForced(i) => StoreNext
BY DEF StoreNext, FileOp, LangOp

DiskTypeOK ==
  /\ disk \in [Path -> Hash \cup {Absent}]
  /\ sidecar \in [Path -> [Lang -> Hash \cup {NoSidecar}]]
  /\ dirty \subseteq Path

Holding == Label \ {"idle", "end"}   \* where a worker holds its slot

\* What a step of worker w between its start and its release is to the rest: it
\* keeps its pair and its slot, and calls at most one method of the store.
WorkerMove(w) ==
  /\ pc[w] \in Holding
  /\ \E label \in Holding : pc' = [pc EXCEPT ![w] = label]
  /\ \E j \in Job : /\ Key(j) = Key(job[w]) /\ j.provider = job[w].provider
                    /\ job' = [job EXCEPT ![w] = j]
  /\ DiskTypeOK'
  /\ UNCHANGED <<ctxDone, regVars>>
  /\ [StoreNext]_storeVars

\* An active worker has a job of the right type.
LEMMA ActiveJob ==
  ASSUME PipelineTypeOK, NEW w \in Worker, pc[w] # "idle"
  PROVE  /\ job[w] \in Job
         /\ job[w].id \in Id /\ job[w].path \in Path /\ job[w].lang \in Lang
         /\ job[w].hash \in Hash /\ job[w].provider \in Provider /\ job[w].fixed \in Hash
BY DEF PipelineTypeOK, Job

\* A step that only moves the worker's pc keeps its job and touches nothing else.
LEMMA LocalMove ==
  ASSUME PipelineTypeOK, NEW w \in Worker, pc[w] \in Holding,
         NEW label \in Holding, Local(w, label)
  PROVE  WorkerMove(w)
<1>1. job[w] \in Job /\ job' = [job EXCEPT ![w] = job[w]]
  BY ActiveJob DEF Local, Holding, PipelineTypeOK
<1> QED
  BY <1>1 DEF WorkerMove, Local, Goto, PipelineTypeOK, DiskTypeOK, diskVars

\* A step that leaves the directory and w's job alone, and may call the store.
LEMMA StoreMove ==
  ASSUME PipelineTypeOK, NEW w \in Worker, pc[w] \in Holding,
         NEW label \in Holding, Goto(w, label),
         [StoreNext]_storeVars, UNCHANGED <<diskVars, ctxDone, job, regVars>>
  PROVE  WorkerMove(w)
<1>1. job[w] \in Job /\ job' = [job EXCEPT ![w] = job[w]]
  BY ActiveJob DEF Holding, PipelineTypeOK
<1> QED
  BY <1>1 DEF WorkerMove, Goto, PipelineTypeOK, DiskTypeOK, diskVars

\* Every step of ProcessPending is a WorkerMove: it calls the store at most once,
\* stays active, and keeps the id, language and Provider of the worker's job.
LEMMA WorkerStepMoves ==
  ASSUME PipelineTypeOK, NEW w \in Worker, WorkerStep(w) \/ FetchSuspended(w)
  PROVE  WorkerMove(w)
<1> USE DEF At
<1> DEFINE i == job[w].id
           l == job[w].lang
           h == job[w].hash
<1>0. /\ Holding = {"release"} \cup Unclaimed \cup Claimed \cup (Returned \ {"end"})
      /\ "gate" \in Holding /\ "skip" \in Holding /\ "claim" \in Holding
      /\ "fetch" \in Holding /\ "strip" \in Holding /\ "rename" \in Holding /\ "rehash" \in Holding
      /\ "record" \in Holding /\ "swap" \in Holding /\ "finish" \in Holding
      /\ "abort" \in Holding /\ "failed" \in Holding /\ "missed" \in Holding
      /\ "exhausted" \in Holding /\ "release" \in Holding
  BY DEF Holding, Label, Unclaimed, Claimed, Returned
<1>1. CASE Gate(w)
  <2>1. \E label \in Holding : Local(w, label)
    BY <1>0, <1>1 DEF Gate
  <2> QED
    BY <1>0, <1>1, <2>1, LocalMove DEF Gate
<1>2. CASE GateError(w) \/ FetchOk(w) \/ StripError(w)
  BY <1>0, <1>2, LocalMove DEF GateError, FetchOk, StripError
<1>3. CASE SkipFetch(w)
  <2>1. MarkSynced(i, h, l) => StoreNext
    BY <1>0, <1>3, ActiveJob, StoreCalls DEF SkipFetch
  <2> QED
    BY <1>0, <1>3, <2>1, StoreMove DEF SkipFetch, Settle
<1>4. CASE Claim(w)
  <2>1. MarkInProgress(i, l) => StoreNext
    BY <1>0, <1>4, ActiveJob, StoreCalls DEF Claim
  <2> QED
    BY <1>0, <1>4, <2>1, StoreMove DEF Claim
<1>5. CASE FetchSuspended(w)
  <2>1. ResetLanguageToPending(i, h, l) => StoreNext
    BY <1>0, <1>5, ActiveJob, StoreCalls DEF FetchSuspended
  <2> QED
    BY <1>0, <1>5, <2>1, StoreMove DEF FetchSuspended, Settle
<1>6. CASE FetchFailed(w)
  <2>1. \A why \in FailureReason : MarkFailed(i, h, l, why) => StoreNext
    BY <1>0, <1>6, ActiveJob, StoreCalls DEF FetchFailed
  <2> QED
    BY <1>0, <1>6, <2>1, StoreMove DEF FetchFailed, Settle
<1>7. CASE FetchMiss(w)
  <2>1. RecordProviderMiss(i, h, l, job[w].provider) => StoreNext
    BY <1>0, <1>7, ActiveJob, StoreCalls DEF FetchMiss
  <2> QED
    BY <1>0, <1>7, <2>1, StoreMove DEF FetchMiss, Settle
<1>8. CASE StripEmbedded(w)
  <2> DEFINE now == disk[job[w].path]
             left == StripOf[now][l]
             j == [job[w] EXCEPT !.fixed = left]
  <2>1. CASE left = now
    BY <1>0, <1>8, <2>1, LocalMove DEF StripEmbedded
  <2>2. CASE left # now
    <3>1. left \in Hash
      BY <1>0, <1>8, ActiveJob, PipelineConstants DEF StripEmbedded, PipelineTypeOK
    <3>2. j \in Job /\ Key(j) = Key(job[w]) /\ j.provider = job[w].provider
      BY <1>0, <1>8, <3>1, ActiveJob DEF StripEmbedded, Key, Job
    <3>3. job' = [job EXCEPT ![w] = j]
      BY <1>0, <1>8, <2>2 DEF StripEmbedded, PipelineTypeOK
    <3>4. DiskTypeOK'
      BY <1>8, <2>2 DEF StripEmbedded, PipelineTypeOK, DiskTypeOK, diskVars
    <3> QED
      BY <1>0, <1>8, <2>2, <3>2, <3>3, <3>4 DEF StripEmbedded, WorkerMove, Goto
  <2> QED
    BY <2>1, <2>2
<1>8a. CASE RenameOver(w)
  <2>1. DiskTypeOK'
    BY <1>0, <1>8a, ActiveJob DEF RenameOver, PipelineTypeOK, DiskTypeOK
  <2>2. job[w] \in Job /\ job' = [job EXCEPT ![w] = job[w]]
    BY <1>0, <1>8a, ActiveJob DEF RenameOver, PipelineTypeOK
  <2> QED
    BY <1>0, <1>8a, <2>1, <2>2 DEF RenameOver, WorkerMove, Goto
<1>9. CASE Rehash(w)
  <2> DEFINE now == disk[job[w].path]
  <2>1. CASE now = Absent
    BY <1>0, <1>9, <2>1, LocalMove DEF Rehash
  <2>2. CASE now # Absent
    <3>1. [job[w] EXCEPT !.fixed = now] \in Job
      BY <1>0, <1>9, <2>2, ActiveJob DEF Rehash, PipelineTypeOK, Job
    <3>2. job' = [job EXCEPT ![w] = [job[w] EXCEPT !.fixed = now]]
      BY <1>0, <1>9, <2>2 DEF Rehash, PipelineTypeOK
    <3>3. DiskTypeOK'
      BY <1>9, <2>2 DEF Rehash, PipelineTypeOK, DiskTypeOK, diskVars
    <3>4. LET j == [job[w] EXCEPT !.fixed = now]
          IN  Key(j) = Key(job[w]) /\ j.provider = job[w].provider
      BY <1>0, <1>9, ActiveJob DEF Rehash, Key, Job
    <3> QED
      BY <1>0, <1>9, <2>2, <3>1, <3>2, <3>3, <3>4 DEF Rehash, WorkerMove, Goto
  <2> QED
    BY <2>1, <2>2
<1>10. CASE RecordHash(w)
  <2>1. CASE UpdateContentHash(i, h, job[w].fixed) /\ job' = [job EXCEPT ![w].hash = job[w].fixed]
             /\ Goto(w, "swap")
    <3> DEFINE j == [job[w] EXCEPT !.hash = job[w].fixed]
    <3>1. StoreNext
      BY <1>0, <1>10, <2>1, ActiveJob, StoreCalls DEF RecordHash
    <3>2. j \in Job /\ Key(j) = Key(job[w]) /\ j.provider = job[w].provider
      BY <1>0, <1>10, ActiveJob DEF RecordHash, Key, Job
    <3>3. job' = [job EXCEPT ![w] = j]
      BY <1>0, <1>10, <2>1 DEF RecordHash, PipelineTypeOK
    <3>4. DiskTypeOK'
      BY <1>10 DEF RecordHash, PipelineTypeOK, DiskTypeOK, diskVars
    <3> QED
      BY <1>0, <1>10, <2>1, <3>1, <3>2, <3>3, <3>4 DEF RecordHash, WorkerMove, Goto
  <2>2. CASE UNCHANGED <<storeVars, job>> /\ Goto(w, "failed")
    BY <1>0, <1>10, <2>2, StoreMove DEF RecordHash
  <2> QED
    BY <1>10, <2>1, <2>2 DEF RecordHash
<1>11. CASE Swap(w) \/ SwapError(w)
  <2>1. Written(w) \in [Path -> [Lang -> Hash \cup {NoSidecar}]]
    BY <1>0, <1>11, ActiveJob DEF Swap, SwapError, Written, PipelineTypeOK
  <2>2. Swapped(w) \in [Path -> [Lang -> Hash \cup {NoSidecar}]]
    BY <2>1 DEF Swapped
  <2>3. DiskTypeOK'
    BY <1>11, <2>1, <2>2 DEF Swap, SwapError, PipelineTypeOK, DiskTypeOK
  <2>4. job[w] \in Job /\ job' = [job EXCEPT ![w] = job[w]]
    BY <1>0, <1>11, ActiveJob DEF Swap, SwapError, PipelineTypeOK
  <2> QED
    BY <1>0, <1>11, <2>3, <2>4 DEF Swap, SwapError, WorkerMove, Goto
<1>12. CASE Finish(w)
  <2>1. MarkSynced(i, h, l) => StoreNext
    BY <1>0, <1>12, ActiveJob, StoreCalls DEF Finish
  <2> QED
    BY <1>0, <1>12, <2>1, StoreMove DEF Finish, Settle
<1>13. CASE Abort(w)
  <2>1. MarkFailed(i, h, l, "internal_error") => StoreNext
    BY <1>0, <1>13, ActiveJob, StoreCalls DEF Abort, FailureReason
  <2> QED
    BY <1>0, <1>13, <2>1, StoreMove DEF Abort, Settle
<1>14. CASE ReturnFailed(w)
  <2>1. RequeueInProgress(i, l) => StoreNext
    BY <1>0, <1>14, ActiveJob, StoreCalls DEF ReturnFailed
  <2> QED
    BY <1>0, <1>14, <2>1, StoreMove DEF ReturnFailed
<1> QED
  BY <1>1, <1>2, <1>3, <1>4, <1>5, <1>6, <1>7, <1>8, <1>8a, <1>9, <1>10, <1>11, <1>12, <1>13, <1>14
     DEF WorkerStep

-----------------------------------------------------------------------------
(* The type invariant, one part per component. *)

WorkTypeOK ==
  /\ pc \in [Worker -> Label]
  /\ job \in [Worker -> Job \cup {NoJob}]
  /\ \A w \in Worker : pc[w] = "idle" <=> job[w] = NoJob

RegTypeOK ==
  /\ regPc \in [Registrar -> {"idle", "observe", "force", "ensure"}]
  /\ reg \in [Registrar -> Registration \cup {NoJob}]
  /\ \A r \in Registrar : /\ regPc[r] = "idle" <=> reg[r] = NoJob
                          /\ regPc[r] \in {"force", "ensure"} => reg[r].id \in Id

PassTypeOK ==
  /\ sem \in [Provider -> Nat]
  /\ inFlight \subseteq Id \X Lang
  /\ snap \subseteq PendingPair
  /\ suspended \subseteq Provider

EventTypeOK ==
  /\ ctxDone \in BOOLEAN
  /\ gone \subseteq Path
  /\ down \in BOOLEAN
  /\ budget \in [Event -> Nat]

TypePartsOK ==
  StoreTypeOK /\ DiskTypeOK /\ WorkTypeOK /\ RegTypeOK /\ PassTypeOK /\ EventTypeOK

\* TypeOK, regrouped by who writes the variables.
LEMMA TypeParts == (TypeOK <=> TypePartsOK) /\ (TypeOK' <=> TypePartsOK')
BY DEF TypePartsOK, TypeOK, DispatcherTypeOK, PipelineTypeOK, DiskTypeOK, WorkTypeOK, RegTypeOK,
       PassTypeOK, EventTypeOK

\* What each worker holds: its pair, alone, and one slot of its Provider's pool.
HeldPairs ==
  /\ \A w \in Worker : Active(w) => Key(job[w]) \in inFlight
  /\ ExclusivePairs

SlotCount ==
  \A p \in Provider : sem[p] = Cardinality(Slots(p)) /\ sem[p] <= Capacity[p]

Held == HeldPairs /\ SlotCount

\* The slots a Provider's workers hold form a finite set.
LEMMA SlotsFinite ==
  ASSUME NEW p
  PROVE  IsFiniteSet(Slots(p)) /\ Cardinality(Slots(p)) \in Nat
<1>1. Slots(p) \in SUBSET Worker
  BY DEF Slots
<1>2. IsFiniteSet(Slots(p))
  BY <1>1, WorkersFinite, FS_Subset
<1> QED
  BY <1>2, FS_CardinalityType

-----------------------------------------------------------------------------
(* Steps that no worker, or only the inside of a worker, takes. *)

\* A step of somebody else, with the workers, the pools and the in-flight set left
\* alone, keeps what the Dispatcher's bookkeeping counts.
LEMMA WorkersUnchanged ==
  ASSUME Held, UNCHANGED <<workVars, sem, inFlight>>
  PROVE  Held'
<1>1. \A p : Slots(p)' = Slots(p)
  BY DEF Slots, Active, At, workVars
<1>2. SlotCount'
  BY <1>1 DEF Held, SlotCount
<1>3. HeldPairs'
  BY DEF Held, HeldPairs, ExclusivePairs, Active, At, workVars
<1> QED
  BY <1>2, <1>3 DEF Held

\* A worker's own step keeps the bookkeeping: it neither takes nor gives back a
\* slot or a pair.
LEMMA MoveKeeps ==
  ASSUME TypeOK, Held, NEW w \in Worker, WorkerMove(w), UNCHANGED <<sem, inFlight>>
  PROVE  WorkTypeOK' /\ Held'
<1>1. PICK label \in Holding : pc' = [pc EXCEPT ![w] = label]
  BY DEF WorkerMove
<1>2. PICK j \in Job : /\ Key(j) = Key(job[w]) /\ j.provider = job[w].provider
                       /\ job' = [job EXCEPT ![w] = j]
  BY DEF WorkerMove
<1>3. WorkTypeOK
  BY TypeParts DEF TypePartsOK
<1>4. /\ label \in Label /\ label \notin {"idle", "end"}
      /\ pc[w] \in Label /\ pc[w] \notin {"idle", "end"}
  BY DEF Holding, WorkerMove
<1>5. \A v \in Worker : /\ pc'[v] = IF v = w THEN label ELSE pc[v]
                        /\ job'[v] = IF v = w THEN j ELSE job[v]
  BY <1>1, <1>2, <1>3 DEF WorkTypeOK
<1>6. WorkTypeOK'
  <2>1. pc' \in [Worker -> Label] /\ job' \in [Worker -> Job \cup {NoJob}]
    BY <1>1, <1>2, <1>3, <1>4 DEF WorkTypeOK
  <2>2. \A v \in Worker : pc'[v] = "idle" <=> job'[v] = NoJob
    BY <1>3, <1>4, <1>5, NoJobIsNone DEF WorkTypeOK
  <2> QED
    BY <2>1, <2>2 DEF WorkTypeOK
<1>7. \A v \in Worker : /\ Active(v)' <=> Active(v)
                        /\ At(v, "end")' <=> At(v, "end")
                        /\ Key(job[v])' = Key(job[v])
                        /\ job'[v].provider = job[v].provider
  BY <1>2, <1>4, <1>5 DEF Active, At, Key
<1>8. \A p : Slots(p)' = Slots(p)
  BY <1>7 DEF Slots
<1>9. SlotCount'
  BY <1>8 DEF Held, SlotCount
<1>10. HeldPairs'
  BY <1>7 DEF Held, HeldPairs, ExclusivePairs
<1> QED
  BY <1>6, <1>9, <1>10 DEF Held

\* The steps of the Dispatcher's goroutine around ProcessPending that keep the slot.
LEMMA ChainStepMoves ==
  ASSUME PipelineTypeOK, NEW w \in Worker, CheckExhausted(w) \/ MarkNoCandidate(w)
  PROVE  WorkerMove(w)
<1>1. /\ "missed" \in Holding /\ "exhausted" \in Holding /\ "release" \in Holding
      /\ pc[w] \in Holding
  BY DEF Holding, Label, Unclaimed, Claimed, Returned, CheckExhausted, MarkNoCandidate, At
<1>2. CASE CheckExhausted(w)
  <2>1. \E label \in Holding : Goto(w, label)
    BY <1>1, <1>2 DEF CheckExhausted
  <2> QED
    BY <1>1, <1>2, <2>1, StoreMove DEF CheckExhausted
<1>3. CASE MarkNoCandidate(w)
  <2>1. MarkFailed(job[w].id, job[w].hash, job[w].lang, "no_candidate") => StoreNext
    BY <1>1, ActiveJob, StoreCalls DEF FailureReason, Holding
  <2> QED
    BY <1>1, <1>3, <2>1, StoreMove DEF MarkNoCandidate, Settle
<1> QED
  BY <1>2, <1>3

-----------------------------------------------------------------------------
(* Taking and giving back a slot and a pair. *)

\* startWorker takes a slot and a pair for one more worker, and the counts agree.
LEMMA StartKeeps ==
  ASSUME TypeOK, Held, NEW w \in Worker, NEW pair \in snap, StartWorker(w, pair)
  PROVE  WorkTypeOK' /\ PassTypeOK' /\ Held'
<1> USE DEF At
<1>1. WorkTypeOK /\ PassTypeOK
  BY TypeParts DEF TypePartsOK
<1>2. PICK t \in DOMAIN Tiers : \E k \in DOMAIN Tiers[t] : Place(w, pair, t, k)
  BY DEF StartWorker
<1>3. PICK k \in DOMAIN Tiers[t] : Place(w, pair, t, k)
  BY <1>2
<1> DEFINE q == Tiers[t][k]
           j == [id |-> pair.id, path |-> pair.path, lang |-> pair.lang, hash |-> pair.hash,
                 force |-> pair.force, provider |-> q, fixed |-> pair.hash]
<1>4. q \in Provider
  BY DispatcherConstants
<1>5. pair \in PendingPair /\ j \in Job /\ Key(pair) \in Id \X Lang /\ Key(j) = Key(pair)
  BY <1>1, <1>4 DEF PassTypeOK, PendingPair, Job, Key
<1>6. /\ pc[w] = "idle" /\ pc' = [pc EXCEPT ![w] = "gate"]
      /\ "gate" \in Label /\ "gate" \notin {"idle", "end"}
      /\ Key(pair) \notin inFlight /\ inFlight' = inFlight \cup {Key(pair)}
      /\ snap' = snap \ {pair} /\ suspended' = suspended
  BY DEF StartWorker, BeginPair, Goto, Label, Unclaimed
<1>7. sem[q] < Capacity[q] /\ sem[q] \in Nat /\ Capacity[q] \in Nat
  <2>1. ~Full(q)
    BY <1>3 DEF Place, Chosen, Eligible
  <2>2. sem[q] \in Nat /\ Capacity[q] \in Nat
    BY <1>1, <1>4, DispatcherConstants DEF PassTypeOK
  <2> QED
    BY <2>1, <2>2 DEF Full
<1>8. sem' = [sem EXCEPT ![q] = @ + 1] /\ job' = [job EXCEPT ![w] = j]
  BY <1>3 DEF Place
<1>9. \A v \in Worker : /\ pc'[v] = IF v = w THEN "gate" ELSE pc[v]
                        /\ job'[v] = IF v = w THEN j ELSE job[v]
  BY <1>1, <1>8, <1>6 DEF WorkTypeOK
<1>10. WorkTypeOK'
  <2>1. pc' \in [Worker -> Label] /\ job' \in [Worker -> Job \cup {NoJob}]
    BY <1>1, <1>8, <1>5, <1>6 DEF WorkTypeOK
  <2>2. \A v \in Worker : pc'[v] = "idle" <=> job'[v] = NoJob
    BY <1>1, <1>5, <1>6, <1>9, NoJobIsNone DEF WorkTypeOK
  <2> QED
    BY <2>1, <2>2 DEF WorkTypeOK
<1>11. PassTypeOK'
  BY <1>1, <1>8, <1>4, <1>5, <1>6 DEF PassTypeOK
<1>12. HeldPairs'
  <2>1. \A v \in Worker : v # w => /\ Active(v)' <=> Active(v)
                                   /\ Key(job[v])' = Key(job[v])
    BY <1>9 DEF Active, Key
  <2>2. Active(w)' /\ Key(job[w])' = Key(pair)
    BY <1>5, <1>6, <1>9 DEF Active, Key
  <2>3. \A v \in Worker : v # w /\ Active(v) => Key(job[v]) # Key(pair)
    BY <1>6 DEF Held, HeldPairs
  <2> QED
    BY <1>6, <2>1, <2>2, <2>3 DEF Held, HeldPairs, ExclusivePairs
<1>13. SlotCount'
  <2>1. w \notin Slots(q) /\ Slots(q)' = Slots(q) \cup {w}
    BY <1>6, <1>9 DEF Slots, Active
  <2>2. \A p \in Provider : p # q => Slots(p)' = Slots(p)
    BY <1>6, <1>9 DEF Slots, Active
  <2>3. Cardinality(Slots(q)') = Cardinality(Slots(q)) + 1
    BY <2>1, SlotsFinite, FS_AddElement
  <2>4. \A p \in Provider : sem'[p] = IF p = q THEN sem[p] + 1 ELSE sem[p]
    BY <1>1, <1>8 DEF PassTypeOK
  <2>5. ASSUME NEW p \in Provider
        PROVE  sem'[p] = Cardinality(Slots(p)') /\ sem'[p] <= Capacity[p]
    <3>1. CASE p = q
      BY <1>7, <2>3, <2>4, <3>1 DEF Held, SlotCount
    <3>2. CASE p # q
      BY <2>2, <2>4, <3>2 DEF Held, SlotCount
    <3> QED
      BY <3>1, <3>2
  <2> QED
    BY <2>5 DEF SlotCount
<1> QED
  BY <1>10, <1>11, <1>12, <1>13 DEF Held

\* Giving back the slot takes one worker out of the Provider's count.
LEMMA ReleaseKeeps ==
  ASSUME TypeOK, Held, NEW w \in Worker, ReleaseSlot(w)
  PROVE  WorkTypeOK' /\ PassTypeOK' /\ Held'
<1> USE DEF At
<1>1. WorkTypeOK /\ PassTypeOK /\ PipelineTypeOK
  BY TypeParts DEF TypePartsOK, TypeOK, DispatcherTypeOK
<1>2. pc[w] = "release"
  BY DEF ReleaseSlot
<1>3. PICK q \in Provider : q = job[w].provider
  BY <1>1, <1>2, ActiveJob
<1>4. /\ pc[w] = "release" /\ pc' = [pc EXCEPT ![w] = "end"] /\ job' = job
      /\ sem' = [sem EXCEPT ![q] = @ - 1] /\ UNCHANGED <<inFlight, snap, suspended>>
  BY <1>3 DEF ReleaseSlot, Goto
<1>5. \A v \in Worker : pc'[v] = IF v = w THEN "end" ELSE pc[v]
  BY <1>1, <1>4 DEF WorkTypeOK
<1>6. w \in Slots(q) /\ Slots(q)' = Slots(q) \ {w}
  BY <1>4, <1>3, <1>5 DEF Slots, Active
<1>7. \A p \in Provider : p # q => Slots(p)' = Slots(p)
  BY <1>4, <1>3, <1>5 DEF Slots, Active
<1>8. Cardinality(Slots(q)') = Cardinality(Slots(q)) - 1
  BY <1>6, SlotsFinite, FS_RemoveElement
<1>9. Cardinality(Slots(q)) # 0 /\ Cardinality(Slots(q)) \in Nat
  BY <1>6, SlotsFinite, FS_EmptySet
<1>10. \A p \in Provider : sem'[p] = IF p = q THEN sem[p] - 1 ELSE sem[p]
  BY <1>1, <1>4 DEF PassTypeOK
<1>11. sem[q] \in Nat /\ sem[q] # 0 /\ sem[q] - 1 \in Nat /\ Capacity[q] \in Nat
  BY <1>1, <1>3, <1>9, DispatcherConstants DEF Held, SlotCount, PassTypeOK
<1>12. WorkTypeOK'
  BY <1>1, <1>4, <1>5 DEF WorkTypeOK, Label, Returned
<1>13. PassTypeOK'
  BY <1>1, <1>4, <1>3, <1>11 DEF PassTypeOK
<1>14. SlotCount'
  <2>1. ASSUME NEW p \in Provider
        PROVE  sem'[p] = Cardinality(Slots(p)') /\ sem'[p] <= Capacity[p]
    <3>1. CASE p = q
      <4>1. sem[q] = Cardinality(Slots(q)) /\ sem[q] <= Capacity[q]
        BY <1>3 DEF Held, SlotCount
      <4>2. sem'[q] = sem[q] - 1
        BY <1>3, <1>10
      <4>3. sem[q] - 1 <= Capacity[q]
        BY <1>11, <4>1
      <4> QED
        BY <1>8, <3>1, <4>1, <4>2, <4>3
    <3>2. CASE p # q
      BY <1>7, <1>10, <3>2 DEF Held, SlotCount
    <3> QED
      BY <3>1, <3>2
  <2> QED
    BY <2>1 DEF SlotCount
<1>15. HeldPairs'
  BY <1>4, <1>5 DEF Held, HeldPairs, ExclusivePairs, Active
<1> QED
  BY <1>12, <1>13, <1>14, <1>15 DEF Held

\* Only its own key leaves the in-flight set: no other worker has the same.
LEMMA EndKeeps ==
  ASSUME TypeOK, Held, NEW w \in Worker, EndPair(w)
  PROVE  WorkTypeOK' /\ PassTypeOK' /\ Held'
<1> USE DEF At
<1>1. WorkTypeOK /\ PassTypeOK
  BY TypeParts DEF TypePartsOK
<1>2. /\ pc[w] = "end" /\ pc' = [pc EXCEPT ![w] = "idle"] /\ job' = [job EXCEPT ![w] = NoJob]
      /\ inFlight' = inFlight \ {Key(job[w])} /\ UNCHANGED <<sem, snap, suspended>>
  BY DEF EndPair, Goto
<1>3. \A v \in Worker : /\ pc'[v] = IF v = w THEN "idle" ELSE pc[v]
                        /\ job'[v] = IF v = w THEN NoJob ELSE job[v]
  BY <1>1, <1>2 DEF WorkTypeOK
<1>4. \A p : Slots(p)' = Slots(p)
  BY <1>2, <1>3 DEF Slots, Active
<1>5. WorkTypeOK'
  <2>1. pc' \in [Worker -> Label] /\ job' \in [Worker -> Job \cup {NoJob}]
    BY <1>1, <1>2 DEF WorkTypeOK, Label
  <2>2. \A v \in Worker : pc'[v] = "idle" <=> job'[v] = NoJob
    BY <1>1, <1>3 DEF WorkTypeOK
  <2> QED
    BY <2>1, <2>2 DEF WorkTypeOK
<1>6. PassTypeOK'
  BY <1>1, <1>2 DEF PassTypeOK
<1>7. SlotCount'
  BY <1>2, <1>4 DEF Held, SlotCount
<1>8. HeldPairs'
  <2>1. Active(w) /\ ~Active(w)'
    BY <1>2, <1>3 DEF Active
  <2>2. \A v \in Worker : v # w => (Active(v)' <=> Active(v)) /\ Key(job[v])' = Key(job[v])
    BY <1>3 DEF Active, Key
  <2>3. \A v \in Worker : v # w /\ Active(v) => Key(job[v]) \in inFlight'
    BY <1>2, <2>1 DEF Held, HeldPairs, ExclusivePairs
  <2> QED
    BY <2>1, <2>2, <2>3 DEF Held, HeldPairs, ExclusivePairs
<1> QED
  BY <1>5, <1>6, <1>7, <1>8 DEF Held

-----------------------------------------------------------------------------
(* The Triggers. *)

\* Every step of registerFile calls the store at most once and keeps the types.
LEMMA RegisterTypes ==
  ASSUME PipelineTypeOK, NEW r \in Registrar, RegisterStep(r)
  PROVE  RegTypeOK' /\ [StoreNext]_storeVars
<1>0. /\ regPc[r] # "idle" /\ reg[r] \in Registration
      /\ RegTypeOK
      /\ \A label \in {"observe", "force", "ensure"}, g \in Registration :
           g.id \in Id /\ RegGoto(r, label, g) => RegTypeOK'
      /\ RegGoto(r, "idle", NoJob) => RegTypeOK'
  <2>1. RegTypeOK
    BY DEF PipelineTypeOK, RegTypeOK
  <2>2. regPc[r] # "idle" /\ reg[r] \in Registration
    BY <2>1 DEF RegisterStep, RegisterObserve, RegisterForce, RegisterEnsure, RegisterError, RegTypeOK
  <2>3. ASSUME NEW label \in {"observe", "force", "ensure"}, NEW g \in Registration,
               g.id \in Id, RegGoto(r, label, g)
        PROVE  RegTypeOK'
    BY <2>1, <2>3, NoJobIsNone DEF RegTypeOK, RegGoto
  <2>4. RegGoto(r, "idle", NoJob) => RegTypeOK'
    BY <2>1 DEF RegTypeOK, RegGoto
  <2> QED
    BY <2>1, <2>2, <2>3, <2>4
<1>1. CASE RegisterObserve(r)
  <2>1. PICK i \in Id :
          LET g == [reg[r] EXCEPT !.id = i]
          IN  \/ /\ ObserveNew(g.path, g.hash, i) \/ ObserveChanged(g.path, g.hash, i)
                 /\ RegGoto(r, "ensure", g)
              \/ /\ ObserveUnchanged(g.path, g.hash, i)
                 /\ RegGoto(r, IF g.force THEN "force" ELSE "ensure", g)
    BY <1>1 DEF RegisterObserve
  <2> DEFINE g == [reg[r] EXCEPT !.id = i]
  <2>2. g \in Registration /\ g.id \in Id /\ g.path \in Path /\ g.hash \in Hash
    BY <1>0 DEF Registration
  <2>3. StoreNext
    BY <2>1, <2>2, StoreCalls
  <2>4. \E label \in {"observe", "force", "ensure"} : RegGoto(r, label, g)
    BY <2>1
  <2> QED
    BY <1>0, <2>2, <2>3, <2>4
<1>2. CASE RegisterForce(r)
  <2>1. reg[r].id \in Id
    BY <1>0, <1>2 DEF RegisterForce, RegTypeOK
  <2> QED
    BY <1>0, <1>2, <2>1, StoreCalls DEF RegisterForce
<1>3. CASE RegisterEnsure(r)
  <2>1. PICK l \in reg[r].todo :
          LET rest == reg[r].todo \ {l}
          IN  /\ EnsureLanguage(reg[r].id, l)
              /\ IF rest = {} THEN RegGoto(r, "idle", NoJob)
                 ELSE RegGoto(r, "ensure", [reg[r] EXCEPT !.todo = rest])
    BY <1>3 DEF RegisterEnsure
  <2> DEFINE g == [reg[r] EXCEPT !.todo = reg[r].todo \ {l}]
  <2>2. reg[r].id \in Id /\ l \in Lang
    BY <1>0, <1>3 DEF RegisterEnsure, RegTypeOK, Registration
  <2>3. g \in Registration /\ g.id \in Id
    BY <1>0, <2>2 DEF Registration
  <2> QED
    BY <1>0, <2>1, <2>2, <2>3, StoreCalls
<1>4. CASE RegisterError(r)
  BY <1>0, <1>4 DEF RegisterError, storeVars
<1> QED
  BY <1>1, <1>2, <1>3, <1>4 DEF RegisterStep

\* A registration that begins has a record of the right type.
LEMMA RegisterBeginTypes ==
  ASSUME PipelineTypeOK, NEW r \in Registrar, NEW p \in Path, NEW force \in BOOLEAN,
         RegisterBegin(r, p, force)
  PROVE  RegTypeOK'
<1> DEFINE g == [path |-> p, hash |-> disk[p], force |-> force, id |-> 0, todo |-> Lang]
<1>1. g \in Registration
  BY DEF RegisterBegin, PipelineTypeOK, Registration
<1> QED
  BY <1>1, NoJobIsNone DEF RegisterBegin, RegGoto, PipelineTypeOK, RegTypeOK

-----------------------------------------------------------------------------
(* The steps of the daemon. *)

\* What a step has to establish, and what it is to the store.
Good ==
  /\ DiskTypeOK' /\ WorkTypeOK' /\ RegTypeOK' /\ PassTypeOK' /\ EventTypeOK'
  /\ Held'
  /\ [StoreNext]_storeVars

\* Using up an event of the budget keeps the budget's type.
LEMMA SpendTypes ==
  ASSUME EventTypeOK, NEW e \in Event, Spend(e)
  PROVE  budget' \in [Event -> Nat]
BY DEF Spend, EventTypeOK

\* A worker's goroutine keeps the invariant, and calls the store or leaves it alone.
LEMMA GoroutineGood ==
  ASSUME TypeOK, Held, NEW w \in Worker, Goroutine(w) \/ Suspend(w)
  PROVE  Good
<1>1. PipelineTypeOK /\ DiskTypeOK /\ RegTypeOK /\ PassTypeOK /\ EventTypeOK
  BY TypeParts DEF TypePartsOK, TypeOK, DispatcherTypeOK
<1>2. CASE /\ WorkerStep(w) \/ CheckExhausted(w) \/ MarkNoCandidate(w)
           /\ UNCHANGED <<dispatchVars, daemonVars>>
  <2>1. WorkerMove(w)
    BY <1>1, <1>2, WorkerStepMoves, ChainStepMoves
  <2> QED
    BY <1>1, <1>2, <2>1, MoveKeeps
       DEF Good, WorkerMove, RegTypeOK, PassTypeOK, EventTypeOK, regVars, dispatchVars, daemonVars
<1>3. CASE Suspend(w)
  <2>1. WorkerMove(w)
    BY <1>1, <1>3, WorkerStepMoves DEF Suspend, WorkerSuspends
  <2>2. job[w].provider \in Provider
    BY <1>1, <2>1, ActiveJob DEF WorkerMove, Holding
  <2>3. budget' \in [Event -> Nat]
    BY <1>1, <1>3, SpendTypes DEF Suspend, EventTypeOK, Event
  <2> QED
    BY <1>1, <1>3, <2>1, <2>2, <2>3, MoveKeeps
       DEF Good, Suspend, WorkerSuspends, WorkerMove, RegTypeOK, PassTypeOK, EventTypeOK, regVars
<1>4. CASE ReleaseSlot(w) /\ UNCHANGED daemonVars
  BY <1>1, <1>4, ReleaseKeeps
     DEF Good, ReleaseSlot, DiskTypeOK, RegTypeOK, EventTypeOK, diskVars, regVars, storeVars, daemonVars
<1>5. CASE EndPair(w) /\ UNCHANGED daemonVars
  BY <1>1, <1>5, EndKeeps
     DEF Good, EndPair, DiskTypeOK, RegTypeOK, EventTypeOK, diskVars, regVars, storeVars, daemonVars
<1> QED
  BY <1>2, <1>3, <1>4, <1>5 DEF Goroutine, GoroutineStep, MarkNoCandidate, CheckExhausted

\* So does the Dispatcher's pass.
LEMMA PassGood ==
  ASSUME TypeOK, Held, Pass
  PROVE  Good
<1>1. StoreTypeOK /\ DiskTypeOK /\ WorkTypeOK /\ RegTypeOK /\ PassTypeOK /\ EventTypeOK
  BY TypeParts DEF TypePartsOK
<1>2. ASSUME NEW pair \in snap, NEW w \in Worker, StartWorker(w, pair)
      PROVE  Good
  BY <1>1, <1>2, StartKeeps
     DEF Good, StartWorker, Pass, DiskTypeOK, RegTypeOK, EventTypeOK, diskVars, regVars, storeVars,
         daemonVars
<1>3. ASSUME UNCHANGED <<pipelineVars, sem, inFlight, suspended>>, snap' \subseteq PendingPair
      PROVE  Good
  <2>1. Held'
    BY <1>3, WorkersUnchanged DEF pipelineVars
  <2> QED
    BY <1>1, <1>3, <2>1
       DEF Good, Pass, pipelineVars, DiskTypeOK, WorkTypeOK, RegTypeOK, PassTypeOK, EventTypeOK,
           diskVars, workVars, regVars, daemonVars
<1>4. CASE PassBegin
  <2>1. ASSUME NEW q \in PendingPairs
        PROVE  [id |-> q[1], lang |-> q[2], path |-> files[q[1]].path, hash |-> files[q[1]].hash,
                force |-> states[q[1]][q[2]].force] \in PendingPair
    <3>1. q[1] \in Id /\ q[2] \in Lang /\ files[q[1]] # NoFile /\ states[q[1]][q[2]] # NoRow
      BY DEF PendingPairs
    <3>2. files[q[1]] \in FileRow /\ states[q[1]][q[2]] \in LangRow
      BY <1>1, <3>1 DEF StoreTypeOK
    <3> QED
      BY <3>1, <3>2 DEF PendingPair, FileRow, LangRow
  <2>2. snap' \subseteq PendingPair
    BY <1>4, <2>1 DEF PassBegin
  <2> QED
    BY <1>3, <1>4, <2>2 DEF PassBegin
<1>5. CASE PassStop \/ \E pair \in snap : PassSkip(pair)
  BY <1>1, <1>3, <1>5 DEF PassStop, PassSkip, PassTypeOK
<1> QED
  BY <1>2, <1>4, <1>5 DEF Pass

\* So do the Triggers: registrations, the two debouncers, and reprocess requests.
LEMMA TriggerGood ==
  ASSUME TypeOK, Held,
         \/ \E r \in Registrar : Register(r)
         \/ \E p \in Path : FireChanged(p) \/ FireRemoved(p) \/ Reprocess(p)
  PROVE  Good
<1>1. PipelineTypeOK /\ DiskTypeOK /\ WorkTypeOK /\ RegTypeOK /\ PassTypeOK /\ EventTypeOK
  BY TypeParts DEF TypePartsOK, TypeOK, DispatcherTypeOK
<1>2. ASSUME NEW r \in Registrar, Register(r)
      PROVE  Good
  <2>1. RegTypeOK' /\ [StoreNext]_storeVars
    BY <1>1, <1>2, RegisterTypes DEF Register
  <2>2. UNCHANGED <<diskVars, ctxDone, workVars, dispatchVars, daemonVars>>
    BY <1>2 DEF Register, RegisterStep, RegisterObserve, RegisterForce, RegisterEnsure, RegisterError
  <2>3. Held'
    BY <2>2, WorkersUnchanged DEF dispatchVars
  <2> QED
    BY <1>1, <2>1, <2>2, <2>3
       DEF Good, DiskTypeOK, WorkTypeOK, PassTypeOK, EventTypeOK, diskVars, workVars, dispatchVars,
           daemonVars
<1>3. ASSUME NEW p \in Path, FireChanged(p)
      PROVE  Good
  <2>1. RegTypeOK'
    <3>1. CASE UNCHANGED regVars
      BY <1>1, <3>1 DEF RegTypeOK, regVars
    <3>2. CASE \E r \in Registrar : RegisterBegin(r, p, FALSE)
      BY <1>1, <3>2, RegisterBeginTypes
    <3> QED
      BY <1>3, <3>1, <3>2 DEF FireChanged
  <2>2. Held'
    BY <1>3, WorkersUnchanged DEF FireChanged, dispatchVars
  <2> QED
    BY <1>1, <1>3, <2>1, <2>2
       DEF Good, FireChanged, DiskTypeOK, WorkTypeOK, PassTypeOK, EventTypeOK, workVars,
           dispatchVars, daemonVars
<1>4. ASSUME NEW p \in Path, FireRemoved(p)
      PROVE  Good
  <2>1. Held'
    BY <1>4, WorkersUnchanged DEF FireRemoved, dispatchVars
  <2>2. StoreNext
    BY <1>4, StoreCalls DEF FireRemoved
  <2> QED
    BY <1>1, <1>4, <2>1, <2>2
       DEF Good, FireRemoved, DiskTypeOK, WorkTypeOK, RegTypeOK, PassTypeOK, EventTypeOK, diskVars,
           workVars, regVars, dispatchVars
<1>5. ASSUME NEW p \in Path, Reprocess(p)
      PROVE  Good
  <2>1. RegTypeOK'
    BY <1>1, <1>5, RegisterBeginTypes DEF Reprocess
  <2>2. Held'
    BY <1>5, WorkersUnchanged DEF Reprocess, dispatchVars
  <2>3. budget' \in [Event -> Nat]
    BY <1>1, <1>5, SpendTypes DEF Reprocess, Event
  <2> QED
    BY <1>1, <1>5, <2>1, <2>2, <2>3
       DEF Good, Reprocess, DiskTypeOK, WorkTypeOK, PassTypeOK, EventTypeOK, diskVars, workVars,
           dispatchVars
<1> QED
  BY <1>2, <1>3, <1>4, <1>5

\* So does whatever others do to the Library's directory.
LEMMA OutsideGood ==
  ASSUME TypeOK, Held,
         \/ \E p \in Path : Edit(p) \/ Delete(p) \/ \E q \in Path : Rename(p, q)
         \/ \E p \in Provider : Resumed(p)
  PROVE  Good
<1>1. DiskTypeOK /\ WorkTypeOK /\ RegTypeOK /\ PassTypeOK /\ EventTypeOK
  BY TypeParts DEF TypePartsOK
<1>2. ASSUME DiskTypeOK', budget' \in [Event -> Nat], gone' \subseteq Path,
             UNCHANGED DiskUnchangedBut
      PROVE  Good
  <2>1. Held'
    BY <1>2, WorkersUnchanged DEF DiskUnchangedBut, dispatchVars
  <2> QED
    BY <1>1, <1>2, <2>1
       DEF Good, WorkTypeOK, RegTypeOK, PassTypeOK, EventTypeOK, DiskUnchangedBut, workVars,
           regVars, dispatchVars
<1>3. ASSUME NEW p \in Path, Edit(p)
      PROVE  Good
  <2>1. DiskTypeOK' /\ gone' \subseteq Path
    BY <1>1, <1>3 DEF Edit, DiskTypeOK, EventTypeOK, DiskUnchangedBut
  <2> QED
    BY <1>1, <1>2, <1>3, <2>1, SpendTypes DEF Edit, Event, DiskUnchangedBut
<1>4. ASSUME NEW p \in Path, Delete(p)
      PROVE  Good
  <2>1. DiskTypeOK' /\ gone' \subseteq Path
    BY <1>1, <1>4 DEF Delete, DiskTypeOK, EventTypeOK, DiskUnchangedBut
  <2> QED
    BY <1>1, <1>2, <1>4, <2>1, SpendTypes DEF Delete, Event, DiskUnchangedBut
<1>5. ASSUME NEW p \in Path, NEW q \in Path, Rename(p, q)
      PROVE  Good
  <2>1. DiskTypeOK' /\ gone' \subseteq Path
    BY <1>1, <1>5 DEF Rename, DiskTypeOK, EventTypeOK, DiskUnchangedBut
  <2> QED
    BY <1>1, <1>2, <1>5, <2>1, SpendTypes DEF Rename, Event, DiskUnchangedBut
<1>6. ASSUME NEW p \in Provider, Resumed(p)
      PROVE  Good
  <2>1. Held'
    BY <1>6, WorkersUnchanged DEF Resumed, Resume, pipelineVars
  <2> QED
    BY <1>1, <1>6, <2>1
       DEF Good, Resumed, Resume, pipelineVars, DiskTypeOK, WorkTypeOK, RegTypeOK, PassTypeOK,
           EventTypeOK, diskVars, workVars, regVars, daemonVars
<1> QED
  BY <1>3, <1>4, <1>5, <1>6

\* With no worker running every pool is empty.
LEMMA VolatileTypes ==
  ASSUME Volatile
  PROVE  /\ WorkTypeOK' /\ RegTypeOK' /\ PassTypeOK' /\ Held'
         /\ dirty' = {} /\ gone' = {} /\ ctxDone' = FALSE /\ down' = TRUE
<1>1. /\ \A w \in Worker : pc'[w] = "idle" /\ job'[w] = NoJob
      /\ \A p \in Provider : sem'[p] = 0
      /\ inFlight' = {}
  BY DEF Volatile
<1>2. \A p : Slots(p)' = {}
  BY <1>1 DEF Slots, Active, At
<1>3. SlotCount'
  <2>1. \A p \in Provider : Capacity[p] \in Nat /\ 0 <= Capacity[p]
    BY DispatcherConstants
  <2>2. \A p : Cardinality(Slots(p)') = 0
    BY <1>2, FS_EmptySet
  <2> QED
    BY <1>1, <2>1, <2>2 DEF SlotCount
<1>4. HeldPairs'
  BY <1>1 DEF HeldPairs, ExclusivePairs, Active, At
<1> QED
  BY <1>1, <1>3, <1>4 DEF Volatile, WorkTypeOK, RegTypeOK, PassTypeOK, Held, Label

\* So do start, shutdown, exit and crash, which empty the memory as a whole.
LEMMA ProcessGood ==
  ASSUME TypeOK, Held, Start \/ Shutdown \/ Exit \/ Crash
  PROVE  Good
<1>1. DiskTypeOK /\ WorkTypeOK /\ RegTypeOK /\ PassTypeOK /\ EventTypeOK
  BY TypeParts DEF TypePartsOK
<1>2. CASE Start
  <2>1. Held'
    BY <1>2, WorkersUnchanged DEF Start, dispatchVars
  <2>2. StoreNext
    BY <1>2 DEF Start, StoreNext, FileOp
  <2> QED
    BY <1>1, <1>2, <2>1, <2>2
       DEF Good, Start, Present, DiskTypeOK, WorkTypeOK, RegTypeOK, PassTypeOK, EventTypeOK,
           workVars, regVars, dispatchVars
<1>3. CASE Shutdown
  <2>1. Held'
    BY <1>3, WorkersUnchanged DEF Shutdown, dispatchVars
  <2>2. budget' \in [Event -> Nat]
    BY <1>1, <1>3, SpendTypes DEF Shutdown, Event
  <2> QED
    BY <1>1, <1>3, <2>1, <2>2
       DEF Good, Shutdown, DiskTypeOK, WorkTypeOK, RegTypeOK, PassTypeOK, EventTypeOK, diskVars,
           workVars, regVars, dispatchVars
<1>4. CASE Exit
  BY <1>1, <1>4, VolatileTypes DEF Good, Exit, DiskTypeOK, EventTypeOK
<1>5. CASE Crash
  <2>1. budget' \in [Event -> Nat]
    BY <1>1, <1>5, SpendTypes DEF Crash, Event
  <2> QED
    BY <1>1, <1>5, <2>1, VolatileTypes DEF Good, Crash, DiskTypeOK, EventTypeOK
<1> QED
  BY <1>2, <1>3, <1>4, <1>5

\* The invariant holds when the daemon is first started.
LEMMA DaemonInit == Init => TypeOK /\ Held
<1> SUFFICES ASSUME Init
             PROVE  TypeOK /\ Held
  OBVIOUS
<1>1. StoreTypeOK
  BY RowTypes DEF Init, DispatcherInit, PipelineInit, StoreInit, StoreTypeOK, NoRows
<1>2. DiskTypeOK /\ WorkTypeOK /\ RegTypeOK /\ PassTypeOK /\ EventTypeOK
  BY DaemonConstants
     DEF Init, DispatcherInit, PipelineInit, DiskTypeOK, WorkTypeOK, RegTypeOK, PassTypeOK,
         EventTypeOK, Label
<1>3. /\ \A w \in Worker : pc[w] = "idle"
      /\ \A p \in Provider : sem[p] = 0
  BY DEF Init, DispatcherInit, PipelineInit
<1>4. \A p : Slots(p) = {}
  BY <1>3 DEF Slots, Active, At
<1>5. SlotCount
  <2>1. \A p \in Provider : Capacity[p] \in Nat /\ 0 <= Capacity[p]
    BY DispatcherConstants
  <2>2. \A p : Cardinality(Slots(p)) = 0
    BY <1>4, FS_EmptySet
  <2> QED
    BY <1>3, <2>1, <2>2 DEF SlotCount
<1>6. HeldPairs
  BY <1>3 DEF HeldPairs, ExclusivePairs, Active, At
<1> QED
  BY <1>1, <1>2, <1>5, <1>6, TypeParts DEF Held, TypePartsOK

\* One step of the daemon, whatever it is.
LEMMA DaemonStep ==
  ASSUME TypeOK, Held, [Next]_vars
  PROVE  TypeOK' /\ Held' /\ [StoreNext]_storeVars
<1>1. CASE Next
  <2>1. Good
    BY <1>1, GoroutineGood, PassGood, TriggerGood, OutsideGood, ProcessGood DEF Next, Outside
  <2>2. StoreTypeOK'
    BY StoreTypeStep, TypeParts, <2>1 DEF Good, TypePartsOK
  <2>3. TypeOK'
    BY <2>1, <2>2, TypeParts DEF Good, TypePartsOK
  <2> QED
    BY <2>1, <2>3 DEF Good
<1>2. CASE UNCHANGED vars
  <2>1. UNCHANGED <<pipelineVars, dispatchVars, daemonVars>>
    BY <1>2 DEF vars
  <2>2. Held'
    BY <2>1, WorkersUnchanged DEF pipelineVars, dispatchVars
  <2>3. /\ StoreTypeOK' /\ DiskTypeOK' /\ WorkTypeOK' /\ RegTypeOK' /\ PassTypeOK' /\ EventTypeOK'
    BY <2>1, TypeParts
       DEF TypePartsOK, pipelineVars, StoreTypeOK, DiskTypeOK, WorkTypeOK, RegTypeOK, PassTypeOK, EventTypeOK,
           storeVars, diskVars, workVars, regVars, dispatchVars, daemonVars
  <2>4. TypeOK'
    BY <2>3, TypeParts DEF TypePartsOK
  <2> QED
    BY <2>1, <2>2, <2>4 DEF pipelineVars
<1> QED
  BY <1>1, <1>2
-----------------------------------------------------------------------------
\* Everything in memory and in the store keeps its type, and the in-flight set
\* and the pools' semaphores count exactly what the workers hold.
THEOREM DaemonInvariant == Spec => [](TypeOK /\ Held)
BY DaemonInit, DaemonStep, PTL DEF Spec

\* The type invariant of the daemon.
THEOREM TypeCorrect == Spec => []TypeOK
BY DaemonInvariant, PTL

\* No two workers ever hold the same pair, for any number of workers, passes,
\* crashes, edits and reprocess requests.
THEOREM PairsExclusive == Spec => []ExclusivePairs
<1>1. TypeOK /\ Held => ExclusivePairs
  BY DEF Held, HeldPairs
<1> QED
  BY <1>1, DaemonInvariant, PTL

\* A Provider's in-flight work never exceeds its worker budget.
THEOREM PoolsBounded == Spec => []PoolBound
<1>1. TypeOK /\ Held => PoolBound
  BY DEF Held, SlotCount, PoolBound
<1> QED
  BY <1>1, DaemonInvariant, PTL

\* The daemon, with its workers, Triggers, crashes and restarts, uses the store
\* as the store's own specification allows: what is proved of the store holds.
THEOREM DaemonUsesStore == Spec => StoreSpec
<1>1. Init => StoreInit
  BY DEF Init, DispatcherInit, PipelineInit
<1> QED
  BY <1>1, DaemonInvariant, DaemonStep, PTL DEF Spec, StoreSpec

\* So the daemon's tables stay consistent, also over reused row ids.
THEOREM DaemonRowsConsistent == Spec => []RowIntegrity
BY DaemonUsesStore, RowsStayConsistent

\* Reasons and force flags agree with the status of their row.
THEOREM DaemonFlags == Spec => []CycleFlags
BY DaemonUsesStore, FlagsFollowCycle

\* No claim, requeue, crash or restart makes a pair forget which Providers missed.
THEOREM DaemonKeepsMisses == Spec => MissesSurviveCycle
BY DaemonUsesStore, MissesKept
=============================================================================
