-------------------------------- MODULE Store --------------------------------
(***************************************************************************)
(* The SQLite state store (internal/store).  Two tables: `files`, one row  *)
(* per tracked video, and `file_language_states`, one row per (file,       *)
(* language) pair.  The store runs on one connection, so every method is   *)
(* one transaction and therefore one action here.                          *)
(*                                                                         *)
(* A method that a caller may see fail is written so that it changes       *)
(* nothing then; Fenced tells the caller which of the two happened.        *)
(***************************************************************************)
EXTENDS Naturals

CONSTANTS
  Path,      \* tracked video paths; a path stands for (library, path)
  Lang,      \* the Library's configured languages
  Hash,      \* Content Hashes a video can have
  Provider,  \* Provider names
  MaxId,     \* bound: highest row id the model hands out
  NoFile,    \* files[i] when the table has no row i
  NoRow      \* states[i][l] when the table has no row for (i, l)

Id == 1..MaxId

Status == {"pending", "in_progress", "synced", "failed"}
FailureReason == {"no_candidate", "retrieval_failed", "sync_failed", "internal_error"}

FileRow == [path : Path, hash : Hash]
LangRow == [status : Status, reason : FailureReason \cup {"none"},
            force : BOOLEAN, attempted : SUBSET Provider]

ASSUME StoreConstants ==
  /\ MaxId \in Nat
  /\ NoFile \notin FileRow
  /\ NoRow \notin LangRow

VARIABLES
  files,     \* the files table, by row id
  states     \* the file_language_states table, by file id and language

storeVars == <<files, states>>

StoreTypeOK ==
  /\ files \in [Id -> FileRow \cup {NoFile}]
  /\ states \in [Id -> [Lang -> LangRow \cup {NoRow}]]

StoreInit ==
  /\ files = [i \in Id |-> NoFile]
  /\ states = [i \in Id |-> [l \in Lang |-> NoRow]]

-----------------------------------------------------------------------------
(* Reading the tables. *)

Row(i, l) == states[i][l]

Tracked(p) == \E i \in Id : files[i] # NoFile /\ files[i].path = p

IsRowOf(i, p) == files[i] # NoFile /\ files[i].path = p

\* `id INTEGER PRIMARY KEY` without AUTOINCREMENT: one more than the largest
\* id in the table, so the id of the newest row is handed out again once that
\* row is deleted.
IsNextId(i) ==
  /\ \A j \in Id : j >= i => files[j] = NoFile
  /\ i > 1 => files[i - 1] # NoFile

NewRow == [status |-> "pending", reason |-> "none", force |-> FALSE, attempted |-> {}]
NoRows == [l \in Lang |-> NoRow]

\* Every language row of file i is put in state r, the absent ones left absent.
AllReset(i, r) == [states EXCEPT ![i] = [l \in Lang |-> IF @[l] = NoRow THEN NoRow ELSE r]]

\* Mutated: the fence only looks for the file row.
HashFenceOnId(i, h) == files[i] # NoFile

\* checkContentHashFence: the file row is there and still has hash h.
HashFence(i, h) == files[i] # NoFile /\ files[i].hash = h

\* A fenced write to one language row lands exactly when this holds.
Fenced(i, h, l) == HashFence(i, h) /\ states[i][l] # NoRow

PendingPairs ==
  {q \in Id \X Lang : /\ files[q[1]] # NoFile
                     /\ states[q[1]][q[2]] # NoRow
                     /\ states[q[1]][q[2]].status = "pending"}

-----------------------------------------------------------------------------
(* Registration writes. *)

\* ObserveFileHash, its three outcomes.  A changed hash resets every language
\* row, also one that is In Progress.
ObserveNew(p, h, i) ==
  /\ ~Tracked(p)
  /\ IsNextId(i)
  /\ files' = [files EXCEPT ![i] = [path |-> p, hash |-> h]]
  /\ UNCHANGED states

ObserveChanged(p, h, i) ==
  /\ IsRowOf(i, p)
  /\ files[i].hash # h
  /\ files' = [files EXCEPT ![i].hash = h]
  /\ states' = AllReset(i, NewRow)

ObserveUnchanged(p, h, i) ==
  /\ IsRowOf(i, p)
  /\ files[i].hash = h
  /\ UNCHANGED storeVars

ResetToPending(i) ==
  /\ states' = AllReset(i, NewRow)
  /\ UNCHANGED files

ResetToPendingForced(i) ==
  /\ states' = AllReset(i, [NewRow EXCEPT !.force = TRUE])
  /\ UNCHANGED files

\* Inserting for a file that is gone breaks the foreign key: an error.
EnsureLanguage(i, l) ==
  /\ files[i] # NoFile
  /\ states' = IF states[i][l] = NoRow THEN [states EXCEPT ![i][l] = NewRow] ELSE states
  /\ UNCHANGED files

\* Mutated: foreign keys are not enforced, so nothing cascades.
DeleteFileOnly(p) ==
  /\ files' = [i \in Id |-> IF IsRowOf(i, p) THEN NoFile ELSE files[i]]
  /\ UNCHANGED states

\* ON DELETE CASCADE takes the language rows with the file row.
DeleteFile(p) ==
  /\ files' = [i \in Id |-> IF IsRowOf(i, p) THEN NoFile ELSE files[i]]
  /\ states' = [i \in Id |-> IF IsRowOf(i, p) THEN NoRows ELSE states[i]]

-----------------------------------------------------------------------------
(* Worker writes. *)

\* Mutated: the claim does not ask for a Pending row.
MarkInProgressAnyway(i, l) ==
  /\ states[i][l] # NoRow
  /\ states' = [states EXCEPT ![i][l].status = "in_progress", ![i][l].reason = "none"]
  /\ UNCHANGED files

\* The one write of a worker that is not fenced on the Content Hash.
MarkInProgress(i, l) ==
  /\ states[i][l] # NoRow
  /\ states[i][l].status = "pending"
  /\ states' = [states EXCEPT ![i][l].status = "in_progress", ![i][l].reason = "none"]
  /\ UNCHANGED files

MarkSynced(i, h, l) ==
  /\ Fenced(i, h, l)
  /\ states' = [states EXCEPT ![i][l].status = "synced", ![i][l].reason = "none",
                              ![i][l].force = FALSE]
  /\ UNCHANGED files

\* Mutated: a failure leaves the force flag of its cycle up.
MarkFailedKeepsForce(i, h, l, why) ==
  /\ Fenced(i, h, l)
  /\ states' = [states EXCEPT ![i][l].status = "failed", ![i][l].reason = why]
  /\ UNCHANGED files

MarkFailed(i, h, l, why) ==
  /\ Fenced(i, h, l)
  /\ states' = [states EXCEPT ![i][l].status = "failed", ![i][l].reason = why,
                              ![i][l].force = FALSE]
  /\ UNCHANGED files

\* Mutated: a suspension starts a new cycle.
ResetLanguageToNew(i, h, l) ==
  /\ Fenced(i, h, l)
  /\ states' = [states EXCEPT ![i][l] = NewRow]
  /\ UNCHANGED files

ResetLanguageToPending(i, h, l) ==
  /\ Fenced(i, h, l)
  /\ states' = [states EXCEPT ![i][l].status = "pending", ![i][l].reason = "none"]
  /\ UNCHANGED files

RecordProviderMiss(i, h, l, p) ==
  /\ Fenced(i, h, l)
  /\ states' = [states EXCEPT ![i][l].status = "pending", ![i][l].reason = "none",
                              ![i][l].attempted = @ \cup {p}]
  /\ UNCHANGED files

\* Only the file row is fenced and written: the language rows keep their state.
UpdateContentHash(i, h, new) ==
  /\ HashFence(i, h)
  /\ files' = [files EXCEPT ![i].hash = new]
  /\ UNCHANGED states

RequeueInProgress(i, l) ==
  /\ states' = IF states[i][l] # NoRow /\ states[i][l].status = "in_progress"
               THEN [states EXCEPT ![i][l].status = "pending", ![i][l].reason = "none"]
               ELSE states
  /\ UNCHANGED files

\* Mutated: nothing is recovered.
RecoverNothing == UNCHANGED storeVars

RecoverInProgress ==
  /\ states' = [i \in Id |-> [l \in Lang |->
                  IF states[i][l] # NoRow /\ states[i][l].status = "in_progress"
                  THEN [states[i][l] EXCEPT !.status = "pending"]
                  ELSE states[i][l]]]
  /\ UNCHANGED files

-----------------------------------------------------------------------------
(* Any caller may call any method at any time, with any arguments. *)

FileOp ==
  \/ \E p \in Path, h \in Hash, i \in Id :
       ObserveNew(p, h, i) \/ ObserveChanged(p, h, i) \/ ObserveUnchanged(p, h, i)
  \/ \E p \in Path : DeleteFile(p)
  \/ \E i \in Id, h, new \in Hash : UpdateContentHash(i, h, new)
  \/ RecoverInProgress

LangOp(i, l) ==
  \/ EnsureLanguage(i, l)
  \/ MarkInProgress(i, l)
  \/ RequeueInProgress(i, l)
  \/ \E h \in Hash : \/ MarkSynced(i, h, l)
                     \/ ResetLanguageToPending(i, h, l)
                     \/ \E why \in FailureReason : MarkFailed(i, h, l, why)
                     \/ \E p \in Provider : RecordProviderMiss(i, h, l, p)

StoreNext ==
  \/ FileOp
  \/ \E i \in Id : ResetToPending(i) \/ ResetToPendingForced(i)
  \/ \E i \in Id, l \in Lang : LangOp(i, l)

StoreSpec == StoreInit /\ [][StoreNext]_storeVars
=============================================================================
