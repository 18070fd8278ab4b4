------------------------------- MODULE Pipeline -------------------------------
(***************************************************************************)
(* internal/pipeline: the worker's side (ProcessPending, one goroutine per *)
(* claimed pair) and the Trigger's side (registerFile), over the store and *)
(* the Library's directory.  One action per stretch of code between two    *)
(* accesses to something shared: a store transaction, the video file, or   *)
(* the sidecars beside it.  A call that reads and writes nothing shared    *)
(* (Search, scoring, Download, Sync) is one step with the store write that *)
(* follows it.                                                             *)
(***************************************************************************)
EXTENDS Store

CONSTANTS
  Worker,     \* goroutines the Dispatcher may run
  Registrar,  \* goroutines that register a file: watcher timers, API requests
  StripOf,    \* StripOf[h][l]: content h once StripEmbedded ran for language l
  StripAll,   \* the Library's strip_scope is "all", not "per_language"
  Absent,     \* disk[p] when there is no video at p
  NoSidecar,  \* sidecar[p][l] when there is none
  NoJob       \* job[w] and reg[r] of an idle goroutine

ASSUME PipelineConstants ==
  /\ StripOf \in [Hash -> [Lang -> Hash]]
  /\ StripAll \in BOOLEAN
  /\ Absent \notin Hash /\ NoSidecar \notin Hash

\* What a worker is handed: a store.PendingPair, the Provider it runs for, and
\* `fixed`, the content it made by stripping, then the hash it read afterwards.
Job == [id : Id, path : Path, lang : Lang, hash : Hash, force : BOOLEAN,
        provider : Provider, fixed : Hash]

\* registerFile's arguments and locals; `todo` are the languages left to ensure.
Registration == [path : Path, hash : Hash, force : BOOLEAN, id : Id \cup {0},
                 todo : SUBSET Lang]

ASSUME NoJobIsNone == NoJob \notin Job \cup Registration

VARIABLES
  disk,      \* content of the video at each path
  sidecar,   \* per path and language, the hash bound into the sidecar's Marker
  dirty,     \* paths with a create/write event waiting out the quiet window
  ctxDone,   \* the daemon's context is cancelled
  pc,        \* where each worker is
  job,       \* what each worker was handed
  regPc,     \* where each registration is
  reg        \* what each registration works on

diskVars == <<disk, sidecar, dirty>>
workVars == <<pc, job>>
regVars == <<regPc, reg>>
pipelineVars == <<storeVars, diskVars, ctxDone, workVars, regVars>>

\* Before its claim lands a worker has written nothing; from "fetch" on to
\* "abort" it owns the pair; after that ProcessPending has its outcome.
Unclaimed == {"gate", "skip", "claim"}
Claimed == {"fetch", "strip", "rename", "rehash", "record", "swap", "finish", "abort"}
Returned == {"failed", "missed", "exhausted", "release", "end"}

Label == {"idle"} \cup Unclaimed \cup Claimed \cup Returned

PipelineTypeOK ==
  /\ StoreTypeOK
  /\ disk \in [Path -> Hash \cup {Absent}]
  /\ sidecar \in [Path -> [Lang -> Hash \cup {NoSidecar}]]
  /\ dirty \subseteq Path
  /\ ctxDone \in BOOLEAN
  /\ pc \in [Worker -> Label]
  /\ job \in [Worker -> Job \cup {NoJob}]
  /\ \A w \in Worker : pc[w] = "idle" <=> job[w] = NoJob
  /\ regPc \in [Registrar -> {"idle", "observe", "force", "ensure"}]
  /\ reg \in [Registrar -> Registration \cup {NoJob}]
  /\ \A r \in Registrar : /\ regPc[r] = "idle" <=> reg[r] = NoJob
                          /\ regPc[r] \in {"force", "ensure"} => reg[r].id \in Id

-----------------------------------------------------------------------------
(* Helpers. *)

At(w, label) == pc[w] = label
Goto(w, label) == pc' = [pc EXCEPT ![w] = label]

\* A fenced write of worker w lands: its context is live, the file row still
\* has the hash the worker started from, and the language row is there.
Lands(w) == ~ctxDone /\ Fenced(job[w].id, job[w].hash, job[w].lang)

\* Try the fenced write; go to `landed` if it lands and to `lost` if not.
Settle(w, write, landed, lost) ==
  /\ \/ Lands(w) /\ write /\ Goto(w, landed)
     \/ ~Lands(w) /\ UNCHANGED storeVars /\ Goto(w, lost)
  /\ UNCHANGED <<diskVars, ctxDone, job, regVars>>

\* A step of w that touches neither the store nor the directory.
Local(w, label) == Goto(w, label) /\ UNCHANGED <<storeVars, diskVars, ctxDone, job, regVars>>

-----------------------------------------------------------------------------
(* processFile: gate, claim. *)

\* strip.NeedsFetch: is there a sidecar for the language whose Marker is bound
\* to the hash in the Dispatcher's snapshot?  A forced pair does not ask.
Gate(w) ==
  /\ At(w, "gate")
  /\ LET trusted == sidecar[job[w].path][job[w].lang] = job[w].hash
     IN  Local(w, IF ~job[w].force /\ trusted THEN "skip" ELSE "claim")

\* Listing the sidecars fails when the video's directory is gone.
GateError(w) ==
  /\ At(w, "gate")
  /\ ~job[w].force
  /\ disk[job[w].path] = Absent
  /\ Local(w, "release")

SkipFetch(w) ==
  /\ At(w, "skip")
  /\ Settle(w, MarkSynced(job[w].id, job[w].hash, job[w].lang), "release", "release")

\* MarkInProgress.  Unlike every later write it is not fenced on the hash.
Claim(w) ==
  /\ At(w, "claim")
  /\ \/ ~ctxDone /\ MarkInProgress(job[w].id, job[w].lang) /\ Goto(w, "fetch")
     \/ /\ ctxDone \/ <<job[w].id, job[w].lang>> \notin PendingPairs
        /\ UNCHANGED storeVars
        /\ Goto(w, "release")
  /\ UNCHANGED <<diskVars, ctxDone, job, regVars>>

-----------------------------------------------------------------------------
(* fetchAndWrite: Search, select, Download, Sync ... *)

\* The Provider answered with a suspension signal: the pair is requeued.
FetchSuspended(w) ==
  /\ At(w, "fetch")
  /\ Settle(w, ResetLanguageToPending(job[w].id, job[w].hash, job[w].lang), "release", "failed")

FetchFailed(w) ==
  /\ At(w, "fetch")
  /\ \E why \in FailureReason \ {"no_candidate"} :
       Settle(w, MarkFailed(job[w].id, job[w].hash, job[w].lang, why), "failed", "failed")

\* No Candidate clears the cutoff, or its Download is a miss.
FetchMiss(w) ==
  /\ At(w, "fetch")
  /\ Settle(w, RecordProviderMiss(job[w].id, job[w].hash, job[w].lang, job[w].provider),
            "missed", "failed")

FetchOk(w) == At(w, "fetch") /\ Local(w, "strip")

(* ... StripEmbedded, the new Content Hash, Swap, MarkSynced. *)

\* ffprobe, ffmpeg or the rename fails.
StripError(w) == pc[w] \in {"strip", "rename"} /\ Local(w, "abort")

\* The streams to drop are found and the video is remuxed into a temp file.
StripEmbedded(w) ==
  /\ At(w, "strip")
  /\ disk[job[w].path] # Absent
  /\ LET now == disk[job[w].path]
         left == StripOf[now][job[w].lang]
     IN  IF left = now
         THEN Local(w, "swap")
         ELSE /\ job' = [job EXCEPT ![w].fixed = left]
              /\ Goto(w, "rename")
              /\ UNCHANGED <<storeVars, diskVars, ctxDone, regVars>>

\* ... which then replaces whatever is at the video's path by now.
RenameOver(w) ==
  /\ At(w, "rename")
  /\ disk' = [disk EXCEPT ![job[w].path] = job[w].fixed]
  /\ dirty' = dirty \cup {job[w].path}
  /\ Goto(w, "rehash")
  /\ UNCHANGED <<storeVars, sidecar, ctxDone, job, regVars>>

Rehash(w) ==
  /\ At(w, "rehash")
  /\ LET now == disk[job[w].path]
     IN  IF now = Absent
         THEN Local(w, "abort")
         ELSE /\ job' = [job EXCEPT ![w].fixed = now]
              /\ Goto(w, "record")
              /\ UNCHANGED <<storeVars, diskVars, ctxDone, regVars>>

\* UpdateContentHash.  Only once it lands does the fence move to the new hash;
\* if it is lost fetchAndWrite returns without writing the pair's row.
RecordHash(w) ==
  /\ At(w, "record")
  /\ \/ /\ ~ctxDone /\ UpdateContentHash(job[w].id, job[w].hash, job[w].fixed)
        /\ job' = [job EXCEPT ![w].hash = job[w].fixed]
        /\ Goto(w, "swap")
     \/ /\ ctxDone \/ ~HashFence(job[w].id, job[w].hash)
        /\ UNCHANGED <<storeVars, job>>
        /\ Goto(w, "failed")
  /\ UNCHANGED <<diskVars, ctxDone, regVars>>

\* The sidecars of p once worker w wrote its own.
Written(w) == [sidecar EXCEPT ![job[w].path][job[w].lang] = job[w].hash]

\* The same after StripSidecars: scope "all" also removes every other
\* language's sidecar whose Marker is not bound to w's hash.
Swapped(w) ==
  [Written(w) EXCEPT ![job[w].path] =
     [l \in Lang |-> IF StripAll /\ @[l] # job[w].hash THEN NoSidecar ELSE @[l]]]

Swap(w) ==
  /\ At(w, "swap")
  /\ sidecar' = Swapped(w)
  /\ Goto(w, "finish")
  /\ UNCHANGED <<storeVars, disk, dirty, ctxDone, job, regVars>>

\* Writing the sidecar fails, or it is in place and removing the others fails.
SwapError(w) ==
  /\ At(w, "swap")
  /\ sidecar' \in {sidecar, Written(w)}
  /\ Goto(w, "abort")
  /\ UNCHANGED <<storeVars, disk, dirty, ctxDone, job, regVars>>

Finish(w) ==
  /\ At(w, "finish")
  /\ Settle(w, MarkSynced(job[w].id, job[w].hash, job[w].lang), "release", "failed")

Abort(w) ==
  /\ At(w, "abort")
  /\ Settle(w, MarkFailed(job[w].id, job[w].hash, job[w].lang, "internal_error"),
            "failed", "failed")

\* processFile's end: under a cancelled context a failed attempt gives its
\* claim back (requeueInterrupted), whatever the failure was.
ReturnFailed(w) ==
  /\ At(w, "failed")
  /\ IF ctxDone THEN RequeueInProgress(job[w].id, job[w].lang) ELSE UNCHANGED storeVars
  /\ Goto(w, "release")
  /\ UNCHANGED <<diskVars, ctxDone, job, regVars>>

WorkerStep(w) ==
  \/ Gate(w) \/ GateError(w) \/ SkipFetch(w) \/ Claim(w)
  \/ FetchFailed(w) \/ FetchMiss(w) \/ FetchOk(w)
  \/ StripError(w) \/ StripEmbedded(w) \/ RenameOver(w) \/ Rehash(w) \/ RecordHash(w)
  \/ Swap(w) \/ SwapError(w) \/ Finish(w) \/ Abort(w) \/ ReturnFailed(w)

-----------------------------------------------------------------------------
(* registerFile, run by a Trigger's goroutine r. *)

RegGoto(r, label, rec) ==
  /\ regPc' = [regPc EXCEPT ![r] = label]
  /\ reg' = [reg EXCEPT ![r] = rec]

\* ComputeContentHash reads the video; the store is written in a later step.
RegisterBegin(r, p, force) ==
  /\ regPc[r] = "idle"
  /\ disk[p] # Absent
  /\ RegGoto(r, "observe",
             [path |-> p, hash |-> disk[p], force |-> force, id |-> 0, todo |-> Lang])

\* Only an unchanged file is force-reset; Found and Changed take precedence.
RegisterObserve(r) ==
  /\ regPc[r] = "observe"
  /\ \E i \in Id :
       LET g == [reg[r] EXCEPT !.id = i]
       IN  \/ /\ ObserveNew(g.path, g.hash, i) \/ ObserveChanged(g.path, g.hash, i)
              /\ RegGoto(r, "ensure", g)
           \/ /\ ObserveUnchanged(g.path, g.hash, i)
              /\ RegGoto(r, IF g.force THEN "force" ELSE "ensure", g)
  /\ UNCHANGED <<diskVars, ctxDone, workVars>>

RegisterForce(r) ==
  /\ regPc[r] = "force"
  /\ ResetToPendingForced(reg[r].id)
  /\ RegGoto(r, "ensure", reg[r])
  /\ UNCHANGED <<diskVars, ctxDone, workVars>>

\* One EnsureLanguage per configured language (any order), then done.
RegisterEnsure(r) ==
  /\ regPc[r] = "ensure"
  /\ \E l \in reg[r].todo :
       LET rest == reg[r].todo \ {l}
       IN  /\ EnsureLanguage(reg[r].id, l)
           /\ IF rest = {} THEN RegGoto(r, "idle", NoJob)
              ELSE RegGoto(r, "ensure", [reg[r] EXCEPT !.todo = rest])
  /\ UNCHANGED <<diskVars, ctxDone, workVars>>

\* A store call fails: the context is cancelled, or the file row is gone.
RegisterError(r) ==
  /\ regPc[r] # "idle"
  /\ ctxDone \/ (regPc[r] = "ensure" /\ files[reg[r].id] = NoFile)
  /\ RegGoto(r, "idle", NoJob)
  /\ UNCHANGED <<storeVars, diskVars, ctxDone, workVars>>

RegisterStep(r) ==
  RegisterObserve(r) \/ RegisterForce(r) \/ RegisterEnsure(r) \/ RegisterError(r)

PipelineInit(video) ==
  /\ StoreInit
  /\ disk = video
  /\ sidecar = [p \in Path |-> [l \in Lang |-> NoSidecar]]
  /\ dirty = {}
  /\ ctxDone = FALSE
  /\ pc = [w \in Worker |-> "idle"] /\ job = [w \in Worker |-> NoJob]
  /\ regPc = [r \in Registrar |-> "idle"] /\ reg = [r \in Registrar |-> NoJob]
=============================================================================
