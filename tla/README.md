# Sublime: TLA+ specifications

Formal specifications of Sublime, the daemon that watches video Libraries,
retrieves a subtitle per configured language, synchronises it, strips the
subtitles it replaces and keeps a SQLite record of what is done. The modules are
translated from the Go source under `src/internal`. TLC checks them on small
instances, TLAPS proves the theorems for every value of the constants.

    tlc -config dispatch.cfg MCDaemon     # any run of PROJECT.json
    tlapm DaemonProofs.tla                # any proof module

`PROJECT.json` is the index: components, runs, mutants (a plausible bug that each
property catches), the map from definitions to source lines, findings, hazards,
theorems. A definition whose comment begins with "Mutated" is such a bug; no
specification uses it.

## 1. The system

| Component | State it keeps | Operations | Called by |
|---|---|---|---|
| State store (`store`) | SQLite tables `files` and `file_language_states`, on one connection | one transaction per method; the writes of workers are fenced on the Content Hash | everybody |
| Pipeline, workers (`pipeline`, `strip`) | the locals of one goroutine per claimed pair | `ProcessPending`: gate, claim, Search / select / Download / Sync, strip, re-hash, swap, final write | Dispatcher |
| Pipeline, registration | the locals of one goroutine | `registerFile`, `RunFile`, `RemoveFile`, the scan of a Library | Watcher, API, start-up |
| Dispatcher (`dispatcher`) | pools (semaphores), in-flight set | a pass every poll interval; worker goroutines outlive the pass | `cli.Serve` |
| Daemon (`cli.Serve`) | the process | recover, scan, run, graceful shutdown | the operator |
| Watcher (`trigger/watcher.go`) | two debouncers per Library, directory watches | scan, then watch; register or remove a path once it is quiet | `cli.Serve`, the file system |
| Reprocess trigger, API (`trigger/reprocess.go`, `api`) | none | forced registration of a video, a directory or the Library | the operator |
| Strip and sidecars (`strip`) | the video, its sidecars, temp files | probe, remux, write, rename, Swap; clean-up | workers; Watcher |
| Content Hash, Marker (`media`, `marker`) | none | hash of a video; hash bound into a sidecar | workers, registration |
| Retry engine and Pacer (`retry`) | one queue and delay per Provider | spaced, serial requests with retries | Provider clients |
| Providers (`provider/...`) | Suspension, token cache | Search, Download, Suspension | workers, Dispatcher |
| Scoring (`scoring`, `media/classify.go`) | none | parse a file name, score and choose a Candidate | workers |
| Sync engine, audio source | none | run alass / ffmpeg | workers |
| Config, status API, CLI clients | none | load, format, report | start-up, the operator |

What makes the system hard is that almost everything is optimistic. A worker
starts from a snapshot of the store (id, path, Content Hash, force flag) and
works for minutes; meanwhile the video may be edited, deleted or renamed, the
pair may be reset by a Trigger or by a manual request, another language of the
same video may strip it, and the process may stop. The code's answer is a fence
on the Content Hash in every worker write but one, an in-flight set in the
Dispatcher, and a recovery at start-up. What each component must guarantee:

* **Store**: no orphaned or duplicate rows although ids are reused; reason and
  force flag agree with the status; recorded misses last exactly as long as the
  cycle they belong to.
* **Dispatcher**: a pair has at most one worker, a Provider at most its budget;
  a Provider that missed is not asked again in the cycle; Failed(`no_candidate`)
  only once all have missed; the backlog drains.
* **Pipeline**: Synced means that the sidecar is bound to the recorded content;
  the recorded content moves only to what the worker made itself; In Progress
  means that a worker has it; a forced reprocess is not swallowed.
* **Strip**: no reader ever sees half a file under its final name; a language with
  a sidecar never is without one; only what was to be stripped is stripped; temp
  files do not outlive a restart.
* **Watcher**: the store ends up agreeing with the directory tree about every video
  whose changes could be followed; no row of a video that is there is deleted.
* **Scoring**: a Candidate of another title, year or episode is never taken, however
  well its release fits; among the others the order of the attributes decides.
* **Providers**: requests to a metered API are serial and spaced; a Generated
  Subtitle holds every word once and hides no decoding loop; a miss, which is
  recorded for good, means that the server lists nothing; an episode gets its own
  subtitle out of a pack; every call returns; cues can be read.
* **Daemon**: all of it across crashes, shutdowns and restarts; every pair moves
  along the documented lifecycle only.

## 2. Modules

    Store <- Pipeline <- Dispatcher <- Daemon <- DaemonProperties <- MCDaemon
      ^                                               |  ^
      |                                   PairLifecycle  DaemonProofs <- PairProofs
    StoreProperties <- DaemonProperties, DaemonProofs

    StripFiles <- MCStripFiles, StripFilesProofs

    Watcher <- MCWatcher, WatcherProofs

    Scoring <- SubDL <- MCSubDL, SubDLProofs

    Retry <- OpenSubtitles <- MCOpenSubtitles, OpenSubtitlesProofs

    Chunking <- Whisper <- WhisperProofs <- SubtitleProofs
    Shaping, Whisper <- Subtitles <- MCWhisper, SubtitleProofs

| Module | Models |
|---|---|
| `Store` | the two tables, every writing method, and `StoreSpec`: any caller, any order |
| `StoreProperties` | what the store guarantees to any caller |
| `Pipeline` | the worker (`ProcessPending`) and the registration (`registerFile`), step by step, over store and directory |
| `Dispatcher` | passes, Tier walk, pools, in-flight set, the goroutine around `ProcessPending` |
| `Daemon` | Triggers, outside changes, start, shutdown, exit, crash; `Next`, `Spec`, `FairSpec` |
| `PairLifecycle` | the abstract specification: the Sync Status lifecycle of CONTEXT.md |
| `DaemonProperties` | the properties of the daemon and the refinement to `PairLifecycle` |
| `StripFiles` | the `strip` package in one directory, file operation by file operation: several workers, failures, stops, and the clean-up at the Watcher's start |
| `Watcher` | one Library's directory tree and what the Watcher, `pipeline.Run` and reprocess requests make of its changes: walk, reconciliation, directory watches, event loop, debouncer timers |
| `Scoring` | pure: Parse, Score, the cutoff and the choice of a Candidate, and what the scores are to mean |
| `SubDL` | fetches of concurrent workers on one SubDL Provider: page walk, packs, choice, both download paths, archives, Suspension |
| `Retry` | the Pacer in front of a Provider's API and the Executor that repeats operations, in discrete time |
| `OpenSubtitles` | Search and Download of concurrent workers on one Provider, its token cache and Suspension |
| `Chunking` | pure: where a silence cuts the film, and how two chunks' transcripts are joined |
| `Shaping` | pure: how a transcript's tokens become words, groups and cues, and what cues are to be |
| `Whisper` | one Download of the Whisper Provider: plan, attempts at each chunk, joining, Suspension |
| `Subtitles` | the end of a Download: its transcript becomes tokens, its tokens cues |
| `DaemonProofs`, `PairProofs`, `StripFilesProofs`, `WatcherProofs`, `SubDLProofs`, `OpenSubtitlesProofs`, `WhisperProofs`, `SubtitleProofs` | the theorems |
| `MCDaemon`, `MCStripFiles`, `MCWatcher`, `MCSubDL`, `MCOpenSubtitles`, `MCWhisper` | values for TLC |

The trees are not composed: to the daemon a call of a Provider is a choice
among its outcomes (found, miss, failure, suspension), and every outcome the
models of the Providers can reach is one of them. The callers of `OpenSubtitles` and the
workers of `SubDL` are those the Provider's pool admits. Likewise `Daemon` has its own,
shorter Watcher (two sets of waiting paths) and its own Strip and Swap (one step
each), which leave the interleavings inside them to `Watcher` and `StripFiles`; these
in turn keep of the store only what they touch, a path's row or a video's hash.

### How the state corresponds to the code

* `files[i]`, `states[i][l]` are the rows of the two tables by `files.id`; an id is
  one more than the largest in the table, as in SQLite without AUTOINCREMENT, so
  the newest id is handed out again after its row is deleted. Deletion cascades
  (`_foreign_keys=on`). A path stands for a (library, path) pair.
* `disk[p]` is the content of the video at `p`, identified with its Content Hash;
  `sidecar[p][l]` is the hash in the Marker of the sidecar for `l`. `StripOf` says
  what content is left once the embedded subtitles for a language are removed
  (for a Library with `strip_scope: all`, of every language but those wanted).
* `pc[w]`, `job[w]` are a worker's place in `ProcessPending` and what it was handed;
  `job.hash` is `fetchAndWrite`'s `contentHash`, moved only once `UpdateContentHash`
  has landed; `job.fixed` is the remuxed content and then the hash read afterwards.
* `regPc[r]`, `reg[r]` are the same for a goroutine in `registerFile`.
* `sem[p]` is the length of `workerPool.sem`; `inFlight` the map of `poolState`; `snap`
  what is left of the pass's slice of pairs.
* `dirty`, `gone` are the paths whose register or remove debouncer is pending.
* `ctxDone` is the cancelled context, `down` that no process runs.

* `slot`, `queue` are the Pacer's channel `mu` and the goroutines waiting to receive
  from it, which Go serves in order; `timer[c]` is what is left of a `Clock.Sleep`.
  `quiet` is a history variable: what is left of the delay the last response asked for.
  `phase[c]` is a worker's place in `retry.Do` and `Pacer.Do`, `call[c]` the operation of
  its Search or Download. `locker` holds `authenticator.mu`; `cached` says that a token
  is cached and has not expired; `suspendedFor` is what is left until `suspendedUntil`.

* `start`, `extractStart`, `keepFrom`, `chunks` are the locals of `planChunks`; `index` and
  `attempt` the loops of `Download` and `transcribeChunk`, `looped` a local of the latter.
  `film` is what ffprobe and ffmpeg say of the video (length, silences) and the words
  that are spoken in it; a unit of a transcript carries the number of its word, which
  no action looks at. `loops`, `wordless` are history variables. `suspended` is the
  Provider's Suspension, which other workers enter and clear (`Elsewhere`).

* `dir[n]` of `StripFiles` is the content of the file named `n`, a sequence of dot-separated
  segments: of a video its subtitle streams, of a sidecar the video its Marker is
  bound to, `Foreign` without a Marker, `Partial` while it is written. `recorded`, `status`
  are the video's row. `job[w]` holds the locals of `fetchAndWrite`, `StripEmbedded`,
  `WriteSidecar` and `StripSidecars` in turn; `strays` is what the clean-up's walk has read,
  `old` a history variable: the temp files of stopped processes.
* `disk`, `dirs` of `Watcher` are the tree, `events` what fsnotify has queued, `watched` its
  watches, `timers` the pending `time.AfterFunc` of both debouncers, `reading` and `removing`
  the callbacks that run. `scan[s]`, `todo`, `seen`, `busy`, `doomed` are the locals of
  `runFiles` and `reconcileRemovals` of the initial scan and of a request's. `excused` is a
  history variable: the videos whose last change nobody could follow.
* `call[w]` of `SubDL` is `Search`, the Pipeline's selection and `Download` for one pair;
  `gathered` the Candidates of the pages read, `best` the index of the chosen one. `Pages` and
  `Body` are what the server has; `info` is what `scoring.Parse` makes of the file's name.

### How the actions correspond to the code

An action is the code between two accesses to something shared: a store
transaction, the video, a sidecar. A stretch that only asks the Provider or an
external program is one step with the store write that follows it (`FetchMiss`,
`FetchFailed`, `FetchSuspended`). Two pairs of code steps are one: reading the
attempted set and starting the worker (`StartWorker`; between them only the pass's
own goroutine could add to the set, and it does not), and writing a sidecar and
removing the others (`Swap`; `SwapError` covers what a failure in between leaves).
Remuxing is two, because the video may be replaced while ffmpeg runs:
`StripEmbedded` reads it, `RenameOver` replaces whatever is there by then.

A cancelled context makes every store write fail except `RequeueInProgress`, which
uses a context of its own. `Settle` is the common form of a worker's write: it
lands and the worker goes one way, or it is refused and the worker goes another.

In `StripFiles` an action is one operation on the directory (probe, open, close,
rename, read a Marker, remove) or one on the store; in `Watcher` one access to the
tree, the store or the timers: `Visit` takes a video off the walk and reads it,
`ScanRegister` writes its row. `Schedule` restarts the one timer a path has per
debouncer, and since all wait equally long they fire in the order of their last
restart. In `SubDL` an action is one attempt at one request, with all that is done
with the answer.

### Deliberate abstractions

* Time in `Retry` is counted in ticks. A Sleep ends at its tick or later; durations
  of requests are whatever number of ticks passes.
* A response is its class: fine, 429/5xx (with or without a delay hint), quota,
  other 401, other failure, none at all.
* A unit heard by the sidecar is a text, already lower-cased, and the middle of its
  time; how late it is heard may differ from chunk to chunk, but the order stays.
  A transcription that invents words, or mishears one, is not modelled.
* SQL errors other than a cancelled context or a foreign key are not modelled.
* The initial scan registers each present video and removes each tracked path
  that is absent, one path at a time and in any order, like the debouncers.
* Which failure reason a failed attempt gets is a free choice among the reasons
  `fetchAndWrite` uses there.
* Languages are walked in any order within a file (the code's order is fixed,
  hence one of those explored).
* Sidecars are changed by workers only.
* A temp name's tag is any tag not used before (64 random bits in the code). What
  ffmpeg writes is the streams it was told to keep; it refuses a missing index.
* The tree of `Watcher` has one level of subdirectories. A rename is a removal and a
  creation. A write is not modelled there: content is `Daemon`'s. fsnotify's queue
  does not overflow. A walk that fails lets the registration under way finish. A shutdown drops callbacks that run; `Daemon` lets them finish.
* In `Shaping` the transcript's tokens carry times, and what the code reads from their
  characters (length, leading space, final punctuation) is given by operators; control
  tokens and segments without word times are left out. A cue repeats another if the two have
  the same words; that the code ignores case there is left out.
* In `OpenSubtitles` a hash that cannot be computed ends a Search before any request, so it is no
  step. The Pipeline's queries always have a path, hence a search by hash first.
* A file name is its tokens (`tokenize` and `extractReleaseGroup` are string functions),
  and `media.Classify`'s verdict on it is an attribute of the name. Titles and
  attributes are compared through `Key` and `Lower`, which the instance defines.
* JSON, zip and URLs are left out: an archive is its entries, an entry is whether it
  is an .srt and what `media.Classify` says of it. Pacing is in `Retry`; a fetch that is
  over stays at its outcome until the worker begins another.
* Legacy and flat-chain dispatch (used by tests), unconfigured Libraries and
  configuration reload are not modelled.

## 3. Runs

`CHECK_DEADLOCK FALSE` where the system really may have nothing left to do: an idle
daemon with a settled backlog and no outside event left (`MCDaemon`), a directory
with every pair settled (`MCStripFiles`), a Watcher with no change to come
(`MCWatcher`), no fetch left (`MCSubDL`). The two other specifications never stop.

| Run | Instance | Shows |
|---|---|---|
| `dispatch` | 1 video, 2 languages, 2 Tiers of one Provider with one slot, 2 workers, 1 suspension, fair | `ExclusivePairs`, `PoolBound`, `NoRepeatSearch`, `NoCandidateJustified`, `MissesSurviveCycle`, `BacklogDrains` |
| `content` | 1 video with embedded subtitles, 1 edit, 1 deletion, 1 crash or shutdown | `SyncedIsCurrent` |
| `lifecycle` | 1 video, 2 languages, 1 edit, 1 stop, 1 suspension | `FollowsLifecycle` |
| `trouble` | 2 paths, 1 rename or deletion, 1 reprocess, 2 stops | `TypeOK`, `InProgressOwned`, `RowIntegrity`, `CycleFlags` |
| `strip_files` | 1 film, 4 foreign sidecars, 2 workers, 3 settings of the Library, 1 stop | `TypeOK`, `NoHalfFile`, `StraysCleared`, `SidecarStays`, `TrustedKept`, `OthersKept` |
| `watcher` | 1 video at the top, 1 in a subdirectory, 4 changes, 1 request, 1 restart, fair | `TypeOK`, `CatchesUp`, `RemovalJustified` |
| `subdl` | an episode, 3 films, a nameless file; 8 listings, 2 workers, 1 retry, 2 fetches, fair | `TypeOK`, `MissJustified`, `BestTaken`, `RightEpisode`, `TitleRecovered`, `SuspensionEarned`, `FetchReturns` |
| `requests` | 2 workers, pace 1, delay at most 2, 1 retry, Retry-After above the cap, fair | `TypeOK`, `SingleLogin`, `PacedDispatch`, `CallsReturn`, `DelayRecovers` |
| `whisper` | films of one to four chunks; 3 words around a cut, or 4 in one chunk, heard 0 or 2 ticks late; 3 attempts, fair | `TypeOK`, `ChunksCover`, `NothingLost`, `NothingTwice`, `NoHiddenLoop`, `WellShaped`, `DownloadReturns` |

Three more runs each end in a violation of one property; they are the findings
below.

**Bounds.** `MaxId` equals the number of paths, so the model never runs out of ids:
at most one row per path exists (`RowIntegrity`). `Budget` limits how often each
kind of outside event happens; everything the daemon does itself is unbounded.
One or two outside events are enough to put one between any two steps of a
worker, and two workers to put a second worker, of the same or of a sibling
pair, there as well. One video suffices for properties of one pair except where
ids are reused or two paths are involved. Symmetry is over workers, never in a run
that checks liveness.

In `strip_files` the sidecars at first are of every kind the code tells apart: tagged
with a wanted language and with another, without a tag, with and without a codec
for Markers. Four tags allow each of two workers a remux and a sidecar, or a
stop in between and a sidecar again. In `watcher` four changes are a removal and a
re-creation inside the quiet window of each other, of two videos or of a directory.
In `subdl` the listings have a pack whose entries the server labels wrongly, the
wanted entry on the last page that is read and on the one beyond the cap, a
better Candidate listed later, a film with a year for a title and a remake of it.

In `requests` the numbers are small but distinct in their roles: doubling reaches
the cap, a Retry-After exceeds it, decay takes a streak of two. Pace equals the
shortest hint there; hints below the pace are covered by the theorem.

In `whisper` a tick is half a second, the overlap two seconds as in the code, and a
chunk five seconds. `AllFilms` has three kinds of films: all sets of six pauses in, at
the edge of and out of the windows, with ten lengths on both sides of those that
add a chunk; and films with a fixed cut, with one to three words at any ticks from
the start of the overlap to its end, of two texts, the same text no sooner than five ticks
after it was spoken last (`Echo`: the tolerance, two, plus what two hearings may
differ by, and one). What the two halves of a Download have to do with each other
is only the chunks, so films need not combine them. The third kind has up to four
words in one chunk for shaping, where a tick is a second and a line has four characters:
the words are of each kind that the code tells apart, short and long, ending a clause or a
sentence, a mark of punctuation; four of them fill a cue in width and in time, and two equal
sentences make a cue that repeats the one before.

**Fairness.** The daemon's `FairSpec` assumes weak fairness of each goroutine, of the pass (a
ticker), of each debouncer's timer, of a Suspension's resume time, and that a
stopped daemon exits and is started again. These are what the Go scheduler, the
timers and the service manager provide. Nothing is assumed of the outside, nor
that a Provider ever finds anything: each of a worker's outcomes is allowed,
including suspension as often as the budget has suspensions.

`OpenSubtitles` assumes that time passes, that a worker keeps running, that the
server answers or the connection breaks, and strong fairness for taking the
authenticator's mutex: a `sync.Mutex` in starvation mode serves its longest
waiter. The default HTTP client has no timeout, so the assumption about the
server is the server's to keep (hazard list). `DelayRecovers` is conditional on
requests continuing and on 429/5xx answers ceasing. `Whisper` assumes that a worker
inside Download goes on: every attempt has a timeout of its own (chunking.go,
`timeout`), and ffmpeg ends.

`Watcher` assumes that a stopped daemon is started again, that Start goes on, that
fsnotify's events are read, timers fire, and each scan and callback runs: goroutines
and timers of the Go runtime. `SubDL` assumes that a worker keeps running and that
the server answers or the connection breaks; its HTTP client has no timeout either.

**What the properties need.** They hold in exactly the situations their run
allows; the findings show how they fail outside of them. `SyncedIsCurrent`: one
language and one path. `FollowsLifecycle`: no removal, reprocess or strip, and no
content that comes back, on the disk or by registrations that overlap.
`InProgressOwned`: no change of content. `TrustedKept`: one video, and with
`strip_scope: all` either one language or nothing to replace; `OthersKept`: embedded
streams of one wanted language. `CatchesUp` and `RemovalJustified` say by `excused` which
videos they leave out: those that change while the daemon runs where nothing
watches, or under a scan, or whose registration and removal run at once.
`MissJustified` needs listings that say truly which page is their last, and episodes
numbered from 1. The theorems of §5 state these situations as hypotheses.

## 4. Findings

| Run | What the code does |
|---|---|
| `sibling_stuck` | The claim is the only worker write not fenced on the Content Hash. A pair dispatched before a hash change and claimed after it stays In Progress with no worker until the next restart: its later writes are all refused, and nobody requeues it. With two languages and embedded subtitles this needs nothing from the outside; an edit of the video does it as well. |
| `spent_pair` | A stop between the last miss and the mark leaves a Pending pair that no pass ever fails or dispatches. |
| `reprocess_removes` | A video that appears in a directory which a reprocess scan has already read, and that the Watcher registers by its event, loses its row, and its statuses, when that scan reconciles: the store is read after the walk, and what the walk has not passed counts as removed. In the trace the scan has read the Library's directory, `Create(a)` follows, then `HandleEvent`, `Fire`, `RegisterFile(a)`, and then the scan's `ListTracked` and `Reconcile(a)`. Two scans that overlap do the same to each other: one deletes what the other has registered (the initial scan, with a request made meanwhile); the property speaks of the time when the Watcher watches, where the docs promise more. |

### Seen without a run

Each was met while modelling, and the properties hold only outside of it. Where an
instance shows it, the constants are given.

Daemon:

* A reprocess request made while a worker has the pair is consumed by that worker
  (`ForceHonoured`, with one path, one language, `Hash = {"a"}`, one Provider,
  `OneEach`, one registrar, `Reprocesses = 1`, nothing else in the budget).
* Reused ids and equal hashes let a worker of a removed video mark the renamed one
  Synced (`SyncedIsCurrent`, with two paths, `OnlyFirst` on the disk, `Hash = {"a"}`,
  `MaxId = 2`, `Removes = 1`).
* A reprocess request between a worker's exhaustion check and its write gives a fresh
  cycle the outcome `no_candidate` (run `dispatch` with a reprocess request).
* Two registrations of one video that overlap can record its hashes in the wrong order: one
  reads content `a`, the video is edited to `b`, another reads and records `b`, then the first records
  `a`. The rows are reset twice, and a worker that claimed the pair under `a` finds its fence holding
  again and writes its failure over a Pending row (`FollowsLifecycle`, run `lifecycle` with two
  registrars). The recorded hash stays the wrong one until the next registration.
* Whatever is at the path when a worker re-hashes it is recorded as its own post-Strip
  content, a replacement by somebody else included.
* files.go:154-155 says that the claim clears the force flag, which it does not;
  files.go:484-486 says why.

Strip and sidecars:

* Beside `Film.mkv` and `Film.Cut.mkv`, a Swap for `Film` finds the sidecars of `Film.Cut`
  too: strip/sidecar.go:50-75 takes every name that begins with `Film.`, though 41-43 and
  CONTEXT.md:11-12 speak of one video's. It removes them as untrusted, their Markers
  being bound to the other video.
* With `strip_scope: all` a worker removes sidecars it has found untrusted earlier. If
  another worker's rename came between, it removes a fresh, trusted one (sidecar.go:166-174);
  with embedded streams, a sibling bound to the old hash does so too.
* With `strip_scope: per_language` a language Synced before a sibling's strip keeps a
  Marker bound to the old hash and stays Synced. Two workers that strip one video
  at once name streams by absolute index: the second's indices are those of the file
  before the first's rename, and it drops another stream (embedded.go:74-77, 98-120).
* An embedded stream is removed before the sidecar that replaces it is in place.
* A temp file left by a failed ffmpeg or write stays until the next start, although
  tempfile.go:55-59 says "at the start of each Library scan". That clean-up runs
  beside the workers: it deletes the temp files of live ones, and a file that goes
  under it ends `Watcher.Start`, so that the Library is not watched until the daemon restarts.

Watcher:

* A full fsnotify queue is only logged. A directory removed during the walk ends
  Start. Files of a directory moved in are not registered, rows of one moved out
  stay, and what happens between the scan and the watches is not seen.
* Registration and removal of one path go through two debouncers and run in either
  order.

Providers:

* SubDL and OpenSubtitles look at the Suspension once per call: a call under way goes
  out although another has suspended the Provider. An `X-RateLimit-Reset` in the past
  gives a Suspension without effect (client.go:189).
* SubDL: a name that cannot be parsed fails only after the search; an episode numbered 0
  counts as no episode, its packs are never opened, and a miss may be unjustified
  (subdl.go:328-331). Season and episode of a film's Candidate are not looked at
  (score.go:44). `maxScore`, which "outranks any candidate scored the ordinary way"
  (scoring.go:25-28), equals the score of one that matches in everything.
* OpenSubtitles: a delay hint below the pace is adopted and never climbs back to it; the second
  worker refused with the same dead token drops the token the first one has renewed.
* Whisper: at a fixed cut, a word followed by a punctuation mark is in the subtitle
  twice, since whisper.cpp returns the mark as a token of its own and `sameWords` calls
  no two marks equal (`NothingTwice`: `whisper.cfg` with `Texts = {"go", "!"}`,
  `Punctuation = {"!"}`, `MaxDuplicate = 8`, `MaxAttempts = 1`, `Lateness = {0}`,
  `Instants = {9, 10}`, `MaxWords = 2`, `Film <- AtFixedCut`). A word spoken three times
  within a second around a fixed cut loses its last occurrence, because the longest repetition wins
  and each matches the one before (`Echo = 1`, times on adjacent ticks). A chunk length
  below the overlap is accepted. "A long run stays one cue" (shape.go:272-273), but a cue that
  is repeated for longer than a cue may last is shown again. A late success of one worker clears the Suspension
  another has just entered.

## 5. Proofs

All for arbitrary constants (any number of paths, languages, workers, Providers,
Tiers) under the modules' named assumptions, which only give the constants their
types: ids are a bounded range, placeholders differ from what they stand in for,
every Provider has at least one slot, workers are finitely many. Where a theorem
needs more, the hypothesis is in its statement and below; each one excludes behaviour
of the code that is in §4, and a run's instance meets it unless said otherwise.

`DaemonProofs`, about `StoreSpec`, in its first section:

* `StoreTypeCorrect`, `RowsStayConsistent`, `FlagsFollowCycle`, `MissesKept`. `LangOpShape`
  reduces the nine per-language methods to three shapes (insert, continue the
  row's cycle, nothing), from which `RowSteps` and the invariants follow.
  `RowIntegrity` is inductive with the type invariant: an id handed out again has
  no language rows, because deletion cascades.

and about `Spec`:

* `DaemonInvariant` is the inductive invariant: `TypeOK` and `Held`. `ExclusivePairs` is
  not inductive by itself, since nothing in it says that an active worker's key is
  in `inFlight`; `HeldPairs` adds that. `PoolBound` is not either, and not even `TypeOK`
  is: that `sem[p]` never goes below zero needs that it counts the workers. `SlotCount`
  adds `sem[p] = Cardinality(Slots(p)) <= Capacity[p]`. `WorkerMove` abstracts the
  seventeen steps of a worker to what the bookkeeping sees of them, so that the
  counting is done once.
* `TypeCorrect`, `PairsExclusive`, `PoolsBounded` follow.
* `DaemonUsesStore`: every step of the daemon is one call of the store or none, so
  `Spec => StoreSpec`, and the store's theorems hold of the daemon
  (`DaemonRowsConsistent`, `DaemonFlags`, `DaemonKeepsMisses`).

`PairProofs`, about the same `Spec`, and about what one pair's row, sidecar and workers
have to do with each other:

* `NoSearchRepeated`. An attempted set grows only in `RecordProviderMiss`, made by a
  worker for its own Provider. `WorksOn` adds to `DaemonInvariant` that a worker which may
  still search has a Provider that is not in its pair's attempted set, as long as the row is
  that of its dispatch: it is so when the pass starts it (`Chosen`), no other call
  adds to the set (`QuietCalls`), and no other worker has the pair (`ExclusivePairs`).
* `ClaimsOwned`: `Spec /\ []ClaimsCurrent => []InProgressOwned`. All that can leave a pair In
  Progress without its worker is a content that changes under a claim. With it goes `FailuresWritten`:
  a worker that is about to return after a failure has had its row marked. Two situations give
  `ClaimsCurrent`: `OneContentOwned`, where every video has the same content (the
  instance of `trouble`, with renames, deletions, ids handed out again), and `CalmOwned`, where
  nothing is removed or edited and nothing embedded is to be stripped (`dispatch`). `Rooted` (no row,
  registration or job is of an absent video) and `Calm` (every hash that is stored or
  remembered is the video's) are its invariants. Run `sibling_stuck` is what lies outside.
* `SyncedCurrent`, for one language or settings under which languages leave each other alone
  (`LanguagesApart`), and either nothing removed or one path (`content`). `SyncInv` adds to
  `SyncedIsCurrent` that a claimed pair is not Synced, that a worker about to mark its pair
  has seen or written its sidecar for the hash it is fenced on, and that a hash is recorded
  anew only where there is no other language. It needs that an id names one path wherever it is remembered
  (`IdsStable`): `StableSynced` is the theorem from that alone. It fails when an id is
  handed on and the contents are equal (§4).
* `NoCandidateAfterAll`, where nothing is removed or reprocessed and no video goes back to an
  earlier content (`NeverBack`): all content is equal, or none changes (`dispatch`), or there is one
  edit and one registrar (`lifecycle`), in the last two with nothing embedded to strip. Between the
  check that every Provider has missed and the write the row must stay in its cycle, or the write must
  be lost. `InStep` says it of a worker whose fence holds: a claimed pair is In Progress, one that has
  missed is Pending, and the set is full where the worker found it so. It is inductive as long as no
  file row gets a hash back that a worker is fenced on (`RecordsNew`, an action property): then whatever
  resets the rows takes the fence away for good. An edit and an edit back, two registrations that
  overlap, or a reprocess request reset the row under a fence that holds, and the write passes.
* `DaemonFollowsLifecycle`: the refinement to `PairLifecycle`, under the same hypotheses.
  Each step of the daemon maps to one of a pair's lifecycle or to a stutter, as long as a
  failure is written only over the row it is about (`OutcomesOwned`); `OwnedFollows` is the theorem
  from that alone. `LifeOfRow` reads a path's status off its one row.
* `ForwardFollows`: both for any number of edits, provided that each moves on to a content of
  a higher rank (`Forward`) and that no two registrations of a path are between reading and
  recording its hash (`OneAtATime`). `Onward` orders what is held about a video: what workers and
  snapshots hold, then what is recorded, then what a registration has read, then the disk.

`OpenSubtitlesProofs`, about `Spec` of `OpenSubtitles`, for any pace, caps, retry policy,
hints and number of workers:

* `DelaysBounded`: types, and the delay within 1..MaxDelay.
* `RequestsPaced`. `PacedDispatch` speaks of the moment a request goes out; what holds
  all along is `Pacing`: the slot covers the Sleep and the request of its holder
  (`Serial`), and its Sleep lasts as long as the quiet time left (`SleepCoversQuiet`),
  because it began after the response that asked for it. `ElsewhereStep` is what the
  Pacer sees of all the steps that neither sleep nor send.
* `OneLogin`, from `LoginLocked`: whoever logs in holds the mutex and no token is cached.

`WhisperProofs`, about `Spec` of `Whisper`, for films of any length with any silences:

* `WhisperTypeCorrect`, `PlanCovers`. `ChunksCover` speaks of the finished plan; `Planning`
  adds what must be true on the way (`Onward`: where the next chunk will begin joins
  the last one cut, and the cut lies after its start, `CutsAdvance`). `Appended` is the
  one place where a chunk is added to the sequence.
* `LoopsNotHidden`, from `LoopsKnown`: `looped` is about the chunk at hand.
* `NoWordLost`, if a word is heard at most `2 * SeamSlack` late (`Prompt`) and, in a film
  that is cut, the same text comes again only later than two hearings of one word can be apart
  (`Apart`). `Seams` says of the finished plan how neighbours lie at a seam, at a silence or at a fixed
  cut. `Listening` is the invariant of the joining: every word before `Sure(index - 1)` that
  can be heard is in the transcript, which says nothing that is not in the film. That the
  repetition dropped at a seam loses nothing (`NothingDropped`) is because what `sameWords` takes
  for one word is one (`SameWordIsOne`).
* `NoWordTwice`, if besides no word is punctuation only and fewer than `MaxDuplicate` words
  are spoken within the reach of a seam (`Clear`), and the overlap is no longer than the shortest chunk
  (`Roomy`). `Ordered` adds that the transcript ascends, that it says nothing from
  `Reach(index - 1)` on, and that it has no gap within the overlap (`Dense`): so its end and the beginning
  of the next chunk are the same words, and the longest repetition is all of them (`JoinAscends`).
  The instance of `whisper` meets all four hypotheses; the three cases they leave out are in §4.

`SubtitleProofs`, about `Subtitles`, for texts of any length and kind, lines of any width and
ticks of any rate:

* `SubtitleSaysAll`: every token is in a word, the cues show words that follow one another in
  the order in which they were heard, and what no cue shows repeats the cue before without a pause.
  There is a lemma for each stage of `shapeCues`, and each says where in its input a result comes from:
  `WordsSpoken` (a word is a stretch of tokens), `GroupsCut` (a group is a stretch of words, and
  groups leave none out), `RepeatsCollapsed` (a cue stands for a stretch of groups that say the
  same). `AllSaid` puts the stretches together. Nothing is asked of the times.
* `SubtitleWellShaped`. `Good` is what a group keeps while it is filled: it fits the lines and lasts at most
  `MaxCue`, or it is one word, cut at `MaxWord`. What is left after a clause is measured again before a
  word is added, and it fits because it is the end of a group that did. `Laid` and `Timed` say
  the same of cues before `retime`, and `AllReadable` what `retime` adds. That the end of a group which
  fits is no longer than the group needs words in the order of their times (`InOrder`). `FaithfulAlways` shows
  that a film of one chunk has them so; of several chunks the words at a fixed cut are heard by two
  transcriptions, each with a delay of its own, and may change places; the end of a group can then be
  longer than the group. The instance of `whisper` has such words and no such cue.
  `HeardFaithful` is the step of the invariant; it goes back to `HeardTruly` of `WhisperProofs`, which says what
  a transcription has of a chunk.

`StripFilesProofs`, about `Spec` of `StripFiles`, for any files, streams and tags:

* `StripTypeCorrect`, `StripNoHalfFile`, `StripStraysCleared`. The invariant adds to the
  types what each worker relies on at its place (`Working`): the temp file it writes is
  its own, because the tag it drew was fresh, and what it is about to rename is whole;
  and what a start has still to clean (`Cleaning`). A final name is no temp name
  (`StripConstants`), so that no step on one takes over the other. `Harmless` says what
  a step of one worker may do to the files of another. What ffmpeg keeps (`Kept`) is a
  recursive function.
* `LanguageKeepsSidecar`, if no file lies beside two videos (`OwnSidecars`: not `Film.mkv` and
  `Film.Cut.mkv`), where only one language's Swap can touch a sidecar (the property's
  own condition). A pair has one worker (`Held`), what a worker removes is what its own
  sidecar replaces (`Sweeping`), and that one is in place meanwhile (`InPlace`).
* `UnwantedLeftAlone`, if of each video at most one language's worker has streams to drop, or one
  language is wanted, or there is nothing to replace (`Undisturbed`). `Remuxing` says of a worker
  on its way from probe to rename that the indices it holds still name the streams it chose, and that
  its temp file is the video without them.
* `TrustedLeftInPlace`, under both hypotheses. `Bound` says that what is recorded, what a
  worker holds and what a Marker is bound to are the video as it is or was, never newer than
  the record; `Untouched` is the case of a Library with nothing to replace.

`WatcherProofs`, about `Spec` of `Watcher`, for any number of videos and directories:

* `WatcherTypeCorrect`, `RemovalsJustified`. When a video's row is deleted, the decision is old: an event, a
  timer, a scan that has walked past. `Followed` says that whatever would delete the
  row of a video that is there has a registration of it behind itself, in the queue
  or on a timer; `Walked`, that no scan has such a video behind it unpassed. Lemmas about
  `Append`, `Tail` and `RemoveAt` say what becomes of the order of events.

`SubDLProofs`, about `Scoring` and `Spec` of `SubDL`:

* `EligibleIsIdentity`: the code's chain of early returns accepts exactly the Candidates
  that are this title. `ScoreIsLexicographic`: the weights order Candidates as
  their attributes do, first by the most significant. `SelectTakesBest`: the scan over the list
  ends with the first of the best.
* `SubDLTypeCorrect`, `SubDLTakesBest`, `SubDLSuspensionEarned`, and `SubDLMissJustified`: a fetch that ends in a
  miss has seen every Candidate of every page up to the cap, provided that listings say truly
  which page is their last and no video is an episode 0 (`HonestListings`).
* `SubDLRightEpisode`: an episode gets its own subtitle, out of a pack or not, if no video is an
  episode 0 and a file sent without an archive is the episode the listing calls it
  (`RawBodiesAsListed`): of those bytes the code can check nothing. `SourcedInv` keeps what
  is gathered and chosen tied to the video's listing while it goes through search, choice and download.
* `ParseFindsNames`: of any name that consists of a title, a year and a description, the parser finds title and
  year. The last year before the first token that describes the release is the year, so years in the title do no harm, and
  what follows the year is not looked at (`MetaStartIs`, `YearIndexIs`). A title without a year, which
  only an episode may have, must have no token that looks like one. `SubDLTitleRecovered`: so a fetch never
  asks for anything else.

The prover cannot instantiate a theorem that takes a predicate as its parameter, so
there is no induction rule; but a set of natural numbers that is not empty has a least
member (`Least`), and a counterexample to a property of a recursive function
is led to a contradiction at the least one.

Only model-checked, and why:

* `BacklogDrains`, `CallsReturn`, `DelayRecovers`, `DownloadReturns`, `CatchesUp`,
  `FetchReturns`: liveness, for which the prover has no rule.
* `WellShaped` of a film of several chunks whose words at a seam are heard out of order.

## 6. Not modelled, and the plan

What could be added:

1. **Whisper, the rest**: Search with language detection, which has no state but the Suspension.
2. What an OpenSubtitles search returns: it is scored as SubDL's is (`Scoring`), but its
   pages and its download step have no module. A request abandoned by a server that never answers.

Not modelled, with the reason:

* `tokenize`, `extractReleaseGroup`, encoding of Markers and requests, zip and WAV
  formats, status formatting: pure functions of strings and bytes. What they tell apart is an
  attribute in the models.
* Configuration loading, the wiring of `serve`, the CLI clients and the status API: they read or
  build, and keep no state of their own that a later step depends on.
* ffmpeg, alass and whisper.cpp: external programs, modelled by their outcomes.
* Legacy and flat-chain dispatch: the wiring never chooses them.
