-------------------------------- MODULE Watcher --------------------------------
(***************************************************************************)
(* internal/trigger: the Watcher of one Library and the manual reprocess   *)
(* requests, with pipeline.Run: the walk of a directory tree, and its      *)
(* reconciliation.  The tree changes at any time; the store's set of       *)
(* tracked videos is to follow it.  One level of subdirectories.  What is  *)
(* registered beside the path (Content Hash, languages) is in Pipeline.    *)
(***************************************************************************)
EXTENDS Naturals, Sequences, SequencesExt, FiniteSets

CONSTANTS
  Path,      \* videos
  Dir,       \* subdirectories of the Library
  Root,      \* the Library's own directory
  DirOf,     \* DirOf[p]: the directory p is in
  Target,    \* what reprocess requests ask for
  Nobody,    \* busy[s]: no registration under way
  InitDisk,  \* videos there at first
  Budget     \* bounds: how often each kind of outside event may happen

\* change: something in the tree;  request: POST /reprocess;  stop: of the daemon.
Event == {"change", "request", "stop"}

ASSUME WatcherConstants ==
  /\ Root \notin Dir /\ DirOf \in [Path -> Dir \cup {Root}]
  /\ Path \cap (Dir \cup {Root}) = {}
  /\ Target \subseteq Path \cup Dir \cup {Root}
  /\ InitDisk \subseteq Path /\ Budget \in [Event -> Nat] /\ Nobody \notin Path

\* A scan is the initial one, or that of a request for a directory.
Scan == {"initial", "request"}

VARIABLES
  disk, dirs,  \* the videos and subdirectories there are
  tracked,     \* the videos the store has a row for
  phase,       \* where Watcher.Start is
  watched,     \* directories with an fsnotify watch
  adding,      \* directories addRecursive has yet to add
  events,      \* what fsnotify has to report, oldest first
  timers,      \* pending debouncer timers, the first to fire first
  reading,     \* RunFile has read the video and has yet to write its row
  removing,    \* a remove timer has fired, RemoveFile has yet to delete
  scan,        \* where each scan is
  under,       \* the directory it was asked for
  todo,        \* directory entries it has yet to visit
  seen,        \* videos it has passed
  busy,        \* the video it is registering
  doomed,      \* rows it is about to remove
  excused,     \* history: videos whose last change the Watcher could not follow
  budget       \* what is left of Budget

treeVars == <<disk, dirs>>
timerVars == <<timers, reading, removing>>
watchVars == <<phase, watched, adding, events>>
scanVars == <<scan, under, todo, seen, busy, doomed>>
vars == <<treeVars, tracked, watchVars, timerVars, scanVars, excused, budget>>

Note == [op : {"create", "remove"}, name : Path \cup Dir]
Timer == [op : {"register", "remove"}, path : Path]

TypeOK ==
  /\ disk \subseteq Path /\ dirs \subseteq Dir
  /\ tracked \subseteq Path
  /\ phase \in {"down", "scan", "watch", "add", "watching", "stopped"}
  /\ watched \subseteq Dir \cup {Root} /\ adding \subseteq Dir
  /\ events \in Seq(Note) /\ timers \in Seq(Timer)
  /\ reading \subseteq Path /\ removing \subseteq Path
  /\ scan \in [Scan -> {"idle", "walk", "failed", "remove"}]
  /\ under \in [Scan -> Dir \cup {Root}]
  /\ todo \in [Scan -> SUBSET (Path \cup Dir)]
  /\ seen \in [Scan -> SUBSET Path]
  /\ busy \in [Scan -> Path \cup {Nobody}]
  /\ doomed \in [Scan -> SUBSET Path]
  /\ excused \subseteq Path
  /\ budget \in [Event -> Nat]

Spend(e) == budget[e] > 0 /\ budget' = [budget EXCEPT ![e] = @ - 1]

Up == phase # "down"

-----------------------------------------------------------------------------
(* The tree changes.  fsnotify reports what happens to the entries of a    *)
(* directory with a watch; what changes elsewhere while the daemon runs is *)
(* not seen by anybody, until the scan at the next start.                  *)

In(d) == {p \in Path : DirOf[p] = d}
IsThere(d) == d = Root \/ d \in dirs

Report(d, op, name) ==
  events' = IF d \in watched THEN Append(events, [op |-> op, name |-> name]) ELSE events

TreeChange ==
  /\ Spend("change")
  /\ UNCHANGED <<tracked, phase, adding, timerVars, scanVars>>

\* Whether the last change of these videos went unseen, or a scan that had
\* perhaps passed by them was under way.
Below(d) == IF d = Root THEN Path ELSE In(d)
Scanned(ps) == \E s \in Scan : scan[s] # "idle" /\ ps \cap Below(under[s]) # {}

Unseen(ps, blind) ==
  excused' = IF Up /\ (blind \/ Scanned(ps)) THEN excused \cup ps ELSE excused \ ps

Create(p) ==
  /\ p \notin disk /\ IsThere(DirOf[p])
  /\ disk' = disk \cup {p}
  /\ Report(DirOf[p], "create", p)
  /\ Unseen({p}, DirOf[p] \notin watched)
  /\ TreeChange /\ UNCHANGED <<dirs, watched>>

Delete(p) ==
  /\ p \in disk
  /\ disk' = disk \ {p}
  /\ Report(DirOf[p], "remove", p)
  /\ Unseen({p}, DirOf[p] \notin watched)
  /\ TreeChange /\ UNCHANGED <<dirs, watched>>

\* A directory is made, or moved here with videos inside.
MoveIn(d, ps) ==
  /\ d \notin dirs /\ ps \subseteq In(d)
  /\ dirs' = dirs \cup {d} /\ disk' = disk \cup ps
  /\ Report(Root, "create", d)
  /\ Unseen(ps, TRUE)
  /\ TreeChange /\ UNCHANGED watched

\* ... or is moved away with what is in it; its watch goes with it.
MoveOut(d) ==
  /\ d \in dirs
  /\ dirs' = dirs \ {d} /\ disk' = disk \ In(d)
  /\ watched' = watched \ {d}
  /\ Report(Root, "remove", d)
  /\ Unseen(In(d) \cap disk, TRUE)
  /\ TreeChange

-----------------------------------------------------------------------------
(* pipeline.Run: walk, register, reconcile. *)

Set(f, s, x) == [f EXCEPT ![s] = x]

Entries(d) == (In(d) \cap disk) \cup (IF d = Root THEN dirs ELSE {})

ScanBegin(s, d) ==
  /\ scan[s] = "idle"
  /\ scan' = Set(scan, s, "walk") /\ under' = Set(under, s, d)
  /\ todo' = Set(todo, s, Entries(d))
  /\ seen' = Set(seen, s, {}) /\ busy' = Set(busy, s, Nobody) /\ doomed' = Set(doomed, s, {})

ScanEnd(s) == scan' = Set(scan, s, "idle")

\* WalkDir reads a directory when it comes to it.  One that is gone by then is
\* an error that ends the walk.
WalkDir(s, d) ==
  /\ scan[s] = "walk" /\ d \in todo[s] \cap Dir
  /\ IF d \in dirs
     THEN todo' = Set(todo, s, (todo[s] \ {d}) \cup Entries(d)) /\ UNCHANGED scan
     ELSE scan' = Set(scan, s, "failed") /\ UNCHANGED todo
  /\ UNCHANGED <<treeVars, tracked, watchVars, timerVars, under, seen, busy, doomed, excused, budget>>

\* runFiles takes the next video off the walk: seen, whether or not it can
\* still be read by now.
Visit(s, p) ==
  /\ scan[s] = "walk" /\ busy[s] = Nobody /\ p \in todo[s]
  /\ todo' = Set(todo, s, todo[s] \ {p})
  /\ seen' = Set(seen, s, seen[s] \cup {p})
  /\ busy' = IF p \in disk THEN Set(busy, s, p) ELSE busy
  /\ UNCHANGED <<treeVars, tracked, watchVars, timerVars, scan, under, doomed, excused, budget>>

\* A registration under way is finished, even if the walk has failed by now.
ScanRegister(s) ==
  /\ scan[s] \in {"walk", "failed"} /\ busy[s] # Nobody
  /\ tracked' = tracked \cup {busy[s]}
  /\ busy' = Set(busy, s, Nobody)
  /\ UNCHANGED <<treeVars, watchVars, timerVars, scan, under, todo, seen, doomed, excused, budget>>

\* Mutated: the rows of the whole Library.
ListTrackedAnywhere(s) ==
  /\ scan[s] = "walk" /\ todo[s] = {} /\ busy[s] = Nobody
  /\ scan' = Set(scan, s, "remove")
  /\ doomed' = Set(doomed, s, tracked \ seen[s])
  /\ UNCHANGED <<treeVars, tracked, watchVars, timerVars, under, todo, seen, busy, excused, budget>>

\* FilePathsForLibrary: the rows under the scanned directory.
ListTracked(s) ==
  /\ scan[s] = "walk" /\ todo[s] = {} /\ busy[s] = Nobody
  /\ scan' = Set(scan, s, "remove")
  /\ doomed' = Set(doomed, s, (tracked \cap Below(under[s])) \ seen[s])
  /\ UNCHANGED <<treeVars, tracked, watchVars, timerVars, under, todo, seen, busy, excused, budget>>

Reconcile(s, p) ==
  /\ scan[s] = "remove" /\ p \in doomed[s]
  /\ tracked' = tracked \ {p}
  /\ doomed' = Set(doomed, s, doomed[s] \ {p})
  /\ UNCHANGED <<treeVars, watchVars, timerVars, scan, under, todo, seen, busy, excused, budget>>

\* After the initial scan the Watcher goes on to watch.
ScanDone(s) ==
  /\ scan[s] = "remove" /\ doomed[s] = {}
  /\ ScanEnd(s)
  /\ phase' = IF s = "initial" THEN "watch" ELSE phase
  /\ UNCHANGED <<treeVars, tracked, watched, adding, events, timerVars,
                 under, todo, seen, busy, doomed, excused, budget>>

\* After a failed walk nothing is reconciled, and Watcher.Start ends if it was
\* the initial scan's.
ScanFailed(s) ==
  /\ scan[s] = "failed" /\ busy[s] = Nobody
  /\ ScanEnd(s)
  /\ phase' = IF s = "initial" THEN "stopped" ELSE phase
  /\ UNCHANGED <<treeVars, tracked, watched, adding, events, timerVars,
                 under, todo, seen, busy, doomed, excused, budget>>

ScanStep(s) ==
  \/ \E d \in Dir : WalkDir(s, d)
  \/ \E p \in Path : Visit(s, p) \/ Reconcile(s, p)
  \/ ScanRegister(s) \/ ListTracked(s) \/ ScanDone(s) \/ ScanFailed(s)

-----------------------------------------------------------------------------
(* Watcher.Start: scan, then watch, then events. *)

Start ==
  /\ phase = "down" /\ phase' = "scan"
  /\ ScanBegin("initial", Root)
  /\ excused' = {}
  /\ UNCHANGED <<treeVars, tracked, watched, adding, events, timerVars, budget>>

WatchOnly == <<treeVars, tracked, timerVars, scanVars, excused, budget>>

\* addRecursive: the Library's directory, then what is in it by now.
WatchRoot ==
  /\ phase = "watch" /\ phase' = "add"
  /\ watched' = watched \cup {Root}
  /\ adding' = dirs
  /\ UNCHANGED <<events, WatchOnly>>

\* A directory that is gone by now is an error that ends Watcher.Start.
WatchDir(d) ==
  /\ phase = "add" /\ d \in adding
  /\ adding' = adding \ {d}
  /\ IF d \in dirs
     THEN watched' = watched \cup {d} /\ UNCHANGED phase
     ELSE watched' = {} /\ phase' = "stopped"
  /\ UNCHANGED <<events, WatchOnly>>

Watching ==
  /\ phase = "add" /\ adding = {}
  /\ phase' = "watching"
  /\ UNCHANGED <<watched, adding, events, WatchOnly>>

\* Mutated: only what appears is scheduled (a rename away is no removal).
ScheduleRegister(op, p) ==
  timers' = IF op = "remove" THEN timers
            ELSE Append(SelectSeq(timers, LAMBDA t : t.path # p), [op |-> op, path |-> p])

\* Schedule: a path has one timer per debouncer, started anew by each event.
\* All wait as long, so they fire in the order in which they were started.
Schedule(op, p) ==
  LET t == [op |-> op, path |-> p]
  IN  \/ \E i \in DOMAIN timers : timers[i] = t /\ timers' = Append(RemoveAt(timers, i), t)
      \/ (\A i \in DOMAIN timers : timers[i] # t) /\ timers' = Append(timers, t)

\* Mutated: a removal is scheduled without a look at the extension.
HandleEventAny ==
  /\ phase = "watching" /\ events # <<>>
  /\ events' = Tail(events)
  /\ Schedule(IF Head(events).op = "create" THEN "register" ELSE "remove", Head(events).name)
  /\ UNCHANGED <<treeVars, tracked, phase, watched, adding, reading, removing, scanVars, excused, budget>>

\* handleEvent.  A new directory is watched; the videos in it are not looked at.
HandleEvent ==
  /\ phase = "watching" /\ events # <<>>
  /\ events' = Tail(events)
  /\ LET e == Head(events)
     IN  \/ /\ e.name \in Dir /\ e.op = "create"
            /\ watched' = IF e.name \in dirs THEN watched \cup {e.name} ELSE watched
            /\ UNCHANGED timers
         \/ /\ e.name \in Dir /\ e.op = "remove"
            /\ UNCHANGED <<watched, timers>>
         \/ /\ e.name \in Path
            /\ Schedule(IF e.op = "create" THEN "register" ELSE "remove", e.name)
            /\ UNCHANGED watched
  /\ UNCHANGED <<treeVars, tracked, phase, adding, reading, removing, scanVars, excused, budget>>

\* A registration and a removal of one video that run at the same time may end
\* in either order.
Clash(reads, removes) == excused' = excused \cup (reads \cap removes)

\* A timer fires: RunFile, which reads the video first, or RemoveFile.
Fire ==
  /\ timers # <<>> /\ phase = "watching"
  /\ timers' = Tail(timers)
  /\ LET t == Head(timers)
     IN  /\ reading' = IF t.op = "register" /\ t.path \in disk THEN reading \cup {t.path} ELSE reading
         /\ removing' = IF t.op = "remove" THEN removing \cup {t.path} ELSE removing
  /\ Clash(reading', removing')
  /\ UNCHANGED <<treeVars, tracked, watchVars, scanVars, budget>>

RegisterFile(p) ==
  /\ p \in reading /\ reading' = reading \ {p}
  /\ tracked' = tracked \cup {p}
  /\ UNCHANGED <<treeVars, watchVars, timers, removing, scanVars, excused, budget>>

RemoveFile(p) ==
  /\ p \in removing /\ removing' = removing \ {p}
  /\ tracked' = tracked \ {p}
  /\ UNCHANGED <<treeVars, watchVars, timers, reading, scanVars, excused, budget>>

\* trigger.Reprocess, on a goroutine of its own, whatever the Watcher does.
Reprocess(x) ==
  /\ Up /\ Spend("request")
  /\ \/ /\ x \in disk
        /\ reading' = reading \cup {x}
        /\ Clash(reading', removing)
        /\ UNCHANGED scanVars
     \/ /\ x \in dirs \cup {Root}
        /\ ScanBegin("request", x)
        /\ UNCHANGED <<reading, excused>>
  /\ UNCHANGED <<treeVars, tracked, watchVars, timers, removing>>

Stop ==
  /\ Up /\ Spend("stop")
  /\ phase' = "down" /\ watched' = {} /\ adding' = {} /\ events' = <<>>
  /\ timers' = <<>> /\ reading' = {} /\ removing' = {}
  /\ scan' = [s \in Scan |-> "idle"]
  /\ UNCHANGED <<treeVars, tracked, under, todo, seen, busy, doomed, excused>>

-----------------------------------------------------------------------------
Init ==
  /\ disk = InitDisk /\ dirs = {DirOf[p] : p \in InitDisk} \ {Root}
  /\ tracked = {}
  /\ phase = "down" /\ watched = {} /\ adding = {} /\ events = <<>>
  /\ timers = <<>> /\ reading = {} /\ removing = {}
  /\ scan = [s \in Scan |-> "idle"] /\ under = [s \in Scan |-> Root]
  /\ todo = [s \in Scan |-> {}] /\ seen = [s \in Scan |-> {}]
  /\ busy = [s \in Scan |-> Nobody] /\ doomed = [s \in Scan |-> {}]
  /\ excused = {} /\ budget = Budget

TreeStep ==
  \/ \E p \in Path : Create(p) \/ Delete(p)
  \/ \E d \in Dir : MoveOut(d) \/ \E ps \in SUBSET In(d) : MoveIn(d, ps)

StartStep == WatchRoot \/ Watching \/ \E d \in Dir : WatchDir(d)

Next ==
  \/ TreeStep
  \/ Start \/ StartStep \/ HandleEvent \/ Fire
  \/ \E s \in Scan : ScanStep(s)
  \/ \E p \in Path : RegisterFile(p) \/ RemoveFile(p)
  \/ \E x \in Target : Reprocess(x)
  \/ Stop

Spec == Init /\ [][Next]_vars

\* Goroutines run, events are read, timers fire, a stopped daemon is restarted.
Fairness ==
  /\ WF_vars(Start) /\ WF_vars(StartStep) /\ WF_vars(HandleEvent) /\ WF_vars(Fire)
  /\ \A s \in Scan : WF_vars(ScanStep(s))
  /\ \A p \in Path : WF_vars(RegisterFile(p)) /\ WF_vars(RemoveFile(p))

FairSpec == Spec /\ Fairness

-----------------------------------------------------------------------------
(* Properties. *)

\* In the end the store agrees with the tree about every video whose last
\* change the Watcher could follow: it was made while the daemon was down, or in
\* a watched directory, and its removal and registration did not run at once.
CatchesUp ==
  \A p \in Path :
    <>[](phase = "stopped" \/ p \in excused \/ (p \in tracked <=> p \in disk))

\* A row is deleted only when its video is gone, or is back and will be
\* registered again: neither a scan nor a late timer takes away the row of a
\* video that is there for good.
Returning(p) ==
  \/ p \in reading
  \/ \E i \in DOMAIN timers : timers[i] = [op |-> "register", path |-> p]
  \/ \E i \in DOMAIN events : events[i] = [op |-> "create", name |-> p]

RemovalJustified ==
  [][\A p \in tracked \ tracked' : p \notin disk \/ p \in excused \/ Returning(p)]_vars

\* Removed is "the moment a tracked file is observed to no longer exist"
\* (CONTEXT.md), and reconciliation is for what went "while nothing was watching"
\* (pipeline.go): once the Watcher watches, no row of a video that is there is
\* deleted.
RemovedIsGone == [][phase = "watching" => \A p \in tracked \ tracked' : p \notin disk]_vars
=============================================================================
