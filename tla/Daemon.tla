-------------------------------- MODULE Daemon --------------------------------
(***************************************************************************)
(* The daemon (cli.Serve): store, Dispatcher, workers and Triggers in one  *)
(* process, over Library directories that other programs change, with      *)
(* graceful shutdown, crashes and restarts.                                *)
(***************************************************************************)
EXTENDS Dispatcher

CONSTANTS
  InitDisk,   \* the Library when the daemon is first started
  Budget      \* bounds: how often each kind of outside event may happen

\* edit: a video is created or rewritten;  remove: one is deleted or renamed;
\* reprocess: a manual request;  stop: a crash or a graceful shutdown;
\* suspend: a Provider suspends.
Event == {"edit", "remove", "reprocess", "stop", "suspend"}

ASSUME DaemonConstants ==
  /\ InitDisk \in [Path -> Hash \cup {Absent}]
  /\ Budget \in [Event -> Nat]

VARIABLES
  gone,     \* paths with a remove/rename event waiting out the quiet window
  down,     \* no daemon process is running
  budget    \* what is left of Budget

daemonVars == <<gone, down, budget>>
vars == <<pipelineVars, dispatchVars, daemonVars>>

TypeOK ==
  /\ DispatcherTypeOK
  /\ gone \subseteq Path
  /\ down \in BOOLEAN
  /\ budget \in [Event -> Nat]

Init ==
  /\ DispatcherInit(InitDisk)
  /\ gone = {} /\ down = TRUE /\ budget = Budget

Spend(e) == budget[e] > 0 /\ budget' = [budget EXCEPT ![e] = @ - 1]

-----------------------------------------------------------------------------
(* The Library's directory changes under the daemon.  Events that happen   *)
(* while it is down are found by the scan at the next start.               *)

DiskUnchangedBut == <<storeVars, sidecar, ctxDone, workVars, regVars, dispatchVars, down>>

\* The video is created, rewritten or replaced.
Edit(p) ==
  /\ Spend("edit")
  /\ \E h \in Hash \ {disk[p]} : disk' = [disk EXCEPT ![p] = h]
  /\ dirty' = IF down THEN dirty ELSE dirty \cup {p}
  /\ UNCHANGED <<DiskUnchangedBut, gone>>

Delete(p) ==
  /\ Spend("remove") /\ disk[p] # Absent
  /\ disk' = [disk EXCEPT ![p] = Absent]
  /\ gone' = IF down THEN gone ELSE gone \cup {p}
  /\ UNCHANGED <<DiskUnchangedBut, dirty>>

\* ADR 0013: a remove event at the old path, a create event at the new one.
Rename(p, q) ==
  /\ Spend("remove") /\ disk[p] # Absent /\ disk[q] = Absent
  /\ disk' = [disk EXCEPT ![p] = Absent, ![q] = disk[p]]
  /\ gone' = IF down THEN gone ELSE gone \cup {p}
  /\ dirty' = IF down THEN dirty ELSE dirty \cup {q}
  /\ UNCHANGED DiskUnchangedBut

-----------------------------------------------------------------------------
(* Triggers. *)

\* The Watcher's register debouncer fires: RunFile.  If the video is gone by
\* then, hashing it fails and nothing is registered.
FireChanged(p) ==
  /\ ~down /\ p \in dirty
  /\ dirty' = dirty \ {p}
  /\ \/ /\ disk[p] = Absent
        /\ UNCHANGED regVars
     \/ \E r \in Registrar : RegisterBegin(r, p, FALSE)
  /\ UNCHANGED <<storeVars, disk, sidecar, ctxDone, workVars, dispatchVars, daemonVars>>

\* The remove debouncer fires: RemoveFile.  Whether a video is at p again by
\* now is not looked at.
FireRemoved(p) ==
  /\ ~down /\ ~ctxDone /\ p \in gone
  /\ gone' = gone \ {p}
  /\ DeleteFile(p)
  /\ UNCHANGED <<diskVars, ctxDone, workVars, regVars, dispatchVars, down, budget>>

\* POST /reprocess for one video: RunFile with force, on its own goroutine.
Reprocess(p) ==
  /\ ~down /\ Spend("reprocess")
  /\ \E r \in Registrar : RegisterBegin(r, p, TRUE)
  /\ UNCHANGED <<storeVars, diskVars, ctxDone, workVars, dispatchVars, gone, down>>

-----------------------------------------------------------------------------
(* Start, graceful shutdown, crash. *)

Present == {p \in Path : disk[p] # Absent}

\* Serve: RecoverInProgress before anything runs; then every Library's initial
\* scan registers each video it finds and removes each tracked path it does not
\* (one path at a time, like the debouncers).
Start ==
  /\ down /\ down' = FALSE
  /\ RecoverInProgress
  /\ dirty' = Present
  /\ gone' = {p \in Path \ Present : Tracked(p)}
  /\ UNCHANGED <<disk, sidecar, ctxDone, workVars, regVars, dispatchVars, budget>>

\* SIGTERM cancels the context every goroutine works under.
Shutdown ==
  /\ ~down /\ ~ctxDone /\ Spend("stop")
  /\ ctxDone' = TRUE
  /\ UNCHANGED <<storeVars, diskVars, workVars, regVars, dispatchVars, gone, down>>

\* What a process keeps in memory is gone with it.
Volatile ==
  /\ down' = TRUE /\ ctxDone' = FALSE /\ dirty' = {} /\ gone' = {}
  /\ pc' = [w \in Worker |-> "idle"] /\ job' = [w \in Worker |-> NoJob]
  /\ regPc' = [r \in Registrar |-> "idle"] /\ reg' = [r \in Registrar |-> NoJob]
  /\ sem' = [p \in Provider |-> 0] /\ inFlight' = {} /\ snap' = {} /\ suspended' = {}

\* Dispatcher.Run waited for its workers and the API for its requests.
Exit ==
  /\ ~down /\ ctxDone /\ snap = {}
  /\ \A w \in Worker : At(w, "idle")
  /\ \A r \in Registrar : regPc[r] = "idle"
  /\ Volatile
  /\ UNCHANGED <<storeVars, disk, sidecar, budget>>

Crash ==
  /\ ~down /\ Spend("stop")
  /\ Volatile
  /\ UNCHANGED <<storeVars, disk, sidecar>>

-----------------------------------------------------------------------------
Goroutine(w) == GoroutineStep(w) /\ UNCHANGED daemonVars

Suspend(w) ==
  /\ WorkerSuspends(w)
  /\ IF job[w].provider \in suspended THEN UNCHANGED budget ELSE Spend("suspend")
  /\ UNCHANGED <<gone, down>>

Pass ==
  /\ ~down
  /\ \/ PassBegin \/ PassStop
     \/ \E pair \in snap : PassSkip(pair) \/ \E w \in Worker : StartWorker(w, pair)
  /\ UNCHANGED daemonVars

Register(r) == RegisterStep(r) /\ UNCHANGED <<dispatchVars, daemonVars>>

Resumed(p) == Resume(p) /\ UNCHANGED daemonVars

Outside == \E p \in Path : Edit(p) \/ Delete(p) \/ Reprocess(p) \/ \E q \in Path : Rename(p, q)

Next ==
  \/ \E w \in Worker : Goroutine(w) \/ Suspend(w)
  \/ Pass
  \/ \E r \in Registrar : Register(r)
  \/ \E p \in Path : FireChanged(p) \/ FireRemoved(p)
  \/ \E p \in Provider : Resumed(p)
  \/ Outside
  \/ Start \/ Shutdown \/ Exit \/ Crash

Spec == Init /\ [][Next]_vars

\* Goroutines run, timers fire, resume times pass, a stopped daemon is started
\* again.  Nothing is assumed of the outside.
Fairness ==
  /\ \A w \in Worker : WF_vars(Goroutine(w) \/ Suspend(w))
  /\ \A r \in Registrar : WF_vars(Register(r))
  /\ \A p \in Path : WF_vars(FireChanged(p)) /\ WF_vars(FireRemoved(p))
  /\ \A p \in Provider : WF_vars(Resumed(p))
  /\ WF_vars(Pass) /\ WF_vars(Start) /\ WF_vars(Exit)

FairSpec == Spec /\ Fairness
=============================================================================
