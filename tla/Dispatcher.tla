------------------------------ MODULE Dispatcher ------------------------------
(***************************************************************************)
(* internal/dispatcher in the mode production uses, Provider Tiers.  One   *)
(* goroutine polls: each pass snapshots the Pending pairs and hands each,  *)
(* in order, to a worker goroutine of an eligible Provider.  Passes do not *)
(* wait for workers, so pools and the in-flight set outlive them.          *)
(***************************************************************************)
EXTENDS Pipeline, Sequences

CONSTANTS
  Tiers,     \* the Provider Chain: a sequence of sequences of Providers
  Capacity   \* WorkerCount of each Provider's pool

Chained(p) == \E t \in DOMAIN Tiers : \E k \in DOMAIN Tiers[t] : Tiers[t][k] = p

ASSUME DispatcherConstants ==
  /\ Tiers \in Seq(Seq(Provider))
  /\ Capacity \in [Provider -> Nat \ {0}]
  /\ \A p \in Provider : Chained(p)

VARIABLES
  sem,        \* occupied slots of each Provider's pool
  inFlight,   \* <<file id, language>> of the pairs held by a worker
  snap,       \* what is left of the pass's snapshot; {} between passes
  suspended   \* Providers reporting a Suspension

dispatchVars == <<sem, inFlight, snap, suspended>>

Key(x) == <<x.id, x.lang>>
PendingPair == [id : Id, lang : Lang, path : Path, hash : Hash, force : BOOLEAN]

DispatcherTypeOK ==
  /\ PipelineTypeOK
  /\ sem \in [Provider -> Nat]
  /\ inFlight \subseteq Id \X Lang
  /\ snap \subseteq PendingPair
  /\ suspended \subseteq Provider

-----------------------------------------------------------------------------
(* The pass. *)

\* Mutated: one worker too many.
FullLate(p) == sem[p] > Capacity[p]

Full(p) == sem[p] >= Capacity[p]

\* Mutated: the attempted set is not looked at.
UnattemptedAll(t, attempted) == DOMAIN Tiers[t]

Unattempted(t, attempted) == {k \in DOMAIN Tiers[t] : Tiers[t][k] \notin attempted}

\* Mutated: one spent Tier is enough.
OneTierAttempted(attempted) == \E t \in DOMAIN Tiers : Unattempted(t, attempted) = {}

AllAttempted(attempted) == \A t \in DOMAIN Tiers : Unattempted(t, attempted) = {}

\* Mutated: a spent Tier is waited on like any other.
IsFirstTier(t, attempted) == t = 1

\* The pair's current Tier: the first that is not spent.
IsCurrentTier(t, attempted) ==
  /\ Unattempted(t, attempted) # {}
  /\ \A u \in DOMAIN Tiers : u < t => Unattempted(u, attempted) = {}

\* A Provider the pair may go to now.
Eligible(t, k, attempted) ==
  /\ k \in Unattempted(t, attempted)
  /\ Tiers[t][k] \notin suspended
  /\ ~Full(Tiers[t][k])

\* The first eligible Provider of the current Tier, in list order.
Chosen(t, k, attempted) ==
  /\ IsCurrentTier(t, attempted)
  /\ Eligible(t, k, attempted)
  /\ \A j \in DOMAIN Tiers[t] : j < k => ~Eligible(t, j, attempted)

\* The snapshot is walked in file id order (languages in any order).
IsNext(pair) == pair \in snap /\ \A other \in snap : pair.id <= other.id

\* Mutated: no set of pairs in flight.
BeginAnyPair(pair) == UNCHANGED inFlight

\* beginPair: not if a worker of this or an earlier pass holds the pair.
BeginPair(pair) ==
  /\ Key(pair) \notin inFlight
  /\ inFlight' = inFlight \cup {Key(pair)}

\* dispatchPass: store.PendingPairs.
PassBegin ==
  /\ snap = {} /\ ~ctxDone
  /\ PendingPairs # {}
  /\ snap' = {[id |-> q[1], lang |-> q[2], path |-> files[q[1]].path,
               hash |-> files[q[1]].hash, force |-> states[q[1]][q[2]].force] :
              q \in PendingPairs}
  /\ UNCHANGED <<pipelineVars, sem, inFlight, suspended>>

\* Nothing more can be placed: every pool is full, or the context is done.
PassStop ==
  /\ snap # {}
  /\ ctxDone \/ \A p \in Provider : Full(p)
  /\ snap' = {}
  /\ UNCHANGED <<pipelineVars, sem, inFlight, suspended>>

\* The k-th Provider of Tier t takes the pair: worker w gets one of its slots.
Place(w, pair, t, k) ==
  /\ Chosen(t, k, states[pair.id][pair.lang].attempted)
  /\ sem' = [sem EXCEPT ![Tiers[t][k]] = @ + 1]
  /\ job' = [job EXCEPT ![w] = [id |-> pair.id, path |-> pair.path, lang |-> pair.lang,
                                hash |-> pair.hash, force |-> pair.force,
                                provider |-> Tiers[t][k], fixed |-> pair.hash]]

\* beginPair, AttemptedProviders, the Tier walk and startWorker.
StartWorker(w, pair) ==
  /\ IsNext(pair) /\ ~ctxDone
  /\ BeginPair(pair)
  /\ states[pair.id][pair.lang] # NoRow
  /\ At(w, "idle")
  /\ \E t \in DOMAIN Tiers : \E k \in DOMAIN Tiers[t] : Place(w, pair, t, k)
  /\ Goto(w, "gate")
  /\ snap' = snap \ {pair}
  /\ UNCHANGED <<storeVars, diskVars, ctxDone, regVars, suspended>>

\* The pair is in flight already, or its row is gone, or its current Tier has
\* no eligible Provider, or every Tier is spent: it is left as it is.
PassSkip(pair) ==
  /\ IsNext(pair) /\ ~ctxDone
  /\ \E p \in Provider : ~Full(p)
  /\ \/ Key(pair) \in inFlight
     \/ states[pair.id][pair.lang] = NoRow
     \/ /\ states[pair.id][pair.lang] # NoRow
        /\ \A t \in DOMAIN Tiers : \A k \in DOMAIN Tiers[t] :
             ~Chosen(t, k, states[pair.id][pair.lang].attempted)
  /\ snap' = snap \ {pair}
  /\ UNCHANGED <<pipelineVars, sem, inFlight, suspended>>

-----------------------------------------------------------------------------
(* startWorker's goroutine, around ProcessPending. *)

\* allProvidersAttempted after a miss; an error reading the row means "no".
CheckExhausted(w) ==
  /\ At(w, "missed")
  /\ LET row == states[job[w].id][job[w].lang]
     IN  Goto(w, IF ~ctxDone /\ row # NoRow /\ AllAttempted(row.attempted)
                 THEN "exhausted" ELSE "release")
  /\ UNCHANGED <<storeVars, diskVars, ctxDone, job, regVars, dispatchVars>>

MarkNoCandidate(w) ==
  /\ At(w, "exhausted")
  /\ Settle(w, MarkFailed(job[w].id, job[w].hash, job[w].lang, "no_candidate"),
            "release", "release")
  /\ UNCHANGED dispatchVars

\* Mutated: the slot is given back twice.
ReleaseTwice(w) ==
  /\ At(w, "release")
  /\ sem' = [sem EXCEPT ![job[w].provider] = @ - 2]
  /\ Goto(w, "end")
  /\ UNCHANGED <<storeVars, diskVars, ctxDone, job, regVars, inFlight, snap, suspended>>

\* The deferred calls, in the order they run: the slot, then endPair.
ReleaseSlot(w) ==
  /\ At(w, "release")
  /\ sem' = [sem EXCEPT ![job[w].provider] = @ - 1]
  /\ Goto(w, "end")
  /\ UNCHANGED <<storeVars, diskVars, ctxDone, job, regVars, inFlight, snap, suspended>>

EndPair(w) ==
  /\ At(w, "end")
  /\ inFlight' = inFlight \ {Key(job[w])}
  /\ Goto(w, "idle")
  /\ job' = [job EXCEPT ![w] = NoJob]
  /\ UNCHANGED <<storeVars, diskVars, ctxDone, regVars, sem, snap, suspended>>

\* A quota or availability error suspends the worker's Provider.
WorkerSuspends(w) ==
  /\ FetchSuspended(w)
  /\ suspended' = suspended \cup {job[w].provider}
  /\ UNCHANGED <<sem, inFlight, snap>>

\* The resume time passes; Suspension() clears itself.
Resume(p) ==
  /\ p \in suspended
  /\ suspended' = suspended \ {p}
  /\ UNCHANGED <<pipelineVars, sem, inFlight, snap>>

GoroutineStep(w) ==
  \/ WorkerStep(w) /\ UNCHANGED dispatchVars
  \/ CheckExhausted(w) \/ MarkNoCandidate(w) \/ ReleaseSlot(w) \/ EndPair(w)

DispatcherInit(video) ==
  /\ PipelineInit(video)
  /\ sem = [p \in Provider |-> 0]
  /\ inFlight = {} /\ snap = {} /\ suspended = {}
=============================================================================
