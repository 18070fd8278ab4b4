--------------------------- MODULE DaemonProperties ---------------------------
(***************************************************************************)
(* What the daemon promises, stated over the states and steps of Daemon.   *)
(***************************************************************************)
EXTENDS Daemon, FiniteSets

ASSUME WorkersFinite == IsFiniteSet(Worker)

Is(i, l, status) == Row(i, l) # NoRow /\ Row(i, l).status = status

Active(w) == ~At(w, "idle")
Holds(w, i, l) == Active(w) /\ Key(job[w]) = <<i, l>>

\* A worker is asking, or about to ask, its Provider, or writing the result.
Working(w) == pc[w] \in Unclaimed \cup Claimed

-----------------------------------------------------------------------------
(* Dispatch. *)

\* Across overlapping passes no two workers ever hold the same (file, language)
\* pair: the in-flight set of beginPair/endPair does its job although a pair
\* stays Pending in the store until its worker's claim lands.
ExclusivePairs ==
  \A v, w \in Worker :
    v # w /\ Active(v) /\ Active(w) => Key(job[v]) # Key(job[w])

\* A Provider's in-flight work never exceeds its worker budget, not even across
\* passes that each started workers of their own.
Slots(p) == {w \in Worker : Active(w) /\ ~At(w, "end") /\ job[w].provider = p}

PoolBound == \A p \in Provider : Cardinality(Slots(p)) <= Capacity[p]

\* A Provider that has missed for a pair is not asked again in the same cycle:
\* nothing adds a worker's Provider to the attempted set behind its back.
NoRepeatSearch ==
  \A w \in Worker :
    Working(w) /\ Row(job[w].id, job[w].lang) # NoRow
      => job[w].provider \notin Row(job[w].id, job[w].lang).attempted

\* Failed(no_candidate) only once every Provider (each is in some Tier) has missed.
NoCandidateJustified ==
  \A i \in Id, l \in Lang :
    Row(i, l) # NoRow /\ Row(i, l).reason = "no_candidate" => Row(i, l).attempted = Provider

\* In Progress means checked out by a worker (CONTEXT.md): while the daemon
\* runs, each such pair has a worker that claimed it and has yet to return.
InProgressOwned ==
  ~down => \A i \in Id, l \in Lang :
    Is(i, l, "in_progress") =>
      \E w \in Worker : Holds(w, i, l) /\ pc[w] \in Claimed \cup {"failed"}

-----------------------------------------------------------------------------
(* Content. *)

\* Synced means up to date with the file's current Content Hash (CONTEXT.md):
\* there is a sidecar for the language whose Marker is bound to the stored hash.
SyncedIsCurrent ==
  \A i \in Id, l \in Lang :
    Is(i, l, "synced") => sidecar[files[i].path][l] = files[i].hash

\* A manual reprocess is honoured: while the content stays the same, the force
\* flag it sets is only taken down by a worker that was dispatched with it.
ForceHonoured ==
  [][\A i \in Id, l \in Lang :
       /\ Row(i, l) # NoRow /\ Row(i, l).force
       /\ Row(i, l)' # NoRow /\ ~Row(i, l)'.force
       /\ files'[i] = files[i]
       => \E w \in Worker : Holds(w, i, l) /\ job[w].force]_vars

-----------------------------------------------------------------------------
(* Progress. *)

Settled(i, l) == Is(i, l, "synced") \/ Is(i, l, "failed")

\* The backlog drains: from some point on every video is tracked and each of
\* its pairs has reached a final outcome.
BacklogDrains ==
  <>[] /\ \A p \in Present : Tracked(p)
       /\ \A i \in Id, l \in Lang : files[i] # NoFile => Settled(i, l)

\* A Pending pair that every Provider has missed for does not stay Pending: the
\* Dispatcher marks it Failed(no_candidate).
SpentPairsFail ==
  \A i \in Id, l \in Lang :
    LET spent == Is(i, l, "pending") /\ AllAttempted(Row(i, l).attempted)
    IN  spent ~> ~spent

-----------------------------------------------------------------------------
(* The lifecycle. *)

\* A pair's Sync Status as a reader of the tables sees it.
StatusOf(p, l) ==
  IF \E i \in Id : IsRowOf(i, p) /\ Row(i, l) # NoRow
  THEN LET row == Row(CHOOSE i \in Id : IsRowOf(i, p), l)
       IN  IF row.status = "failed" THEN row.reason ELSE row.status
  ELSE "untracked"

Lifecycle ==
  INSTANCE PairLifecycle
    WITH Reason <- FailureReason, life <- [p \in Path |-> [l \in Lang |-> StatusOf(p, l)]]

\* Store, workers, Triggers and restarts together move every pair only along
\* the lifecycle: no failure from Pending, no second attempt at a failed pair,
\* no outcome carried into another cycle.
FollowsLifecycle == Lifecycle!LifeSpec
=============================================================================
