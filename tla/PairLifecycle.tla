---------------------------- MODULE PairLifecycle ----------------------------
(***************************************************************************)
(* What the daemon promises about one (file, language) pair's Sync Status, *)
(* whoever works on it and however often the daemon is restarted: the      *)
(* lifecycle of CONTEXT.md (Found, Changed, Removed, Pending, In Progress, *)
(* Synced, Failed).  A failure is shown by its reason.                     *)
(***************************************************************************)
CONSTANTS Path, Lang, Reason

VARIABLE life   \* life[p][l]: the Sync Status of video p's pair for language l

Unfinished == {"pending", "in_progress"}
Outcome == {"synced"} \cup Reason

LifeTypeOK == life \in [Path -> [Lang -> {"untracked"} \cup Unfinished \cup Outcome]]

LifeInit == life = [p \in Path |-> [l \in Lang |-> "untracked"]]

Becomes(p, l, from, to) ==
  /\ life[p][l] \in from
  /\ life' = [life EXCEPT ![p][l] = to]

Found(p, l) == Becomes(p, l, {"untracked"}, "pending")

\* Every pair of the video starts a new cycle, whatever its status.
Changed(p) ==
  life' = [life EXCEPT ![p] = [l \in Lang |-> IF @[l] = "untracked" THEN @[l] ELSE "pending"]]

Removed(p) == life' = [life EXCEPT ![p] = [l \in Lang |-> "untracked"]]

Claimed(p, l) == Becomes(p, l, {"pending"}, "in_progress")

\* A valid Marker: straight from Pending to Synced.  Or from Failed, when the
\* attempt failed with its sidecar in place and the pair is dispatched once more
\* from a snapshot taken before the failure.
GateHit(p, l) == Becomes(p, l, {"pending"} \cup Reason, "synced")

Finished(p, l) == \E o \in Outcome \ {"no_candidate"} : Becomes(p, l, {"in_progress"}, o)

\* A suspension, a miss, an interruption: the same cycle goes on.
Requeued(p, l) == Becomes(p, l, {"in_progress"}, "pending")

\* Every Provider has missed by now; the last miss had requeued the pair.
Exhausted(p, l) == Becomes(p, l, {"pending"}, "no_candidate")

\* A restart requeues what the dead process had in progress.
Recovered ==
  life' = [p \in Path |-> [l \in Lang |->
             IF life[p][l] = "in_progress" THEN "pending" ELSE life[p][l]]]

LifeNext ==
  \/ \E p \in Path : Changed(p) \/ Removed(p)
  \/ \E p \in Path, l \in Lang :
       \/ Found(p, l) \/ Claimed(p, l) \/ GateHit(p, l)
       \/ Finished(p, l) \/ Requeued(p, l) \/ Exhausted(p, l)
  \/ Recovered

LifeSpec == LifeInit /\ [][LifeNext]_life
=============================================================================
