--------------------------- MODULE StoreProperties ---------------------------
(* What the store guarantees to any caller, in any order of calls. *)
EXTENDS Store

\* The tables stay consistent: no two file rows for one path, and no language
\* row outlives its file row (ON DELETE CASCADE with EnsureLanguage's foreign
\* key), although row ids are handed out again.
RowIntegrity ==
  /\ \A i, j \in Id :
       files[i] # NoFile /\ files[j] # NoFile /\ files[i].path = files[j].path => i = j
  /\ \A i \in Id, l \in Lang : Row(i, l) # NoRow => files[i] # NoFile

\* The flags of a cycle agree with its status: there is a failure reason
\* exactly on a Failed row, and the force flag is on unfinished rows only.
CycleFlags ==
  \A i \in Id, l \in Lang :
    Row(i, l) # NoRow =>
      /\ Row(i, l).reason # "none" <=> Row(i, l).status = "failed"
      /\ Row(i, l).force => Row(i, l).status \in {"pending", "in_progress"}

Fresh == {NoRow, NewRow, [NewRow EXCEPT !.force = TRUE]}

\* A cycle's misses survive every requeue, claim and restart: a Provider leaves
\* a pair's attempted set only when a new cycle begins, and then for every
\* language of the file at once.
MissesSurviveCycle ==
  [][\A i \in Id, l \in Lang :
       Row(i, l) # NoRow /\ (Row(i, l)' = NoRow \/ ~(Row(i, l).attempted \subseteq Row(i, l)'.attempted))
         => \A m \in Lang : Row(i, m)' \in Fresh]_storeVars
=============================================================================
