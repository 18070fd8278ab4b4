------------------------------- MODULE MCDaemon -------------------------------
(* Values of the Daemon's constants for TLC. *)
EXTENDS DaemonProperties, StoreProperties, TLC

CONSTANTS
  Edits, Removes, Reprocesses, Stops, Suspends,   \* bounds on the outside
  p1, p2                                 \* paths

MCBudget == [edit |-> Edits, remove |-> Removes, reprocess |-> Reprocesses,
             stop |-> Stops, suspend |-> Suspends]

\* No video has embedded subtitles: StripEmbedded removes nothing.
StripsNothing == [h \in Hash |-> [l \in Lang |-> h]]

\* Content "a" has embedded subtitles and becomes "as"; other content has none.
StripsA == [h \in Hash |-> [l \in Lang |-> IF h = "a" THEN "as" ELSE h]]

\* Every path holds content "a"; or only p1 does.
AllPresent == [p \in Path |-> "a"]
OnlyFirst == [p \in Path |-> IF p = p1 THEN "a" ELSE Absent]

OneProvider == << <<"os">> >>
TierPair == << <<"os">>, <<"whisper">> >>
OneEach == [p \in Provider |-> 1]
TwoEach == [p \in Provider |-> 2]

WorkerSymmetry == Permutations(Worker)
=============================================================================
