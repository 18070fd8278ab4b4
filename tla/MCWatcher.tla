------------------------------ MODULE MCWatcher ------------------------------
(* A Library with one video at its top and one in a subdirectory. *)
EXTENDS Watcher

CONSTANTS a, b, d, Changes, Requests, Stops

MCDirOf == [p \in Path |-> IF p = a THEN Root ELSE d]
MCBudget == [e \in Event |-> CASE e = "change" -> Changes
                               [] e = "request" -> Requests
                               [] e = "stop" -> Stops]
=============================================================================
