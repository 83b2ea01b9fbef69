-------------------------- MODULE MCLibraryUpdates --------------------------
(* Instances of LibraryUpdates for TLC. *)
EXTENDS LibraryUpdates

CONSTANTS l1, l2, l3

MCWorkers == Runs \X (1..Concurrency)

OneTitle == <<l1>>
ThreeTitles == <<l1, l2, l3>>

=============================================================================
