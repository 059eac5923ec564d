------------------------------ MODULE MCSyncRun ------------------------------
(* Instances of SyncRun for TLC. *)
EXTENDS SyncRun, TLC

Symm == Permutations(Procs)

\* The user changes files while one run is there: what is mirrored concerns one
\* run at a time, what two runs do to each other does not look at the files.
OneRunAndChanges == tree = 0 \/ Cardinality(Begun) <= 1
=============================================================================
