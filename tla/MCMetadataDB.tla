----------------------------- MODULE MCMetadataDB -----------------------------
(* Instances of MetadataDB for TLC. *)
EXTENDS MetadataDB, TLC

CONSTANTS main, backup, drive, tg

MCSources == <<main, backup, drive, tg>>
MCTwo == <<main, tg>>
Symm == Permutations(Edits)
=============================================================================
