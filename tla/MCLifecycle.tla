----------------------------- MODULE MCLifecycle -----------------------------
(* Instances of Lifecycle for TLC. *)
EXTENDS Lifecycle, TLC

Symm == Permutations(Google) \cup Permutations(Microsoft) \cup Permutations(Telegram)
=============================================================================
