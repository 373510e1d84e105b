----------------------------- MODULE MCLifecycle -----------------------------
(* Small instances of Lifecycle. *)
EXTENDS Lifecycle, TLC

AnyObject == Permutations(Outputs) \cup Permutations(Keyboards) \cup Permutations(Toplevels)
=============================================================================
