----------------------------- MODULE MCKeyInput -----------------------------
(* Small instances of KeyInput. *)
EXTENDS KeyInput

AnyWindow == Permutations(Windows)
=============================================================================
