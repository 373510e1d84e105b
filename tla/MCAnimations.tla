---------------------------- MODULE MCAnimations ----------------------------
(* Small instances of Animations: a clock that wraps after a few ticks, and *)
(* places on both sides of zero.                                            *)
EXTENDS Animations

At(a, b) == [x |-> a, y |-> b]
AcrossZero == {At(-2, 1), At(3, 0), At(0, 0)}
TwoPlaces == {At(0, 0), At(3, 1)}
=============================================================================
