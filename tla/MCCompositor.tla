--------------------------- MODULE MCCompositor ---------------------------
(* Small instances of Compositor: the pixel sizes of the code scaled down. *)
EXTENDS Compositor, TLC

Square(n) == [w |-> n, h |-> n]

OnePoint == {Origin}
EdgePoint == {[x |-> 2, y |-> 0]}
DiagonalPoints == {[x |-> -1, y |-> 0], [x |-> 2, y |-> 1]}
OneSize == {Square(2)}
TwoSizes == {[w |-> 1, h |-> 2], [w |-> 2, h |-> 1]}
OutputSquare == {Square(4)}
DefaultSquare == Square(3)

AnyToplevel == Permutations(Toplevels)
=============================================================================
