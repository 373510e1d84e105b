------------------------------- MODULE Scene -------------------------------
(***************************************************************************)
(* The geometry of a window and of the frame drawn around it: where a      *)
(* point of the layout falls, which edges a press takes hold of, the size  *)
(* a resize asks for and where a window lands when its size changes while  *)
(* it is being resized.  These are the arithmetic parts of the handlers of *)
(* WaylandComp.cpp; the module has no state.                               *)
(*                                                                         *)
(* A point is [x, y], a size [w, h], a frame [x, y, w, h] where w and h    *)
(* are the size of the content the four border rectangles were last laid   *)
(* around, 0 before they were laid around any.                             *)
(***************************************************************************)
EXTENDS Integers

CONSTANTS BorderWidth,   \* border.width of wconf.hpp, 3
          SnapMargin,    \* how far inside an edge a press takes it, 8
          TitleHeight,   \* the strip that moves the window, 30
          MinSize        \* the least side a resize asks for, 50

ASSUME BorderWidthAssumption == BorderWidth \in Nat \ {0}
ASSUME MarginAssumption == SnapMargin \in Nat /\ TitleHeight \in Nat
ASSUME MinSizeAssumption == MinSize \in Nat \ {0}

Edges == {"left", "right", "top", "bottom"}

Point == [x : Int, y : Int]
Size  == [w : Nat, h : Nat]
Frame == [x : Int, y : Int, w : Nat, h : Nat]

Origin     == [x |-> 0, y |-> 0]
NoSize     == [w |-> 0, h |-> 0]
FreshFrame == [x |-> 0, y |-> 0, w |-> 0, h |-> 0]

\* A surface shows something only while both sides are positive.
Sized(size) == size.w > 0 /\ size.h > 0

Within(a, low, high) == low <= a /\ a < high

\* The buffer of a window at node covers p.
OnSurface(p, node, size) ==
    /\ Within(p.x, node.x, node.x + size.w)
    /\ Within(p.y, node.y, node.y + size.h)

\* One of the four border rectangles covers p.  Until they are first laid out
\* all four are one pixel long and sit on the frame's own corner.
OnFrame(p, frame) ==
    LET dx == p.x - frame.x
        dy == p.y - frame.y
        B  == BorderWidth
    IN  IF frame.w = 0
        THEN \/ Within(dx, 0, 1) /\ Within(dy, 0, B)
             \/ Within(dx, 0, B) /\ Within(dy, 0, 1)
        ELSE /\ Within(dx, 0, frame.w + 2 * B)
             /\ Within(dy, 0, frame.h + 2 * B)
             /\ ~ (Within(dx, B, frame.w + B) /\ Within(dy, B, frame.h + B))

\* Where updateViewBorders puts the frame of a window that shows something.
AlignedFrame(node, size) ==
    [x |-> node.x - BorderWidth, y |-> node.y - BorderWidth,
     w |-> size.w, h |-> size.h]

\* A frame moved to the point p without being laid out again.
FrameAt(frame, p) == [x |-> p.x, y |-> p.y, w |-> frame.w, h |-> frame.h]

\* The edges of the window a press at p is near: within the border outside the
\* window, within SnapMargin inside it.
GrabEdges(p, node, size) ==
    LET NearLow(a, low)   == low - BorderWidth <= a /\ a <= low + SnapMargin
        NearHigh(a, high) == high - SnapMargin <= a /\ a <= high + BorderWidth
    IN  {e \in Edges :
            CASE e = "left"   -> NearLow(p.x, node.x)
              [] e = "right"  -> NearHigh(p.x, node.x + size.w)
              [] e = "top"    -> NearLow(p.y, node.y)
              [] e = "bottom" -> NearHigh(p.y, node.y + size.h)}

\* The press is in the strip at the top of the window (its x is not looked at).
OnTitle(p, node) == node.y <= p.y /\ p.y <= node.y + TitleHeight

AtLeast(least, n) == IF n < least THEN least ELSE n

\* The size a resize that took hold of edges at click asks for once the pointer
\* is at p, from the size the window had then.
Resized(edges, click, win, p) ==
    LET dx == p.x - click.x
        dy == p.y - click.y
        Grow(e, d) == IF e \in edges THEN d ELSE 0
    IN  [w |-> AtLeast(MinSize, win.w + Grow("right", dx) - Grow("left", dx)),
         h |-> AtLeast(MinSize, win.h + Grow("bottom", dy) - Grow("top", dy))]

\* Where a window being resized by edges goes when its size becomes size: an
\* edge that was not taken hold of stays where it was at the press.
Fault_Anchored(node, edges, at, win, size) ==
    [x |-> IF "left" \in edges THEN at.x + (size.w - win.w) ELSE node.x,
     y |-> IF "top"  \in edges THEN at.y + (size.h - win.h) ELSE node.y]
Anchored(node, edges, at, win, size) ==
    [x |-> IF "left" \in edges THEN at.x + (win.w - size.w) ELSE node.x,
     y |-> IF "top"  \in edges THEN at.y + (win.h - size.h) ELSE node.y]

Shifted(p, from, to) == [x |-> p.x + (to.x - from.x), y |-> p.y + (to.y - from.y)]
=============================================================================
