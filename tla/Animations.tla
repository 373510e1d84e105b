----------------------------- MODULE Animations -----------------------------
(***************************************************************************)
(* The class Animations (animations.cpp) with the two callers that fill    *)
(* it: toggleFullscreen queues a move of a window and one of its frame,    *)
(* setFocusedView a scale animation, which moves nothing.  Nobody gives a  *)
(* start time, so every animation counts from 0 on a clock of milliseconds *)
(* since boot that wraps; one queued while the clock is past its duration  *)
(* ends at the next tick, one queued shortly before the clock wraps does   *)
(* not.  The class is taken as its interface is meant, ticked again and    *)
(* again; Compositor has the timer that ticks it once.                     *)
(***************************************************************************)
EXTENDS Easing, Sequences, FiniteSets

CONSTANTS Windows,
          Points,       \* where windows start and where they are moved to
          BorderWidth,
          FocusMs,      \* anim.focus_ms of wconf.hpp, 100
          ClockWidth,   \* the clock counts modulo this, 2^32
          MaxGap,       \* the longest time between two ticks
          MaxAdds       \* how many animations are queued in all

ASSUME DurationAssumption == FocusMs \in Nat \ {0}
ASSUME PlaceAssumption == /\ Points \subseteq [x : Int, y : Int]
                          /\ BorderWidth \in Nat
\* A tick is never so late that the clock has gone round unnoticed.
ASSUME ClockAssumption == /\ ClockWidth \in Nat /\ MaxGap \in Nat \ {0}
                          /\ 2 * FocusMs + MaxGap <= ClockWidth
ASSUME AddsAssumption == MaxAdds \in Nat

MoveMs == FocusMs * 2

Nodes == Windows \X {"tree", "frame"}

VARIABLES anims,    \* anims_, a map whose ids only grow, as the set of its entries
          nextId,   \* next_id_
          clock,    \* the time of the last tick
          pos,      \* the positions of the nodes
          ran       \* the ids whose callbacks have run, in that order

animVars == <<anims, nextId, clock, pos, ran>>

Fault_FrameOf(p) == p
FrameOf(p) == [x |-> p.x - BorderWidth, y |-> p.y - BorderWidth]

AnimInit ==
    /\ anims = {} /\ nextId = 1 /\ ran = << >>
    /\ clock \in 0..(ClockWidth - 1)
    /\ \E at \in [Windows -> Points] :
          pos = [n \in Nodes |-> IF n[2] = "tree" THEN at[n[1]]
                 ELSE [x |-> at[n[1]].x - BorderWidth, y |-> at[n[1]].y - BorderWidth]]

-----------------------------------------------------------------------------
(* Queueing                                                                *)

\* anim_move: from where the node is now.
Move(id, n, to, tells) ==
    [id |-> id, node |-> n, from |-> pos[n], to |-> to, dur |-> MoveMs, tells |-> tells]

\* anim_scale: its places are all zero.
Still(id, n) ==
    LET zero == [x |-> 0, y |-> 0]
    IN  [id |-> id, node |-> n, from |-> zero, to |-> zero, dur |-> FocusMs,
         tells |-> FALSE]

\* The two moves of a toggle; the callback hangs on the window's.
QueueMoves(w, to) ==
    /\ nextId + 1 <= MaxAdds
    /\ anims' = anims \cup { Move(nextId, <<w, "tree">>, to, TRUE),
                             Move(nextId + 1, <<w, "frame">>, FrameOf(to), FALSE) }
    /\ nextId' = nextId + 2
    /\ UNCHANGED <<clock, pos, ran>>

QueueScale(w) ==
    /\ nextId <= MaxAdds
    /\ anims' = anims \cup {Still(nextId, <<w, "tree">>)}
    /\ nextId' = nextId + 1
    /\ UNCHANGED <<clock, pos, ran>>

-----------------------------------------------------------------------------
(* Ticking                                                                 *)

Moving(a) == a.from # a.to

Ended(a, now) == Stop(now, a.dur) >= a.dur

\* The animations that move n, and the one that does so last in a tick: the map is
\* walked in the order of its ids.
MovesOf(n) == {a \in anims : a.node = n /\ Moving(a)}
LastMoves(n) == {a \in MovesOf(n) : \A b \in MovesOf(n) : b.id <= a.id}
LastMove(n) == CHOOSE a \in LastMoves(n) : TRUE

\* Where the tick puts an animated node; all animations of the program ease out.
Placed(a, now) == PositionAt(a.from, a.to, "EaseOut", now, a.dur)

Remaining(now) == {a \in anims : ~ Ended(a, now)}

\* Some ids in the order of the map.
Orderings(ids) ==
    {s \in [1..Cardinality(ids) -> ids] :
        /\ \A i, j \in DOMAIN s : i < j => s[i] < s[j]
        /\ \A id \in ids : \E i \in DOMAIN s : s[i] = id}
InOrder(ids) == CHOOSE s \in Orderings(ids) : TRUE

Telling(as) == {a.id : a \in {b \in as : b.tells}}

Fault_Called(now) == InOrder(Telling({a \in anims : Moving(a)}))
Called(now) == InOrder(Telling({a \in anims : Ended(a, now)}))

Tick ==
    \E gap \in 1..MaxGap :
        LET now == (clock + gap) % ClockWidth
        IN  /\ clock' = now
            /\ pos' = [n \in Nodes |-> IF MovesOf(n) = {} THEN pos[n]
                                       ELSE Placed(LastMove(n), now)]
            /\ ran' = ran \o Called(now)
            /\ anims' = Remaining(now)
            /\ UNCHANGED nextId

AnimNext == Tick \/ \E w \in Windows : QueueScale(w) \/ \E p \in Points : QueueMoves(w, p)

AnimSpec == AnimInit /\ [][AnimNext]_animVars

-----------------------------------------------------------------------------
(* Properties                                                              *)

\* A callback runs once, and after those of the moves queued before its own,
\* however many ticks come before the clock has passed their durations.
deferred == INSTANCE Deferred WITH Jobs <- 1..MaxAdds, waiting <- InOrder(Telling(anims))
CallbacksInOrder == deferred!Spec

Beside(tree, frame) == [x |-> tree.x - frame.x, y |-> tree.y - frame.y]

\* Window and frame began the one toggle of w that is queued side by side.
Together(w) ==
    \E a, b \in anims :
        /\ a.node = <<w, "tree">> /\ b.node = <<w, "frame">>
        /\ a.id \in 1..MaxAdds /\ b.id = a.id + 1
        /\ Beside(a.from, b.from) = [x |-> BorderWidth, y |-> BorderWidth]
        /\ \A c \in anims : c.node[1] = w /\ Moving(c) => c \in {a, b}

\* A window that is animated to and from fullscreen keeps its frame: however far
\* a tick takes the two moves of a toggle, window and frame are one border or a
\* pixel less apart, on either side of zero and across it.
FrameBeside ==
    [][Tick => \A w \in Windows : Together(w) =>
          LET gap == Beside(pos'[<<w, "tree">>], pos'[<<w, "frame">>])
          IN  {gap.x, gap.y} \subseteq {BorderWidth - 1, BorderWidth}]_animVars

\* A tick takes a node that is on its way on towards the place it was last sent
\* to, never back and never beyond it, also when the clock wraps on the way.
NeverBack ==
    [][Tick => \A n \in Nodes : MovesOf(n) # {} =>
          LET to == LastMove(n).to
          IN  /\ Between(pos[n].x, pos'[n].x, to.x)
              /\ Between(pos[n].y, pos'[n].y, to.y)]_animVars
=============================================================================
