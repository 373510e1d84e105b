---------------------------- MODULE GeometryProofs ----------------------------
(***************************************************************************)
(* The place of windows and frames in Compositor: as long as the timer has *)
(* moved nothing, a window and its frame stay together and a resize moves  *)
(* only the edges it took hold of.  A tick that finds a toggle queued      *)
(* moves windows and frames behind the handlers, and neither holds after   *)
(* it.  What holds with it is about the queue of moves: that of a view     *)
(* always ends in the mode the view is in, so the tick leaves the client   *)
(* to be told that mode.                                                   *)
(***************************************************************************)
EXTENDS CompositorProofs

-----------------------------------------------------------------------------
(* Without moves: windows, frames and resizes                              *)

NoMoves == \A t \in Toplevels : anims[t] = << >>

\* Nobody toggles a window in the few milliseconds before the timer fires.
TickMovesNothing == [][Tick => NoMoves]_vars

\* The clause of FrameFollowsView for one view.
FrameAround(t) ==
    Sized(size[t]) =>
        \/ frame[t] = AlignedFrame(node[t], size[t])
        \/ /\ node[t] = Origin
           /\ frame[t] = FrameAt(AlignedFrame(Origin, size[t]), Origin)

\* ResizeKeepsOppositeEdge made inductive: the edges that are not anchored stay
\* even while the window shows nothing, and a view that is gone has no grab.
GrabHolds(t) ==
    grab[t].kind = "resize" =>
        /\ "left" \notin grab[t].edges => node[t].x \in {grab[t].at.x, 0}
        /\ "top" \notin grab[t].edges => node[t].y \in {grab[t].at.y, 0}
        /\ Sized(size[t]) =>
              /\ "left" \in grab[t].edges => RightFixed(t) \/ node[t] = Origin
              /\ "top" \in grab[t].edges => BottomFixed(t) \/ node[t] = Origin

PlaceInv ==
    /\ TypeOK
    /\ \A t \in views : FrameAround(t)
    /\ \A t \in Toplevels : GrabHolds(t)
    /\ \A t \in Toplevels \ views : /\ grab[t].kind # "resize"
                                    /\ ~ Sized(size[t])

\* Everything FrameAround(t) and GrabHolds(t) speak of.
PlaceUntouched(t) ==
    /\ node'[t] = node[t] /\ frame'[t] = frame[t]
    /\ size'[t] = size[t] /\ grab'[t] = grab[t]

LEMMA UntouchedPlace ==
    ASSUME NEW t \in Toplevels, FrameAround(t), GrabHolds(t), PlaceUntouched(t)
    PROVE  FrameAround(t)' /\ GrabHolds(t)'
BY DEF PlaceUntouched, FrameAround, GrabHolds, RightFixed, BottomFixed

LEMMA CommitPlaceHolds ==
    ASSUME PlaceInv, NEW t \in Toplevels, InitialCommit(t) \/ Commit(t)
    PROVE  FrameAround(t)' /\ GrabHolds(t)'
<1> DEFINE g == grab[t]
<1>1. PICK s \in Size : /\ size'[t] = s
                        /\ CommitHandler(t, s)
  <2>1. CASE InitialCommit(t)
    BY <2>1 DEF PlaceInv, TypeOK, InitialCommit
  <2>2. CASE Commit(t)
    BY <2>2, SizesAssumption DEF PlaceInv, TypeOK, Commit
  <2> QED
    BY <2>1, <2>2
<1>2. /\ node'[t] = CommitPlace(t, s)
      /\ frame'[t] = UpdatedBorders(t, node'[t], s)
      /\ grab'[t] = g
  BY <1>1 DEF PlaceInv, TypeOK, CommitHandler, CommitFrame, InitialCommit, Commit
<1>3. FrameAround(t)'
  BY <1>1, <1>2 DEF FrameAround, UpdatedBorders
<1>4. GrabHolds(t)'
  <2>1. SUFFICES ASSUME g.kind = "resize" PROVE GrabHolds(t)'
    BY <1>2 DEF GrabHolds
  <2>2. node'[t] = Anchored(node[t], g.edges, g.at, g.win, s)
    BY <1>2, <2>1 DEF CommitPlace
  <2>3. /\ node[t] \in Point /\ g.at \in Point /\ g.win \in Size
    BY DEF PlaceInv, TypeOK, Grabs
  <2>4. /\ "left" \in g.edges => node'[t].x + s.w = g.at.x + g.win.w
        /\ "top" \in g.edges => node'[t].y + s.h = g.at.y + g.win.h
        /\ "left" \notin g.edges => node'[t].x = node[t].x
        /\ "top" \notin g.edges => node'[t].y = node[t].y
    BY <2>2, <2>3 DEF Anchored, Point, Size
  <2>5. GrabHolds(t)
    BY DEF PlaceInv
  <2> QED
    BY <1>1, <1>2, <2>1, <2>4, <2>5 DEF GrabHolds, RightFixed, BottomFixed
<1> QED
  BY <1>3, <1>4

LEMMA FullscreenPlaceHolds ==
    ASSUME PlaceInv, NEW t \in Toplevels, RequestFullscreen(t)
    PROVE  FrameAround(t)' /\ GrabHolds(t)'
<1>1. /\ node'[t] = Origin
      /\ frame'[t] = FrameAt(frame[t], Origin)
      /\ size'[t] = size[t] /\ grab'[t] = grab[t]
      /\ t \in views
  BY DEF PlaceInv, TypeOK, RequestFullscreen
<1>2. FrameAround(t)'
  <2>1. SUFFICES ASSUME Sized(size[t])
                 PROVE  FrameAt(frame[t], Origin)
                            = FrameAt(AlignedFrame(Origin, size[t]), Origin)
    BY <1>1 DEF FrameAround
  <2>2. CASE frame[t] = AlignedFrame(node[t], size[t])
    BY <2>2 DEF AlignedFrame, FrameAt
  <2>3. CASE frame[t] = FrameAt(AlignedFrame(Origin, size[t]), Origin)
    BY <2>3 DEF AlignedFrame, FrameAt
  <2> QED
    BY <1>1, <2>1, <2>2, <2>3 DEF PlaceInv, FrameAround
<1>3. GrabHolds(t)'
  BY <1>1 DEF GrabHolds, Origin
<1> QED
  BY <1>2, <1>3

LEMMA UnmapPlaceHolds ==
    ASSUME PlaceInv, NEW t \in Toplevels, UnmapCommit(t)
    PROVE  FrameAround(t)' /\ GrabHolds(t)'
<1>1. /\ node'[t] = node[t] /\ grab'[t] = grab[t]
      /\ ~ Sized(size'[t])
  BY DEF PlaceInv, TypeOK, UnmapCommit, sceneVars, Sized, NoSize
<1> QED
  BY <1>1 DEF PlaceInv, FrameAround, GrabHolds

\* Taking hold of a window at its edges, by a press or a client's request.
LEMMA FreshGrabHolds ==
    ASSUME PlaceInv, NEW t \in Toplevels, NEW edges,
           UNCHANGED <<node, size>>,
           grab'[t] = ResizeGrab(cursor, node[t], size[t], edges)
    PROVE  GrabHolds(t)'
<1>1. /\ grab'[t].at = node'[t] /\ grab'[t].win = size'[t]
  BY DEF ResizeGrab
<1>2. node'[t] \in Point /\ size'[t] \in Size
  BY DEF PlaceInv, TypeOK
<1> QED
  BY <1>1, <1>2 DEF GrabHolds, RightFixed, BottomFixed, Point, Size

LEMMA DragPlaceHolds ==
    ASSUME PlaceInv, NEW p \in Points, NEW v \in Toplevels, v = ViewAt(p),
           GrabbedAt(p, "move"), PointerMotion(p), DragMove(v, p)
    PROVE  FrameAround(v)' /\ GrabHolds(v)'
<1>1. /\ frame'[v] = UpdatedBorders(v, node'[v], size[v])
      /\ UNCHANGED <<size, grab>>
  BY DEF PlaceInv, TypeOK, PointerMotion, DragMove
<1>2. FrameAround(v)'
  BY <1>1 DEF FrameAround, UpdatedBorders
<1>3. GrabHolds(v)'
  BY <1>1 DEF GrabHolds, GrabbedAt
<1> QED
  BY <1>2, <1>3

\* The clauses of PlaceInv a step has to keep up besides TypeOK.
PlaceClauses ==
    /\ \A t \in views : FrameAround(t)
    /\ \A t \in Toplevels : GrabHolds(t)
    /\ \A t \in Toplevels \ views : /\ grab[t].kind # "resize"
                                    /\ ~ Sized(size[t])

\* A step of one view that leaves the others alone.
LEMMA OneViewPlace ==
    ASSUME PlaceInv, NEW v \in Toplevels, UNCHANGED views, v \in views,
           FrameAround(v)' /\ GrabHolds(v)',
           \A t \in Toplevels \ {v} : PlaceUntouched(t)
    PROVE  PlaceClauses'
<1>1. ASSUME NEW t \in Toplevels, t # v PROVE GrabHolds(t)'
  BY <1>1 DEF PlaceInv, PlaceUntouched, GrabHolds, RightFixed, BottomFixed
<1>2. ASSUME NEW t \in views, t # v PROVE FrameAround(t)'
  BY <1>2 DEF PlaceInv, TypeOK, PlaceUntouched, FrameAround
<1>3. ASSUME NEW t \in Toplevels \ views
      PROVE  grab'[t].kind # "resize" /\ ~ Sized(size'[t])
  BY <1>3 DEF PlaceInv, PlaceUntouched
<1> QED
  BY <1>1, <1>2, <1>3 DEF PlaceClauses

LEMMA NoViewPlace ==
    ASSUME PlaceInv, UNCHANGED <<views, node, frame, size, grab>>
    PROVE  PlaceClauses'
BY DEF PlaceInv, PlaceClauses, FrameAround, GrabHolds, RightFixed, BottomFixed

LEMMA ClientPlace ==
    ASSUME PlaceInv, NEW t \in Toplevels, ClientStep(t)
    PROVE  PlaceClauses'
<1>1. CASE NewToplevel(t)
  <2>1. /\ UNCHANGED <<node, frame, size, grab>>
        /\ views' = views \cup {t}
        /\ ~ Sized(size[t])
    BY <1>1 DEF PlaceInv, NewToplevel, xdgVars, loopVars
  <2>2. FrameAround(t)'
    BY <2>1 DEF FrameAround
  <2> QED
    BY <2>1, <2>2
       DEF PlaceInv, PlaceClauses, FrameAround, GrabHolds, RightFixed,
           BottomFixed
<1>2. CASE ToplevelDestroyed(t) \/ ClientGone(t)
  <2>1. /\ grab'[t] = NoGrab /\ size'[t] = NoSize
        /\ views' = views \ {t}
        /\ \A u \in Toplevels \ {t} : PlaceUntouched(u)
    <3>1. ViewDestroyed(t)
      BY <1>2 DEF ToplevelDestroyed, ClientGone
    <3> QED
      BY <3>1 DEF PlaceInv, TypeOK, ViewDestroyed, PlaceUntouched, loopVars
  <2>2. grab'[t].kind # "resize" /\ ~ Sized(size'[t])
    BY <2>1 DEF NoGrab, NoSize, Sized
  <2>3. GrabHolds(t)'
    BY <2>2 DEF GrabHolds
  <2>4. ASSUME NEW u \in Toplevels, u # t PROVE GrabHolds(u)'
    BY <2>1, <2>4 DEF PlaceInv, PlaceUntouched, GrabHolds, RightFixed, BottomFixed
  <2>5. ASSUME NEW u \in views, u # t PROVE FrameAround(u)'
    BY <2>1, <2>5 DEF PlaceInv, TypeOK, PlaceUntouched, FrameAround
  <2>6. ASSUME NEW u \in Toplevels \ views'
        PROVE  grab'[u].kind # "resize" /\ ~ Sized(size'[u])
    BY <2>1, <2>2, <2>6 DEF PlaceInv, PlaceUntouched
  <2> QED
    BY <2>1, <2>3, <2>4, <2>5, <2>6 DEF PlaceClauses
<1>3. CASE InitialCommit(t) \/ Commit(t)
  <2>1. /\ t \in views /\ UNCHANGED views
        /\ \A u \in Toplevels \ {t} : PlaceUntouched(u)
    BY <1>3 DEF PlaceInv, TypeOK, InitialCommit, Commit, CommitHandler, PlaceUntouched,
                loopVars
  <2> QED
    BY <1>3, <2>1, CommitPlaceHolds, OneViewPlace
<1>4. CASE UnmapCommit(t)
  <2>1. /\ t \in views /\ UNCHANGED views
        /\ \A u \in Toplevels \ {t} : PlaceUntouched(u)
    BY <1>4 DEF PlaceInv, TypeOK, UnmapCommit, PlaceUntouched, sceneVars, loopVars
  <2> QED
    BY <1>4, <2>1, UnmapPlaceHolds, OneViewPlace
<1>5. CASE RequestMove(t) \/ RequestResize(t)
  <2>1. /\ t \in views /\ UNCHANGED <<views, node, frame, size>>
        /\ \A u \in Toplevels \ {t} : PlaceUntouched(u)
    BY <1>5 DEF PlaceInv, TypeOK, RequestMove, RequestResize, PlaceUntouched, sceneVars,
                xdgVars, loopVars
  <2>2. FrameAround(t)'
    BY <2>1 DEF PlaceInv, FrameAround
  <2>3. CASE RequestMove(t)
    <3>1. grab'[t].kind # "resize"
      BY <2>3 DEF PlaceInv, TypeOK, RequestMove, MoveGrab, NoGrab
    <3>2. GrabHolds(t)'
      BY <3>1 DEF GrabHolds
    <3> QED
      BY <2>1, <2>2, <3>2, OneViewPlace
  <2>4. CASE RequestResize(t)
    <3>1. PICK edges \in EdgeSets :
              grab'[t] = ResizeGrab(cursor, node[t], size[t], edges)
      BY <2>4 DEF PlaceInv, TypeOK, RequestResize
    <3>2. GrabHolds(t)'
      BY <2>1, <3>1, FreshGrabHolds
    <3> QED
      BY <2>1, <2>2, <3>2, OneViewPlace
  <2> QED
    BY <1>5, <2>3, <2>4
<1>6. CASE RequestFullscreen(t)
  <2>1. /\ t \in views /\ UNCHANGED views
        /\ \A u \in Toplevels \ {t} : PlaceUntouched(u)
    BY <1>6 DEF PlaceInv, TypeOK, RequestFullscreen, PlaceUntouched, loopVars
  <2> QED
    BY <1>6, <2>1, FullscreenPlaceHolds, OneViewPlace
<1>7. CASE RequestMaximize(t) \/ SurfaceDestroyed(t)
  BY <1>7, NoViewPlace DEF RequestMaximize, SurfaceDestroyed, xdgVars, sceneVars, loopVars
<1> QED
  BY <1>1, <1>2, <1>3, <1>4, <1>5, <1>6, <1>7 DEF ClientStep

LEMMA SeatPlace ==
    ASSUME PlaceInv, SeatStep
    PROVE  PlaceClauses'
<1>1. ASSUME NEW p \in Points, PointerMotion(p) PROVE PlaceClauses'
  <2>1. CASE GrabbedAt(p, "move") /\ DragMove(ViewAt(p), p)
    <3>1. PICK v \in Toplevels : v = ViewAt(p) /\ v \in views
      BY <2>1, ViewAtType DEF PlaceInv, TypeOK, GrabbedAt
    <3>2. FrameAround(v)' /\ GrabHolds(v)'
      BY <1>1, <2>1, <3>1, DragPlaceHolds
    <3>3. /\ UNCHANGED views
          /\ \A u \in Toplevels \ {v} : PlaceUntouched(u)
      BY <1>1, <2>1, <3>1
         DEF PlaceInv, TypeOK, PointerMotion, DragMove, PlaceUntouched, loopVars
    <3> QED
      BY <3>1, <3>2, <3>3, OneViewPlace
  <2>2. CASE DragResize(ViewAt(p), p) \/ Hover(p)
    BY <1>1, <2>2, NoViewPlace DEF PointerMotion, DragResize, Hover, loopVars
  <2> QED
    BY <1>1, <2>1, <2>2 DEF PointerMotion
<1>2. CASE ButtonPress
  <2>1. PICK v \in Toplevels : v = ViewAt(cursor) /\ v \in views
    BY <1>2, ViewAtType DEF PlaceInv, TypeOK, ButtonPress
  <2>2. /\ UNCHANGED <<views, node, frame, size>>
        /\ grab' = [grab EXCEPT ![v] = Pressed(v)]
        /\ \A u \in Toplevels \ {v} : PlaceUntouched(u)
    BY <1>2, <2>1
       DEF PlaceInv, TypeOK, ButtonPress, PlaceUntouched, sceneVars, xdgVars, loopVars
  <2>3. FrameAround(v)'
    BY <2>1, <2>2 DEF PlaceInv, FrameAround
  <2>4. grab'[v] = Pressed(v)
    BY <2>1, <2>2 DEF PlaceInv, TypeOK
  <2>5. GrabHolds(v)'
    <3>1. CASE grab'[v] = ResizeGrab(cursor, node[v], size[v],
                                     GrabEdges(cursor, node[v], size[v]))
      BY <2>2, <3>1, FreshGrabHolds
    <3>2. CASE grab'[v] = MoveGrab(cursor, node[v])
      BY <3>2 DEF GrabHolds, MoveGrab, NoGrab
    <3>3. CASE grab'[v] = grab[v]
      BY <2>2, <3>3 DEF PlaceInv, GrabHolds, RightFixed, BottomFixed
    <3> QED
      BY <2>4, <3>1, <3>2, <3>3 DEF Pressed
  <2> QED
    BY <2>1, <2>2, <2>3, <2>5, OneViewPlace
<1>3. CASE ButtonRelease
  <2>1. PICK v \in Toplevels : v = ViewAt(cursor) /\ v \in views
    BY <1>3, ViewAtType DEF PlaceInv, TypeOK, ButtonRelease
  <2>2. /\ UNCHANGED <<views, node, frame, size>>
        /\ grab'[v] = NoGrab
        /\ \A u \in Toplevels \ {v} : PlaceUntouched(u)
    BY <1>3, <2>1
       DEF PlaceInv, TypeOK, ButtonRelease, PlaceUntouched, sceneVars, xdgVars, loopVars
  <2>3. FrameAround(v)' /\ GrabHolds(v)'
    BY <2>1, <2>2 DEF PlaceInv, FrameAround, GrabHolds, NoGrab
  <2> QED
    BY <2>1, <2>2, <2>3, OneViewPlace
<1>4. CASE Quit \/ ToggleFullscreen \/ ToggleFloating
  BY <1>4, NoViewPlace
     DEF Quit, ToggleFullscreen, ToggleFloating, sceneVars, xdgVars, loopVars
<1> QED
  BY <1>1, <1>2, <1>3, <1>4 DEF SeatStep

LEMMA LoopPlace ==
    ASSUME PlaceInv, LoopStep, Tick => NoMoves
    PROVE  PlaceClauses'
<1>1. CASE NewOutput
  BY <1>1, NoViewPlace DEF NewOutput, sceneVars, xdgVars
<1>2. CASE Tick
  <2>1. ASSUME NEW t \in Toplevels PROVE ~ Ticked(t)
    BY <1>2 DEF NoMoves, Ticked
  <2>2. node' = node /\ frame' = frame
    BY <1>2, <2>1 DEF PlaceInv, TypeOK, Tick
  <2> QED
    BY <1>2, <2>2, NoViewPlace DEF Tick
<1>3. ASSUME NEW t \in Toplevels, SendConfigure(t) PROVE PlaceClauses'
  BY <1>3, NoViewPlace DEF SendConfigure, sceneVars, loopVars
<1> QED
  BY <1>1, <1>2, <1>3 DEF LoopStep

LEMMA StepPlaceInv == PlaceInv /\ [Next]_vars /\ (Tick => NoMoves) => PlaceInv'
<1> SUFFICES ASSUME PlaceInv, [Next]_vars, Tick => NoMoves
             PROVE  PlaceInv'
  OBVIOUS
<1>1. TypeOK'
  BY StepTypeOK DEF PlaceInv
<1>2. PlaceClauses'
  <2>1. CASE UNCHANGED vars
    BY <2>1, NoViewPlace DEF vars, sceneVars, xdgVars, loopVars
  <2> QED
    BY <2>1, ClientPlace, SeatPlace, LoopPlace DEF Next
<1> QED
  BY <1>1, <1>2 DEF PlaceInv, PlaceClauses

LEMMA InitPlaceInv == Init => PlaceInv
<1> SUFFICES ASSUME Init PROVE PlaceInv
  OBVIOUS
<1>1. TypeOK
  BY InitTypeOK
<1>2. ASSUME NEW t \in Toplevels
      PROVE  grab[t].kind # "resize" /\ ~ Sized(size[t])
  BY DEF Init, NoGrab, NoSize, Sized
<1>3. views = {}
  BY DEF Init
<1> QED
  BY <1>1, <1>2, <1>3 DEF PlaceInv, GrabHolds

\* While the timer has not fired, and when it finds nothing to move.
LEMMA StepPlace ==
    /\ PlaceInv /\ [Next]_vars /\ [Tick => NoMoves]_vars => PlaceInv'
    /\ (timer => PlaceInv) /\ [Next]_vars => (timer => PlaceInv)'
<1>1. Tick => vars' # vars /\ ~ timer'
  BY DEF Tick, vars, loopVars
<1>2. [Next]_vars /\ timer' => timer
  BY DEF Next, ClientStep, SeatStep, LoopStep, NewToplevel, ToplevelDestroyed,
         SurfaceDestroyed, ClientGone, ViewDestroyed, InitialCommit, Commit, UnmapCommit, RequestMove, RequestResize,
         RequestFullscreen, RequestMaximize, PointerMotion, ButtonPress, ButtonRelease,
         Quit, ToggleFullscreen, ToggleFloating, NewOutput, SendConfigure, Tick, vars,
         loopVars
<1> QED
  BY <1>1, <1>2, StepPlaceInv

LEMMA PlacesAreRight == PlaceInv => FrameFollowsView /\ ResizeKeepsOppositeEdge
BY DEF PlaceInv, TypeOK, FrameAround, GrabHolds, FrameFollowsView,
       ResizeKeepsOppositeEdge

\* Until the timer fires, whatever keys there are and whatever is toggled, every
\* window that shows something has its frame around it, and a resize moves no edge
\* it did not take hold of.
THEOREM PlacesRightUntilTick ==
    Spec => [](timer => FrameFollowsView /\ ResizeKeepsOppositeEdge)
<1>1. (timer => PlaceInv) => (timer => FrameFollowsView /\ ResizeKeepsOppositeEdge)
  BY PlacesAreRight
<1>2. Init => (timer => PlaceInv)
  BY InitPlaceInv
<1> QED
  BY <1>1, <1>2, StepPlace, PTL DEF Spec

\* Without a fullscreen key a tick has nothing to move.
LEMMA NothingToMove ==
    ASSUME "fullscreen" \notin KeyActions
    PROVE  Spec => TickMovesNothing
<1>1. Init => NoMoves
  BY DEF Init, NoMoves
<1>2. NoMoves /\ [Next]_vars => NoMoves'
  BY DEF NoMoves, Next, ClientStep, SeatStep, LoopStep, NewToplevel, ToplevelDestroyed,
         SurfaceDestroyed, ClientGone, ViewDestroyed, InitialCommit, Commit, UnmapCommit, RequestMove, RequestResize,
         RequestFullscreen, RequestMaximize, PointerMotion, ButtonPress, ButtonRelease,
         Quit, ToggleFullscreen, BoundKey, ToggleFloating, NewOutput, SendConfigure,
         Tick, vars, modeVars, loopVars
<1>3. NoMoves => [Tick => NoMoves]_vars
  OBVIOUS
<1> QED
  BY <1>1, <1>2, <1>3, PTL DEF Spec, TickMovesNothing

\* Unless a window is toggled before the timer fires, which nobody can without a
\* key for it, every window that shows something always has its frame around it,
\* whatever it was dragged, resized, unmapped and committed through, or has been
\* put on the origin with it by a fullscreen request.
THEOREM FrameAlwaysFollowsView ==
    /\ Spec /\ TickMovesNothing => []FrameFollowsView
    /\ "fullscreen" \notin KeyActions => (Spec => []FrameFollowsView)
<1>1. Spec /\ TickMovesNothing => []FrameFollowsView
  BY InitPlaceInv, StepPlace, PlacesAreRight, PTL DEF Spec, TickMovesNothing
<1>2. ASSUME "fullscreen" \notin KeyActions PROVE Spec => []FrameFollowsView
  <2>1. Spec => TickMovesNothing
    BY <1>2, NothingToMove
  <2> QED
    BY <1>1, <2>1, PTL
<1> QED
  BY <1>1, <1>2

\* Likewise, a resize never moves an edge it did not take hold of, whatever the
\* order of motions, commits and configure events.
THEOREM ResizeAlwaysKeepsEdges ==
    /\ Spec /\ TickMovesNothing => []ResizeKeepsOppositeEdge
    /\ "fullscreen" \notin KeyActions => (Spec => []ResizeKeepsOppositeEdge)
<1>1. Spec /\ TickMovesNothing => []ResizeKeepsOppositeEdge
  BY InitPlaceInv, StepPlace, PlacesAreRight, PTL DEF Spec, TickMovesNothing
<1>2. ASSUME "fullscreen" \notin KeyActions PROVE Spec => []ResizeKeepsOppositeEdge
  <2>1. Spec => TickMovesNothing
    BY <1>2, NothingToMove
  <2> QED
    BY <1>1, <2>1, PTL
<1> QED
  BY <1>1, <1>2

\* What PressTakesEdge says of one press.
EdgeTaken ==
    LET v == ViewAt(cursor)
    IN  \/ \E edges \in (SUBSET Edges) \ {{}} :
              grab'[v] = ResizeGrab(cursor, node[v], size[v], edges)
        \/ ~ Sized(size[v])
        \/ /\ node[v] = Origin
           /\ frame[v] = FrameAt(AlignedFrame(Origin, size[v]), Origin)

LEMMA PressEdgeTaken == PlaceInv /\ ButtonPress => EdgeTaken
<1> SUFFICES ASSUME PlaceInv, ButtonPress PROVE EdgeTaken
  OBVIOUS
<1>1. PICK v \in Toplevels : /\ v = ViewAt(cursor) /\ v \in views
                             /\ OnFrame(cursor, frame[v])
  BY ViewAtType DEF PlaceInv, TypeOK, ButtonPress, ViewAt
<1>2. grab'[v] = Pressed(v)
  BY <1>1 DEF PlaceInv, TypeOK, ButtonPress
<1> DEFINE edges == GrabEdges(cursor, node[v], size[v])
<1>3. CASE Sized(size[v]) /\ frame[v] = AlignedFrame(node[v], size[v])
  <2>1. cursor \in Point /\ node[v] \in Point /\ size[v] \in Size
    BY <1>1 DEF PlaceInv, TypeOK
  <2>2. edges # {}
    BY <1>1, <1>3, <2>1, AlignedFrameHasEdges
  <2>3. edges \in (SUBSET Edges) \ {{}}
    BY <2>2 DEF GrabEdges
  <2>4. grab'[v] = ResizeGrab(cursor, node[v], size[v], edges)
    BY <1>2, <2>2 DEF Pressed
  <2> HIDE DEF edges
  <2> QED
    BY <1>1, <2>3, <2>4 DEF EdgeTaken
<1> QED
  BY <1>1, <1>3 DEF PlaceInv, FrameAround, EdgeTaken

\* Likewise, a press on the frame of a window that shows something takes hold of it
\* by an edge: the branch of the button listener for the title strip is reached only
\* where a fullscreen request has put window and frame on one point, and for a
\* window that shows nothing.
THEOREM PressAlwaysTakesEdge ==
    /\ Spec /\ TickMovesNothing => PressTakesEdge
    /\ "fullscreen" \notin KeyActions => (Spec => PressTakesEdge)
<1>1. Spec /\ TickMovesNothing => PressTakesEdge
  <2>1. PlaceInv => [ButtonPress => EdgeTaken]_vars
    BY PressEdgeTaken
  <2> QED
    BY <2>1, InitPlaceInv, StepPlace, PTL
       DEF Spec, TickMovesNothing, PressTakesEdge, EdgeTaken
<1>2. ASSUME "fullscreen" \notin KeyActions PROVE Spec => PressTakesEdge
  <2>1. Spec => TickMovesNothing
    BY <1>2, NothingToMove
  <2> QED
    BY <1>1, <2>1, PTL
<1> QED
  BY <1>1, <1>2

-----------------------------------------------------------------------------
(* With moves: toggles that wait for the animation timer                   *)

\* The last toggle queued for a live view is the one that made its mode, and
\* nothing is queued once the timer has fired.
QueueAgrees ==
    /\ \A t \in views : anims[t] # << >> =>
          anims[t][Len(anims[t])].enter = fullscreen[t]
    /\ ~ timer => \A t \in Toplevels : anims[t] = << >>

ToggleInv == TypeOK /\ QueueAgrees

LEMMA UntouchedQueue ==
    QueueAgrees /\ UNCHANGED <<views, timer, anims, fullscreen>> => QueueAgrees'
BY DEF QueueAgrees

LEMMA AppendIsLast ==
    ASSUME NEW s \in Seq(Moves), NEW m \in Moves
    PROVE  Append(s, m)[Len(Append(s, m))] = m
OBVIOUS

LEMMA ToggleQueue ==
    ASSUME ToggleInv, ToggleFullscreen
    PROVE  QueueAgrees'
<1> DEFINE v == focusedView
<1>1. v \in Toplevels
  BY DEF ToggleInv, TypeOK, ToggleFullscreen
<1>2. /\ fullscreen' = [fullscreen EXCEPT ![v] = ~ fullscreen[v]]
      /\ UNCHANGED <<views, timer>>
  BY DEF ToggleFullscreen, sceneVars
<1>3. CASE timer
  <2>1. anims' = [anims EXCEPT ![v] = Append(anims[v], QueuedMoves(v))]
    BY <1>3 DEF ToggleFullscreen
  <2>2. anims[v] \in Seq(Moves) /\ QueuedMoves(v) \in Moves
    BY <1>1 DEF ToggleInv, TypeOK, QueuedMoves, Moves, Origin, Point
  <2>3. ASSUME NEW t \in views, t = v
        PROVE  anims'[t][Len(anims'[t])].enter = fullscreen'[t]
    <3>1. anims'[t] = Append(anims[v], QueuedMoves(v))
      BY <1>1, <2>1, <2>3 DEF ToggleInv, TypeOK
    <3>2. anims'[t][Len(anims'[t])] = QueuedMoves(v)
      BY <2>2, <3>1, AppendIsLast
    <3>3. fullscreen'[t] = ~ fullscreen[v]
      BY <1>1, <1>2, <2>3 DEF ToggleInv, TypeOK
    <3> QED
      BY <3>2, <3>3 DEF QueuedMoves
  <2>4. ASSUME NEW t \in views, t # v, anims'[t] # << >>
        PROVE  anims'[t][Len(anims'[t])].enter = fullscreen'[t]
    <3>1. anims'[t] = anims[t] /\ fullscreen'[t] = fullscreen[t]
      BY <1>2, <2>1, <2>4 DEF ToggleInv, TypeOK
    <3> QED
      BY <2>4, <3>1 DEF ToggleInv, QueueAgrees
  <2> QED
    BY <1>2, <1>3, <2>3, <2>4 DEF QueueAgrees
<1>4. CASE ~ timer
  <2>1. UNCHANGED anims
    BY <1>4 DEF ToggleFullscreen
  <2>2. \A t \in Toplevels : anims[t] = << >>
    BY <1>4 DEF ToggleInv, QueueAgrees
  <2> QED
    BY <1>2, <1>4, <2>1, <2>2 DEF ToggleInv, TypeOK, QueueAgrees
<1> QED
  BY <1>3, <1>4 DEF ToggleInv, TypeOK

LEMMA StepQueue == ToggleInv /\ [Next]_vars => QueueAgrees'
<1> SUFFICES ASSUME ToggleInv, [Next]_vars PROVE QueueAgrees'
  OBVIOUS
<1>1. ASSUME NEW t \in Toplevels, ClientStep(t) PROVE QueueAgrees'
  <2>1. CASE NewToplevel(t)
    BY <2>1 DEF ToggleInv, QueueAgrees, NewToplevel, modeVars, loopVars
  <2>2. CASE ToplevelDestroyed(t) \/ ClientGone(t)
    BY <2>2 DEF ToggleInv, TypeOK, QueueAgrees, ToplevelDestroyed, ClientGone,
                ViewDestroyed, loopVars
  <2>3. CASE InitialCommit(t) \/ Commit(t) \/ UnmapCommit(t)
    <3>1. UNCHANGED <<views, timer, anims, fullscreen>>
      BY <2>3 DEF InitialCommit, Commit, UnmapCommit, sceneVars, modeVars, loopVars
    <3> QED
      BY <3>1, UntouchedQueue DEF ToggleInv
  <2>4. CASE RequestMove(t) \/ RequestResize(t) \/ RequestFullscreen(t)
             \/ RequestMaximize(t) \/ SurfaceDestroyed(t)
    <3>1. UNCHANGED <<views, timer, anims, fullscreen>>
      BY <2>4 DEF RequestMove, RequestResize, RequestFullscreen, RequestMaximize,
                  SurfaceDestroyed, sceneVars, modeVars, loopVars
    <3> QED
      BY <3>1, UntouchedQueue DEF ToggleInv
  <2> QED
    BY <1>1, <2>1, <2>2, <2>3, <2>4 DEF ClientStep
<1>2. ASSUME SeatStep PROVE QueueAgrees'
  <2>1. CASE ~ ToggleFullscreen
    <3>1. UNCHANGED <<views, timer, anims, fullscreen>>
      BY <1>2, <2>1 DEF SeatStep, PointerMotion, ButtonPress, ButtonRelease, Quit,
                  ToggleFloating, sceneVars, modeVars, loopVars
    <3> QED
      BY <3>1, UntouchedQueue DEF ToggleInv
  <2> QED
    BY <2>1, ToggleQueue
<1>3. ASSUME LoopStep PROVE QueueAgrees'
  <2>1. CASE Tick
    BY <2>1 DEF ToggleInv, TypeOK, QueueAgrees, Tick
  <2>2. CASE NewOutput \/ \E t \in Toplevels : SendConfigure(t)
    <3>1. UNCHANGED <<views, timer, anims, fullscreen>>
      BY <2>2 DEF NewOutput, SendConfigure, sceneVars, modeVars, loopVars
    <3> QED
      BY <3>1, UntouchedQueue DEF ToggleInv
  <2> QED
    BY <1>3, <2>1, <2>2 DEF LoopStep
<1>4. CASE UNCHANGED vars
  BY <1>4, UntouchedQueue DEF ToggleInv, vars, sceneVars, modeVars, loopVars
<1> QED
  BY <1>1, <1>2, <1>3, <1>4 DEF Next

\* What LastToggleWins says of one step.
TickTellsMode ==
    timer /\ ~ timer' =>
        \A t \in views : anims[t] # << >> =>
            /\ scheduled'[t].fullscreen = fullscreen[t]
            /\ fullscreen[t] => scheduled'[t].size = outputSize

LEMMA StepTellsMode == ToggleInv /\ [Next]_vars => TickTellsMode
<1> SUFFICES ASSUME ToggleInv, [Next]_vars, timer, ~ timer'
             PROVE  TickTellsMode
  BY DEF TickTellsMode
<1>1. Tick
  BY DEF Next, ClientStep, SeatStep, LoopStep, NewToplevel, ToplevelDestroyed,
         SurfaceDestroyed, ClientGone, ViewDestroyed, InitialCommit, Commit, UnmapCommit, RequestMove, RequestResize,
         RequestFullscreen, RequestMaximize, PointerMotion, ButtonPress, ButtonRelease,
         Quit, ToggleFullscreen, ToggleFloating, NewOutput, SendConfigure, vars, loopVars
<1>2. ASSUME NEW t \in views, anims[t] # << >>
      PROVE  /\ scheduled'[t].fullscreen = fullscreen[t]
             /\ fullscreen[t] => scheduled'[t].size = outputSize
  <2>1. t \in Toplevels /\ Ticked(t)
    BY <1>2 DEF ToggleInv, TypeOK, Ticked
  <2>2. scheduled'[t] = TickedSchedule(t)
    BY <1>1, <2>1 DEF Tick
  <2>3. /\ anims[t] \in Seq(Moves)
        /\ scheduled[t] \in Schedules
    BY <2>1 DEF ToggleInv, TypeOK
  <2>4. Len(anims[t]) \in DOMAIN anims[t]
    BY <1>2, <2>3
  <2>5. anims[t][Len(anims[t])].enter = fullscreen[t]
    BY <1>2 DEF ToggleInv, QueueAgrees
  <2>6. fullscreen[t] => EntersOf(t) # {}
    BY <2>4, <2>5 DEF EntersOf
  <2> QED
    BY <2>2, <2>3, <2>5, <2>6 DEF TickedSchedule, Schedules
<1> QED
  BY <1>2 DEF TickTellsMode

\* Whatever was toggled, requested, moved or destroyed before the timer fired, the
\* tick schedules for every toggled view the mode it is in, with the output's size.
THEOREM LastToggleAlwaysWins == Spec => LastToggleWins
<1>1. Init => ToggleInv
  BY InitTypeOK DEF Init, ToggleInv, QueueAgrees
<1>2. ToggleInv /\ [Next]_vars => ToggleInv'
  BY StepTypeOK, StepQueue DEF ToggleInv
<1>3. ToggleInv /\ [Next]_vars => [TickTellsMode]_vars
  BY StepTellsMode
<1> QED
  BY <1>1, <1>2, <1>3, PTL DEF Spec, LastToggleWins, TickTellsMode
=============================================================================
