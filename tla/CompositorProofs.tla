--------------------------- MODULE CompositorProofs ---------------------------
(***************************************************************************)
(* Theorems about Compositor, for every set of toplevels, sizes, cursor    *)
(* positions and outputs and every value of the bounds.                    *)
(***************************************************************************)
EXTENDS Compositor, TLAPS

-----------------------------------------------------------------------------
(* Facts about the geometry                                                *)

\* A point of a frame that is laid out around its window is near one of its edges,
\* whatever the margin is.
LEMMA AlignedFrameHasEdges ==
    ASSUME NEW p \in Point, NEW at \in Point, NEW s \in Size, Sized(s),
           OnFrame(p, AlignedFrame(at, s))
    PROVE  GrabEdges(p, at, s) # {}
<1>1. \/ p.x <= at.x
      \/ p.x >= at.x + s.w
      \/ p.y <= at.y
      \/ p.y >= at.y + s.h
  BY BorderWidthAssumption DEF OnFrame, AlignedFrame, Within, Sized, Point, Size
<1>2. /\ at.x - BorderWidth <= p.x /\ p.x <= at.x + s.w + BorderWidth
      /\ at.y - BorderWidth <= p.y /\ p.y <= at.y + s.h + BorderWidth
  BY BorderWidthAssumption DEF OnFrame, AlignedFrame, Within, Sized, Point, Size
<1>3. CASE p.x <= at.x
  <2>1. "left" \in GrabEdges(p, at, s)
    BY <1>2, <1>3, MarginAssumption, BorderWidthAssumption
       DEF GrabEdges, Edges, Point, Size
  <2> QED BY <2>1
<1>4. CASE p.x >= at.x + s.w
  <2>1. "right" \in GrabEdges(p, at, s)
    BY <1>2, <1>4, MarginAssumption, BorderWidthAssumption
       DEF GrabEdges, Edges, Point, Size
  <2> QED BY <2>1
<1>5. CASE p.y <= at.y
  <2>1. "top" \in GrabEdges(p, at, s)
    BY <1>2, <1>5, MarginAssumption, BorderWidthAssumption
       DEF GrabEdges, Edges, Point, Size
  <2> QED BY <2>1
<1>6. CASE p.y >= at.y + s.h
  <2>1. "bottom" \in GrabEdges(p, at, s)
    BY <1>2, <1>6, MarginAssumption, BorderWidthAssumption
       DEF GrabEdges, Edges, Point, Size
  <2> QED BY <2>1
<1> QED BY <1>1, <1>3, <1>4, <1>5, <1>6

-----------------------------------------------------------------------------
(* Type correctness                                                        *)

LEMMA ViewAtType == ASSUME NEW p PROVE ViewAt(p) \in views \cup {NoView}
BY DEF ViewAt, TopAt

LEMMA SurfaceAtType == ASSUME NEW p PROVE SurfaceAt(p) \in views \cup {NoView}
BY DEF SurfaceAt, TopAt

LEMMA InitialTypes ==
    /\ Origin \in Point
    /\ NoSize \in Size
    /\ FreshFrame \in Frame
    /\ NoGrab \in Grabs
    /\ NotScheduled \in Schedules
<1>1. Origin \in Point /\ NoSize \in Size /\ FreshFrame \in Frame
  BY DEF Origin, NoSize, FreshFrame, Point, Size, Frame
<1> QED
  BY <1>1 DEF NoGrab, NotScheduled, Grabs, Schedules

LEMMA InitTypeOK == Init => TypeOK
BY OutputAssumption, InitialTypes DEF Init, TypeOK

LEMMA NewToplevelType ==
    ASSUME TypeOK, NEW t \in Toplevels, NewToplevel(t) PROVE TypeOK'
<1>1. /\ isFocused' \in [Toplevels -> BOOLEAN]
      /\ highlit' \in [Toplevels -> BOOLEAN]
      /\ focusedView' \in Toplevels \cup {NoView}
  BY DEF TypeOK, NewToplevel, SetFocusedView, Marked, focusVars
<1>2. under' \subseteq views' \X views'
  BY DEF TypeOK, NewToplevel
<1> QED
  BY <1>1, <1>2
     DEF TypeOK, NewToplevel, xdgVars, seatVars, modeVars, loopVars

LEMMA ForgetType ==
    ASSUME TypeOK, NEW t \in Toplevels, SeatForgets(t)
    PROVE  /\ kbFocus' \in Toplevels \cup {NoView}
           /\ ptrFocus' \in Toplevels \cup {NoView}
BY DEF TypeOK, SeatForgets, Forget

LEMMA DestroyedType ==
    ASSUME TypeOK, NEW t \in Toplevels, ToplevelDestroyed(t) \/ ClientGone(t)
    PROVE  TypeOK'
<1>0. ViewDestroyed(t)
  BY DEF ToplevelDestroyed, ClientGone
<1>1. under' \subseteq views' \X views'
  BY <1>0 DEF TypeOK, ViewDestroyed, Without
<1>2. /\ node' \in [Toplevels -> Point]
      /\ frame' \in [Toplevels -> Frame]
      /\ saved' \in [Toplevels -> Point]
  BY <1>0, InitialTypes DEF TypeOK, ViewDestroyed
<1>3. /\ size' \in [Toplevels -> Size]
      /\ scheduled' \in [Toplevels -> Schedules]
      /\ grab' \in [Toplevels -> Grabs]
  BY <1>0, InitialTypes DEF TypeOK, ViewDestroyed
<1>4. focusedView' \in Toplevels \cup {NoView}
  BY <1>0 DEF TypeOK, ViewDestroyed, Forget
<1>5. /\ kbFocus' \in Toplevels \cup {NoView}
      /\ ptrFocus' \in Toplevels \cup {NoView}
  BY ForgetType DEF TypeOK, ToplevelDestroyed, ClientGone
<1> QED
  BY <1>0, <1>1, <1>2, <1>3, <1>4, <1>5 DEF TypeOK, ViewDestroyed, loopVars

LEMMA SurfaceDestroyedType ==
    ASSUME TypeOK, NEW t \in Toplevels, SurfaceDestroyed(t) PROVE TypeOK'
BY ForgetType
   DEF TypeOK, SurfaceDestroyed, xdgVars, sceneVars, focusVars, modeVars, loopVars

LEMMA FrameAtType ==
    ASSUME NEW f \in Frame, NEW p \in Point
    PROVE  FrameAt(f, p) \in Frame
<1>1. p.x \in Int /\ p.y \in Int
  BY DEF Point
<1> QED
  BY <1>1 DEF FrameAt, Frame

LEMMA AlignedFrameType ==
    ASSUME NEW at \in Point, NEW s \in Size
    PROVE  AlignedFrame(at, s) \in Frame
<1>1. /\ at.x - BorderWidth \in Int /\ at.y - BorderWidth \in Int
      /\ s.w \in Nat /\ s.h \in Nat
  BY BorderWidthAssumption DEF Point, Size
<1> QED
  BY <1>1 DEF AlignedFrame, Frame

LEMMA BordersType ==
    ASSUME TypeOK, NEW t \in Toplevels, NEW at \in Point, NEW s \in Size
    PROVE  UpdatedBorders(t, at, s) \in Frame
<1>1. AlignedFrame(at, s) \in Frame
  BY AlignedFrameType
<1>2. frame[t] \in Frame
  BY DEF TypeOK
<1> QED
  BY <1>1, <1>2 DEF UpdatedBorders

LEMMA PlaceType ==
    ASSUME TypeOK, NEW t \in Toplevels, NEW s \in Size
    PROVE  /\ CommitPlace(t, s) \in Point
           /\ CommitFrame(t, s) \in Frame
<1>1. /\ node[t] \in Point
      /\ frame[t] \in Frame
      /\ grab[t] \in Grabs
  BY DEF TypeOK
<1>2. ASSUME NEW edges, NEW at \in Point, NEW win \in Size
      PROVE  Anchored(node[t], edges, at, win, s) \in Point
  BY <1>1 DEF Anchored, Point, Size
<1>3. CommitPlace(t, s) \in Point
  BY <1>1, <1>2 DEF CommitPlace, Grabs
<1> QED
  BY <1>1, <1>3, BordersType DEF CommitFrame

LEMMA HandlerType ==
    ASSUME TypeOK, NEW t \in views, NEW s \in Size, CommitHandler(t, s)
    PROVE  /\ node' \in [Toplevels -> Point]
           /\ frame' \in [Toplevels -> Frame]
           /\ highlit' \in [Toplevels -> BOOLEAN]
           /\ scheduled' \in [Toplevels -> Schedules]
           /\ pending' \in [Toplevels -> BOOLEAN]
           /\ kbFocus' \in Toplevels \cup {NoView}
BY PlaceType DEF TypeOK, CommitHandler, Activate, Schedule, KeyboardAfterCommit, Schedules

LEMMA InitialCommitType ==
    ASSUME TypeOK, NEW t \in Toplevels, InitialCommit(t) PROVE TypeOK'
BY HandlerType DEF TypeOK, InitialCommit, modeVars, loopVars

LEMMA CommitType ==
    ASSUME TypeOK, NEW t \in Toplevels, Commit(t) PROVE TypeOK'
BY HandlerType, SizesAssumption DEF TypeOK, Commit, modeVars, loopVars

LEMMA UnmapType ==
    ASSUME TypeOK, NEW t \in Toplevels, UnmapCommit(t) PROVE TypeOK'
BY DEF TypeOK, UnmapCommit, sceneVars, focusVars, seatVars, modeVars, loopVars, NoSize, Size

LEMMA SendConfigureType ==
    ASSUME TypeOK, NEW t \in Toplevels, SendConfigure(t) PROVE TypeOK'
BY DEF TypeOK, SendConfigure, sceneVars, focusVars, seatVars, modeVars, loopVars

LEMMA RequestType ==
    ASSUME TypeOK, NEW t \in Toplevels,
           RequestMove(t) \/ RequestResize(t) \/ RequestFullscreen(t) \/ RequestMaximize(t)
    PROVE TypeOK'
<1>1. /\ cursor \in Point /\ node[t] \in Point /\ size[t] \in Size
      /\ frame[t] \in Frame /\ scheduled[t] \in Schedules /\ outputSize \in Size
  BY DEF TypeOK
<1>2. CASE RequestMove(t)
  <2>1. MoveGrab(cursor, node[t]) \in Grabs
    BY <1>1, InitialTypes DEF MoveGrab, Grabs
  <2> QED
    BY <1>2, <2>1
       DEF TypeOK, RequestMove, xdgVars, sceneVars, focusVars, seatVars, modeVars, loopVars
<1>3. CASE RequestResize(t)
  <2>1. ASSUME NEW edges \in EdgeSets
        PROVE  ResizeGrab(cursor, node[t], size[t], edges) \in Grabs
    BY <1>1, InputAssumption DEF ResizeGrab, Grabs
  <2>2. grab' \in [Toplevels -> Grabs]
    BY <1>3, <2>1 DEF TypeOK, RequestResize
  <2> QED
    BY <1>3, <2>2
       DEF TypeOK, RequestResize, xdgVars, sceneVars, focusVars, seatVars, modeVars, loopVars
<1>4. CASE RequestFullscreen(t)
  <2>1. FrameAt(frame[t], Origin) \in Frame
    BY <1>1, InitialTypes, FrameAtType
  <2>2. [scheduled[t] EXCEPT !.fullscreen = TRUE, !.size = outputSize] \in Schedules
    BY <1>1 DEF Schedules
  <2>3. /\ frame' \in [Toplevels -> Frame]
        /\ node' \in [Toplevels -> Point]
    BY <1>4, <2>1, InitialTypes DEF TypeOK, RequestFullscreen
  <2>4. /\ scheduled' \in [Toplevels -> Schedules]
        /\ pending' \in [Toplevels -> BOOLEAN]
        /\ owed' \in [Toplevels -> BOOLEAN]
    BY <1>4, <2>2 DEF TypeOK, RequestFullscreen, AnswerFullscreen, Schedule
  <2> QED
    BY <1>4, <2>3, <2>4
       DEF TypeOK, RequestFullscreen, focusVars, seatVars, modeVars, loopVars
<1>5. CASE RequestMaximize(t)
  BY <1>5
     DEF TypeOK, RequestMaximize, sceneVars, focusVars, seatVars, modeVars, loopVars
<1> QED
  BY <1>2, <1>3, <1>4, <1>5

LEMMA AskedSizeType ==
    ASSUME NEW g \in Grabs, NEW p \in Point
    PROVE  AskedSize(g, p) \in Size
<1>1. ASSUME NEW n \in Int PROVE AtLeast(MinSize, n) \in Nat
  BY MinSizeAssumption DEF AtLeast
<1>2. /\ g.win.w \in Nat /\ g.win.h \in Nat
      /\ p.x - g.click.x \in Int /\ p.y - g.click.y \in Int
  BY DEF Grabs, Point, Size
<1> QED
  BY <1>1, <1>2 DEF AskedSize, Resized, Size

LEMMA MotionType ==
    ASSUME TypeOK, NEW p \in Points, PointerMotion(p) PROVE TypeOK'
<1> DEFINE v == ViewAt(p)
<1>1. p \in Point
  BY PointsAssumption
<1>2. CASE GrabbedAt(p, "move") /\ DragMove(v, p)
  <2>1. v \in views /\ v \in Toplevels /\ grab[v] \in Grabs
    BY <1>2, ViewAtType DEF GrabbedAt, TypeOK
  <2>2. Shifted(grab[v].at, grab[v].click, p) \in Point
    BY <1>1, <2>1 DEF Shifted, Grabs, Point
  <2>3. size[v] \in Size
    BY <2>1 DEF TypeOK
  <2>4. UpdatedBorders(v, Shifted(grab[v].at, grab[v].click, p), size[v]) \in Frame
    BY <2>1, <2>2, <2>3, BordersType
  <2> QED
    BY <1>1, <1>2, <2>1, <2>2, <2>4
       DEF TypeOK, PointerMotion, DragMove, focusVars, modeVars, loopVars
<1>3. CASE GrabbedAt(p, "resize") /\ DragResize(v, p)
  <2>1. v \in Toplevels /\ grab[v] \in Grabs /\ scheduled[v] \in Schedules
    BY <1>3, ViewAtType DEF GrabbedAt, TypeOK
  <2>2. AskedSize(grab[v], p) \in Size
    BY <1>1, <2>1, AskedSizeType
  <2>3. [scheduled[v] EXCEPT !.size = AskedSize(grab[v], p)] \in Schedules
    BY <2>1, <2>2 DEF Schedules
  <2> QED
    BY <1>1, <1>3, <2>1, <2>3
       DEF TypeOK, PointerMotion, DragResize, Schedule, focusVars, modeVars, loopVars
<1>4. CASE Hover(p)
  BY <1>1, <1>4, SurfaceAtType
     DEF TypeOK, PointerMotion, Hover, focusVars, modeVars, loopVars
<1> QED
  BY <1>2, <1>3, <1>4 DEF PointerMotion

LEMMA PressType ==
    ASSUME TypeOK, ButtonPress PROVE TypeOK'
<1> DEFINE v == ViewAt(cursor)
<1>1. v \in views /\ v \in Toplevels
  BY ViewAtType DEF TypeOK, ButtonPress
<1>2. /\ isFocused' \in [Toplevels -> BOOLEAN]
      /\ highlit' \in [Toplevels -> BOOLEAN]
      /\ focusedView' \in Toplevels \cup {NoView}
  BY <1>1 DEF TypeOK, ButtonPress, SetFocusedView, Marked, focusVars
<1>3. /\ cursor \in Point /\ node[v] \in Point
      /\ size[v] \in Size /\ grab[v] \in Grabs
  BY <1>1 DEF TypeOK
<1>4. GrabEdges(cursor, node[v], size[v]) \in SUBSET Edges
  BY DEF GrabEdges
<1>5. Pressed(v) \in Grabs
  BY <1>3, <1>4 DEF Pressed, ResizeGrab, MoveGrab, NoGrab, NoSize, Size, Grabs
<1>6. grab' \in [Toplevels -> Grabs]
  BY <1>5 DEF TypeOK, ButtonPress
<1> QED
  BY <1>2, <1>6
     DEF TypeOK, ButtonPress, xdgVars, sceneVars, seatVars, modeVars, loopVars

LEMMA ReleaseType ==
    ASSUME TypeOK, ButtonRelease PROVE TypeOK'
<1>1. ViewAt(cursor) \in Toplevels
  BY ViewAtType DEF TypeOK, ButtonRelease
<1>2. grab' \in [Toplevels -> Grabs]
  BY <1>1, InitialTypes DEF TypeOK, ButtonRelease
<1> QED
  BY <1>2
     DEF TypeOK, ButtonRelease, xdgVars, sceneVars, focusVars, seatVars, modeVars,
         loopVars

LEMMA KeyType ==
    ASSUME TypeOK, Quit \/ ToggleFullscreen \/ ToggleFloating PROVE TypeOK'
<1>1. CASE Quit
  BY <1>1 DEF TypeOK, Quit, xdgVars, sceneVars, focusVars, seatVars, modeVars
<1>2. CASE ToggleFullscreen
  <2>1. focusedView \in Toplevels
    BY <1>2 DEF TypeOK, ToggleFullscreen
  <2>2. QueuedMoves(focusedView) \in Moves
    BY <2>1 DEF TypeOK, QueuedMoves, Moves, Origin, Point
  <2>3. Append(anims[focusedView], QueuedMoves(focusedView)) \in Seq(Moves)
    <3>1. anims[focusedView] \in Seq(Moves)
      BY <2>1 DEF TypeOK
    <3> QED
      BY <2>2, <3>1
  <2>4. anims' \in [Toplevels -> Seq(Moves)]
    BY <1>2, <2>1, <2>3 DEF TypeOK, ToggleFullscreen
  <2>5. /\ fullscreen' \in [Toplevels -> BOOLEAN]
        /\ saved' \in [Toplevels -> Point]
    BY <1>2, <2>1 DEF TypeOK, ToggleFullscreen
  <2> QED
    BY <1>2, <2>4, <2>5
       DEF TypeOK, ToggleFullscreen, xdgVars, sceneVars, focusVars, seatVars
<1>3. CASE ToggleFloating
  BY <1>3 DEF TypeOK, ToggleFloating, xdgVars, sceneVars, focusVars, seatVars, loopVars
<1> QED
  BY <1>1, <1>2, <1>3

LEMMA OutputType == ASSUME TypeOK, NewOutput PROVE TypeOK'
BY OutputAssumption DEF TypeOK, NewOutput,  xdgVars, sceneVars, focusVars, seatVars, modeVars

LEMMA TickType == ASSUME TypeOK, Tick PROVE TypeOK'
<1>1. ASSUME NEW t \in Toplevels, NEW i \in DOMAIN anims[t]
      PROVE  anims[t][i] \in Moves
  BY DEF TypeOK
<1>2. ASSUME NEW t \in Toplevels PROVE TickedNode(t) \in Point
  <2> DEFINE latest == Latest(TreeMovesOf(t))
  <2>1. latest \subseteq DOMAIN anims[t]
    BY DEF Latest, TreeMovesOf
  <2>2. CASE latest = {}
    BY <2>2 DEF TypeOK, TickedNode
  <2>3. CASE latest # {}
    <3>1. (CHOOSE i \in latest : TRUE) \in DOMAIN anims[t]
      BY <2>1, <2>3
    <3>2. anims[t][CHOOSE i \in latest : TRUE].to \in Point
      BY <1>1, <3>1 DEF Moves
    <3> QED
      BY <2>3, <3>2 DEF TickedNode
  <2> QED
    BY <2>2, <2>3
<1>3. ASSUME NEW t \in Toplevels PROVE TickedFrame(t) \in Frame
  <2> DEFINE latest == Latest(FrameMovesOf(t))
             to     == anims[t][CHOOSE i \in latest : TRUE].to
  <2>1. latest \subseteq DOMAIN anims[t]
    BY DEF Latest, FrameMovesOf
  <2>2. CASE latest = {}
    BY <2>2 DEF TypeOK, TickedFrame
  <2>3. CASE latest # {}
    <3>1. (CHOOSE i \in latest : TRUE) \in DOMAIN anims[t]
      BY <2>1, <2>3
    <3>2. to \in Point
      BY <1>1, <3>1 DEF Moves
    <3>3. to.x - BorderWidth \in Int /\ to.y - BorderWidth \in Int
      BY <3>2, BorderWidthAssumption DEF Point
    <3>4. frame[t] \in Frame
      BY DEF TypeOK
    <3> QED
      BY <2>3, <3>3, <3>4 DEF TickedFrame, FrameAt, Frame
  <2> QED
    BY <2>2, <2>3
<1>4. ASSUME NEW t \in Toplevels, Ticked(t) PROVE TickedSchedule(t) \in Schedules
  <2>1. anims[t] \in Seq(Moves) /\ anims[t] # << >>
    BY <1>4 DEF TypeOK, Ticked
  <2>2. Len(anims[t]) \in DOMAIN anims[t]
    BY <2>1
  <2>3. anims[t][Len(anims[t])].enter \in BOOLEAN
    BY <1>1, <2>2 DEF Moves
  <2>4. scheduled[t] \in Schedules /\ outputSize \in Size
    BY DEF TypeOK
  <2> QED
    BY <2>3, <2>4 DEF TickedSchedule, Schedules
<1>5. /\ node' \in [Toplevels -> Point]
      /\ frame' \in [Toplevels -> Frame]
      /\ scheduled' \in [Toplevels -> Schedules]
  BY <1>2, <1>3, <1>4 DEF TypeOK, Tick
<1>6. /\ pending' \in [Toplevels -> BOOLEAN]
      /\ anims' \in [Toplevels -> Seq(Moves)]
  BY DEF TypeOK, Tick, Ticked
<1> QED
  BY <1>5, <1>6 DEF TypeOK, Tick, focusVars, seatVars, modeVars

LEMMA StepTypeOK == TypeOK /\ [Next]_vars => TypeOK'
<1> SUFFICES ASSUME TypeOK, [Next]_vars PROVE TypeOK'
  OBVIOUS
<1>1. ASSUME NEW t \in Toplevels, ClientStep(t) PROVE TypeOK'
  BY <1>1, NewToplevelType, DestroyedType, SurfaceDestroyedType, InitialCommitType,
     CommitType, UnmapType, RequestType DEF ClientStep
<1>2. ASSUME SeatStep PROVE TypeOK'
  BY <1>2, MotionType, PressType, ReleaseType, KeyType DEF SeatStep
<1>3. ASSUME LoopStep PROVE TypeOK'
  BY <1>3, OutputType, TickType, SendConfigureType DEF LoopStep
<1>4. CASE UNCHANGED vars
  BY <1>4
     DEF TypeOK, vars, xdgVars, sceneVars, focusVars, seatVars, modeVars, loopVars
<1> QED
  BY <1>1, <1>2, <1>3, <1>4 DEF Next

\* Every reachable state is well typed: whatever a client is asked to resize to is
\* a size it can have, and what is queued for the timer is moves.
THEOREM TypeCorrect == Spec => []TypeOK
BY InitTypeOK, StepTypeOK, PTL DEF Spec
=============================================================================
