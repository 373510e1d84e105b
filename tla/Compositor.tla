----------------------------- MODULE Compositor -----------------------------
(***************************************************************************)
(* The window management of class Compositor (WaylandComp.cpp): its views, *)
(* their place in the scene, focus, pointer grabs, the configure traffic   *)
(* with the clients and fullscreen.  One action per event handler; the     *)
(* event loop is single threaded, so a handler runs to its end, but events *)
(* of clients, devices, the timer and the loop's idle callbacks come in    *)
(* any order.                                                              *)
(*                                                                         *)
(* A model value is a surface, and the wlr_xdg_toplevel and the view it    *)
(* has while it is in views.  wlroots (the seat and the xdg_surface state) *)
(* is modelled by what the handlers use of it.                             *)
(*                                                                         *)
(* A definition Fault_X is X with a slip its code could have; the          *)
(* properties must tell the two apart.                                     *)
(***************************************************************************)
EXTENDS Scene, Sequences

CONSTANTS Toplevels,    \* the toplevels clients create
          NoView,       \* the null View*
          Points,       \* where the cursor can be
          Sizes,        \* the sizes clients give their windows
          Requests,     \* the requests clients make, of RequestKinds
          KeyActions,   \* the actions bound to keys, of ActionKinds
          EdgeSets,     \* the edges a client asks to be resized by
          OutputSizes,  \* the sizes of the outputs that appear
          DefaultOutputSize,
          Reach,        \* how far from the origin a window is followed
          MaxToggles    \* how many toggles of a view wait for the timer

RequestKinds == {"move", "resize", "fullscreen", "maximize"}
ActionKinds  == {"quit", "close", "fullscreen", "floating"}

ASSUME NoViewAssumption == NoView \notin Toplevels
ASSUME PointsAssumption == Points \subseteq Point /\ Points # {}
ASSUME SizesAssumption == Sizes \subseteq {s \in Size : Sized(s)}
ASSUME InputAssumption == /\ Requests \subseteq RequestKinds
                          /\ KeyActions \subseteq ActionKinds
                          /\ EdgeSets \subseteq SUBSET Edges
ASSUME OutputAssumption == /\ OutputSizes \subseteq {s \in Size : Sized(s)}
                           /\ DefaultOutputSize \in Size
ASSUME BoundsAssumption == Reach \in Nat /\ MaxToggles \in Nat

VARIABLES
    phase,        \* the event loop runs, was told to quit, or crashed
    views,        \* the keys of views_
    under,        \* <<u, t>>: u's scene nodes are drawn under t's
    \* per toplevel, kept by wlroots
    stage,        \* none, initialized (by the initial commit) or configured
    size,         \* the size of the surface's current buffer
    scheduled,    \* the state the next configure event carries, or the last did
    pending,      \* a configure event is scheduled and not sent yet
    owed,         \* the client awaits the answer to a state request
    \* per toplevel, in its View and its scene nodes
    node,         \* the position of the view's scene tree
    frame,        \* the position of its border tree and the size it was laid for
    grab,         \* the grab of the view, with what the press found
    isFocused,    \* View::is_focused
    highlit,      \* its border has the colour of a focused window
    fullscreen,   \* View::fullscreen
    floating,     \* View::floating
    saved,        \* View::saved_x, saved_y
    \* of the compositor and its seat
    focusedView,  \* focused_view_
    kbFocus,      \* the seat's keyboard focus
    ptrFocus,     \* the seat's pointer focus
    cursor,       \* the position of the cursor
    outputSize,   \* output_w_, output_h_
    timer,        \* the animation timer is armed
    anims         \* per view, the moves queued in anims_ and not yet ticked

xdgVars   == <<stage, size, scheduled, pending, owed>>
sceneVars == <<views, under, node, frame>>
focusVars == <<focusedView, isFocused, highlit>>
seatVars  == <<kbFocus, ptrFocus, cursor>>
modeVars  == <<fullscreen, floating, saved>>
loopVars  == <<phase, timer, anims, outputSize>>

vars == <<xdgVars, sceneVars, focusVars, seatVars, modeVars, loopVars, grab>>

-----------------------------------------------------------------------------
(* Representations                                                         *)

NoGrab == [kind |-> "none", click |-> Origin, at |-> Origin,
           win |-> NoSize, edges |-> {}]

\* What a grab records: the cursor and the window's place at the press, and for
\* a resize the window's size and the edges taken hold of.
MoveGrab(click, at) == [NoGrab EXCEPT !.kind = "move", !.click = click, !.at = at]

ResizeGrab(click, at, win, edges) ==
    [kind |-> "resize", click |-> click, at |-> at, win |-> win, edges |-> edges]

Grabs == [kind : {"none", "move", "resize"}, click : Point, at : Point,
          win : Size, edges : SUBSET Edges]

NotScheduled == [activated |-> FALSE, fullscreen |-> FALSE, size |-> NoSize]
Schedules == [activated : BOOLEAN, fullscreen : BOOLEAN, size : Size]

\* The two moves a toggle queues: the view's tree goes to `to`, its border tree
\* one border away from it; a move that starts where it ends never moves.
Moves == [enter : BOOLEAN, to : Point, treeMoves : BOOLEAN, frameMoves : BOOLEAN]

InReach(p) == p.x \in -Reach..Reach /\ p.y \in -Reach..Reach

Init ==
    /\ phase = "running"
    /\ views = {} /\ under = {}
    /\ stage = [t \in Toplevels |-> "none"]
    /\ size = [t \in Toplevels |-> NoSize]
    /\ scheduled = [t \in Toplevels |-> NotScheduled]
    /\ pending = [t \in Toplevels |-> FALSE]
    /\ owed = [t \in Toplevels |-> FALSE]
    /\ node = [t \in Toplevels |-> Origin]
    /\ frame = [t \in Toplevels |-> FreshFrame]
    /\ grab = [t \in Toplevels |-> NoGrab]
    /\ isFocused = [t \in Toplevels |-> FALSE]
    /\ highlit = [t \in Toplevels |-> FALSE]
    /\ fullscreen = [t \in Toplevels |-> FALSE]
    /\ floating = [t \in Toplevels |-> FALSE]
    /\ saved = [t \in Toplevels |-> Origin]
    /\ focusedView = NoView
    /\ kbFocus = NoView /\ ptrFocus = NoView
    /\ cursor = Origin
    /\ outputSize = DefaultOutputSize
    /\ timer = TRUE
    /\ anims = [t \in Toplevels |-> << >>]

-----------------------------------------------------------------------------
(* Hit testing                                                             *)

Touches(t, p) == OnFrame(p, frame[t]) \/ OnSurface(p, node[t], size[t])

\* The views no other view covers at p; there is at most one.
TopAt(p) == {t \in views : /\ Touches(t, p)
                           /\ \A u \in views : Touches(u, p) => <<t, u>> \notin under}

\* Only border trees carry their view in node.data: the frame of a view finds
\* it, its content does not.  A view's border tree is drawn above its content.
ViewAt(p) ==
    LET framed == {t \in TopAt(p) : OnFrame(p, frame[t])}
    IN  IF framed = {} THEN NoView ELSE CHOOSE t \in framed : TRUE

SurfaceAt(p) ==
    LET shown == {t \in TopAt(p) : ~ OnFrame(p, frame[t])}
    IN  IF shown = {} THEN NoView ELSE CHOOSE t \in shown : TRUE

-----------------------------------------------------------------------------
(* Parts of the handlers                                                   *)

\* f with v marked, and the view that was focused before it unmarked.
Fault_MarkedKeepsOld(f, v) == [t \in Toplevels |-> t = v \/ f[t]]
Marked(f, v) == [t \in Toplevels |-> t = v \/ (t # focusedView /\ f[t])]

SetFocusedView(v) ==
    IF v = focusedView
    THEN UNCHANGED focusVars
    ELSE /\ focusedView' = v
         /\ isFocused' = Marked(isFocused, v)
         /\ highlit' = Marked(highlit, v)

\* updateViewBorders for a view whose tree is at at: a window that shows
\* nothing keeps the frame it had.
UpdatedBorders(t, at, newSize) ==
    IF Sized(newSize) THEN AlignedFrame(at, newSize) ELSE frame[t]

Schedule(t, state) ==
    /\ scheduled' = [scheduled EXCEPT ![t] = state]
    /\ pending' = [pending EXCEPT ![t] = TRUE]

Without(r, t) == {p \in r : p[1] # t /\ p[2] # t}

Forget(focused, t) == IF focused = t THEN NoView ELSE focused

-----------------------------------------------------------------------------
(* Toplevels                                                               *)

\* Compositor::onToplevel with viewCreate.  A model value stands for one View
\* at a time: it names a new one once no queued move refers to the old one.
NewToplevel(t) ==
    /\ phase = "running"
    /\ t \notin views /\ anims[t] = << >>
    /\ views' = views \cup {t}
    /\ under' = under \cup {<<u, t>> : u \in views}
    /\ IF focusedView = NoView THEN SetFocusedView(t) ELSE UNCHANGED focusVars
    /\ UNCHANGED <<xdgVars, node, frame, seatVars, modeVars, loopVars, grab>>

\* viewDestroy, with what wlroots drops of a toplevel.  Moves queued for the view
\* stay queued.
ViewDestroyed(t) ==
    /\ phase = "running"
    /\ t \in views
    /\ views' = views \ {t}
    /\ under' = Without(under, t)
    /\ node' = [node EXCEPT ![t] = Origin]
    /\ frame' = [frame EXCEPT ![t] = FreshFrame]
    /\ stage' = [stage EXCEPT ![t] = "none"]
    /\ size' = [size EXCEPT ![t] = NoSize]
    /\ scheduled' = [scheduled EXCEPT ![t] = NotScheduled]
    /\ pending' = [pending EXCEPT ![t] = FALSE]
    /\ owed' = [owed EXCEPT ![t] = FALSE]
    /\ grab' = [grab EXCEPT ![t] = NoGrab]
    /\ focusedView' = Forget(focusedView, t)
    /\ isFocused' = [isFocused EXCEPT ![t] = FALSE]
    /\ highlit' = [highlit EXCEPT ![t] = FALSE]
    /\ fullscreen' = [fullscreen EXCEPT ![t] = FALSE]
    /\ floating' = [floating EXCEPT ![t] = FALSE]
    /\ saved' = [saved EXCEPT ![t] = Origin]
    /\ UNCHANGED <<cursor, loopVars>>

SeatForgets(t) == kbFocus' = Forget(kbFocus, t) /\ ptrFocus' = Forget(ptrFocus, t)

\* The destroy listener.  Nothing in it touches the seat: the surface may outlive
\* its toplevel and stays where the seat has it.
ToplevelDestroyed(t) == ViewDestroyed(t) /\ UNCHANGED <<kbFocus, ptrFocus>>

\* The end of a surface without a toplevel, at which the seat forgets it.
SurfaceDestroyed(t) ==
    /\ phase = "running"
    /\ t \notin views /\ t \in {kbFocus, ptrFocus}
    /\ SeatForgets(t)
    /\ UNCHANGED <<xdgVars, sceneVars, focusVars, cursor, modeVars, loopVars, grab>>

\* The end of a client, its surface and its toplevel with it.
ClientGone(t) == ViewDestroyed(t) /\ SeatForgets(t)

\* The commit listener, run after a commit that left the surface initialized
\* and of size newSize.
CommitPlace(t, newSize) ==
    IF grab[t].kind = "resize"
    THEN Anchored(node[t], grab[t].edges, grab[t].at, grab[t].win, newSize)
    ELSE node[t]

\* The borders are laid out again where the window has just been put.
Fault_CommitFrame(t, newSize) == UpdatedBorders(t, node[t], newSize)
CommitFrame(t, newSize) == UpdatedBorders(t, CommitPlace(t, newSize), newSize)

Fault_KeyboardAfterCommit(t) == t
Fault_KeyboardNotMoved(t) == IF isFocused[t] /\ kbFocus = NoView THEN t ELSE kbFocus
KeyboardAfterCommit(t) == IF isFocused[t] THEN t ELSE kbFocus

\* wlr_xdg_toplevel_set_activated schedules a configure even when nothing changes.
Fault_Activate(t) ==
    IF scheduled[t].activated = isFocused[t]
    THEN UNCHANGED <<scheduled, pending>>
    ELSE Schedule(t, [scheduled[t] EXCEPT !.activated = isFocused[t]])
Activate(t) == Schedule(t, [scheduled[t] EXCEPT !.activated = isFocused[t]])

CommitHandler(t, newSize) ==
    /\ InReach(CommitPlace(t, newSize))
    /\ node' = [node EXCEPT ![t] = CommitPlace(t, newSize)]
    /\ frame' = [frame EXCEPT ![t] = CommitFrame(t, newSize)]
    /\ highlit' = [highlit EXCEPT ![t] = isFocused[t]]
    /\ Activate(t)
    /\ kbFocus' = KeyboardAfterCommit(t)

\* The commit without a buffer that asks for the first configure event.
InitialCommit(t) ==
    /\ phase = "running"
    /\ t \in views /\ stage[t] = "none"
    /\ stage' = [stage EXCEPT ![t] = "initialized"]
    /\ CommitHandler(t, size[t])
    /\ UNCHANGED <<views, under, size, owed, focusedView, isFocused, ptrFocus,
                   cursor, modeVars, loopVars, grab>>

\* A later commit; a buffer may come only after the first configure event.
Commit(t) ==
    /\ phase = "running"
    /\ t \in views /\ stage[t] # "none"
    /\ \E newSize \in {size[t]} \cup (IF stage[t] = "configured" THEN Sizes ELSE {}) :
          /\ size' = [size EXCEPT ![t] = newSize]
          /\ CommitHandler(t, newSize)
    /\ UNCHANGED <<views, under, stage, owed, focusedView, isFocused, ptrFocus,
                   cursor, modeVars, loopVars, grab>>

\* A commit of a null buffer: the surface is uninitialized again before the
\* commit listener looks, its scheduled configure event is dropped.
UnmapCommit(t) ==
    /\ phase = "running"
    /\ t \in views /\ Sized(size[t])
    /\ stage' = [stage EXCEPT ![t] = "none"]
    /\ size' = [size EXCEPT ![t] = NoSize]
    /\ pending' = [pending EXCEPT ![t] = FALSE]
    /\ owed' = [owed EXCEPT ![t] = FALSE]
    /\ UNCHANGED <<sceneVars, scheduled, focusVars, seatVars, modeVars, loopVars,
                   grab>>

\* The idle callback of wlroots that sends the scheduled configure event.
SendConfigure(t) ==
    /\ phase = "running"
    /\ pending[t]
    /\ pending' = [pending EXCEPT ![t] = FALSE]
    /\ owed' = [owed EXCEPT ![t] = FALSE]
    /\ stage' = [stage EXCEPT ![t] = IF @ = "initialized" THEN "configured" ELSE @]
    /\ UNCHANGED <<size, scheduled, sceneVars, focusVars, seatVars, modeVars,
                   loopVars, grab>>

-----------------------------------------------------------------------------
(* Requests of clients                                                     *)

RequestMove(t) ==
    /\ phase = "running"
    /\ "move" \in Requests
    /\ t \in views
    /\ grab' = [grab EXCEPT ![t] = MoveGrab(cursor, node[t])]
    /\ UNCHANGED <<xdgVars, sceneVars, focusVars, seatVars, modeVars, loopVars>>

RequestResize(t) ==
    /\ phase = "running"
    /\ "resize" \in Requests
    /\ t \in views
    /\ \E edges \in EdgeSets :
          grab' = [grab EXCEPT ![t] = ResizeGrab(cursor, node[t], size[t], edges)]
    /\ UNCHANGED <<xdgVars, sceneVars, focusVars, seatVars, modeVars, loopVars>>

\* The same handler answers set_fullscreen and unset_fullscreen; it leaves
\* View::fullscreen alone and puts tree and border tree on the same point.
Fault_AnswerFullscreen(t) == UNCHANGED <<scheduled, pending>>
AnswerFullscreen(t) ==
    Schedule(t, [scheduled[t] EXCEPT !.fullscreen = TRUE, !.size = outputSize])

RequestFullscreen(t) ==
    /\ phase = "running"
    /\ "fullscreen" \in Requests
    /\ t \in views
    /\ AnswerFullscreen(t)
    /\ owed' = [owed EXCEPT ![t] = TRUE]
    /\ node' = [node EXCEPT ![t] = Origin]
    /\ frame' = [frame EXCEPT ![t] = FrameAt(@, Origin)]
    /\ UNCHANGED <<stage, size, views, under, focusVars, seatVars, modeVars,
                   loopVars, grab>>

\* Nothing listens to request_maximize.
RequestMaximize(t) ==
    /\ phase = "running"
    /\ "maximize" \in Requests
    /\ t \in views
    /\ owed' = [owed EXCEPT ![t] = TRUE]
    /\ UNCHANGED <<stage, size, scheduled, pending, sceneVars, focusVars,
                   seatVars, modeVars, loopVars, grab>>

-----------------------------------------------------------------------------
(* The pointer                                                             *)

\* The motion listeners with processCursorMotion.  A grab acts only while the
\* cursor is on the frame of the view that has it.
DragMove(v, p) ==
    LET at == Shifted(grab[v].at, grab[v].click, p)
    IN  /\ InReach(at)
        /\ node' = [node EXCEPT ![v] = at]
        /\ frame' = [frame EXCEPT ![v] = UpdatedBorders(v, at, size[v])]
        /\ UNCHANGED <<scheduled, pending, ptrFocus>>

Fault_AskedSize(g, p) ==
    [w |-> g.win.w + (p.x - g.click.x), h |-> g.win.h + (p.y - g.click.y)]
AskedSize(g, p) == Resized(g.edges, g.click, g.win, p)

DragResize(v, p) ==
    /\ Schedule(v, [scheduled[v] EXCEPT !.size = AskedSize(grab[v], p)])
    /\ UNCHANGED <<node, frame, ptrFocus>>

Hover(p) ==
    /\ ptrFocus' = SurfaceAt(p)
    /\ UNCHANGED <<node, frame, scheduled, pending>>

GrabbedAt(p, kind) == ViewAt(p) # NoView /\ grab[ViewAt(p)].kind = kind

PointerMotion(p) ==
    /\ phase = "running"
    /\ cursor' = p
    /\ \/ GrabbedAt(p, "move")   /\ DragMove(ViewAt(p), p)
       \/ GrabbedAt(p, "resize") /\ DragResize(ViewAt(p), p)
       \/ ~ GrabbedAt(p, "move") /\ ~ GrabbedAt(p, "resize") /\ Hover(p)
    /\ UNCHANGED <<views, under, stage, size, owed, focusVars, kbFocus,
                   modeVars, loopVars, grab>>

\* The button listener, pressed: only the frame of a view can be pressed, the
\* press focuses the view and takes hold of it by its edges or its title.
Fault_Pressed(v) ==
    LET edges == GrabEdges(cursor, node[v], size[v])
    IN  IF OnTitle(cursor, node[v]) THEN MoveGrab(cursor, node[v])
        ELSE IF edges # {} THEN ResizeGrab(cursor, node[v], size[v], edges)
        ELSE grab[v]
Pressed(v) ==
    LET edges == GrabEdges(cursor, node[v], size[v])
    IN  IF edges # {} THEN ResizeGrab(cursor, node[v], size[v], edges)
        ELSE IF OnTitle(cursor, node[v]) THEN MoveGrab(cursor, node[v])
        ELSE grab[v]

ButtonPress ==
    /\ phase = "running"
    /\ LET v == ViewAt(cursor)
       IN  /\ v # NoView
           /\ SetFocusedView(v)
           /\ grab' = [grab EXCEPT ![v] = Pressed(v)]
    /\ UNCHANGED <<xdgVars, sceneVars, seatVars, modeVars, loopVars>>

\* Released: the grab of the view under the cursor ends, no other grab does.
ButtonRelease ==
    /\ phase = "running"
    /\ LET v == ViewAt(cursor)
       IN  /\ v # NoView
           /\ grab' = [grab EXCEPT ![v] = NoGrab]
    /\ UNCHANGED <<xdgVars, sceneVars, focusVars, seatVars, modeVars, loopVars>>

-----------------------------------------------------------------------------
(* The bound keys                                                          *)

\* A press of the bound key of an action, on the keyboard onInput set up; a
\* keyboard may be there from the start.
BoundKey(action) == phase = "running" /\ action \in KeyActions

Quit ==
    /\ BoundKey("quit")
    /\ phase' = "quit"
    /\ UNCHANGED <<timer, anims, outputSize, xdgVars, sceneVars, focusVars,
                   seatVars, modeVars, grab>>

\* toggleFullscreen.  Both moves start where tree and border tree are now; once
\* the timer has fired nothing reads the queue, which is then not kept.
QueuedMoves(v) ==
    LET to     == IF fullscreen[v] THEN saved[v] ELSE Origin
        corner == [x |-> to.x - BorderWidth, y |-> to.y - BorderWidth]
    IN  [enter |-> ~ fullscreen[v], to |-> to,
         treeMoves |-> node[v] # to,
         frameMoves |-> frame[v].x # corner.x \/ frame[v].y # corner.y]

ToggleFullscreen ==
    /\ BoundKey("fullscreen")
    /\ focusedView # NoView
    /\ fullscreen' = [fullscreen EXCEPT ![focusedView] = ~ @]
    /\ saved' = IF fullscreen[focusedView] THEN saved
                ELSE [saved EXCEPT ![focusedView] = node[focusedView]]
    /\ IF timer
       THEN /\ Len(anims[focusedView]) < MaxToggles
            /\ anims' = [anims EXCEPT ![focusedView] =
                            Append(@, QueuedMoves(focusedView))]
       ELSE UNCHANGED anims
    /\ UNCHANGED <<phase, timer, outputSize, xdgVars, sceneVars, focusVars,
                   seatVars, floating, grab>>

ToggleFloating ==
    /\ BoundKey("floating")
    /\ focusedView # NoView
    /\ floating' = [floating EXCEPT ![focusedView] = ~ @]
    /\ UNCHANGED <<xdgVars, sceneVars, focusVars, seatVars, fullscreen, saved,
                   loopVars, grab>>

-----------------------------------------------------------------------------
(* Outputs and the animation timer                                         *)

\* onOutput: the size of the last output that appeared, at 0,0 like the others.
\* The output's destroy listener leaves it alone.
NewOutput ==
    /\ phase = "running"
    /\ \E s \in OutputSizes : outputSize' = s
    /\ UNCHANGED <<phase, timer, anims, xdgVars, sceneVars, focusVars, seatVars,
                   modeVars, grab>>

\* The places in the queue of t of the moves that move and that enter.
TreeMovesOf(t)  == {i \in DOMAIN anims[t] : anims[t][i].treeMoves}
FrameMovesOf(t) == {i \in DOMAIN anims[t] : anims[t][i].frameMoves}
EntersOf(t)     == {i \in DOMAIN anims[t] : anims[t][i].enter}

\* anims_ is ticked in the order of its ids: the latest move is the one that stays.
Latest(places) == {i \in places : \A j \in places : j <= i}

TickedNode(t) ==
    LET latest == Latest(TreeMovesOf(t))
    IN  IF latest = {} THEN node[t] ELSE anims[t][CHOOSE i \in latest : TRUE].to

TickedFrame(t) ==
    LET latest == Latest(FrameMovesOf(t))
        to     == anims[t][CHOOSE i \in latest : TRUE].to
    IN  IF latest = {} THEN frame[t]
        ELSE FrameAt(frame[t], [x |-> to.x - BorderWidth, y |-> to.y - BorderWidth])

\* Every toggle tells the client its mode; one that enters also asks for the
\* size of the output, which a later one that leaves does not take back.
Fault_TickedSchedule(t) ==
    [scheduled[t] EXCEPT !.fullscreen = anims[t][1].enter,
                         !.size = IF EntersOf(t) = {} THEN @ ELSE outputSize]
TickedSchedule(t) ==
    [scheduled[t] EXCEPT !.fullscreen = anims[t][Len(anims[t])].enter,
                         !.size = IF EntersOf(t) = {} THEN @ ELSE outputSize]

Ticked(t) == t \in views /\ anims[t] # << >>

\* A queued move of a view that is gone calls back into freed memory: the tick
\* crashes or has no effect that matters here.
Dangling == \E t \in Toplevels \ views : anims[t] # << >>

\* The timer of run, which is armed once: 16 ms after the loop starts, with a
\* clock that has passed every duration (start_time is 0), so all moves end.
Tick ==
    /\ phase = "running"
    /\ timer
    /\ timer' = FALSE
    /\ anims' = [t \in Toplevels |-> << >>]
    /\ node' = [t \in Toplevels |-> IF Ticked(t) THEN TickedNode(t) ELSE node[t]]
    /\ frame' = [t \in Toplevels |-> IF Ticked(t) THEN TickedFrame(t) ELSE frame[t]]
    /\ scheduled' = [t \in Toplevels |->
                        IF Ticked(t) THEN TickedSchedule(t) ELSE scheduled[t]]
    /\ pending' = [t \in Toplevels |-> pending[t] \/ Ticked(t)]
    /\ \/ UNCHANGED phase
       \/ Dangling /\ phase' = "crashed"
    /\ UNCHANGED <<outputSize, views, under, stage, size, owed, focusVars, seatVars,
                   modeVars, grab>>

-----------------------------------------------------------------------------

ClientStep(t) ==
    \/ NewToplevel(t) \/ ToplevelDestroyed(t) \/ SurfaceDestroyed(t) \/ ClientGone(t)
    \/ InitialCommit(t) \/ Commit(t) \/ UnmapCommit(t)
    \/ RequestMove(t) \/ RequestResize(t) \/ RequestFullscreen(t) \/ RequestMaximize(t)

SeatStep ==
    \/ \E p \in Points : PointerMotion(p)
    \/ ButtonPress \/ ButtonRelease
    \/ Quit \/ ToggleFullscreen \/ ToggleFloating

LoopStep == NewOutput \/ Tick \/ \E t \in Toplevels : SendConfigure(t)

Next == LoopStep \/ SeatStep \/ \E t \in Toplevels : ClientStep(t)

Spec == Init /\ [][Next]_vars

\* What the event loop does by itself it does in the end: it runs its idle
\* callbacks before it waits and its timers when they are due.  Nothing makes
\* a client or a user act.
Fairness == WF_vars(Tick) /\ \A t \in Toplevels : WF_vars(SendConfigure(t))

FairSpec == Spec /\ Fairness

-----------------------------------------------------------------------------
(* Properties                                                              *)

\* Every variable has its type; sizes that are asked for are none below zero.  The
\* seat may still have the surface of a view that is gone.
TypeOK ==
    /\ phase \in {"running", "quit", "crashed"}
    /\ views \subseteq Toplevels
    /\ under \subseteq views \X views
    /\ stage \in [Toplevels -> {"none", "initialized", "configured"}]
    /\ size \in [Toplevels -> Size]
    /\ scheduled \in [Toplevels -> Schedules]
    /\ pending \in [Toplevels -> BOOLEAN]
    /\ owed \in [Toplevels -> BOOLEAN]
    /\ node \in [Toplevels -> Point]
    /\ frame \in [Toplevels -> Frame]
    /\ grab \in [Toplevels -> Grabs]
    /\ isFocused \in [Toplevels -> BOOLEAN]
    /\ highlit \in [Toplevels -> BOOLEAN]
    /\ fullscreen \in [Toplevels -> BOOLEAN]
    /\ floating \in [Toplevels -> BOOLEAN]
    /\ saved \in [Toplevels -> Point]
    /\ focusedView \in Toplevels \cup {NoView}
    /\ kbFocus \in Toplevels \cup {NoView}
    /\ ptrFocus \in Toplevels \cup {NoView}
    /\ cursor \in Point
    /\ outputSize \in Size
    /\ timer \in BOOLEAN
    /\ anims \in [Toplevels -> Seq(Moves)]

\* focused_view_, the is_focused flags and the border colours are three records
\* of one fact, written in different handlers: they agree, and focused_view_
\* never outlives its view (setFocusedView, viewDestroy, the commit listener).
FocusConsistent ==
    /\ focusedView \in views \cup {NoView}
    /\ \A t \in Toplevels : /\ isFocused[t] <=> (t = focusedView)
                            /\ highlit[t] <=> (t = focusedView)

\* Focus and keyboard of the compositor do what Focus promises: no window is
\* focused uninvited, none inherits the focus, and the keyboard goes to a window
\* only while that window is the focused one, however late its commit comes.
F == INSTANCE Focus WITH
        Windows <- Toplevels, NoWindow <- NoView,
        open <- views, focus <- focusedView, keyboard <- kbFocus
FocusRefined == F!Spec

\* The frame of a window that shows something is laid around it, wherever drags,
\* resizes and commits took it; a fullscreen request puts both on the origin.
FrameFollowsView ==
    \A t \in views : Sized(size[t]) =>
        \/ frame[t] = AlignedFrame(node[t], size[t])
        \/ /\ node[t] = Origin
           /\ frame[t] = FrameAt(AlignedFrame(Origin, size[t]), Origin)

\* The far edge of an anchored axis is where it was at the press.
RightFixed(t)  == node[t].x + size[t].w = grab[t].at.x + grab[t].win.w
BottomFixed(t) == node[t].y + size[t].h = grab[t].at.y + grab[t].win.h

\* While a window is resized, the edges that were not taken hold of stay where
\* they were at the press, whatever sizes the client commits and in whatever
\* order with the motion events (the resize branch of the commit listener).  A
\* fullscreen request in between puts the window on the origin: an axis that is
\* anchored recovers at the next commit, one that is not stays at 0.
ResizeKeepsOppositeEdge ==
    \A t \in views : grab[t].kind = "resize" /\ Sized(size[t]) =>
        /\ "left" \in grab[t].edges => RightFixed(t) \/ node[t] = Origin
        /\ "top" \in grab[t].edges => BottomFixed(t) \/ node[t] = Origin
        /\ "left" \notin grab[t].edges => node[t].x \in {grab[t].at.x, 0}
        /\ "top" \notin grab[t].edges => node[t].y \in {grab[t].at.y, 0}

\* A frame is nowhere further from the window than an edge reaches: a press on it
\* always starts a resize by an edge and never reaches the branch for the title
\* strip, whatever the window was dragged, resized and unmapped through, unless a
\* fullscreen request has put window and frame on one point.
PressTakesEdge ==
    [][ButtonPress =>
          LET v == ViewAt(cursor)
          IN  \/ \E edges \in (SUBSET Edges) \ {{}} :
                    grab'[v] = ResizeGrab(cursor, node[v], size[v], edges)
              \/ ~ Sized(size[v])
              \/ /\ node[v] = Origin
                 /\ frame[v] = FrameAt(AlignedFrame(Origin, size[v]), Origin)]_vars

\* However often a view was toggled before the timer fired, the tick leaves its
\* client to be told the mode the view is in, and for fullscreen the size of the
\* output (the order of the callbacks, with requests and drags in between).
LastToggleWins ==
    [][timer /\ ~ timer' =>
          \A t \in views : anims[t] # << >> =>
              /\ scheduled'[t].fullscreen = fullscreen[t]
              /\ fullscreen[t] => scheduled'[t].size = outputSize]_vars

\* A client that made its initial commit and keeps its window gets its first
\* configure event: without one it may never show anything.  It hangs on the
\* commit listener calling set_activated even when nothing changes.
InitialCommitAnswered ==
    \A t \in Toplevels :
        stage[t] = "initialized" ~> (stage[t] # "initialized" \/ phase # "running")

\* wlr_xdg_shell.h asks the compositor to answer every request for fullscreen or
\* maximized with a configure event, at once or later.
RequestsAnswered ==
    \A t \in Toplevels : owed[t] ~> (~ owed[t] \/ phase # "running")

\* The keyboard follows the focus for every client that keeps committing: the
\* keyboard is handed over only in the commit listener of the focused window.
KeyboardReachesFocus ==
    \A t \in Toplevels :
        []<><<Commit(t)>>_vars =>
            (focusedView = t ~> (kbFocus = t \/ focusedView # t))

\* main_comp.cpp binds a key "-> Fullscreen": once a view is in fullscreen mode
\* its client is told so, unless the view leaves the mode or goes.
FullscreenKeyWorks ==
    \A t \in Toplevels :
        fullscreen[t] ~> \/ scheduled[t].fullscreen /\ ~ pending[t]
                         \/ ~ fullscreen[t]
                         \/ phase # "running"

\* The protocol says of move and resize: "If triggered, the surface will lose the
\* focus of the device" used for it, here the pointer.
GrabTakesPointer ==
    \A t \in Toplevels : grab[t].kind # "none" => ptrFocus # t
=============================================================================
