------------------------------ MODULE Lifecycle ------------------------------
(***************************************************************************)
(* Who owns what in class Compositor, and which listeners are linked where *)
(* (WaylandComp.cpp): init with its early returns, outputs, keyboards and  *)
(* toplevels that come and go, the destructor.  A listener is memory of    *)
(* its owner in a list of its source; using one whose owner was freed, or  *)
(* an object that is not there, is recorded in misused and changes nothing *)
(* else here, undefined as it is in the code.                              *)
(*                                                                         *)
(* wlroots and libwayland are external: any creation may fail, devices and *)
(* clients come and go, a surface outlives its toplevel, and the end of    *)
(* the display ends the backend and with it its devices.  A name stands    *)
(* for one object: it comes again only when nothing refers to the old one. *)
(***************************************************************************)
EXTENDS Naturals, Sequences

CONSTANTS Outputs, Keyboards, Toplevels,
          None   \* no device; also what the listeners of single objects are of

ASSUME NoneAssumption == None \notin Outputs \cup Keyboards \cup Toplevels
ASSUME DisjointAssumption == /\ Outputs \cap Keyboards = {}
                             /\ Outputs \cap Toplevels = {}
                             /\ Keyboards \cap Toplevels = {}

VARIABLES
    phase,      \* init, running, failed or ended
    step,       \* how many steps of init are done
    globals,    \* what init has created
    present,    \* the wlroots objects of devices and clients that exist
    surfaces,   \* the toplevels whose wl_surface exists
    kbd,        \* the keyboard kbd_ was made for, or None for a null kbd_
    ctxs,       \* the outputs that have an OutputCtx
    views,      \* the toplevels that have a View
    focused,    \* the toplevel of focused_view_
    linked,     \* the listeners that are linked
    queued,     \* the toplevels whose View the moves in anims_ refer to
    ticked,     \* has the timer fired?
    misused     \* the kinds of objects used before they were or after they were freed

start == <<phase, step, globals>>
anims == <<queued, ticked>>
vars == <<start, present, surfaces, kbd, ctxs, views, focused, linked, anims, misused>>

\* init in order: what each step creates.  "cursor" is cursorInit, which may fail
\* without an early return; "listeners" links the three listeners of Compositor.
Fault_Steps == << "display", "backend", "renderer", "allocator", "layout",
    "scene", "sol", "compositor", "xdg_shell", "cursor", "seat", "listeners",
    "socket", "started" >>
Steps == << "display", "backend", "renderer", "allocator", "layout", "scene",
    "sol", "compositor", "xdg_shell", "seat", "cursor", "listeners", "socket",
    "started" >>

Init ==
    /\ phase = "init" /\ step = 0 /\ globals = {}
    /\ present = {} /\ surfaces = {}
    /\ kbd = None /\ ctxs = {} /\ views = {} /\ focused = None
    /\ linked = {} /\ queued = {} /\ ticked = FALSE /\ misused = {}

-----------------------------------------------------------------------------
(* Listeners                                                               *)

Listener(owner, of, name, source) ==
    [owner |-> owner, of |-> of, name |-> name, source |-> source]

CompositorListeners ==
    {Listener("Compositor", None, "new_output", "backend"),
     Listener("Compositor", None, "new_input", "backend"),
     Listener("Compositor", None, "new_toplevel", "xdg_shell")}

CursorListeners ==
    {Listener("Cursor", None, n, "wlr_cursor") :
        n \in {"motion", "motion_absolute", "button", "axis", "frame"}}
    \cup {Listener("Cursor", None, "request_set_cursor", "seat")}

KeyboardListeners(k) ==
    {Listener("Keyboard", k, n, "keyboard") : n \in {"modifiers", "key"}}

OutputListeners(o) ==
    {Listener("OutputCtx", o, n, "output") : n \in {"frame", "destroy"}}

RequestListeners(t) ==
    {Listener("View", t, n, "toplevel") : n \in
        {"destroy", "request_move", "request_resize", "request_fullscreen"}}

CommitListener(t) == Listener("View", t, "commit", "surface")

OwnerLives(l) ==
    /\ l.owner = "Compositor" => phase # "ended"
    /\ l.owner = "Cursor" => "cursor" \in globals
    /\ l.owner = "Keyboard" => kbd = l.of
    /\ l.owner = "OutputCtx" => l.of \in ctxs
    /\ l.owner = "View" => l.of \in views

\* The freed owners whose listeners a signal of a source runs.
Dangling(name, of) ==
    {l.owner : l \in {l \in linked : l.name = name /\ l.of = of /\ ~ OwnerLives(l)}}

Missing(objects) == objects \ globals

\* Devices are announced to their listener, already while the last step of init
\* starts the backend; clients come when the loop runs.
Announced(name) ==
    /\ phase = "running" \/ (phase = "init" /\ step = Len(Steps) - 1)
    /\ \E l \in linked : l.owner = "Compositor" /\ l.name = name

-----------------------------------------------------------------------------
(* init                                                                    *)

LinkedBy(s) ==
    IF s = "cursor" THEN CursorListeners
    ELSE IF s = "listeners" THEN CompositorListeners ELSE {}

InitStep(works) ==
    LET s == Steps[step + 1]
    IN  /\ phase = "init"
        /\ s = "listeners" => works
        /\ IF works THEN globals' = globals \cup {s} ELSE UNCHANGED globals
        /\ linked' = linked \cup (IF works THEN LinkedBy(s) ELSE {})
        /\ misused' = misused \cup (IF s = "cursor"
                                    THEN Missing({"layout", "seat"}) ELSE {})
        /\ step' = step + 1
        /\ phase' = IF ~ works /\ s # "cursor" THEN "failed"
                    ELSE IF step + 1 = Len(Steps) THEN "running" ELSE "init"
        /\ UNCHANGED <<present, surfaces, kbd, ctxs, views, focused, anims>>

-----------------------------------------------------------------------------
(* Outputs                                                                 *)

\* onOutput: without render there is no context; without a scene output the
\* context is freed again, before it is listened to.
Fault_OutputLinked(o) == {Listener("OutputCtx", o, "frame", "output")}
OutputLinked(o) == OutputListeners(o)

\* The contexts that the end of some outputs frees.
FreedWith(gone) ==
    {o \in ctxs \cap gone : Listener("OutputCtx", o, "destroy", "output") \in linked}

NewOutput(o, works) ==
    /\ Announced("new_output")
    /\ o \notin present
    /\ present' = present \cup {o}
    /\ ctxs' = IF works = "all" THEN ctxs \cup {o} ELSE ctxs
    /\ linked' = linked \cup (IF works = "all" THEN OutputLinked(o) ELSE {})
    /\ misused' = misused \cup
          Missing(IF works = "no render" THEN {"allocator", "renderer"}
                  ELSE {"allocator", "renderer", "scene", "layout", "sol"})
    /\ UNCHANGED <<start, surfaces, kbd, views, focused, anims>>

OutputFrame(o) ==
    /\ phase = "running" /\ o \in present
    /\ misused' = misused \cup Dangling("frame", o)
    /\ UNCHANGED <<start, present, surfaces, kbd, ctxs, views, focused, linked, anims>>

OutputGone(o) ==
    /\ phase = "running" /\ o \in present
    /\ present' = present \ {o}
    /\ ctxs' = ctxs \ FreedWith({o})
    /\ linked' = linked \ OutputListeners(o)
    /\ misused' = misused \cup Dangling("destroy", o)
    /\ UNCHANGED <<start, surfaces, kbd, views, focused, anims>>

-----------------------------------------------------------------------------
(* Keyboards                                                               *)

\* onInput sets up the first keyboard; if the context, the keymap or the state
\* of xkb cannot be made, what there is is freed and kbd_ is null again.

NewKeyboard(k, works) ==
    /\ Announced("new_input")
    /\ k \notin present \cup {kbd}
    /\ present' = present \cup {k}
    /\ IF kbd = None
       THEN /\ kbd' = IF works THEN k ELSE None
            /\ linked' = linked \cup (IF works THEN KeyboardListeners(k) ELSE {})
            /\ misused' = misused \cup Missing({"seat"})
       ELSE UNCHANGED <<kbd, linked, misused>>
    /\ UNCHANGED <<start, surfaces, ctxs, views, focused, anims>>

\* Nothing listens to the end of a keyboard: kbd_ keeps pointing to it, with its
\* listeners in lists that are gone.
KeyboardGone(k) ==
    /\ phase = "running" /\ k \in present
    /\ present' = present \ {k}
    /\ UNCHANGED <<start, surfaces, kbd, ctxs, views, focused, linked, anims, misused>>

KeyEvent(k) ==
    /\ phase = "running" /\ k \in present
    /\ misused' = misused \cup Dangling("key", k)
    /\ UNCHANGED <<start, present, surfaces, kbd, ctxs, views, focused, linked, anims>>

-----------------------------------------------------------------------------
(* Toplevels                                                               *)

NewToplevel(t) ==
    /\ phase = "running" /\ Announced("new_toplevel")
    /\ t \notin present \cup surfaces \cup queued
    /\ present' = present \cup {t}
    /\ surfaces' = surfaces \cup {t}
    /\ views' = views \cup {t}
    /\ focused' = IF focused = None THEN t ELSE focused
    /\ linked' = linked \cup RequestListeners(t) \cup {CommitListener(t)}
    /\ misused' = misused \cup Missing({"scene"})
    /\ UNCHANGED <<start, kbd, ctxs, anims>>

\* A commit of the surface, also after its toplevel is gone.  The focused view
\* is sent the modifiers of the keyboard kbd_ points to.
SurfaceCommit(t) ==
    /\ phase = "running" /\ t \in surfaces
    /\ misused' = misused
          \cup Dangling("commit", t)
          \cup (IF CommitListener(t) \in linked /\ focused = t
                   /\ kbd # None /\ kbd \notin present
                THEN {"wlr_keyboard"} ELSE {})
    /\ UNCHANGED <<start, present, surfaces, kbd, ctxs, views, focused, linked, anims>>

\* A press on the frame of a view.
Focus(t) ==
    /\ phase = "running" /\ "cursor" \in globals /\ t \in views
    /\ focused' = t
    /\ UNCHANGED <<start, present, surfaces, kbd, ctxs, views, linked, anims, misused>>

\* toggleFullscreen of the focused view, by a key of kbd_.
ToggleFullscreen ==
    /\ phase = "running" /\ focused # None /\ kbd \in present
    /\ queued' = queued \cup {focused}
    /\ UNCHANGED <<start, present, surfaces, kbd, ctxs, views, focused, linked,
                   ticked, misused>>

\* The timer fires once and runs the callbacks of all moves.
Tick ==
    /\ phase = "running" /\ ~ ticked
    /\ misused' = misused \cup (IF queued \subseteq views THEN {} ELSE {"View"})
    /\ queued' = {} /\ ticked' = TRUE
    /\ UNCHANGED <<start, present, surfaces, kbd, ctxs, views, focused, linked>>

Fault_ViewUnlinked(t) == RequestListeners(t)
ViewUnlinked(t) == RequestListeners(t) \cup {CommitListener(t)}

ToplevelGone(t) ==
    /\ phase = "running" /\ t \in present
    /\ present' = present \ {t}
    /\ views' = views \ {t}
    /\ focused' = IF focused = t THEN None ELSE focused
    /\ linked' = linked \ ViewUnlinked(t)
    /\ misused' = misused \cup Dangling("destroy", t)
    /\ UNCHANGED <<start, surfaces, kbd, ctxs, anims>>

SurfaceGone(t) ==
    /\ phase = "running" /\ t \in surfaces \ present
    /\ surfaces' = surfaces \ {t}
    /\ linked' = {l \in linked : ~ (l.of = t /\ l.source = "surface")}
    /\ UNCHANGED <<start, present, kbd, ctxs, views, focused, anims, misused>>

-----------------------------------------------------------------------------
(* The destructor                                                          *)

\* kbd_, the cursor and the views are freed with their listeners linked; the
\* display goes last and takes the devices with it: outputs raise destroy, and a
\* keyboard that goes may raise key for the keys still held.
Destructor(keysHeld) ==
    /\ phase \in {"running", "failed"}
    /\ phase' = "ended"
    /\ keysHeld => kbd \in present
    /\ misused' = misused \cup (IF keysHeld THEN {"Keyboard"} ELSE {})
    /\ kbd' = None /\ views' = {}
    /\ ctxs' = IF "display" \in globals THEN ctxs \ FreedWith(present) ELSE ctxs
    /\ globals' = {} /\ present' = {} /\ surfaces' = {}
    /\ focused' = None /\ linked' = {} /\ queued' = {}
    /\ UNCHANGED <<step, ticked>>

OutputStep(o) ==
    \/ \E works \in {"all", "no render", "no scene output"} : NewOutput(o, works)
    \/ OutputFrame(o) \/ OutputGone(o)
KeyboardStep(k) ==
    (\E works \in BOOLEAN : NewKeyboard(k, works)) \/ KeyboardGone(k) \/ KeyEvent(k)
ToplevelStep(t) ==
    NewToplevel(t) \/ SurfaceCommit(t) \/ Focus(t) \/ ToplevelGone(t) \/ SurfaceGone(t)

Next ==
    \/ \E works \in BOOLEAN : InitStep(works)
    \/ \E o \in Outputs : OutputStep(o)
    \/ \E k \in Keyboards : KeyboardStep(k)
    \/ \E t \in Toplevels : ToplevelStep(t)
    \/ ToggleFullscreen \/ Tick
    \/ \E keysHeld \in BOOLEAN : Destructor(keysHeld)

Spec == Init /\ [][Next]_vars

-----------------------------------------------------------------------------
(* Properties                                                              *)

\* A linked listener belongs to an object that was not freed, until the
\* destructor: each handler that frees its object unlinks all of it first.
OwnersLive == \A l \in linked : OwnerLives(l)

\* Handlers use only what is there, whatever failed before and whatever came and
\* went, but for three things the code does: a commit of the focused view reads
\* the modifiers of a keyboard that was unplugged, which is then never replaced;
\* the tick calls back into a view that went with a move queued; the destructor
\* frees the keyboard before the display whose end may still raise its events.
NothingMisused ==
    /\ misused \subseteq {"wlr_keyboard", "View", "Keyboard"}
    /\ "wlr_keyboard" \in misused /\ phase = "running" => kbd \notin present \cup {None}
    /\ "View" \in misused => ticked
    /\ "Keyboard" \in misused => phase = "ended"

\* After the destructor nothing that class Compositor made with new is left,
\* whichever step of init had failed: the contexts of outputs too, which it does
\* not know and which only the end of their outputs frees.
EverythingFreed == phase = "ended" => kbd = None /\ ctxs = {} /\ views = {}
=============================================================================
