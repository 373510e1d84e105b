# A verification development for SpaceWM

SpaceWM is a small Wayland compositor on wlroots (`spacewc-comp`) with a test
client (`spacewc`). This directory holds TLA+ specifications of the compositor,
the TLC configurations that check them on small instances, and theorems about
them that TLAPS checks for every instance. Paths such as `WaylandComp.cpp` are
below `src/src/` of the repository.

## 1. The system

One process, one thread. `Compositor::init` creates the wlroots objects and hooks
up listeners, `run` arms a timer and enters the event loop; from then on every
piece of the program is a callback that runs to its end: requests and commits of
clients, events of input devices and outputs, the timer, and the idle callbacks
with which wlroots sends scheduled configure events. There are no threads and no
locks; what is hard is the *order* of the callbacks, the state one of them leaves
for a much later one, and what a client or a device does in between.

| part | state it keeps | operations | interacts with |
|---|---|---|---|
| views and xdg toplevels (`onToplevel`, `viewCreate`, `viewDestroy` and the listeners for commit, destroy, move, resize, fullscreen) | `views_`, per `View`: scene tree and border tree, grab, `is_focused`, `fullscreen`, `saved_x/y` | one per listener | schedules configure events at wlroots, moves the keyboard focus at commit |
| focus (`setFocusedView`) | `focused_view_`, `View::is_focused`, border colours, keyboard focus of the seat | a click, a new view, a destroyed view, a commit | keyboard follows at the next commit |
| pointer and grabs (`processCursorMotion`, `viewAt`, the button listener) | cursor position, `View::grab` with the press it came from, pointer focus of the seat | motion, press, release | moves views, asks clients for sizes |
| window geometry | none; arithmetic of the above | frame around a window, hit test, edges near a press, size of a resize, anchoring | – |
| fullscreen and animations (`toggleFullscreen`, `animations.cpp`) | `View::fullscreen`, `saved_x/y`, the map `anims_`, the timer | toggle, tick | moves both trees, its callbacks schedule configure events |
| key bindings (`wconf.hpp`, `main_comp.cpp`, `cbKeyboardKey`, `run_action`) | the list of bindings, xkb state | key press and release | toggles, quit, close, spawn |
| keyboards (`onInput`, `cbKeyboardMod`) | `kbd_` | a device appears | the seat's keyboard |
| outputs (`onOutput`) | `output_w_/h_`, `OutputCtx` | an output appears, draws, goes | size used for fullscreen |
| start-up and tear-down (`init`, destructor) | all pointers of `Compositor` | – | everything |
| test client (`WaylandClient`) | its globals, surface, buffer, `m_configured` | start-up roundtrips, configure, close, seat and key events | the compositor's configure traffic |
| client key configuration (`config.hpp`) | bindings, combos, the history of ten keys | `handleKey` | called by the client's key handler |

What makes each correct, and what is hard about it:

- **focus**: three records of one fact agree; the keyboard reaches the focused
  window and never another. Hard because focus moves at the click and the keyboard
  at some later commit.
- **geometry**: a window and its frame stay together, and a resize moves only the
  edges that were taken hold of. Hard because drags, commits of any size, unmapping
  and fullscreen requests each move the two trees in separate calls.
- **configure traffic**: whatever a client must wait for arrives: the first
  configure event, the answer to a state request. Hard because it hangs on side
  effects (`set_activated` schedules a configure event even if nothing changed).
- **fullscreen**: the client is told the mode its view is in. Hard because the mode
  changes at the key press and the client is told in the callback of an animation.
- **animations**: a window and its frame are animated side by side, nothing moves
  back, callbacks run once and in order. Hard because the clock
  wraps, positions are cut off to whole numbers on both sides of zero, and a queued
  move outlives what it was queued for.
- **keys**: a key goes to a binding or to one client, and a client's picture of what
  is held is never wrong in a way that nothing repairs. Hard because focus and
  keyboard are not the same window, because presses are looked up and releases are
  not, and because every commit of the focused window enters it again.
- **keyboards, outputs, start-up**: what a device, an output or a failed step
  leaves behind is nothing a later handler trips over. Hard because a listener lives
  in its owner's memory and in its source's list, and either can go first.
- **client**: no buffer before the first configure event; nothing used after close;
  combos of keys are found however much was typed before them.

`PROJECT.json` lists every hazard with its line and the properties that cover it.

## 2. The modules

| module | what it is |
|---|---|
| `Scene` | the geometry: pure operators, no state |
| `Focus` | what is promised about focus: windows open and close, one is chosen, the keyboard is handed over, what is left of a window vanishes |
| `Compositor` | the core: views, focus, grabs, configure traffic, fullscreen, one action per handler; extends `Scene` |
| `Session` | the test client in a session with `Compositor`: its start-up, the messages both ways, its end; extends `Compositor` |
| `KeyInput` | keys, bindings and modifiers between the steps of `Focus`; extends `Focus`, so that it holds for the windows of `Compositor`, which implements it |
| `Easing` | how far a move has come at a time: pure operators, no state |
| `Animations` | the class of that name with the callers that fill it; extends `Easing` |
| `Deferred` | what is promised about callbacks: once each, in the order they were handed in |
| `ClientConfig` | how the test client names a key and what `Config::handleKey` runs |
| `Combos` | what is promised about combos, with everything typed kept |
| `Lifecycle` | `init`, the devices and clients that come and go, the destructor: who owns what and which listeners are linked |
| `MC...` | values for the constants in the runs |
| `CompositorProofs` | type correctness, lemmas for the modules below |
| `FocusProofs` | consistency of the focus, and the refinement of `Focus` |
| `GeometryProofs` | window and frame, anchored edges, what a press takes hold of, and the queue of toggles |
| `SessionProofs` | why the client's roundtrips are enough, and that a session is a behaviour of `Compositor` |
| `KeyProofs` | what windows believe about keys and modifiers, what a press runs |
| `AnimationProofs` | where an animated node can be, and when callbacks run |
| `ComboProofs` | the refinement of `Combos`, and combos that never run |
| `LifecycleProofs` | listeners and their owners, what handlers use, what the destructor leaves |

### State and actions of `Compositor`

| action | code (`WaylandComp.cpp`) |
|---|---|
| `NewToplevel`, `ToplevelDestroyed` | `onToplevel` with `viewCreate`; the destroy listener with `viewDestroy`, which leaves the seat alone |
| `SurfaceDestroyed`, `ClientGone` | the end of a surface after its toplevel, or of all a client has at once: `wlr_seat` forgets it (external) |
| `InitialCommit`, `Commit`, `UnmapCommit` | the commit listener, after the three kinds of commit wlroots tells apart |
| `SendConfigure` | the idle callback of wlroots (external) |
| `RequestMove`, `RequestResize`, `RequestFullscreen` | the request listeners |
| `RequestMaximize` | the request nothing listens to (external) |
| `PointerMotion` (`DragMove`, `DragResize`, `Hover`) | the motion listeners with `processCursorMotion` |
| `ButtonPress`, `ButtonRelease` | the button listener |
| `Quit`, `ToggleFullscreen`, `ToggleFloating` | `cbKeyboardKey` with `run_action` for the bound actions that change state |
| `NewOutput` | `onOutput` |
| `Tick` | the timer of `run` with `Animations::tick` and the callbacks of the moves |

A model value is a surface with the `wlr_xdg_toplevel` and the `View` it has while
it is in `views`; `kbFocus` and `ptrFocus` may be a surface without one. `stage`, `size`,
`scheduled`, `pending` and `owed` are what wlroots keeps of a toplevel and the
handlers depend on; `node` and `frame` are the positions of the view's tree and of
its border tree, `frame` with the size the border was last laid out for.

### State and actions of `Session`

`Session` takes for one toplevel, `Client`, the place of the clients at large: what
happens to that toplevel happens because the compositor handles a request the test
client has sent.

| action | code |
|---|---|
| `Connect`, `Continue` | `WaylandClient::init` and `create_surface`, cut at their three roundtrips; `main_client.cpp` |
| `ClientWrite`, `ClientRead` | `wl_display_dispatch`: write, then read all there is (external) |
| `ClientDispatch` | the listeners of `WaylandClient`, one event at a time |
| `HangUp` | the connection is lost: `init` fails or `run`'s loop ends |
| `HandleAnswered`, `HandleGetKeyboard`, `HandleAck` | requests libwayland and wlroots answer (external) |
| `HandleGetToplevel`, `HandleInitialCommit`, `HandleBuffer` | `onToplevel` and the commit listener: `NewToplevel`, `InitialCommit`, `Commit` of `Compositor` |
| `ConfigureClient`, `ServerWrite` | `SendConfigure` in an idle callback, then the flush (external) |
| `CloseKey`, `EscapeKey` | `run_action` for `Close`; a key nothing is bound to, sent through the seat |
| `Disconnect` | the destroy listener and the seat's, when the client's process or connection is gone (`ClientGone`) |
| `OtherStep` | the rest of `Compositor`: devices, timer, other clients |

`step` is the roundtrip `main_client` waits in; `unsent`, `requests`, `outbox`,
`events` and `inbox` are the five places a message can be. Messages are names: what
they carry decides nothing the properties tell apart. `hasGlobals` stands for the
three globals `init` tests, which a compositor that runs announces together.

### State and actions of `KeyInput`

| action | code |
|---|---|
| `Press`, `Release` | `cbKeyboardKey`, then `cbKeyboardMod` if the modifiers or the layout changed |
| `CommitFocused` | `HandOver` of `Focus` with what the commit listener tells the window: no keys, and the modifiers |
| `OpenWindow`, `ChooseWindow`, `CloseWindow`, `VanishWindow` | the other steps of `Focus` |

`Binds` is the table of `setup_binds`, `Matches` and `ActionOf` the loop over it.
`held` and `known` are what the window with the keyboard believes.

### State and actions of `Animations`

| action | code |
|---|---|
| `QueueMoves` | `toggleFullscreen` with two `anim_move`, the callback on the first |
| `QueueScale` | `setFocusedView` with `anim_scale`, which moves nothing |
| `Tick` | `Animations::tick` at a time up to `MaxGap` after the last |

The map `anims_` is the set of its entries, each with its id, and a tick takes them
in the order of the ids (`InOrder`); of the moves of one node the last has the last
word (`LastMove`).

### State and actions of `ClientConfig`

| action | code |
|---|---|
| `ModifiersEvent` | `keyboard_modifiers` |
| `KeyPressed` (`HandleKey`) | `keyboard_key` with `Config::handleKey` |

`combos` is what `main` added before the client runs; `typed`, which no code keeps,
is everything since the last combo and is what `history` is compared with.

### State and actions of `Lifecycle`

| action | code (`WaylandComp.cpp`) |
|---|---|
| `InitStep` | one creation of `init` that works or fails; `cursorInit` may fail without a return |
| `NewOutput`, `OutputFrame`, `OutputGone` | `onOutput` with its two early returns, and the listeners of a context |
| `NewKeyboard`, `KeyboardGone`, `KeyEvent` | `onInput` with its failures; a keyboard that goes, which nobody listens to; a signal of a keyboard |
| `NewToplevel`, `SurfaceCommit`, `Focus`, `ToplevelGone`, `SurfaceGone` | `onToplevel`, the commit listener, a click, `viewDestroy`, the surface that lives longer |
| `ToggleFullscreen`, `Tick` | the views that queued moves refer to, and the one tick |
| `Destructor` | `~Compositor` |

A listener is a record of its owner and its source. Using what was freed or is not
there is recorded in `misused`.

### Decisions of the model

- wlroots is modelled by what the handlers use of it: a commit initializes a
  surface before the commit listener runs, a null buffer uninitializes it and drops
  its scheduled configure event, `set_size`, `set_fullscreen` and `set_activated`
  schedule a configure event without looking whether anything changed, a scheduled
  event is sent from an idle callback, and the seat forgets a surface when the
  surface is destroyed. `viewDestroy` does not touch the seat, and a client may
  destroy its toplevel and keep the surface: it then keeps the keyboard until the
  focused window commits (`KeyboardAfterCommit`), the surface goes or the client
  makes another toplevel of it. A surface whose toplevel lives cannot go by itself.
- Hit testing follows the scene graph: newest view on top, a view's border tree
  above its content. Only border trees have `node.data` set, so `viewAt` finds the
  frame of a view and never its content.
- A model value stands for one view at a time. It is used again only when no queued
  move refers to the old view, so that a dangling move stays visible: `Tick` may
  then crash (`phase = "crashed"`).
- The timer fires once, 16 ms after the loop starts. `start_time` is 0 and the clock
  counts from boot, so every queued move has run its 200 ms and ends in that tick
  (a machine up for less than 200 ms, or for a multiple of 49.7 days, aside). Moves
  queued later are never read; the model does not keep them.
- The animations that a change of focus queues (`anim_scale`) have equal start and
  end positions and no callback: they change nothing and are left out.
- `Close`, `Spawn`, `FocusNext` and `FocusPrev` change no state of the compositor;
  `Close` sends the client an event and is an action of `Session`.
- After `Quit` no further handler is modelled.
- Of libwayland `Session` keeps what both programs rest on: messages are in order,
  the compositor may handle any number of requests before it writes, it runs its idle
  callbacks before it writes and writes all it has, and the client dispatches all it
  has read before it looks whether its roundtrip is over. That order is why a client
  that never looks at `m_configured` is not rejected. Messages written in parts are
  left out.
- The close listener sets `m_display` to null inside a dispatch of it; what follows is
  undefined and taken to end the process (`step = "crashed"`). Its window goes either
  way.
- wlroots emits a key before it updates the modifiers, so a press is looked up under
  the modifiers held before it; xkb switches layouts on the second of Alt and Shift,
  which then does not become a modifier (`Switches`, external). Ctrl is in no binding
  and is left out. Keysyms are a key and its case; in the Russian layout letters have
  keysyms no binding names.
- `Animations` computes with rational numbers where the code has floats, so that the
  only rounding is the conversion to int at the end; what single precision adds to
  it is not covered, and `FrameBeside` and `NeverBack` are about the rational places.
  It takes the class as its interface is meant, ticked again and again, as the
  program's timer does not; that timer, which ticks once, is in `Compositor`. Ids are not followed to their wrap after 2^32 animations.
- A name of a key in `ClientConfig` is the set of modifiers and the key; whether
  letters are lower case follows from the modifiers.
- In `Lifecycle` only creations whose failure the code looks at can fail. Keyboards
  raise their signals up to their end, which for those still there at the end of the
  program is inside `wl_display_destroy` (`wlr/backend.h:74`: the backend goes with
  the event loop). Whether a key is raised there is up to wlroots; the model allows it.
- The cursor has whole coordinates (the code truncates them before use), and the
  clamp of a resize, the border, the margins and the title strip are constants.

## 3. The runs

The sizes are those of the code scaled down: a border of 1 for 3, margins of 0 or 1
for 8, a least size of 2 for 50, windows of 1 to 2 and outputs of 3 to 4. What the
properties tell apart is on which side of an edge a point lies and which of two
sizes is larger; the values were chosen so that both sides occur.

| run | instance | shows |
|---|---|---|
| `focus` | 2 toplevels, 1 cursor position on an edge, no requests, fairness | `FocusConsistent`, `FocusRefined`, `KeyboardReachesFocus`: clicks, commits and ends of both windows and their surfaces in any order |
| `geometry` | 1 toplevel, 2 cursor positions on opposite sides of it, 2 sizes, all requests, held edges {left, top}: the two that move the window | `TypeOK`, `FrameFollowsView`, `ResizeKeepsOppositeEdge`, `PressTakesEdge` |
| `fullscreen` | 1 toplevel, up to 2 waiting toggles, the keys for fullscreen and quit, outputs, fullscreen requests, fairness | `LastToggleWins`, `InitialCommitAnswered`, `RequestsAnswered` |
| `session_start` | the test client and another window, 1 cursor position | `NeverRejected`, `KeyboardIsThere`: the client's start-up, whatever the user and the other client do meanwhile |
| `session_end` | the test client, the keys for quit, close and its own Escape, fairness | `WindowAppears`, `CloseKeyCloses` |
| `keys` | 2 windows, three modifiers and four of the five bound keys, both layouts | `ModifiersKnown`, `SwallowedStayHidden`, `StuckOnlyUnfocused`, `DocumentedKeys` |
| `animations` | 2 windows, 3 places on both sides of zero, up to 4 animations, a clock that wraps at 16 | `FrameBeside`, `CallbacksInOrder`, `NeverBack` |
| `combos` | 2 keys with and without Shift, 4 lists of combos, a history of 3, up to 5 names since the last combo | `ShadowedNeverRuns`, `CombosRefined` |
| `lifecycle` | 2 outputs, 2 keyboards, 2 toplevels | `OwnersLive`, `NothingMisused`, `EverythingFreed` |
| `fullscreen_key` | violation of `FullscreenKeyWorks` | the timer is armed once |
| `maximize` | violation of `RequestsAnswered` | nothing listens to `request_maximize` |
| `grab_pointer` | violation of `GrabTakesPointer` | a move request leaves the pointer with the client |

Bounds: `Points`, `Sizes`, `EdgeSets` and `OutputSizes` are what may happen;
`Reach` stops following a window that a drag or a commit takes too far from the
origin: 2 is one window's width, and 1 in `focus` and 0 in `session_start` keep the
windows on top of each other, which is all that properties without positions need;
and `MaxToggles` (2)
stops at the toggle after enter-and-leave. `MaxConfigures` (1) keeps the user from
causing another configure event while one is not acknowledged, which a resize would
do with every motion; the client's own commits are not held up by it, so up to three
can be under way. Two windows are enough for the focus: its properties speak of the
window that loses, the one that gains and none. One window is enough for geometry
and configure traffic, which no handler relates across views except by covering; a
run of two grabbed windows grows past what TLC can finish, and the theorems of
section 4 hold for any number of views with grabs.

In `keys` the four keys are a letter bound with and without Shift, one bound with
Shift, and two that are no letters; `T` behaves like `Q`. In `animations` the border
is wider than the moves of one pixel, the duration of a move (6) is crossed by ticks
of 1 to 3, and four animations are two toggles of one window, one of each, or toggles
and focus changes mixed; `MaxAdds` counts all that are ever queued. The clock's width
16 leaves room for a move queued before the wrap and ticked behind it; the assumption
`ClockAssumption` is what 2^32 milliseconds and ticks a few milliseconds apart
satisfy. In `combos` the history of 3 is shorter than the longest combo (4) and than
what is typed (5). In `lifecycle` a second keyboard is what a first one that failed
or went leaves room for, a second output or toplevel what a first one might disturb.
The theorems need none of these bounds to be small.

Deadlock is checked where the system always has a next step. In `fullscreen`,
`session_end`, `keys` and `lifecycle` it may stop (a crash in the tick, the end of the
only client, the quit key, the destructor), and the violation runs end at their
counterexample.

Fairness (`FairSpec`): weak fairness of `Tick` and of `SendConfigure` for each
toplevel, because the event loop runs its idle callbacks before it waits and its
timers when they are due. `FairSessionSpec` has weak fairness of `ConfigureClient`,
of the test client's program and of the compositor's handling of its requests, its
write and its clean-up after a client that is gone: both programs are loops around
a dispatch that returns when there is something to do. Nothing makes another client
or a user act, or the test client start; where a promise
depends on a client, the property says so (`KeyboardReachesFocus` assumes commits
that never end; a client that never commits never gets the keyboard, which is what
the code does). `Fairness` is not needed for the rest.

`FrameFollowsView` has an exception that the code makes: the fullscreen listener
puts the window's tree and the border tree on the same point, so the frame is one
border too far right and down until the next commit. `ResizeKeepsOppositeEdge` has
one for the same listener: it moves a window that is being resized. `PressTakesEdge`
has it too, and a second one: where window and frame are on one point, a press on the
frame can be two borders beyond the window, near no edge and in the strip that moves
the window (with the values of the code, at (404, 20) on a window of 400 by 300), and
so it can over the frame that a window leaves on the screen when it is unmapped. With
the border of 1 of the run neither is far enough out; with one of 2 TLC finds the
first, and the theorem has both for every border.

`NothingMisused` has three exceptions that the code makes, and says when each can
happen: a commit of the focused view reads the modifiers of a keyboard that was
unplugged (`kbd_` is never reset), the one tick calls back into a view that went with
a move queued, and the destructor frees the keyboard before the display whose end may
still raise its keys. `StuckOnlyUnfocused` names the one way in which a client is left
with a key it believes held: a release while no view is focused is dropped although
the seat still has a focus. `FrameBeside` allows a pixel, because both positions are
cut off towards zero.

### What the violations show

- `fullscreen_key`: `main_comp.cpp:18` binds a key "-> Fullscreen". A toggle after
  the timer's only tick flips `View::fullscreen` and queues moves that nobody ticks.
- `maximize`: `wlr_xdg_shell.h:217-224` calls it a protocol violation not to listen
  to `request_maximize`; `onToplevel` does not.
- `grab_pointer`: `xdg-shell-client-protocol.h:1864` says a surface that triggers a
  move loses the pointer; the listener leaves the pointer focus as it is.

## 4. The theorems

For every set of toplevels, cursor positions, sizes, edges, outputs and every value
of the bounds, from the named assumptions of `Scene` and `Compositor` (border and
least size positive, margins natural, sizes of buffers positive, `NoView` not a
toplevel) and of the other modules (`NoWindow` is not a window, modifiers are not
other keys, the history holds at least one name, lists of combos are lists of names,
outputs, keyboards and toplevels are different things, the test client's toplevel is
one of them, and ticks come before the clock has gone round unnoticed):

| theorem | argument |
|---|---|
| `TypeCorrect`: `Spec => []TypeOK` | `TypeOK` is inductive; one lemma per action |
| `FocusIsConsistent`: `Spec => []FocusConsistent` | inductive together with `TypeOK` |
| `CompositorImplementsFocus`: `Spec => FocusRefined` | every step maps to `Open`, `Close`, `Vanish`, `Choose`, `HandOver` or a stutter; needs `FocusConsistent`, because the commit listener looks at `is_focused` and the promise speaks of `focused_view_` |
| `FrameAlwaysFollowsView`, `ResizeAlwaysKeepsEdges`: `Spec /\ TickMovesNothing => []...` | both from `PlaceInv`, which says more than the two: the edges that are not anchored stay also while the window shows nothing, and views that are gone hold no grab and show nothing. Only a tick that finds a toggle queued breaks it, by moving windows and frames behind the handlers. `TickMovesNothing` rules that out: nobody toggles a window in the 16 ms before the timer fires. Without a key for it nobody can, so that both hold without the condition for such a table of keys, as in the run `geometry` |
| `PressAlwaysTakesEdge`: `Spec /\ TickMovesNothing => PressTakesEdge` | from `PlaceInv`, with the same condition: only a frame can be pressed, `PlaceInv` has it around its window or both on the origin, and in the first case arithmetic has every point of it within a border of an edge (`AlignedFrameHasEdges`) |
| `PlacesRightUntilTick`: `Spec => [](timer => ...)` | the same invariant: until the timer fires both properties hold, with every key and whatever is toggled |
| `LastToggleAlwaysWins`: `Spec => LastToggleWins` | from `QueueAgrees`: the last queued toggle of a live view is the one that made its mode, and nothing is queued once the timer has fired |
| `ModifiersAlwaysKnown`: `KeySpec => []ModifiersKnown` | inductive together with types: every change is told, and every hand-over tells |
| `SwallowedAlwaysHidden`, `StuckOnlyWhileUnfocused` | action properties, from the same invariant, one step per action |
| `KeysAlwaysAsDocumented`: `KeySpec => DocumentedKeys` | a binding matches a press just when it was made for that key and the modifiers held, in either layout, because it names the keycode and a keysym is only ever that of its own key; of those there are at most two, for a letter in both cases, and both have the documented action |
| `MovesStayBetween`, `FrameWithinAPixel` | arithmetic of `Easing`: the progress of each easing is between 0 and 1, and the conversion to int loses less than a pixel on either side of zero |
| `FrameStaysBeside`: `AnimSpec => FrameBeside` | `FrameWithinAPixel` for the two moves of a toggle, which take as long and go to places one border apart (`AnimInv`) and, being the only moves of their window, are the last of its two nodes |
| `TicksNeverGoBack`: `AnimSpec => NeverBack` | from `AnimInv`: a node is where its last move begins, or where that move had taken it at a tick short of its duration, and then the next tick comes before the clock wraps |
| `CallbacksRunInOrder`: `AnimSpec => CallbacksInOrder` | the refinement of `Deferred`, from `AnimInv`: whatever tells takes as long and counts from 0, so a tick ends all that tell, in their order, or none |
| `SessionImplementsCompositor`: `SessionSpec => Spec` | every step of a session is a step of `Compositor` or leaves it alone, so the theorems above hold in it |
| `ClientNeverRejected`: `SessionSpec => []NeverRejected`, `ClientHasKeyboard`: `SessionSpec => []KeyboardIsThere` | one invariant, `SessionInv`, described below |
| `ClientImplementsCombos`: `ClientSpec => CombosRefined` | from an invariant: `history` is the end of `typed`, as long as it or as `MaxHistory`, and no combo is due in it |
| `ShadowedCombosNeverRun`: `ClientSpec => []ShadowedNeverRuns` | from that invariant with `typed`: a combo that would run has no other due at one of its beginnings |
| `OwnersAlwaysLive`, `NothingElseMisused`, `EverythingAlwaysFreed`, each `Spec => []...` of `Lifecycle` | one invariant, `LifeInv`: a linked listener is one of those its owner unlinks; a context is of an output that is there and hears of its end; `init` has created all that stands before its present step, but for the cursor; a keyboard read after its end is the one `kbd_` points to for good |

Two of the invariants say more than the properties they were made for.

`SessionInv` follows a roundtrip. While the client waits, its `sync` or the `done`
that answers it is in exactly one of the places a message can be, once
(`OneToken`); while it does not, in none. What the roundtrip is for travels ahead of
that token (`Brings`): as long as the `sync` is a request, the request that asks for
an event is before it or the event has been caused; once `done` is posted, so is the
event, or it is about to be in an idle callback (`pending`), which comes before the
write; and what is written together is dispatched together, so the client goes on
only after it has dispatched the event, and what it answered is in the stream of its
requests. `Prepared` is what follows for that stream: no commit in it but behind the
`get_keyboard`, no buffer but behind the `ack_configure`, unless they were handled.
The proof goes action by action over six facts about queues (what is in `q \o r`,
`Append` and `Tail`, what comes before what, what occurs once).

`AnimInv` says that ids are not used twice and that whatever moves, tells or is of a
frame takes `MoveMs` (`Numbered`), that the moves of a window and its frame with ids
that follow each other go to places one border apart (`Paired`), that a node nothing
moves is where its queued moves begin and end (`Quiet`), that a node that is moved is
where its last move begins or where that move had taken it at the last tick
(`OnItsWay`), and that the waiting callbacks have exactly one order and were given
once (`Ordered`). `OnItsWay` fails if a tick is later than the rest of the clock's way
round; `ClockAssumption` rules that out.

TLC found both to hold on the instances of `animations`, `session_start` and
`session_end` before they were proved.

Only model-checked: the liveness properties (`InitialCommitAnswered`,
`RequestsAnswered`, `KeyboardReachesFocus`, `WindowAppears`, `CloseKeyCloses`), which
need fairness and `ENABLED`, out of the prover's reach. Every
other property of a passing run is a theorem, `FrameFollowsView`, `ResizeKeepsOppositeEdge`
and `PressTakesEdge` under the condition named above. With it, and with the
fullscreen key, TLC finds the first two to hold on an instance with one cursor position too;
the instance is too large for a run.

## 5. Not modelled

Process spawning, logging, rendering and colours beyond focused/unfocused, pointer
axis, frame and cursor-image events (passed through to the seat), popups and
subsurfaces (`viewAt` and the listeners know none), output modes and the layout.
`View::floating` is kept but nothing reads it. `viewFocus`, `cursorReconf` and
`cbToplevel` are declared or empty, `Animations::empty` and `clear` exist, and none
of them is ever called. In the test client: creating the shared-memory buffer and its
failures (system calls), and a second capabilities event.

The program's own code is about 1600 lines. The other nine tenths of the lines below
`src/` are headers of wlroots, the generated code of the xdg-shell protocol and the
compiler probes CMake leaves in its build directory: they declare, they keep no state
of this program, and what the handlers use of wlroots is modelled where they use it.

## 6. Plan

What could be proved next: that a session hands the keys of `KeyInput` to the client
only while it has a keyboard, by composing `KeyInput` with `Session`; and where windows
and frames are after a tick that moves them.
