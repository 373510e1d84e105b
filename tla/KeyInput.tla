------------------------------ MODULE KeyInput ------------------------------
(***************************************************************************)
(* What happens to a key: cbKeyboardKey looks a press up in the bindings   *)
(* of main_comp.cpp, runs the action of the first that matches and hides   *)
(* the press from clients; every other press and every release goes to the *)
(* window with the keyboard, unless no window is focused.  Where focus and *)
(* keyboard may be is taken from Focus, which Compositor implements: the   *)
(* keys are pressed, released and lost between the steps of Focus.         *)
(*                                                                         *)
(* A key stands for its key code.  wlroots emits the key first and updates *)
(* its modifiers after, so a press is looked up under the modifiers held   *)
(* before it.  xkb (options "grp:alt_shift_toggle", layouts "us,ru") is    *)
(* external: of Alt and Shift, whichever is pressed second switches the    *)
(* layout and does not become a modifier.                                  *)
(***************************************************************************)
EXTENDS Focus, SequencesExt

CONSTANT OtherKeys   \* the keys that are no modifiers

Modifiers == {"logo", "shift", "alt"}
Layouts == {"us", "ru"}

ASSUME KeysAssumption == OtherKeys \cap Modifiers = {}
ASSUME NoWindowAssumption == NoWindow \notin Windows

Keys == Modifiers \cup OtherKeys

VARIABLES
    down,       \* the keys that are physically held
    mods,       \* the modifiers in effect in the keyboard's xkb state
    layout,     \* the layout in effect
    swallowed,  \* the held keys whose press ran an action
    ran,        \* the action the last press ran, or "none"
    held,       \* the keys the window with the keyboard believes are held
    known       \* the modifiers and the layout it was told last

keyVars == <<down, mods, layout, swallowed, ran, held, known>>
allVars == <<focusVars, keyVars>>

Untold == [mods |-> {}, layout |-> "us"]

KeyInit ==
    /\ Init
    /\ down = {} /\ mods = {} /\ layout = "us"
    /\ swallowed = {} /\ ran = "none"
    /\ held = {} /\ known = Untold

-----------------------------------------------------------------------------
(* Bindings                                                                *)

\* The keysym of a key; letters have one in upper case as well.
Sym(k, upper) == [key |-> k, upper |-> upper]

Bind(needs, k, action, upper) ==
    [mods |-> needs, key |-> k, action |-> action, sym |-> Sym(k, upper)]

Binds == <<
    Bind({"logo", "shift"}, "return", "spawn",      FALSE),
    Bind({"logo", "shift"}, "f",      "fullscreen", TRUE),
    Bind({"logo", "shift"}, "f",      "fullscreen", FALSE),
    Bind({"logo"},          "q",      "close",      TRUE),
    Bind({"logo"},          "q",      "close",      FALSE),
    Bind({"logo", "shift"}, "q",      "quit",       TRUE),
    Bind({"logo", "shift"}, "q",      "quit",       FALSE),
    Bind({"logo"},          "escape", "quit",       FALSE),
    Bind({"logo"},          "t",      "floating",   TRUE),
    Bind({"logo"},          "t",      "floating",   FALSE) >>

\* The keysyms of a press; in the Russian layout the letter keys are Cyrillic
\* letters, which no binding names.
SymsOf(k) ==
    IF k \in {"return", "escape"} THEN {Sym(k, FALSE)}
    ELSE IF layout = "us" THEN {Sym(k, "shift" \in mods)}
    ELSE {}

Fault_Matches(b, k) == b.mods = mods /\ b.sym \in SymsOf(k)
Matches(b, k) == b.mods = mods /\ (b.key = k \/ b.sym \in SymsOf(k))

\* The action of the first binding that matches, or "none".
ActionOf(k) ==
    LET matching == {i \in 1..Len(Binds) : Matches(Binds[i], k)}
    IN  IF matching # {} THEN Binds[Min(matching)].action ELSE "none"

-----------------------------------------------------------------------------
(* Keys                                                                    *)

Switches(k) == \/ k = "alt" /\ "shift" \in mods
               \/ k = "shift" /\ "alt" \in mods

\* The modifiers and the layout become m and l; cbKeyboardMod tells the window
\* with the keyboard if that is a change.
Modified(m, l) ==
    /\ mods' = m
    /\ layout' = l
    /\ known' = IF <<m, l>> # <<mods, layout>> /\ keyboard # NoWindow
                THEN [mods |-> m, layout |-> l] ELSE known

\* A key event is passed on to the seat while a window is focused, not
\* necessarily the one the seat sends it to.
Fault_PassedOn(k) == focus # NoWindow /\ ActionOf(k) = "none"
PassedOn(k) == focus # NoWindow

Received(k) == PassedOn(k) /\ keyboard # NoWindow

Press(k) ==
    /\ k \in Keys \ down
    /\ ran # "quit"
    /\ down' = down \cup {k}
    /\ ran' = ActionOf(k)
    /\ swallowed' = IF ActionOf(k) # "none" THEN swallowed \cup {k} ELSE swallowed
    /\ held' = IF ActionOf(k) = "none" /\ Received(k) THEN held \cup {k} ELSE held
    /\ IF Switches(k)
       THEN Modified(mods, CHOOSE l \in Layouts : l # layout)
       ELSE Modified(mods \cup ({k} \cap Modifiers), layout)
    /\ UNCHANGED focusVars

Release(k) ==
    /\ k \in down
    /\ ran # "quit"
    /\ down' = down \ {k}
    /\ swallowed' = swallowed \ {k}
    /\ held' = IF Received(k) THEN held \ {k} ELSE held
    /\ Modified(mods \ {k}, layout)
    /\ UNCHANGED <<ran, focusVars>>

-----------------------------------------------------------------------------
(* The steps of Focus and what they mean for the keys                      *)

\* What the commit listener tells the window it hands the keyboard to: no keys,
\* and then the modifiers.
Fault_EnterKeys == down
EnterKeys == {}

Fault_EnterModifiers == Untold
EnterModifiers == [mods |-> mods, layout |-> layout]

\* Any commit of the focused window clears the keyboard focus and enters the
\* window again, also when it had the keyboard already.
CommitFocused ==
    /\ ran # "quit"
    /\ HandOver
    /\ held' = EnterKeys
    /\ known' = EnterModifiers
    /\ UNCHANGED <<down, mods, layout, swallowed, ran>>

OpenWindow(w) == ran # "quit" /\ Open(w) /\ UNCHANGED keyVars

ChooseWindow(w) == ran # "quit" /\ Choose(w) /\ UNCHANGED keyVars

CloseWindow(w) ==
    /\ ran # "quit"
    /\ Close(w)
    /\ IF keyboard' = keyboard THEN UNCHANGED <<held, known>>
                               ELSE held' = {} /\ known' = Untold
    /\ UNCHANGED <<down, mods, layout, swallowed, ran>>

VanishWindow(w) ==
    /\ ran # "quit"
    /\ Vanish(w)
    /\ held' = {} /\ known' = Untold
    /\ UNCHANGED <<down, mods, layout, swallowed, ran>>

WindowStep(w) == OpenWindow(w) \/ ChooseWindow(w) \/ CloseWindow(w) \/ VanishWindow(w)
KeyStep(k) == Press(k) \/ Release(k)

KeyNext == CommitFocused \/ (\E w \in Windows : WindowStep(w))
                         \/ (\E k \in Keys : KeyStep(k))

KeySpec == KeyInit /\ [][KeyNext]_allVars

-----------------------------------------------------------------------------
(* Properties                                                              *)

\* The window with the keyboard knows the modifiers and the layout in effect,
\* whenever it got the keyboard and whatever was pressed since: the commit
\* listener and cbKeyboardMod between them tell it of every change.
ModifiersKnown ==
    keyboard # NoWindow => known = [mods |-> mods, layout |-> layout]

\* No step makes a window believe a key to be held whose press ran an action:
\* neither the press itself (it is not passed on) nor a keyboard handed over
\* while the key of the binding is still held.
SwallowedStayHidden == [][(held' \ held) \cap swallowed' = {}]_allVars

\* A key that a window believes held and that nobody holds comes from a release
\* while no window was focused: cbKeyboardKey looks presses up, never releases,
\* so that no binding takes away the release of a press a client has seen.
StuckOnlyUnfocused ==
    [][~ (held' \ down' \subseteq held \ down) => focus = NoWindow]_allVars

\* What the comments of setup_binds say the keys do under the modifiers held.
Does(needs, k, action) == [mods |-> needs, key |-> k, action |-> action]

Documented == {
    Does({"logo", "shift"}, "return", "spawn"),
    Does({"logo", "shift"}, "f",      "fullscreen"),
    Does({"logo"},          "q",      "close"),
    Does({"logo", "shift"}, "q",      "quit"),
    Does({"logo"},          "escape", "quit"),
    Does({"logo"},          "t",      "floating") }

DocumentedFor(k) == {d \in Documented : d.mods = mods /\ d.key = k}

\* A press runs the action the comments of main_comp.cpp give for the key and
\* the modifiers in effect, and no other, in both layouts and whatever was
\* pressed before.
DocumentedKeys ==
    [][\A k \in Keys : k \in down' \ down =>
          /\ \A d \in DocumentedFor(k) : ran' = d.action
          /\ DocumentedFor(k) = {} => ran' = "none"]_allVars
=============================================================================
