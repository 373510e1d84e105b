----------------------------- MODULE KeyProofs -----------------------------
(***************************************************************************)
(* What a window is told of keys and modifiers, for any set of windows and *)
(* of keys.                                                                *)
(***************************************************************************)
EXTENDS KeyInput, TLAPS

\* What a window can be told of modifiers.
Told == [mods : SUBSET Modifiers, layout : Layouts]

\* The types that matter, and two facts: a key whose press ran an action counts
\* as swallowed only while it is held, and without a keyboard window there is
\* nobody to believe anything.
KeyInv ==
    /\ mods \subseteq Modifiers
    /\ layout \in Layouts
    /\ known \in Told
    /\ NoWindow \notin open
    /\ swallowed \subseteq down
    /\ keyboard = NoWindow => held = {}

LEMMA ModifiedKnown ==
    ASSUME KeyInv, ModifiersKnown, NEW m \in SUBSET Modifiers, NEW l \in Layouts,
           Modified(m, l), UNCHANGED keyboard
    PROVE  /\ ModifiersKnown'
           /\ mods' \subseteq Modifiers /\ layout' \in Layouts /\ known' \in Told
BY DEF Modified, KeyInv, ModifiersKnown, Told

LEMMA OtherLayout ==
    ASSUME NEW l0 \in Layouts
    PROVE  (CHOOSE l \in Layouts : l # l0) \in Layouts
BY DEF Layouts

LEMMA PressKeepsKnown ==
    ASSUME KeyInv, ModifiersKnown, NEW k \in Keys, Press(k)
    PROVE  KeyInv' /\ ModifiersKnown'
<1> DEFINE other == CHOOSE l \in Layouts : l # layout
<1>1. PICK m \in SUBSET Modifiers, l \in Layouts : Modified(m, l)
  <2>1. CASE Switches(k)
    <3>1. Modified(mods, other)
      BY <2>1 DEF Press
    <3> QED
      BY <3>1, OtherLayout DEF KeyInv
  <2>2. CASE ~ Switches(k)
    <3>1. Modified(mods \cup ({k} \cap Modifiers), layout)
      BY <2>2 DEF Press
    <3> QED
      BY <3>1 DEF KeyInv
  <2> QED
    BY <2>1, <2>2
<1>2. UNCHANGED focusVars
  BY DEF Press
<1>3. /\ keyboard = NoWindow => held' = held
      /\ swallowed \subseteq down => swallowed' \subseteq down'
  BY DEF Press, Received
<1>4. /\ ModifiersKnown'
      /\ mods' \subseteq Modifiers /\ layout' \in Layouts /\ known' \in Told
  BY <1>1, <1>2, ModifiedKnown DEF focusVars
<1> QED
  BY <1>2, <1>3, <1>4 DEF KeyInv, focusVars

LEMMA ReleaseKeepsKnown ==
    ASSUME KeyInv, ModifiersKnown, NEW k \in Keys, Release(k)
    PROVE  KeyInv' /\ ModifiersKnown'
<1>1. mods \ {k} \in SUBSET Modifiers /\ layout \in Layouts
  BY DEF KeyInv
<1>2. Modified(mods \ {k}, layout) /\ UNCHANGED focusVars
  BY DEF Release
<1>3. /\ keyboard = NoWindow => held' = held
      /\ swallowed \subseteq down => swallowed' \subseteq down'
  BY DEF Release, Received
<1>4. /\ ModifiersKnown'
      /\ mods' \subseteq Modifiers /\ layout' \in Layouts /\ known' \in Told
  BY <1>1, <1>2, ModifiedKnown DEF focusVars
<1> QED
  BY <1>2, <1>3, <1>4 DEF KeyInv, focusVars

LEMMA WindowsKeepKnown ==
    ASSUME KeyInv, ModifiersKnown,
           CommitFocused \/ \E w \in Windows : WindowStep(w)
    PROVE  KeyInv' /\ ModifiersKnown'
<1>1. CASE CommitFocused
  BY <1>1 DEF CommitFocused, HandOver, EnterKeys, EnterModifiers, KeyInv,
              ModifiersKnown, Told
<1>2. ASSUME NEW w \in Windows, OpenWindow(w) \/ ChooseWindow(w)
      PROVE  KeyInv' /\ ModifiersKnown'
  BY <1>2, NoWindowAssumption
     DEF OpenWindow, Open, ChooseWindow, Choose, keyVars, KeyInv, ModifiersKnown
<1>3. ASSUME NEW w \in Windows, CloseWindow(w)
      PROVE  KeyInv' /\ ModifiersKnown'
  <2>1. CASE keyboard' # keyboard
    BY <1>3, <2>1 DEF CloseWindow, Close, KeyInv, ModifiersKnown, Told, Untold, Layouts
  <2>2. CASE keyboard' = keyboard
    BY <1>3, <2>2 DEF CloseWindow, Close, KeyInv, ModifiersKnown
  <2> QED
    BY <2>1, <2>2
<1>4. ASSUME NEW w \in Windows, VanishWindow(w)
      PROVE  KeyInv' /\ ModifiersKnown'
  BY <1>4 DEF VanishWindow, Vanish, KeyInv, ModifiersKnown, Told, Untold, Layouts
<1> QED
  BY <1>1, <1>2, <1>3, <1>4 DEF WindowStep

LEMMA KnownInductive ==
    KeyInv /\ ModifiersKnown /\ [KeyNext]_allVars => KeyInv' /\ ModifiersKnown'
<1> SUFFICES ASSUME KeyInv, ModifiersKnown, [KeyNext]_allVars
             PROVE  KeyInv' /\ ModifiersKnown'
  OBVIOUS
<1>1. CASE UNCHANGED allVars
  BY <1>1 DEF allVars, focusVars, keyVars, KeyInv, ModifiersKnown
<1> QED
  BY <1>1, PressKeepsKnown, ReleaseKeepsKnown, WindowsKeepKnown DEF KeyNext, KeyStep

LEMMA KnownInitially == KeyInit => KeyInv /\ ModifiersKnown
BY DEF KeyInit, Init, KeyInv, ModifiersKnown, Told, Untold, Layouts

\* In every reachable state the window with the keyboard knows the modifiers and
\* the layout: the commit listener and cbKeyboardMod tell it of every change.
THEOREM ModifiersAlwaysKnown == KeySpec => []ModifiersKnown
<1>1. KeySpec => [](KeyInv /\ ModifiersKnown)
  BY KnownInitially, KnownInductive, PTL DEF KeySpec
<1> QED
  BY <1>1, PTL

-----------------------------------------------------------------------------
(* What one step may do to the keys a window believes held                 *)

\* A window learns of a key by its press alone, and then the press is its own.
LEMMA LearntByPress ==
    ASSUME KeyInv, [KeyNext]_allVars
    PROVE  (held' \ held) \cap swallowed' = {}
<1>1. ASSUME NEW k \in Keys, Press(k)
      PROVE  (held' \ held) \cap swallowed' = {}
  <2>1. CASE ActionOf(k) = "none"
    <3>1. /\ held' \subseteq held \cup {k}
          /\ swallowed' = swallowed /\ k \notin down
      BY <1>1, <2>1 DEF Press
    <3> QED
      BY <3>1 DEF KeyInv
  <2>2. CASE ActionOf(k) # "none"
    <3>1. held' = held
      BY <1>1, <2>2 DEF Press
    <3> QED
      BY <3>1
  <2> QED
    BY <2>1, <2>2
<1>2. ASSUME \/ CommitFocused
             \/ \E w \in Windows : WindowStep(w)
             \/ \E k \in Keys : Release(k)
             \/ UNCHANGED allVars
      PROVE  held' \subseteq held
  BY <1>2 DEF CommitFocused, EnterKeys, WindowStep, OpenWindow, ChooseWindow,
              CloseWindow, VanishWindow, Release, allVars, keyVars
<1> QED
  BY <1>1, <1>2 DEF KeyNext, KeyStep

\* While a window is focused, no step leaves a window with a key that nobody
\* holds and that it did not have already.
LEMMA NotStuckWhileFocused ==
    ASSUME KeyInv, [KeyNext]_allVars, focus # NoWindow
    PROVE  held' \ down' \subseteq held \ down
<1>1. ASSUME NEW k \in Keys, Press(k)
      PROVE  held' \ down' \subseteq held \ down
  <2>1. held' \subseteq held \cup {k} /\ down' = down \cup {k}
    BY <1>1 DEF Press
  <2> QED
    BY <2>1
<1>2. ASSUME NEW k \in Keys, Release(k)
      PROVE  held' \ down' \subseteq held \ down
  <2>1. down' = down \ {k} /\ held' = IF keyboard # NoWindow THEN held \ {k} ELSE held
    BY <1>2 DEF Release, Received, PassedOn
  <2> QED
    BY <2>1 DEF KeyInv
<1>3. ASSUME CommitFocused \/ (\E w \in Windows : WindowStep(w)) \/ UNCHANGED allVars
      PROVE  held' \ down' \subseteq held \ down
  <2>1. held' \subseteq held /\ down' = down
    BY <1>3 DEF CommitFocused, EnterKeys, WindowStep, OpenWindow, ChooseWindow,
                CloseWindow, VanishWindow, allVars, keyVars
  <2> QED
    BY <2>1
<1> QED
  BY <1>1, <1>2, <1>3 DEF KeyNext, KeyStep

LEMMA KeyInvAlways == KeySpec => []KeyInv
BY KnownInitially, KnownInductive, PTL DEF KeySpec

\* No step makes a window believe held a key whose press ran an action.
THEOREM SwallowedAlwaysHidden == KeySpec => SwallowedStayHidden
<1>1. KeyInv /\ [KeyNext]_allVars => [(held' \ held) \cap swallowed' = {}]_allVars
  BY LearntByPress
<1> QED
  BY <1>1, KeyInvAlways, PTL DEF KeySpec, SwallowedStayHidden

\* A release is kept from the window that saw the press only while no window is
\* focused; cbKeyboardKey looks no release up in the bindings.
THEOREM StuckOnlyWhileUnfocused == KeySpec => StuckOnlyUnfocused
<1>1. KeyInv /\ [KeyNext]_allVars
      => [~ (held' \ down' \subseteq held \ down) => focus = NoWindow]_allVars
  BY NotStuckWhileFocused
<1> QED
  BY <1>1, KeyInvAlways, PTL DEF KeySpec, StuckOnlyUnfocused

-----------------------------------------------------------------------------
(* The action of a press                                                   *)

\* The bindings that match a press, and those made for the key and the modifiers
\* held: the same ones, because a keysym is only ever that of its own key.
Matching(k) == {i \in 1..Len(Binds) : Matches(Binds[i], k)}
MadeFor(m, k) == {i \in 1..10 : Binds[i].mods = m /\ Binds[i].key = k}

LEMMA MatchingAreMadeFor ==
    ASSUME NEW k \in Keys
    PROVE  Matching(k) = MadeFor(mods, k)
<1>1. Len(Binds) = 10 /\ \A i \in 1..10 : Binds[i].sym.key = Binds[i].key
  BY DEF Binds, Bind, Sym
<1>2. \A s \in SymsOf(k) : s.key = k
  BY DEF SymsOf, Sym
<1> QED
  BY <1>1, <1>2 DEF Matching, MadeFor, Matches

\* The table, read.
Reads(i, needs, k, action) ==
    Binds[i].mods = needs /\ Binds[i].key = k /\ Binds[i].action = action

LEMMA TableReads ==
    LET L == {"logo"}
        LS == {"logo", "shift"}
    IN  /\ Reads(1, LS, "return", "spawn")
        /\ Reads(2, LS, "f", "fullscreen") /\ Reads(3, LS, "f", "fullscreen")
        /\ Reads(4, L, "q", "close") /\ Reads(5, L, "q", "close")
        /\ Reads(6, LS, "q", "quit") /\ Reads(7, LS, "q", "quit")
        /\ Reads(8, L, "escape", "quit")
        /\ Reads(9, L, "t", "floating") /\ Reads(10, L, "t", "floating")
BY DEF Reads, Binds, Bind

\* The bindings made for a press have the action that is documented for it; there
\* are two of them at most, for a letter in upper and in lower case.
LEMMA MadeAsDocumented ==
    ASSUME NEW k
    PROVE  /\ \A i \in MadeFor(mods, k), d \in DocumentedFor(k) : Binds[i].action = d.action
           /\ MadeFor(mods, k) = {} <=> DocumentedFor(k) = {}
           /\ \E j \in 1..10 : MadeFor(mods, k) \subseteq {j, j + 1}
<1> DEFINE L == {"logo"}
           LS == {"logo", "shift"}
<1>1. L # LS
  OBVIOUS
<1>2. \A d : d \in DocumentedFor(k) <=>
            \/ mods = LS /\ k = "return" /\ d = Does(LS, k, "spawn")
            \/ mods = LS /\ k = "f" /\ d = Does(LS, k, "fullscreen")
            \/ mods = L /\ k = "q" /\ d = Does(L, k, "close")
            \/ mods = LS /\ k = "q" /\ d = Does(LS, k, "quit")
            \/ mods = L /\ k = "escape" /\ d = Does(L, k, "quit")
            \/ mods = L /\ k = "t" /\ d = Does(L, k, "floating")
  BY DEF DocumentedFor, Documented, Does
<1>3. /\ Reads(1, LS, "return", "spawn")
      /\ Reads(2, LS, "f", "fullscreen") /\ Reads(3, LS, "f", "fullscreen")
      /\ Reads(4, L, "q", "close") /\ Reads(5, L, "q", "close")
      /\ Reads(6, LS, "q", "quit") /\ Reads(7, LS, "q", "quit")
      /\ Reads(8, L, "escape", "quit")
      /\ Reads(9, L, "t", "floating") /\ Reads(10, L, "t", "floating")
  BY TableReads
<1> HIDE DEF L, LS
<1>4. ASSUME NEW i \in MadeFor(mods, k)
      PROVE  \/ mods = LS /\ k = "return" /\ i = 1
             \/ mods = LS /\ k = "f" /\ i \in {2, 3}
             \/ mods = L /\ k = "q" /\ i \in {4, 5}
             \/ mods = LS /\ k = "q" /\ i \in {6, 7}
             \/ mods = L /\ k = "escape" /\ i = 8
             \/ mods = L /\ k = "t" /\ i \in {9, 10}
  <2>1. i \in {1, 2, 3, 4, 5, 6, 7, 8, 9, 10}
    BY DEF MadeFor
  <2> QED
    BY <1>3, <2>1 DEF MadeFor, Reads
<1>5. \A i \in MadeFor(mods, k), d \in DocumentedFor(k) : Binds[i].action = d.action
  BY <1>1, <1>2, <1>3, <1>4 DEF Reads, Does
<1>6. MadeFor(mods, k) # {} => DocumentedFor(k) # {}
  BY <1>2, <1>4
<1>7. ASSUME NEW d \in DocumentedFor(k) PROVE \E i \in 1..10 : i \in MadeFor(mods, k)
  BY <1>2, <1>3 DEF MadeFor, Reads
<1>8. \E j \in 1..10 : MadeFor(mods, k) \subseteq {j, j + 1}
  BY <1>1, <1>4
<1> QED
  BY <1>5, <1>6, <1>7, <1>8

LEMMA ActionAsDocumented ==
    ASSUME NEW k \in Keys
    PROVE  /\ \A d \in DocumentedFor(k) : ActionOf(k) = d.action
           /\ DocumentedFor(k) = {} => ActionOf(k) = "none"
<1>1. ActionOf(k) = IF Matching(k) # {} THEN Binds[Min(Matching(k))].action ELSE "none"
  BY DEF ActionOf, Matching
<1>2. Matching(k) = MadeFor(mods, k)
  BY MatchingAreMadeFor
<1>3. ASSUME Matching(k) # {} PROVE Min(Matching(k)) \in Matching(k)
  <2>1. PICK j \in 1..10 : Matching(k) \subseteq {j, j + 1}
    BY <1>2, MadeAsDocumented
  <2>2. \E x \in Matching(k) : \A y \in Matching(k) : x <= y
    BY <1>3, <2>1
  <2> QED
    BY <2>2 DEF Min
<1> QED
  BY <1>1, <1>2, <1>3, MadeAsDocumented

\* Whatever was pressed before and whichever layout is in effect, a press runs
\* the documented action and nothing that is not documented.
THEOREM KeysAlwaysAsDocumented == KeySpec => DocumentedKeys
<1> DEFINE Runs == \A k \in Keys : k \in down' \ down =>
                      /\ \A d \in DocumentedFor(k) : ran' = d.action
                      /\ DocumentedFor(k) = {} => ran' = "none"
<1>1. [KeyNext]_allVars => [Runs]_allVars
  <2>1. ASSUME NEW k \in Keys, KeyNext, k \in down' \ down
        PROVE  ran' = ActionOf(k)
    BY <2>1 DEF KeyNext, KeyStep, Press, Release, CommitFocused, WindowStep, OpenWindow,
                ChooseWindow, CloseWindow, VanishWindow, keyVars
  <2> QED
    BY <2>1, ActionAsDocumented
<1> QED
  BY <1>1, PTL DEF KeySpec, DocumentedKeys
=============================================================================
