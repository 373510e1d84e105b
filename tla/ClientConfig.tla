---------------------------- MODULE ClientConfig ----------------------------
(***************************************************************************)
(* How the test client answers its keyboard (keyboard_modifiers and        *)
(* keyboard_key of WaylandClient.cpp): a press gets a name from the key    *)
(* and the modifiers, and Config::handleKey (config.hpp) runs the binding  *)
(* of that name and the first combo the last ten names end with.  main     *)
(* adds bindings and combos before the client runs.                        *)
(***************************************************************************)
EXTENDS Naturals, Sequences, FiniteSetsExt

CONSTANTS Keys,
          ModifierSets, \* the modifiers that are held together
          Bound,        \* the names main has bound
          ComboLists,   \* the lists of combos main may have added
          MaxHistory,   \* maxLen of handleKey, 10
          MaxTyped      \* how many keys are followed between two combos

ClientModifiers == {"ctrl", "shift", "alt"}

\* A name lists the modifiers that key was pressed with; with any, the key's own
\* name is in lower case.
Names == [mods : SUBSET ClientModifiers, key : Keys]

ASSUME ModifiersAssumption == ModifierSets \subseteq SUBSET ClientModifiers
ASSUME HistoryAssumption == MaxHistory \in Nat \ {0}
ASSUME ListsAssumption == ComboLists \subseteq Seq(Seq(Names))
ASSUME TypedAssumption == MaxTyped \in Nat

VARIABLES mods,     \* m_mods, as the compositor told it
          combos,   \* Config::combos, without what they run
          history,  \* Config::history
          answer,   \* what the last press ran
          typed     \* all names since the last combo: what history is a window on

clientVars == <<mods, combos, history, answer, typed>>

ClientInit ==
    /\ mods = {}
    /\ combos \in ComboLists
    /\ history = << >>
    /\ answer = [binding |-> FALSE, combo |-> 0]
    /\ typed = << >>

ModifiersEvent ==
    /\ mods' \in ModifierSets
    /\ UNCHANGED <<combos, history, answer, typed>>

\* handleKey pushes the name and keeps the last MaxHistory.
Fault_Pushed(name) ==
    LET longer == Append(history, name)
    IN  IF Len(longer) >= MaxHistory THEN Tail(longer) ELSE longer
Pushed(name) ==
    LET longer == Append(history, name)
    IN  IF Len(longer) > MaxHistory THEN Tail(longer) ELSE longer

EndOf(s, c) ==
    /\ Len(c) <= Len(s)
    /\ \A i \in 1..Len(c) : s[Len(s) - Len(c) + i] = c[i]

\* The combos a history s ends with, and the one handleKey comes to first.
Found(s) == {i \in DOMAIN combos : EndOf(s, combos[i])}

First(S) == IF S = {} THEN 0 ELSE Min(S)

Fault_HistoryAfter(name) == Pushed(name)
HistoryAfter(name) == IF Found(Pushed(name)) = {} THEN Pushed(name) ELSE << >>

HandleKey(name) ==
    /\ answer' = [binding |-> name \in Bound, combo |-> First(Found(Pushed(name)))]
    /\ history' = HistoryAfter(name)
    /\ typed' = IF Found(Pushed(name)) = {} THEN Append(typed, name) ELSE << >>
    /\ UNCHANGED <<mods, combos>>

\* A key event of a press; one of a release returns at once.
KeyPressed(k) ==
    /\ Len(typed) < MaxTyped
    /\ HandleKey([mods |-> mods, key |-> k])

ClientNext == ModifiersEvent \/ \E k \in Keys : KeyPressed(k)

ClientSpec == ClientInit /\ [][ClientNext]_clientVars

-----------------------------------------------------------------------------
(* Properties                                                              *)

\* The history of ten names is enough: what runs is what would run if every name
\* since the last combo were kept, but for combos that are longer.
abstract == INSTANCE Combos WITH Bindings <- Bound, Longest <- MaxHistory
CombosRefined == abstract!Spec

\* Typing c runs the combo d before c is complete, or in its place.
Shadows(j, i) ==
    \/ \E n \in 1..(Len(combos[i]) - 1) : EndOf(SubSeq(combos[i], 1, n), combos[j])
    \/ j < i /\ EndOf(combos[i], combos[j])

\* A combo that another one cuts short or stands before never runs, whatever was
\* typed in front of it: a combo that runs leaves nothing in the history.
ShadowedNeverRuns ==
    \A i, j \in DOMAIN combos : Shadows(j, i) => answer.combo # i
=============================================================================
