-------------------------- MODULE LifecycleProofs --------------------------
(***************************************************************************)
(* Owners and listeners, for any number of outputs, keyboards and          *)
(* toplevels and any failure of init.                                      *)
(***************************************************************************)
EXTENDS Lifecycle, TLAPS

Owners == {"Compositor", "Cursor", "Keyboard", "OutputCtx", "View"}

\* What is linked is what its owner links, so that unlinking that leaves nothing.
Shape(l) ==
    /\ l.owner \in Owners
    /\ l.owner = "Keyboard" => l.of \in Keyboards
    /\ l.owner = "OutputCtx" => l \in OutputListeners(l.of)
    /\ l.owner = "View" => l \in RequestListeners(l.of) \cup {CommitListener(l.of)}

ListenersInv == \A l \in linked : OwnerLives(l) /\ Shape(l)

DestroyListener(o) == Listener("OutputCtx", o, "destroy", "output")

\* A context is one of an output that is there, and learns of its end; kbd_ is
\* one of a keyboard.
ContextsInv ==
    /\ kbd \in Keyboards \cup {None} /\ ctxs \subseteq Outputs
    /\ \A o \in ctxs : o \in present /\ DestroyListener(o) \in linked /\ "display" \in globals

\* init gets as far as it has created what came before, but for the cursor.
StartInv ==
    /\ phase \in {"init", "running", "failed", "ended"}
    /\ step \in 0..Len(Steps)
    /\ phase = "init" => step < Len(Steps)
    /\ phase = "running" => step = Len(Steps)
    /\ phase \in {"init", "running"} =>
          \A i \in 1..step : Steps[i] = "cursor" \/ Steps[i] \in globals
    /\ phase = "ended" => linked = {}

\* A keyboard that was read after its end is the one kbd_ points to for good.
MisuseInv ==
    /\ NothingMisused
    /\ "wlr_keyboard" \in misused /\ phase # "ended" => kbd \notin present \cup {None}

LifeInv ==
    /\ ListenersInv /\ ContextsInv /\ StartInv /\ MisuseInv
    /\ EverythingFreed

LEMMA StepsOfInit ==
    /\ Len(Steps) = 14
    /\ Steps[1] = "display" /\ Steps[3] = "renderer" /\ Steps[4] = "allocator"
    /\ Steps[5] = "layout" /\ Steps[6] = "scene" /\ Steps[7] = "sol"
    /\ Steps[10] = "seat" /\ Steps[11] = "cursor" /\ Steps[12] = "listeners"
    /\ \A i \in 1..14 : Steps[i] = "cursor" => i = 11
BY DEF Steps

\* What handlers use is there once devices are announced.
LEMMA NothingMissing ==
    ASSUME StartInv, phase = "running" \/ (phase = "init" /\ step = Len(Steps) - 1)
    PROVE  Missing({"allocator", "renderer", "scene", "layout", "sol", "seat", "display"}) = {}
<1>1. step \in 13..14 /\ phase \in {"init", "running"}
  BY StepsOfInit DEF StartInv
<1>2. \A i \in 1..13 : Steps[i] = "cursor" \/ Steps[i] \in globals
  BY <1>1 DEF StartInv
<1>3. /\ Steps[1] \in globals /\ Steps[3] \in globals /\ Steps[4] \in globals
      /\ Steps[5] \in globals /\ Steps[6] \in globals /\ Steps[7] \in globals
      /\ Steps[10] \in globals
  BY <1>2, StepsOfInit
<1> QED
  BY <1>3, StepsOfInit DEF Missing

LEMMA NothingDangles ==
    ASSUME ListenersInv, NEW name, NEW of
    PROVE  Dangling(name, of) = {}
BY DEF ListenersInv, Dangling

-----------------------------------------------------------------------------
(* Steps of init                                                           *)

LEMMA InitStepKeeps ==
    ASSUME LifeInv, NEW works \in BOOLEAN, InitStep(works)
    PROVE  LifeInv'
<1> DEFINE s == Steps[step + 1]
<1>1. /\ phase = "init" /\ step \in 0..13 /\ step' = step + 1
      /\ globals' = IF works THEN globals \cup {s} ELSE globals
      /\ phase' = IF ~ works /\ s # "cursor" THEN "failed"
                  ELSE IF step + 1 = Len(Steps) THEN "running" ELSE "init"
      /\ UNCHANGED <<present, surfaces, kbd, ctxs, views, focused, anims>>
  BY StepsOfInit DEF InitStep, LifeInv, StartInv
<1>2. phase' \in {"init", "running", "failed"}
  BY <1>1
<1>3. misused' = misused
  <2>1. CASE s # "cursor"
    BY <2>1 DEF InitStep
  <2>2. CASE s = "cursor"
    <3>1. step = 10
      BY <1>1, <2>2, StepsOfInit
    <3>2. \A i \in 1..10 : Steps[i] \in globals
      BY <1>1, <3>1, StepsOfInit DEF LifeInv, StartInv
    <3>3. Missing({"layout", "seat"}) = {}
      BY <3>2, StepsOfInit DEF Missing
    <3>4. misused' = misused \cup Missing({"layout", "seat"})
      BY <2>2 DEF InitStep
    <3> QED
      BY <3>3, <3>4
  <2> QED
    BY <2>1, <2>2
<1>4. StartInv'
  <2>1. step' \in 0..Len(Steps) /\ (phase' = "init" => step' < Len(Steps))
        /\ (phase' = "running" => step' = Len(Steps))
    BY <1>1, StepsOfInit
  <2>2. ASSUME phase' \in {"init", "running"}, NEW i \in 1..step'
        PROVE  Steps[i] = "cursor" \/ Steps[i] \in globals'
    <3>1. CASE i = step + 1
      BY <1>1, <2>2, <3>1
    <3>2. CASE i # step + 1
      BY <1>1, <2>2, <3>2 DEF LifeInv, StartInv
    <3> QED
      BY <3>1, <3>2
  <2> QED
    BY <1>2, <2>1, <2>2 DEF StartInv
<1>5. ListenersInv'
  <2>1. ASSUME NEW l \in linked PROVE OwnerLives(l)' /\ Shape(l)
    <3>1. OwnerLives(l) /\ Shape(l)
      BY DEF LifeInv, ListenersInv
    <3> QED
      BY <1>1, <1>2, <3>1 DEF OwnerLives, Shape, Owners
  <2>2. ASSUME NEW l \in CursorListeners, works, s = "cursor"
        PROVE  OwnerLives(l)' /\ Shape(l)
    BY <1>1, <2>2 DEF CursorListeners, Listener, OwnerLives, Shape, Owners
  <2>3. ASSUME NEW l \in CompositorListeners PROVE OwnerLives(l)' /\ Shape(l)
    BY <1>2 DEF CompositorListeners, Listener, OwnerLives, Shape, Owners
  <2>4. \A l \in linked' : \/ l \in linked
                           \/ works /\ s = "cursor" /\ l \in CursorListeners
                           \/ l \in CompositorListeners
    BY DEF InitStep, LinkedBy
  <2> QED
    BY <2>1, <2>2, <2>3, <2>4 DEF ListenersInv
<1>6. ContextsInv'
  <2>1. linked \subseteq linked' /\ globals \subseteq globals'
    BY <1>1 DEF InitStep
  <2> QED
    BY <1>1, <2>1 DEF LifeInv, ContextsInv
<1>7. MisuseInv'
  BY <1>1, <1>2, <1>3 DEF LifeInv, MisuseInv, NothingMisused, anims
<1> QED
  BY <1>2, <1>4, <1>5, <1>6, <1>7 DEF LifeInv, EverythingFreed

-----------------------------------------------------------------------------
(* Outputs                                                                 *)

\* The end of an output frees its context, which listens to it.
LEMMA FreedWithIsAll ==
    ASSUME ContextsInv, NEW gone
    PROVE  FreedWith(gone) = ctxs \cap gone
BY DEF ContextsInv, FreedWith, DestroyListener

LEMMA NewOutputKeeps ==
    ASSUME LifeInv, NEW o \in Outputs, NEW works, NewOutput(o, works)
    PROVE  LifeInv'
<1>1. /\ phase = "running" \/ (phase = "init" /\ step = Len(Steps) - 1)
      /\ present' = present \cup {o}
      /\ UNCHANGED <<start, surfaces, kbd, views, focused, anims>>
      /\ ctxs' \subseteq ctxs \cup {o} /\ ctxs \subseteq ctxs'
      /\ o \in ctxs' \ ctxs => linked' = linked \cup OutputListeners(o)
      /\ linked \subseteq linked'
      /\ \A l \in linked' : l \in linked \/ (l \in OutputListeners(o) /\ o \in ctxs')
  BY DEF NewOutput, Announced, OutputLinked
<1>2. Missing({"allocator", "renderer", "scene", "layout", "sol", "seat", "display"}) = {}
  BY <1>1, NothingMissing DEF LifeInv
<1>3. misused' = misused
  BY <1>2 DEF NewOutput, Missing
<1>4. ListenersInv'
  <2>1. ASSUME NEW l \in linked PROVE OwnerLives(l)' /\ Shape(l)
    BY <1>1 DEF LifeInv, ListenersInv, OwnerLives, start
  <2>2. ASSUME NEW l \in OutputListeners(o), o \in ctxs' PROVE OwnerLives(l)' /\ Shape(l)
    BY <2>2 DEF OutputListeners, Listener, OwnerLives, Shape, Owners
  <2> QED
    BY <1>1, <2>1, <2>2 DEF ListenersInv
<1>5. ContextsInv'
  <2>1. DestroyListener(o) \in OutputListeners(o)
    BY DEF DestroyListener, OutputListeners
  <2>2. "display" \in globals'
    BY <1>1, <1>2 DEF Missing, start
  <2> QED
    BY <1>1, <2>1, <2>2 DEF LifeInv, ContextsInv
<1>6. StartInv'
  BY <1>1 DEF LifeInv, StartInv, start
<1>7. MisuseInv'
  BY <1>1, <1>3, NoneAssumption, DisjointAssumption
     DEF LifeInv, MisuseInv, NothingMisused, ContextsInv, start, anims
<1> QED
  BY <1>1, <1>4, <1>5, <1>6, <1>7 DEF LifeInv, EverythingFreed, start

LEMMA OutputGoneKeeps ==
    ASSUME LifeInv, NEW o \in Outputs, OutputGone(o)
    PROVE  LifeInv'
<1>1. /\ phase = "running" /\ present' = present \ {o}
      /\ UNCHANGED <<start, surfaces, kbd, views, focused, anims>>
      /\ ctxs' = ctxs \ {o} /\ linked' = linked \ OutputListeners(o)
      /\ misused' = misused
  BY FreedWithIsAll, NothingDangles DEF OutputGone, LifeInv
<1>2. ListenersInv'
  <2>1. ASSUME NEW l \in linked \ OutputListeners(o) PROVE OwnerLives(l)' /\ Shape(l)
    <3>1. OwnerLives(l) /\ Shape(l)
      BY DEF LifeInv, ListenersInv
    <3>2. l.owner = "OutputCtx" => l.of # o
      BY <3>1 DEF Shape
    <3> QED
      BY <1>1, <3>1, <3>2 DEF OwnerLives, start
  <2> QED
    BY <1>1, <2>1 DEF ListenersInv
<1>3. ContextsInv'
  <2>1. ASSUME NEW o2 \in ctxs, o2 # o PROVE DestroyListener(o2) \notin OutputListeners(o)
    BY <2>1 DEF DestroyListener, OutputListeners, Listener
  <2> QED
    BY <1>1, <2>1 DEF LifeInv, ContextsInv, start
<1>4. StartInv'
  BY <1>1 DEF LifeInv, StartInv, start
<1>5. MisuseInv'
  BY <1>1 DEF LifeInv, MisuseInv, NothingMisused, start, anims
<1> QED
  BY <1>1, <1>2, <1>3, <1>4, <1>5 DEF LifeInv, EverythingFreed, start

-----------------------------------------------------------------------------
(* Keyboards                                                               *)

LEMMA NewKeyboardKeeps ==
    ASSUME LifeInv, NEW k \in Keyboards, NEW works \in BOOLEAN, NewKeyboard(k, works)
    PROVE  LifeInv'
<1>1. /\ phase = "running" \/ (phase = "init" /\ step = Len(Steps) - 1)
      /\ k \notin present \cup {kbd} /\ present' = present \cup {k}
      /\ UNCHANGED <<start, surfaces, ctxs, views, focused, anims>>
      /\ \/ UNCHANGED <<kbd, linked>>
         \/ kbd = None /\ kbd' = k /\ linked' = linked \cup KeyboardListeners(k)
  BY DEF NewKeyboard, Announced
<1>2. Missing({"allocator", "renderer", "scene", "layout", "sol", "seat", "display"}) = {}
  BY <1>1, NothingMissing DEF LifeInv
<1>3. misused' = misused
  BY <1>2 DEF NewKeyboard, Missing
<1>4. ListenersInv'
  <2>1. CASE UNCHANGED <<kbd, linked>>
    BY <1>1, <2>1 DEF LifeInv, ListenersInv, OwnerLives, start
  <2>2. CASE kbd = None /\ kbd' = k /\ linked' = linked \cup KeyboardListeners(k)
    <3>1. ASSUME NEW l \in linked PROVE OwnerLives(l)' /\ Shape(l)
      <4>1. OwnerLives(l) /\ Shape(l)
        BY DEF LifeInv, ListenersInv
      <4>2. l.owner # "Keyboard"
        BY <2>2, <4>1, NoneAssumption DEF OwnerLives, Shape
      <4> QED
        BY <1>1, <4>1, <4>2 DEF OwnerLives, start
    <3>2. ASSUME NEW l \in KeyboardListeners(k) PROVE OwnerLives(l)' /\ Shape(l)
      BY <2>2 DEF KeyboardListeners, Listener, OwnerLives, Shape, Owners
    <3> QED
      BY <2>2, <3>1, <3>2 DEF ListenersInv
  <2> QED
    BY <1>1, <2>1, <2>2
<1>5. ContextsInv'
  BY <1>1 DEF LifeInv, ContextsInv, start
<1>6. StartInv'
  BY <1>1, <1>4 DEF LifeInv, StartInv, start
<1>7. MisuseInv'
  BY <1>1, <1>3 DEF LifeInv, MisuseInv, NothingMisused, start, anims
<1> QED
  BY <1>1, <1>4, <1>5, <1>6, <1>7 DEF LifeInv, EverythingFreed, start

-----------------------------------------------------------------------------
(* Toplevels                                                               *)

LEMMA NewToplevelKeeps ==
    ASSUME LifeInv, NEW t \in Toplevels, NewToplevel(t)
    PROVE  LifeInv'
<1> DEFINE Linked == RequestListeners(t) \cup {CommitListener(t)}
<1>1. /\ phase = "running" /\ present' = present \cup {t} /\ views' = views \cup {t}
      /\ linked' = linked \cup Linked
      /\ UNCHANGED <<start, kbd, ctxs, anims>>
  BY DEF NewToplevel
<1>2. Missing({"allocator", "renderer", "scene", "layout", "sol", "seat", "display"}) = {}
  BY <1>1, NothingMissing DEF LifeInv
<1>3. misused' = misused
  BY <1>2 DEF NewToplevel, Missing
<1>4. ListenersInv'
  <2>1. ASSUME NEW l \in linked PROVE OwnerLives(l)' /\ Shape(l)
    BY <1>1 DEF LifeInv, ListenersInv, OwnerLives, start
  <2>2. ASSUME NEW l \in Linked PROVE OwnerLives(l)' /\ Shape(l)
    BY <1>1 DEF RequestListeners, CommitListener, Listener, OwnerLives, Shape, Owners
  <2> QED
    BY <1>1, <2>1, <2>2 DEF ListenersInv
<1>5. ContextsInv'
  BY <1>1 DEF LifeInv, ContextsInv, start
<1>6. StartInv'
  BY <1>1 DEF LifeInv, StartInv, start
<1>7. MisuseInv'
  BY <1>1, <1>3, NoneAssumption, DisjointAssumption
     DEF LifeInv, MisuseInv, NothingMisused, ContextsInv, start, anims
<1> QED
  BY <1>1, <1>4, <1>5, <1>6, <1>7 DEF LifeInv, EverythingFreed, start

LEMMA ToplevelGoneKeeps ==
    ASSUME LifeInv, NEW t \in Toplevels, ToplevelGone(t)
    PROVE  LifeInv'
<1>1. /\ phase = "running" /\ present' = present \ {t} /\ views' = views \ {t}
      /\ linked' = linked \ (RequestListeners(t) \cup {CommitListener(t)})
      /\ UNCHANGED <<start, kbd, ctxs, anims>> /\ misused' = misused
  BY NothingDangles DEF ToplevelGone, ViewUnlinked, LifeInv
<1>2. ListenersInv'
  <2>1. ASSUME NEW l \in linked' PROVE OwnerLives(l)' /\ Shape(l)
    <3>1. OwnerLives(l) /\ Shape(l)
      BY <1>1 DEF LifeInv, ListenersInv
    <3>2. l.owner = "View" => l.of # t
      BY <1>1, <3>1 DEF Shape
    <3> QED
      BY <1>1, <3>1, <3>2 DEF OwnerLives, start
  <2> QED
    BY <2>1 DEF ListenersInv
<1>3. ContextsInv'
  <2>1. ASSUME NEW o \in ctxs PROVE DestroyListener(o) \in linked' /\ o # t
    <3>1. DestroyListener(o) \notin RequestListeners(t) \cup {CommitListener(t)}
      BY DEF DestroyListener, RequestListeners, CommitListener, Listener
    <3> QED
      BY <1>1, <3>1, DisjointAssumption DEF LifeInv, ContextsInv
  <2> QED
    BY <1>1, <2>1 DEF LifeInv, ContextsInv, start
<1>4. StartInv'
  BY <1>1 DEF LifeInv, StartInv, start
<1>5. MisuseInv'
  BY <1>1 DEF LifeInv, MisuseInv, NothingMisused, start, anims
<1> QED
  BY <1>1, <1>2, <1>3, <1>4, <1>5 DEF LifeInv, EverythingFreed, start

LEMMA SurfaceGoneKeeps ==
    ASSUME LifeInv, NEW t \in Toplevels, SurfaceGone(t)
    PROVE  LifeInv'
<1>1. /\ phase = "running" /\ linked' \subseteq linked
      /\ \A l \in linked : l.source # "surface" => l \in linked'
      /\ UNCHANGED <<start, present, kbd, ctxs, views, focused, anims, misused>>
  BY DEF SurfaceGone
<1>2. ListenersInv'
  BY <1>1 DEF LifeInv, ListenersInv, OwnerLives, start
<1>3. ContextsInv'
  <2>1. \A o \in ctxs : DestroyListener(o).source # "surface"
    BY DEF DestroyListener, Listener
  <2> QED
    BY <1>1, <2>1 DEF LifeInv, ContextsInv, start
<1>4. StartInv' /\ MisuseInv'
  BY <1>1 DEF LifeInv, StartInv, MisuseInv, NothingMisused, start, anims
<1> QED
  BY <1>1, <1>2, <1>3, <1>4 DEF LifeInv, EverythingFreed, start

\* A commit or the tick only record what they misuse, a commit a keyboard that is gone.
LEMMA SurfaceCommitKeeps ==
    ASSUME LifeInv, NEW t \in Toplevels, SurfaceCommit(t)
    PROVE  LifeInv'
<1>1. /\ phase = "running"
      /\ UNCHANGED <<start, present, surfaces, kbd, ctxs, views, focused, linked, anims>>
      /\ \/ misused' = misused
         \/ misused' = misused \cup {"wlr_keyboard"} /\ kbd \notin present \cup {None}
  BY NothingDangles DEF SurfaceCommit, LifeInv
<1>2. ListenersInv' /\ ContextsInv' /\ StartInv'
  BY <1>1 DEF LifeInv, ListenersInv, ContextsInv, StartInv, OwnerLives, start
<1>3. MisuseInv'
  BY <1>1 DEF LifeInv, MisuseInv, NothingMisused, start, anims
<1> QED
  BY <1>1, <1>2, <1>3 DEF LifeInv, EverythingFreed, start

LEMMA TickKeeps ==
    ASSUME LifeInv, Tick
    PROVE  LifeInv'
<1>1. /\ phase = "running" /\ ticked' = TRUE
      /\ UNCHANGED <<start, present, surfaces, kbd, ctxs, views, focused, linked>>
      /\ misused' \subseteq misused \cup {"View"}
  BY DEF Tick
<1>2. ListenersInv' /\ ContextsInv' /\ StartInv'
  BY <1>1 DEF LifeInv, ListenersInv, ContextsInv, StartInv, OwnerLives, start
<1>3. MisuseInv'
  BY <1>1 DEF LifeInv, MisuseInv, NothingMisused, start
<1> QED
  BY <1>1, <1>2, <1>3 DEF LifeInv, EverythingFreed, start

\* Steps that use nothing, or only what lives, and link or free nothing.
LEMMA OtherStepKeeps ==
    ASSUME LifeInv,
           \/ \E o \in Outputs : OutputFrame(o)
           \/ \E k \in Keyboards : KeyboardGone(k) \/ KeyEvent(k)
           \/ \E t \in Toplevels : Focus(t)
           \/ ToggleFullscreen
    PROVE  LifeInv'
<1>1. /\ phase = "running"
      /\ UNCHANGED <<start, surfaces, kbd, ctxs, views, linked, ticked, misused>>
      /\ \/ present' = present
         \/ \E k \in Keyboards : present' = present \ {k}
  BY NothingDangles
     DEF OutputFrame, KeyboardGone, KeyEvent, Focus, ToggleFullscreen, LifeInv, anims
<1>2. ListenersInv' /\ StartInv'
  BY <1>1 DEF LifeInv, ListenersInv, StartInv, OwnerLives, start
<1>3. ContextsInv'
  BY <1>1, DisjointAssumption DEF LifeInv, ContextsInv, start
<1>4. MisuseInv'
  BY <1>1 DEF LifeInv, MisuseInv, NothingMisused, start
<1> QED
  BY <1>1, <1>2, <1>3, <1>4 DEF LifeInv, EverythingFreed, start

-----------------------------------------------------------------------------
(* The destructor, and all together                                        *)

LEMMA DestructorKeeps ==
    ASSUME LifeInv, NEW keysHeld \in BOOLEAN, Destructor(keysHeld)
    PROVE  LifeInv'
<1>1. /\ phase' = "ended" /\ kbd' = None /\ views' = {} /\ linked' = {}
      /\ misused' \subseteq misused \cup {"Keyboard"} /\ UNCHANGED <<step, ticked>>
  BY DEF Destructor
<1>2. ctxs' = {}
  BY FreedWithIsAll DEF Destructor, LifeInv, ContextsInv
<1>3. ListenersInv' /\ ContextsInv' /\ StartInv' /\ EverythingFreed'
  BY <1>1, <1>2 DEF LifeInv, ListenersInv, ContextsInv, StartInv, EverythingFreed
<1>4. MisuseInv'
  BY <1>1 DEF LifeInv, MisuseInv, NothingMisused
<1> QED
  BY <1>3, <1>4 DEF LifeInv

LEMMA InitKeeps == Init => LifeInv
BY StepsOfInit, NoneAssumption
   DEF Init, LifeInv, ListenersInv, ContextsInv, StartInv, MisuseInv, NothingMisused,
       EverythingFreed

LEMMA StepKeeps == LifeInv /\ [Next]_vars => LifeInv'
<1> SUFFICES ASSUME LifeInv, [Next]_vars PROVE LifeInv'
  OBVIOUS
<1>1. CASE UNCHANGED vars
  BY <1>1 DEF vars, start, anims, LifeInv, ListenersInv, ContextsInv, StartInv,
     MisuseInv, NothingMisused, EverythingFreed, OwnerLives
<1>2. CASE \E works \in BOOLEAN : InitStep(works)
  BY <1>2, InitStepKeeps
<1>3. CASE \E o \in Outputs : OutputStep(o)
  BY <1>3, NewOutputKeeps, OutputGoneKeeps, OtherStepKeeps DEF OutputStep
<1>4. CASE \E k \in Keyboards : KeyboardStep(k)
  BY <1>4, NewKeyboardKeeps, OtherStepKeeps DEF KeyboardStep
<1>5. CASE \E t \in Toplevels : ToplevelStep(t)
  BY <1>5, NewToplevelKeeps, ToplevelGoneKeeps, SurfaceGoneKeeps, SurfaceCommitKeeps,
     OtherStepKeeps DEF ToplevelStep
<1>6. CASE ToggleFullscreen \/ Tick
  BY <1>6, OtherStepKeeps, TickKeeps
<1>7. CASE \E keysHeld \in BOOLEAN : Destructor(keysHeld)
  BY <1>7, DestructorKeeps
<1> QED
  BY <1>1, <1>2, <1>3, <1>4, <1>5, <1>6, <1>7 DEF Next

LEMMA LifeInvHolds == Spec => []LifeInv
BY InitKeeps, StepKeeps, PTL DEF Spec

\* No handler frees an object and leaves a listener of it linked.
THEOREM OwnersAlwaysLive == Spec => []OwnersLive
<1>1. LifeInv => OwnersLive
  BY DEF LifeInv, ListenersInv, OwnersLive
<1> QED
  BY <1>1, LifeInvHolds, PTL

\* Whatever step of init failed and whatever devices and clients came and went, no
\* handler uses what is not there but in the three ways NothingMisused names.
THEOREM NothingElseMisused == Spec => []NothingMisused
<1>1. LifeInv => NothingMisused
  BY DEF LifeInv, MisuseInv
<1> QED
  BY <1>1, LifeInvHolds, PTL

\* The destructor leaves nothing that class Compositor made, whenever it runs.
THEOREM EverythingAlwaysFreed == Spec => []EverythingFreed
<1>1. LifeInv => EverythingFreed
  BY DEF LifeInv
<1> QED
  BY <1>1, LifeInvHolds, PTL
=============================================================================
