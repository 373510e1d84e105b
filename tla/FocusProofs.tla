----------------------------- MODULE FocusProofs -----------------------------
(***************************************************************************)
(* The focus of Compositor: the three records of it agree, and it does     *)
(* what Focus promises.                                                    *)
(***************************************************************************)
EXTENDS CompositorProofs

FocusInv == TypeOK /\ FocusConsistent

\* What the actions that do not touch focus leave alone.
FocusUntouched == UNCHANGED <<views, focusVars>>

LEMMA UntouchedFocusConsistent ==
    FocusConsistent /\ FocusUntouched => FocusConsistent'
BY DEF FocusConsistent, FocusUntouched, focusVars

LEMMA NewToplevelFocus ==
    ASSUME FocusInv, NEW t \in Toplevels, NewToplevel(t)
    PROVE  FocusConsistent'
<1>1. CASE focusedView = NoView
  <2>1. /\ focusedView' = t
        /\ isFocused' = Marked(isFocused, t)
        /\ highlit' = Marked(highlit, t)
    BY <1>1, NoViewAssumption DEF NewToplevel, SetFocusedView
  <2> QED
    BY <2>1 DEF FocusInv, TypeOK, FocusConsistent, Marked, NewToplevel
<1>2. CASE focusedView # NoView
  BY <1>2 DEF FocusInv, FocusConsistent, NewToplevel, focusVars
<1> QED
  BY <1>1, <1>2

LEMMA DestroyedFocus ==
    ASSUME FocusInv, NEW t \in Toplevels, ToplevelDestroyed(t) \/ ClientGone(t)
    PROVE  FocusConsistent'
<1>1. ViewDestroyed(t)
  BY DEF ToplevelDestroyed, ClientGone
<1> QED
  BY <1>1, NoViewAssumption
     DEF FocusInv, TypeOK, FocusConsistent, ViewDestroyed, Forget

\* A commit paints the border in the colour it already has.
LEMMA CommitFocus ==
    ASSUME FocusInv, NEW t \in Toplevels, InitialCommit(t) \/ Commit(t)
    PROVE  FocusConsistent'
<1>1. /\ UNCHANGED <<views, focusedView, isFocused>>
      /\ highlit' = [highlit EXCEPT ![t] = isFocused[t]]
  BY DEF InitialCommit, Commit, CommitHandler
<1> QED
  BY <1>1 DEF FocusInv, TypeOK, FocusConsistent

LEMMA PressFocus ==
    ASSUME FocusInv, ButtonPress
    PROVE  FocusConsistent'
<1> DEFINE v == ViewAt(cursor)
<1>1. v \in views /\ UNCHANGED views
  BY ViewAtType DEF ButtonPress, sceneVars
<1>2. CASE v = focusedView
  BY <1>1, <1>2
     DEF FocusInv, FocusConsistent, ButtonPress, SetFocusedView, focusVars
<1>3. CASE v # focusedView
  <2>1. /\ focusedView' = v
        /\ isFocused' = Marked(isFocused, v)
        /\ highlit' = Marked(highlit, v)
    BY <1>3 DEF ButtonPress, SetFocusedView
  <2> QED
    BY <1>1, <2>1 DEF FocusInv, TypeOK, FocusConsistent, Marked
<1> QED
  BY <1>2, <1>3

LEMMA StepFocusConsistent == FocusInv /\ [Next]_vars => FocusConsistent'
<1> SUFFICES ASSUME FocusInv, [Next]_vars PROVE FocusConsistent'
  OBVIOUS
<1>1. ASSUME NEW t \in Toplevels, ClientStep(t) PROVE FocusConsistent'
  <2>1. CASE SurfaceDestroyed(t) \/ UnmapCommit(t) \/ RequestMove(t)
             \/ RequestResize(t) \/ RequestFullscreen(t) \/ RequestMaximize(t)
    <3>1. FocusUntouched
      BY <2>1 DEF FocusUntouched, SurfaceDestroyed, UnmapCommit, RequestMove, RequestResize,
                  RequestFullscreen, RequestMaximize, sceneVars
    <3> QED
      BY <3>1, UntouchedFocusConsistent DEF FocusInv
  <2> QED
    BY <1>1, <2>1, NewToplevelFocus, DestroyedFocus, CommitFocus DEF ClientStep
<1>2. ASSUME SeatStep PROVE FocusConsistent'
  <2>1. CASE ~ ButtonPress
    <3>1. FocusUntouched
      BY <1>2, <2>1
         DEF SeatStep, FocusUntouched, PointerMotion, ButtonRelease, Quit,
             ToggleFullscreen, ToggleFloating, sceneVars
    <3> QED
      BY <3>1, UntouchedFocusConsistent DEF FocusInv
  <2> QED
    BY <2>1, PressFocus
<1>3. ASSUME LoopStep PROVE FocusConsistent'
  <2>1. FocusUntouched
    BY <1>3 DEF LoopStep, FocusUntouched, NewOutput, Tick, SendConfigure, sceneVars
  <2> QED
    BY <2>1, UntouchedFocusConsistent DEF FocusInv
<1>4. CASE UNCHANGED vars
  <2>1. FocusUntouched
    BY <1>4 DEF FocusUntouched, vars, sceneVars
  <2> QED
    BY <2>1, UntouchedFocusConsistent DEF FocusInv
<1> QED
  BY <1>1, <1>2, <1>3, <1>4 DEF Next

LEMMA InitFocusConsistent == Init => FocusConsistent
BY NoViewAssumption DEF Init, FocusConsistent

\* In every reachable state focused_view_ is null or a live view, and that view
\* alone has is_focused set and the border of a focused window.
THEOREM FocusIsConsistent == Spec => []FocusConsistent
<1>1. Init => FocusInv
  BY InitTypeOK, InitFocusConsistent DEF FocusInv
<1>2. FocusInv /\ [Next]_vars => FocusInv'
  BY StepTypeOK, StepFocusConsistent DEF FocusInv
<1>3. FocusInv => FocusConsistent
  BY DEF FocusInv
<1> QED
  BY <1>1, <1>2, <1>3, PTL DEF Spec

-----------------------------------------------------------------------------
(* Refinement                                                              *)

LEMMA StepRefinesFocus == FocusInv /\ [Next]_vars => [F!Next]_(F!focusVars)
<1> SUFFICES ASSUME FocusInv, [Next]_vars PROVE [F!Next]_(F!focusVars)
  OBVIOUS
<1> DEFINE Stutter == UNCHANGED <<views, focusedView, kbFocus>>
<1>0. Stutter => UNCHANGED F!focusVars
  BY DEF F!focusVars
<1>1. ASSUME NEW t \in Toplevels, ClientStep(t) PROVE F!Next \/ Stutter
  <2>1. CASE NewToplevel(t)
    <3>1. F!Open(t)
      BY <2>1 DEF NewToplevel, SetFocusedView, focusVars, seatVars, F!Open
    <3> QED
      BY <3>1 DEF F!Next
  <2>2. CASE ToplevelDestroyed(t) \/ ClientGone(t)
    <3>1. F!Close(t)
      BY <2>2
         DEF ToplevelDestroyed, ClientGone, ViewDestroyed, SeatForgets, Forget, F!Close
    <3> QED
      BY <3>1 DEF F!Next
  <2>5. CASE SurfaceDestroyed(t)
    <3>1. CASE kbFocus = t
      <4>1. F!Vanish(t)
        BY <2>5, <3>1
           DEF SurfaceDestroyed, SeatForgets, Forget, sceneVars, focusVars, F!Vanish
      <4> QED
        BY <4>1 DEF F!Next
    <3>2. CASE kbFocus # t
      BY <2>5, <3>2
         DEF SurfaceDestroyed, SeatForgets, Forget, sceneVars, focusVars
    <3> QED
      BY <3>1, <3>2
  <2>3. CASE InitialCommit(t) \/ Commit(t)
    <3>1. /\ UNCHANGED <<views, focusedView>>
          /\ kbFocus' = IF isFocused[t] THEN t ELSE kbFocus
      BY <2>3 DEF InitialCommit, Commit, CommitHandler, KeyboardAfterCommit
    <3>2. CASE isFocused[t]
      <4>1. focusedView = t /\ focusedView # NoView
        BY <3>2, NoViewAssumption DEF FocusInv, FocusConsistent
      <4>2. F!HandOver
        BY <3>1, <3>2, <4>1 DEF F!HandOver
      <4> QED
        BY <4>2 DEF F!Next
    <3> QED
      BY <3>1, <3>2
  <2>4. CASE UnmapCommit(t) \/ RequestMove(t) \/ RequestResize(t)
             \/ RequestFullscreen(t) \/ RequestMaximize(t)
    BY <2>4 DEF UnmapCommit, RequestMove, RequestResize, RequestFullscreen,
                RequestMaximize, sceneVars, focusVars, seatVars
  <2> QED
    BY <1>1, <2>1, <2>2, <2>3, <2>4, <2>5 DEF ClientStep
<1>2. ASSUME SeatStep PROVE F!Next \/ Stutter
  <2>1. CASE ButtonPress
    <3>1. ViewAt(cursor) \in views /\ ViewAt(cursor) \in Toplevels
      BY <2>1, ViewAtType DEF ButtonPress, FocusInv, TypeOK
    <3>2. F!Choose(ViewAt(cursor))
      BY <2>1, <3>1
         DEF ButtonPress, SetFocusedView, sceneVars, seatVars, focusVars, F!Choose
    <3> QED
      BY <3>1, <3>2 DEF F!Next
  <2>2. CASE ~ ButtonPress
    BY <1>2, <2>2
       DEF SeatStep, PointerMotion, ButtonRelease, Quit, ToggleFullscreen,
           ToggleFloating, sceneVars, focusVars, seatVars
  <2> QED
    BY <2>1, <2>2
<1>3. ASSUME LoopStep PROVE Stutter
  BY <1>3 DEF LoopStep, NewOutput, Tick, SendConfigure, sceneVars, focusVars, seatVars
<1>4. CASE UNCHANGED vars
  BY <1>0, <1>4 DEF vars, sceneVars, focusVars, seatVars
<1> QED
  BY <1>0, <1>1, <1>2, <1>3, <1>4 DEF Next

\* The compositor implements Focus: whatever clients, devices and the event loop
\* do, no window takes or inherits the focus uninvited and the keyboard is only
\* handed to the window that is focused when it commits.
THEOREM CompositorImplementsFocus == Spec => FocusRefined
<1>1. Init => F!Init
  BY DEF Init, F!Init
<1>2. Init => FocusInv
  BY InitTypeOK, InitFocusConsistent DEF FocusInv
<1>3. FocusInv /\ [Next]_vars => FocusInv'
  BY StepTypeOK, StepFocusConsistent DEF FocusInv
<1> QED
  BY <1>1, <1>2, <1>3, StepRefinesFocus, PTL DEF Spec, FocusRefined, F!Spec
=============================================================================
