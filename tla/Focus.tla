------------------------------- MODULE Focus -------------------------------
(***************************************************************************)
(* What the compositor promises about focus, without its window geometry,  *)
(* its configure traffic or its pointer: there is at most one focused      *)
(* window, it is an open one, and the keyboard is only ever handed to the  *)
(* window that is focused at that moment.  The keyboard may lag behind the *)
(* focus, and even stay with what is left of a window that was closed; it  *)
(* may never go anywhere the focus has not been.                           *)
(***************************************************************************)
CONSTANTS Windows, NoWindow

VARIABLES open,      \* the windows that exist
          focus,     \* the focused window or NoWindow
          keyboard   \* the window that receives keys or NoWindow

focusVars == <<open, focus, keyboard>>

Init ==
    /\ open = {}
    /\ focus = NoWindow
    /\ keyboard = NoWindow

\* A new window takes the focus only if nothing has it.
Open(w) ==
    /\ w \notin open
    /\ open' = open \cup {w}
    /\ focus' = IF focus = NoWindow THEN w ELSE focus
    /\ UNCHANGED keyboard

\* A window that is closed leaves nobody focused; no other window inherits.  It
\* keeps the keyboard until its surface goes too, at once or later.
Close(w) ==
    /\ w \in open
    /\ open' = open \ {w}
    /\ focus' = IF focus = w THEN NoWindow ELSE focus
    /\ \/ UNCHANGED keyboard
       \/ keyboard = w /\ keyboard' = NoWindow

\* The surface of a window that was closed before goes.
Vanish(w) ==
    /\ w \notin open
    /\ keyboard = w
    /\ keyboard' = NoWindow
    /\ UNCHANGED <<open, focus>>

Choose(w) ==
    /\ w \in open
    /\ focus' = w
    /\ UNCHANGED <<open, keyboard>>

HandOver ==
    /\ focus # NoWindow
    /\ keyboard' = focus
    /\ UNCHANGED <<open, focus>>

Next == HandOver \/ \E w \in Windows : Open(w) \/ Close(w) \/ Vanish(w) \/ Choose(w)

Spec == Init /\ [][Next]_focusVars
=============================================================================
