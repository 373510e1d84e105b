------------------------------- MODULE Session -------------------------------
(***************************************************************************)
(* The test client (WaylandClient.cpp, main_client.cpp) in a session with  *)
(* Compositor: its start-up in three roundtrips, the requests it queues,   *)
(* the events it dispatches and how it ends.  What Compositor leaves to    *)
(* the clients at large is here done, for the toplevel Client, by the      *)
(* compositor handling the requests this client sends.                     *)
(*                                                                         *)
(* libwayland is modelled by what both programs use of it.  Either side    *)
(* queues messages and writes them out in one piece, the other reads all   *)
(* there is; messages stay in order.  The compositor handles any number of *)
(* requests, runs its idle callbacks and only then writes; the client      *)
(* dispatches all it has read before it looks whether a roundtrip is done. *)
(***************************************************************************)
EXTENDS Compositor, FiniteSets

CONSTANTS Client,      \* the toplevel of the test client
          ClientKeys,  \* the keys main_client binds and the user presses
          MaxConfigures \* how many configure events may wait when the user causes another

ASSUME ClientAssumption == Client \in Toplevels /\ ClientKeys \subseteq {"Escape"}
ASSUME ConfiguresAssumption == MaxConfigures \in Nat \ {0}

VARIABLES
    step,         \* where main_client is, see below
    hasGlobals,   \* m_compositor, m_shm and m_xdg_wm_base are bound
    unsent,       \* the requests the client has queued
    requests,     \* the requests written and not yet handled
    outbox,       \* the events the compositor has queued for the client
    events,       \* the events written and not yet read
    inbox,        \* the events the client has read and not yet dispatched
    roundtrip,    \* the client waits for the answer to its sync
    hasKeyboard,  \* the client has a wl_keyboard
    acked,        \* the client has acknowledged a configure event
    rejected      \* the compositor has ended the session by a protocol error

clientVars  == <<step, hasGlobals, unsent, inbox, roundtrip>>
serverVars  == <<outbox, hasKeyboard, acked, rejected>>
wireVars    == <<requests, events>>
sessionVars == <<vars, clientVars, serverVars, wireVars>>

\* start -> registry -> seat -> surface -> run, the step the client is waiting in;
\* failed: main returned 1; exited: by the bound key; crashed: in the close
\* handler; ended: the connection was lost.
Waiting == {"registry", "seat", "surface", "run"}
Gone    == {"failed", "exited", "crashed", "ended"}

SessionInit ==
    /\ Init
    /\ step = "start"
    /\ hasGlobals = FALSE /\ roundtrip = FALSE
    /\ unsent = << >> /\ requests = << >>
    /\ outbox = << >> /\ events = << >> /\ inbox = << >>
    /\ hasKeyboard = FALSE /\ acked = FALSE /\ rejected = FALSE

-----------------------------------------------------------------------------
(* The client                                                              *)

\* The requests queued before the roundtrip of a step, and after the last one.
Fault_Requested(s) ==
    CASE s = "registry" -> <<"get_registry", "sync">>
      [] s = "seat"     -> <<"get_toplevel", "commit", "sync">>
      [] s = "surface"  -> <<"sync">>
      [] s = "run"      -> <<"attach_commit">>
Requested(s) ==
    CASE s = "registry" -> <<"get_registry", "sync">>
      [] s = "seat"     -> <<"sync">>
      [] s = "surface"  -> <<"get_toplevel", "commit", "sync">>
      [] s = "run"      -> <<"attach_commit">>

Enter(s) ==
    /\ step' = s
    /\ unsent' = unsent \o Requested(s)
    /\ roundtrip' = (s # "run")

\* init: connecting to a compositor that does not run fails.
Connect ==
    /\ step = "start"
    /\ IF phase = "running"
       THEN Enter("registry")
       ELSE step' = "failed" /\ UNCHANGED <<unsent, roundtrip>>
    /\ UNCHANGED <<vars, serverVars, wireVars, hasGlobals, inbox>>

\* A roundtrip is over: init goes on to its second and to its test of the
\* globals, create_surface to its buffer, which it draws without a look at
\* m_configured.
Continue ==
    /\ ~ roundtrip /\ inbox = << >>
    /\ \/ step = "registry" /\ Enter("seat")
       \/ step = "seat" /\ hasGlobals /\ Enter("surface")
       \/ /\ step = "seat" /\ ~ hasGlobals
          /\ step' = "failed" /\ UNCHANGED <<unsent, roundtrip>>
       \/ step = "surface" /\ Enter("run")
    /\ UNCHANGED <<vars, serverVars, wireVars, hasGlobals, inbox>>

\* wl_display_dispatch_queue writes what is queued, then waits and reads.
ClientWrite ==
    /\ step \in Waiting /\ inbox = << >>
    /\ unsent # << >>
    /\ requests' = requests \o unsent
    /\ unsent' = << >>
    /\ UNCHANGED <<vars, serverVars, events, step, hasGlobals, inbox, roundtrip>>

ClientRead ==
    /\ step \in Waiting /\ inbox = << >> /\ unsent = << >>
    /\ roundtrip \/ step = "run"
    /\ events # << >>
    /\ inbox' = events
    /\ events' = << >>
    /\ UNCHANGED <<vars, serverVars, requests, step, hasGlobals, unsent, roundtrip>>

\* What the listeners answer.
Fault_Answered(e) ==
    CASE e = "globals"      -> <<"bind">>
      [] e = "capabilities" -> <<"get_keyboard">>
      [] OTHER              -> << >>
Answered(e) ==
    CASE e = "globals"      -> <<"bind">>
      [] e = "capabilities" -> <<"get_keyboard">>
      [] e = "configure"    -> <<"ack_configure">>
      [] OTHER              -> << >>

\* xdg_toplevel_close disconnects the display in the middle of its dispatch and
\* sets m_display to null, which the loop dispatches next; keyboard_key has
\* Config::handleKey run the binding of Escape, which exits.
Fault_StepAfter(e) == IF e = "escape" THEN "exited" ELSE step
StepAfter(e) ==
    CASE e = "close"  -> "crashed"
      [] e = "escape" -> "exited"
      [] OTHER        -> step

ClientDispatch ==
    /\ step \in Waiting /\ inbox # << >>
    /\ LET e == Head(inbox)
       IN  /\ step' = StepAfter(e)
           /\ unsent' = unsent \o Answered(e)
           /\ hasGlobals' = (hasGlobals \/ e = "globals")
           /\ roundtrip' = (roundtrip /\ e # "done")
    /\ inbox' = Tail(inbox)
    /\ UNCHANGED <<vars, serverVars, wireVars>>

\* The connection is gone: init's roundtrips leave it without globals or at its
\* end, run's loop ends.
HangUp ==
    /\ step \in Waiting /\ inbox = << >>
    /\ phase # "running" \/ rejected
    /\ step' = IF step \in {"registry", "seat"} /\ ~ hasGlobals THEN "failed" ELSE "ended"
    /\ UNCHANGED <<vars, serverVars, wireVars, hasGlobals, unsent, inbox, roundtrip>>

-----------------------------------------------------------------------------
(* The compositor, for this client                                         *)

Post(e) == outbox' = Append(outbox, e)

Occurs(m, queue) == Cardinality({i \in DOMAIN queue : queue[i] = m})

\* Events posted and not dispatched, configure events posted and their
\* acknowledgement not handled.
UnderWay(e) == Occurs(e, outbox) + Occurs(e, events) + Occurs(e, inbox)
Unacknowledged ==
    UnderWay("configure") + Occurs("ack_configure", unsent \o requests)

\* What libwayland and wlroots answer at once.
Answers == [get_registry |-> "globals", bind |-> "capabilities", sync |-> "done"]

Handles(r) ==
    /\ phase = "running" /\ ~ rejected
    /\ requests # << >> /\ Head(requests) = r
    /\ requests' = Tail(requests)
    /\ UNCHANGED <<events, clientVars>>

HandleAnswered ==
    /\ \E r \in DOMAIN Answers : Handles(r) /\ Post(Answers[r])
    /\ UNCHANGED <<vars, hasKeyboard, acked, rejected>>

HandleGetKeyboard ==
    /\ Handles("get_keyboard")
    /\ hasKeyboard' = TRUE
    /\ UNCHANGED <<vars, outbox, acked, rejected>>

HandleGetToplevel ==
    /\ Handles("get_toplevel")
    /\ NewToplevel(Client)
    /\ UNCHANGED serverVars

HandleInitialCommit ==
    /\ Handles("commit")
    /\ InitialCommit(Client)
    /\ UNCHANGED serverVars

HandleAck ==
    /\ Handles("ack_configure")
    /\ acked' = TRUE
    /\ UNCHANGED <<vars, outbox, hasKeyboard, rejected>>

\* A buffer on a surface that acknowledged no configure event is an error.
HandleBuffer ==
    /\ Handles("attach_commit")
    /\ IF acked
       THEN /\ Commit(Client) /\ size'[Client] \in Sizes
            /\ UNCHANGED rejected
       ELSE rejected' = TRUE /\ UNCHANGED vars
    /\ UNCHANGED <<outbox, hasKeyboard, acked>>

\* The idle callback of wlroots posts the configure event ...
ConfigureClient ==
    /\ SendConfigure(Client)
    /\ Post("configure")
    /\ UNCHANGED <<clientVars, wireVars, hasKeyboard, acked, rejected>>

\* ... before the loop writes what was posted.
ServerWrite ==
    /\ phase = "running"
    /\ outbox # << >> /\ ~ pending[Client]
    /\ events' = events \o outbox
    /\ outbox' = << >>
    /\ UNCHANGED <<vars, clientVars, requests, hasKeyboard, acked, rejected>>

\* Keys the compositor makes an event of for the client: the one bound to
\* Action::Close while the client's window is focused, and Escape, bound by no
\* one but the client, while some window is focused and the client has the
\* keyboard.
CloseKey ==
    /\ BoundKey("close") /\ ~ rejected
    /\ focusedView = Client /\ UnderWay("close") = 0
    /\ Post("close")
    /\ UNCHANGED <<vars, clientVars, wireVars, hasKeyboard, acked, rejected>>

EscapeKey ==
    /\ phase = "running" /\ ~ rejected
    /\ "Escape" \in ClientKeys
    /\ focusedView # NoView /\ kbFocus = Client /\ hasKeyboard
    /\ UnderWay("escape") = 0
    /\ Post("escape")
    /\ UNCHANGED <<vars, clientVars, wireVars, hasKeyboard, acked, rejected>>

\* The client's process or its connection is gone, and its objects with it.
Disconnect ==
    /\ step \in Gone \/ rejected
    /\ ClientGone(Client)
    /\ requests' = << >> /\ outbox' = << >> /\ events' = << >>
    /\ UNCHANGED <<clientVars, hasKeyboard, acked, rejected>>

-----------------------------------------------------------------------------

ClientProgram == Continue \/ ClientWrite \/ ClientRead \/ ClientDispatch \/ HangUp

Handle ==
    \/ HandleAnswered \/ HandleGetKeyboard \/ HandleGetToplevel
    \/ HandleInitialCommit \/ HandleAck \/ HandleBuffer

\* Everything else in the compositor, other clients included.  A resize makes a
\* configure event of every motion of the pointer; MaxConfigures bounds them.
OtherStep ==
    /\ \/ SeatStep \/ NewOutput \/ Tick
       \/ \E t \in Toplevels \ {Client} : ClientStep(t) \/ SendConfigure(t)
    /\ pending'[Client] => pending[Client] \/ Unacknowledged < MaxConfigures
    /\ UNCHANGED <<clientVars, serverVars, wireVars>>

SessionNext ==
    \/ Connect \/ ClientProgram
    \/ Handle \/ ConfigureClient \/ ServerWrite \/ Disconnect
    \/ CloseKey \/ EscapeKey
    \/ OtherStep

SessionSpec == SessionInit /\ [][SessionNext]_sessionVars

\* Both programs are loops that go on while they have something to do.
SessionFairness ==
    /\ WF_sessionVars(ClientProgram)
    /\ WF_sessionVars(Handle)
    /\ WF_sessionVars(ConfigureClient)
    /\ WF_sessionVars(ServerWrite)
    /\ WF_sessionVars(Disconnect)

FairSessionSpec == SessionSpec /\ SessionFairness

-----------------------------------------------------------------------------
(* Properties                                                              *)

\* The client never attaches its buffer before it acknowledged a configure event,
\* although create_surface waits for a roundtrip only and never looks at
\* m_configured: the commit listener schedules the event, and idle callbacks run
\* before the answer to the roundtrip is written.
NeverRejected == ~ rejected

\* The compositor hands the keyboard over at the first commit of a focused window;
\* by then the client has its wl_keyboard, because init makes a second roundtrip.
KeyboardIsThere == kbFocus = Client => hasKeyboard

\* Once the client has started it shows its window, unless the user closes it, its
\* Escape key ends it or the compositor is gone.
WindowAppears ==
    step = "registry" ~> \/ Sized(size[Client])
                         \/ step \in {"exited", "crashed"}
                         \/ phase # "running"

\* main_comp.cpp: "Mod+Q -> Close window".  The window the key was pressed for goes,
\* whatever the client was waiting for then.
CloseKeyCloses ==
    UnderWay("close") > 0 ~> (Client \notin views \/ phase # "running")
=============================================================================
