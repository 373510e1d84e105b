---------------------------- MODULE SessionProofs ----------------------------
(***************************************************************************)
(* The start of the test client never goes wrong: why its roundtrips are   *)
(* enough for it to have its keyboard before the compositor hands one over *)
(* and to have acknowledged a configure event before it attaches a buffer. *)
(***************************************************************************)
EXTENDS Session, CompositorProofs, SequenceTheorems

-----------------------------------------------------------------------------
(* Queues of messages                                                      *)

Messages ==
    {"get_registry", "bind", "get_keyboard", "get_toplevel", "commit", "sync",
     "ack_configure", "attach_commit",
     "globals", "capabilities", "configure", "done", "close", "escape"}

Queues == Seq(Messages)

In(m, q) == \E i \in DOMAIN q : q[i] = m

\* Every b of the queue comes after an a.
Before(a, b, q) == \A j \in DOMAIN q : q[j] = b => \E i \in DOMAIN q : i < j /\ q[i] = a

Once(m, q) == \A i, j \in DOMAIN q : q[i] = m /\ q[j] = m => i = j

-----------------------------------------------------------------------------
(* The invariant                                                           *)

\* The requests that may still be handled: a client that is gone writes no more.
Stream == IF step \in Gone THEN requests ELSE requests \o unsent

QueuesOK ==
    /\ step \in {"start"} \cup Waiting \cup Gone
    /\ roundtrip \in BOOLEAN /\ hasGlobals \in BOOLEAN
    /\ hasKeyboard \in BOOLEAN /\ acked \in BOOLEAN
    /\ requests \in Queues /\ unsent \in Queues
    /\ inbox \in Queues /\ events \in Queues /\ outbox \in Queues
    /\ step = "start" => requests = << >> /\ unsent = << >> /\ ~ roundtrip /\ ~ hasGlobals

\* A roundtrip is one message, its sync or the answer to it, and there is none
\* when the client waits for none.
Token(sync, posted, written, read) ==
    /\ ~ (sync /\ posted) /\ ~ (sync /\ written) /\ ~ (sync /\ read)
    /\ ~ (posted /\ written) /\ ~ (posted /\ read) /\ ~ (written /\ read)
    /\ sync \/ posted \/ written \/ read => roundtrip

OneToken ==
    step \notin Gone =>
        /\ Token(In("sync", Stream), In("done", outbox), In("done", events),
                 In("done", inbox))
        /\ Once("sync", Stream)
        /\ Once("done", outbox) /\ Once("done", events) /\ Once("done", inbox)

\* What a roundtrip brings: with request a queued before its sync, the event e
\* that a causes is dispatched, for which got stands, before the client goes on.
\* Messages written together are dispatched together; due says that e is about to
\* be posted, before the next write.
Brings(a, e, due, got) ==
    /\ In("sync", Stream) =>
          \/ Before(a, "sync", Stream)
          \/ due \/ In(e, outbox) \/ In(e, events) \/ In(e, inbox) \/ got
    /\ In("done", outbox) =>
          due \/ In(e, outbox) \/ In(e, events) \/ In(e, inbox) \/ got
    /\ In("done", events) => In(e, events) \/ In(e, inbox) \/ got
    /\ In("done", inbox) \/ ~ roundtrip => In(e, inbox) \/ got

\* The request that answers an event is queued or has been handled.
KeyboardAsked == hasKeyboard \/ In("get_keyboard", Stream)
AckSent == acked \/ In("ack_configure", Stream)

Roundtrips ==
    /\ step = "registry" => Brings("get_registry", "globals", FALSE, hasGlobals)
    /\ step \in {"registry", "seat"} /\ hasGlobals =>
          \/ In("bind", Stream)
          \/ In("capabilities", outbox) \/ In("capabilities", events)
          \/ In("capabilities", inbox) \/ KeyboardAsked
    /\ step = "seat" => /\ hasGlobals
                        /\ Brings("bind", "capabilities", FALSE, KeyboardAsked)
    /\ step = "surface" => /\ KeyboardAsked
                           /\ Brings("commit", "configure", pending[Client], AckSent)

\* So the compositor handles what a commit needs before the commit.
Prepared ==
    /\ hasKeyboard \/ /\ Before("get_keyboard", "commit", Stream)
                      /\ Before("get_keyboard", "attach_commit", Stream)
    /\ acked \/ Before("ack_configure", "attach_commit", Stream)

SessionOK ==
    /\ QueuesOK /\ OneToken /\ Roundtrips /\ Prepared
    /\ NeverRejected /\ KeyboardIsThere

SessionInv == TypeOK /\ SessionOK

-----------------------------------------------------------------------------
(* Facts about queues                                                      *)

LEMMA Empty ==
    /\ << >> \in Queues
    /\ \A m : ~ In(m, << >>) /\ Once(m, << >>)
    /\ \A a, b : Before(a, b, << >>)
<1>1. DOMAIN << >> = {}
  OBVIOUS
<1>2. << >> \in Queues
  BY EmptySeq DEF Queues
<1> QED
  BY <1>1, <1>2 DEF In, Once, Before

LEMMA NoneBefore == \A a, b, q : ~ In(b, q) => Before(a, b, q)
BY DEF In, Before

\* A queue and another behind it.
LEMMA Joined ==
    ASSUME NEW q \in Queues, NEW r \in Queues
    PROVE  /\ q \o r \in Queues
           /\ \A m : In(m, q \o r) <=> In(m, q) \/ In(m, r)
           /\ \A m : Once(m, q) /\ Once(m, r) /\ ~ (In(m, q) /\ In(m, r)) => Once(m, q \o r)
           /\ \A a, b : Before(a, b, q) /\ (In(a, q) \/ Before(a, b, r)) => Before(a, b, q \o r)
           /\ \A a, b : Before(a, b, q \o r) => Before(a, b, q)
<1> DEFINE s == q \o r
           k == Len(q)
           l == Len(r)
<1>1. /\ k \in Nat /\ l \in Nat /\ DOMAIN q = 1..k /\ DOMAIN r = 1..l
      /\ s \in Queues /\ DOMAIN s = 1..(k + l)
  BY ConcatProperties, LenProperties DEF Queues
<1>2. /\ \A i \in 1..k : s[i] = q[i]
      /\ \A i \in 1..l : s[k + i] = r[i]
  BY ConcatProperties, <1>1 DEF Queues
<1>3. \A i \in 1..(k + l) : i \in 1..k \/ (i - k \in 1..l /\ i = k + (i - k))
  BY <1>1
<1>4. \A i \in 1..l : k + i \in 1..(k + l)
  BY <1>1
<1>5. \A i \in 1..k : i \in 1..(k + l)
  BY <1>1
<1> HIDE DEF s, k, l
<1>6. ASSUME NEW m
      PROVE  In(m, s) <=> In(m, q) \/ In(m, r)
  <2>1. ASSUME NEW i \in 1..(k + l), s[i] = m PROVE In(m, q) \/ In(m, r)
    <3>1. CASE i \in 1..k
      BY <1>1, <1>2, <2>1, <3>1 DEF In
    <3>2. CASE i - k \in 1..l
      <4>1. PICK j \in 1..l : i = k + j
        BY <1>1, <3>2
      <4>2. r[j] = m
        BY <1>2, <2>1, <4>1
      <4> QED
        BY <1>1, <4>2 DEF In
    <3> QED
      BY <1>3, <3>1, <3>2
  <2>2. ASSUME NEW i \in 1..k, q[i] = m PROVE In(m, s)
    BY <1>1, <1>2, <1>5, <2>2 DEF In
  <2>3. ASSUME NEW i \in 1..l, r[i] = m PROVE In(m, s)
    BY <1>1, <1>2, <1>4, <2>3 DEF In
  <2> QED
    BY <1>1, <2>1, <2>2, <2>3 DEF In
<1>7. ASSUME NEW m, Once(m, q), Once(m, r), ~ (In(m, q) /\ In(m, r))
      PROVE  Once(m, s)
  <2> SUFFICES ASSUME NEW i \in 1..(k + l), NEW j \in 1..(k + l), s[i] = m, s[j] = m
               PROVE  i = j
    BY <1>1 DEF Once
  <2>1. CASE i \in 1..k /\ j \in 1..k
    BY <1>1, <1>2, <1>7, <2>1 DEF Once
  <2>2. CASE i - k \in 1..l /\ j - k \in 1..l
    <3>1. r[i - k] = m /\ r[j - k] = m
      BY <1>1, <1>2, <1>3, <2>2
    <3>2. i - k = j - k
      BY <1>1, <1>7, <2>2, <3>1 DEF Once
    <3> QED
      BY <1>1, <3>2
  <2>3. CASE (i \in 1..k /\ j - k \in 1..l) \/ (j \in 1..k /\ i - k \in 1..l)
    <3>1. ASSUME NEW u \in 1..k, NEW v \in 1..(k + l), v - k \in 1..l, s[u] = m, s[v] = m
          PROVE  FALSE
      <4>1. q[u] = m /\ r[v - k] = m
        BY <1>1, <1>2, <1>3, <3>1
      <4>2. In(m, q) /\ In(m, r)
        BY <1>1, <3>1, <4>1 DEF In
      <4> QED
        BY <1>7, <4>2
    <3> QED
      BY <2>3, <3>1
  <2> QED
    BY <1>3, <2>1, <2>2, <2>3
<1>8. ASSUME NEW a, NEW b, Before(a, b, q), In(a, q) \/ Before(a, b, r)
      PROVE  Before(a, b, s)
  <2> SUFFICES ASSUME NEW j \in 1..(k + l), s[j] = b
               PROVE  \E i \in 1..(k + l) : i < j /\ s[i] = a
    BY <1>1 DEF Before
  <2>1. CASE j \in 1..k
    <3>1. PICK i \in 1..k : i < j /\ q[i] = a
      BY <1>1, <1>2, <1>8, <2>1 DEF Before
    <3> QED
      BY <1>2, <1>5, <3>1
  <2>2. CASE j - k \in 1..l /\ In(a, q)
    <3>1. PICK i \in 1..k : q[i] = a
      BY <1>1, <2>2 DEF In
    <3>2. i < j
      BY <1>1, <2>2, <3>1
    <3> QED
      BY <1>2, <1>5, <3>1, <3>2
  <2>3. CASE j - k \in 1..l /\ Before(a, b, r)
    <3>1. r[j - k] = b
      BY <1>1, <1>2, <1>3, <2>3
    <3>2. PICK i \in 1..l : i < j - k /\ r[i] = a
      BY <1>1, <2>3, <3>1 DEF Before
    <3>3. k + i < j /\ s[k + i] = a /\ k + i \in 1..(k + l)
      BY <1>1, <1>2, <1>4, <3>2
    <3> QED
      BY <3>3
  <2> QED
    BY <1>3, <1>8, <2>1, <2>2, <2>3
<1>9. ASSUME NEW a, NEW b, Before(a, b, s)
      PROVE  Before(a, b, q)
  <2> SUFFICES ASSUME NEW j \in 1..k, q[j] = b
               PROVE  \E i \in 1..k : i < j /\ q[i] = a
    BY <1>1 DEF Before
  <2>1. PICK i \in 1..(k + l) : i < j /\ s[i] = a
    BY <1>1, <1>2, <1>5, <1>9 DEF Before
  <2>2. i \in 1..k
    BY <1>1, <2>1
  <2> QED
    BY <1>2, <2>1, <2>2
<1> QED
  BY <1>1, <1>6, <1>7, <1>8, <1>9 DEF s

LEMMA Single ==
    ASSUME NEW x \in Messages
    PROVE  /\ <<x>> \in Queues
           /\ \A m : In(m, <<x>>) <=> m = x
           /\ \A m : Once(m, <<x>>)
BY DEF Queues, In, Once

\* A message behind a queue.
LEMMA Appended ==
    ASSUME NEW q \in Queues, NEW x \in Messages
    PROVE  /\ Append(q, x) \in Queues
           /\ \A m : In(m, Append(q, x)) <=> In(m, q) \/ m = x
           /\ \A m : Once(m, q) /\ ~ (In(m, q) /\ m = x) => Once(m, Append(q, x))
<1>1. Append(q, x) = q \o <<x>>
  BY AppendIsConcat DEF Queues
<1> QED
  BY <1>1, Joined, Single

\* The first message of a queue and those behind it.
LEMMA Headed ==
    ASSUME NEW q \in Queues, q # << >>
    PROVE  /\ Head(q) \in Messages /\ Tail(q) \in Queues
           /\ \A m : In(m, q) <=> m = Head(q) \/ In(m, Tail(q))
           /\ \A m : Once(m, q) => Once(m, Tail(q)) /\ ~ (m = Head(q) /\ In(m, Tail(q)))
           /\ \A a, b : Before(a, b, q) /\ a # Head(q) => Before(a, b, Tail(q))
           /\ \A a, b : Before(a, b, q) => b # Head(q)
<1> DEFINE t == Tail(q)
           k == Len(q)
<1>1. /\ k \in Nat \ {0} /\ DOMAIN q = 1..k
      /\ t \in Queues /\ DOMAIN t = 1..(k - 1) /\ Head(q) \in Messages /\ Head(q) = q[1]
  BY HeadTailProperties, EmptySeq, LenProperties DEF Queues
<1>2. \A i \in 1..(k - 1) : t[i] = q[i + 1] /\ i + 1 \in 1..k
  BY <1>1, HeadTailProperties DEF Queues
<1>3. \A i \in 1..k : i # 1 => i - 1 \in 1..(k - 1) /\ q[i] = t[i - 1]
  BY <1>1, <1>2
<1>4. 1 \in 1..k
  BY <1>1
<1> HIDE DEF t, k
<1>5. \A m : In(m, q) <=> m = q[1] \/ In(m, t)
  BY <1>1, <1>2, <1>3, <1>4 DEF In
<1>6. ASSUME NEW m, Once(m, q)
      PROVE  Once(m, t) /\ ~ (m = q[1] /\ In(m, t))
  <2>1. ASSUME NEW i \in 1..(k - 1), NEW j \in 1..(k - 1), t[i] = m, t[j] = m PROVE i = j
    <3>1. i + 1 = j + 1
      BY <1>1, <1>2, <1>6, <2>1 DEF Once
    <3> QED
      BY <1>1, <3>1
  <2>2. ASSUME NEW i \in 1..(k - 1), t[i] = m, m = q[1] PROVE FALSE
    <3>1. i + 1 = 1
      BY <1>1, <1>2, <1>4, <1>6, <2>2 DEF Once
    <3> QED
      BY <1>1, <3>1
  <2> QED
    BY <1>1, <2>1, <2>2 DEF Once, In
<1>7. ASSUME NEW a, NEW b, Before(a, b, q), a # q[1]
      PROVE  Before(a, b, t)
  <2> SUFFICES ASSUME NEW j \in 1..(k - 1), t[j] = b
               PROVE  \E i \in 1..(k - 1) : i < j /\ t[i] = a
    BY <1>1 DEF Before
  <2>1. PICK i \in 1..k : i < j + 1 /\ q[i] = a
    BY <1>1, <1>2, <1>7 DEF Before
  <2>2. i - 1 \in 1..(k - 1) /\ t[i - 1] = a /\ i - 1 < j
    BY <1>1, <1>3, <1>7, <2>1
  <2> QED
    BY <2>2
<1>8. ASSUME NEW a, NEW b, Before(a, b, q), b = q[1] PROVE FALSE
  <2>1. PICK i \in 1..k : i < 1
    BY <1>1, <1>4, <1>8 DEF Before
  <2> QED
    BY <1>1, <2>1
<1> QED
  BY <1>1, <1>5, <1>6, <1>7, <1>8 DEF t

LEMMA JoinedTail ==
    ASSUME NEW q \in Queues, NEW r \in Queues, q # << >>
    PROVE  q \o r # << >> /\ Head(q \o r) = Head(q) /\ Tail(q \o r) = Tail(q) \o r
<1>1. /\ q \o r \in Seq(Messages) /\ Len(q) \in Nat \ {0} /\ Len(r) \in Nat
      /\ Len(q \o r) = Len(q) + Len(r)
      /\ Tail(q) \in Seq(Messages) /\ Len(Tail(q)) = Len(q) - 1
  BY EmptySeq, LenProperties, ConcatProperties, HeadTailProperties DEF Queues
<1>2. q \o r # << >>
  BY <1>1, EmptySeq
<1>3. Head(q \o r) = Head(q)
  BY <1>1, <1>2, ConcatProperties DEF Queues
<1>4. /\ Tail(q \o r) \in Seq(Messages) /\ Len(Tail(q \o r)) = Len(q) + Len(r) - 1
      /\ Tail(q) \o r \in Seq(Messages) /\ Len(Tail(q) \o r) = Len(q) - 1 + Len(r)
  BY <1>1, <1>2, HeadTailProperties, ConcatProperties DEF Queues
<1>5. ASSUME NEW i \in 1..(Len(q) + Len(r) - 1)
      PROVE  Tail(q \o r)[i] = (Tail(q) \o r)[i]
  <2>1. Tail(q \o r)[i] = (q \o r)[i + 1]
    BY <1>1, <1>2, <1>4, HeadTailProperties
  <2>2. CASE i <= Len(q) - 1
    <3>1. (q \o r)[i + 1] = q[i + 1]
      BY <1>1, <2>2, ConcatProperties DEF Queues
    <3>2. (Tail(q) \o r)[i] = Tail(q)[i]
      BY <1>1, <2>2, ConcatProperties DEF Queues
    <3>3. Tail(q)[i] = q[i + 1]
      BY <1>1, <2>2, HeadTailProperties DEF Queues
    <3> QED
      BY <2>1, <3>1, <3>2, <3>3
  <2>3. CASE i > Len(q) - 1
    <3>1. (q \o r)[i + 1] = r[(i + 1) - Len(q)]
      BY <1>1, <2>3, ConcatProperties DEF Queues
    <3>2. (Tail(q) \o r)[i] = r[i - (Len(q) - 1)]
      BY <1>1, <2>3, ConcatProperties DEF Queues
    <3>3. (i + 1) - Len(q) = i - (Len(q) - 1)
      BY <1>1
    <3> QED
      BY <2>1, <3>1, <3>2, <3>3
  <2> QED
    BY <1>1, <2>2, <2>3
<1>6. Tail(q \o r) = Tail(q) \o r
  BY <1>1, <1>4, <1>5, SeqEqual
<1> QED
  BY <1>2, <1>3, <1>6

-----------------------------------------------------------------------------
(* The compositor in the session                                           *)

\* Every step of the session is one of Compositor or does not concern it.
LEMMA SessionStep == [SessionNext]_sessionVars => [Next]_vars
<1> SUFFICES ASSUME [SessionNext]_sessionVars PROVE [Next]_vars
  OBVIOUS
<1>0. Client \in Toplevels
  BY ClientAssumption
<1>1. CASE Connect \/ ClientProgram \/ UNCHANGED sessionVars
  BY <1>1 DEF Connect, ClientProgram, Continue, ClientWrite, ClientRead, ClientDispatch,
              HangUp, sessionVars
<1>2. CASE Handle
  <2>1. CASE HandleAnswered \/ HandleGetKeyboard \/ HandleAck
    BY <2>1 DEF HandleAnswered, HandleGetKeyboard, HandleAck
  <2>2. CASE HandleGetToplevel \/ HandleInitialCommit
    BY <1>0, <2>2 DEF HandleGetToplevel, HandleInitialCommit, Next, ClientStep
  <2>3. CASE HandleBuffer
    BY <1>0, <2>3 DEF HandleBuffer, Next, ClientStep
  <2> QED
    BY <1>2, <2>1, <2>2, <2>3 DEF Handle
<1>3. CASE ConfigureClient \/ Disconnect
  BY <1>0, <1>3 DEF ConfigureClient, Disconnect, Next, LoopStep, ClientStep
<1>4. CASE ServerWrite \/ CloseKey \/ EscapeKey
  BY <1>4 DEF ServerWrite, CloseKey, EscapeKey
<1>5. CASE OtherStep
  BY <1>5 DEF OtherStep, Next, LoopStep
<1> QED
  BY <1>1, <1>2, <1>3, <1>4, <1>5 DEF SessionNext

\* The rest of the compositor neither takes the client's scheduled configure event
\* back nor gives the client the keyboard.
LEMMA OtherStepKeeps ==
    ASSUME TypeOK, OtherStep
    PROVE  /\ pending[Client] => pending'[Client]
           /\ kbFocus' = Client => kbFocus = Client
<1>0. Client \in Toplevels /\ Client # NoView /\ pending \in [Toplevels -> BOOLEAN]
  BY ClientAssumption, NoViewAssumption DEF TypeOK
<1>1. CASE SeatStep
  <2>1. UNCHANGED kbFocus
    BY <1>1 DEF SeatStep, PointerMotion, ButtonPress, ButtonRelease, Quit,
                ToggleFullscreen, ToggleFloating, seatVars
  <2>2. ASSUME NEW p \in Points, PointerMotion(p)
        PROVE  pending[Client] => pending'[Client]
    <3>1. CASE UNCHANGED pending
      BY <3>1
    <3>2. CASE DragResize(ViewAt(p), p)
      BY <1>0, <3>2 DEF DragResize, Schedule
    <3> QED
      BY <2>2, <3>1, <3>2 DEF PointerMotion, DragMove, Hover
  <2>3. ASSUME ButtonPress \/ ButtonRelease \/ Quit \/ ToggleFullscreen \/ ToggleFloating
        PROVE  UNCHANGED pending
    BY <2>3 DEF ButtonPress, ButtonRelease, Quit, ToggleFullscreen, ToggleFloating, xdgVars
  <2>4. pending[Client] => pending'[Client]
    BY ONLY <1>1, <2>2, <2>3 DEF SeatStep
  <2> QED
    BY <2>1, <2>4
<1>2. CASE NewOutput
  BY <1>2 DEF NewOutput, xdgVars, seatVars
<1>3. CASE Tick
  BY <1>0, <1>3 DEF Tick, seatVars
<1>4. ASSUME NEW t \in Toplevels \ {Client}, SendConfigure(t)
      PROVE  /\ pending[Client] => pending'[Client]
             /\ kbFocus' = Client => kbFocus = Client
  BY <1>0, <1>4 DEF SendConfigure, seatVars
<1>5. ASSUME NEW t \in Toplevels \ {Client}, ClientStep(t)
      PROVE  /\ pending[Client] => pending'[Client]
             /\ kbFocus' = Client => kbFocus = Client
  <2>1. CASE NewToplevel(t)
    BY <2>1 DEF NewToplevel, xdgVars, seatVars
  <2>2. CASE ToplevelDestroyed(t) \/ ClientGone(t)
    BY <1>0, <2>2 DEF ToplevelDestroyed, ClientGone, ViewDestroyed, SeatForgets, Forget
  <2>3. CASE InitialCommit(t)
    BY <1>0, <2>3 DEF InitialCommit, CommitHandler, Activate, Schedule, KeyboardAfterCommit
  <2>4. CASE Commit(t)
    BY <1>0, <2>4 DEF Commit, CommitHandler, Activate, Schedule, KeyboardAfterCommit
  <2>5. CASE UnmapCommit(t)
    BY <1>0, <2>5 DEF UnmapCommit, seatVars
  <2>6. CASE RequestMove(t) \/ RequestResize(t) \/ RequestMaximize(t)
    BY <2>6 DEF RequestMove, RequestResize, RequestMaximize, xdgVars, seatVars
  <2>7. CASE RequestFullscreen(t)
    BY <1>0, <2>7 DEF RequestFullscreen, AnswerFullscreen, Schedule, seatVars
  <2>8. CASE SurfaceDestroyed(t)
    BY <1>0, <2>8 DEF SurfaceDestroyed, SeatForgets, Forget, xdgVars
  <2> QED
    BY ONLY <1>5, <2>1, <2>2, <2>3, <2>4, <2>5, <2>6, <2>7, <2>8 DEF ClientStep
<1> QED
  BY <1>1, <1>2, <1>3, <1>4, <1>5 DEF OtherStep

\* A commit of the client schedules an event, and only it can bring the client the
\* keyboard.
LEMMA ClientCommit ==
    ASSUME TypeOK, InitialCommit(Client) \/ Commit(Client)
    PROVE  pending'[Client]
BY ClientAssumption
   DEF TypeOK, InitialCommit, Commit, CommitHandler, Activate, Schedule

-----------------------------------------------------------------------------
(* The client in the session                                               *)

LEMMA StreamType == QueuesOK => Stream \in Queues
BY Joined DEF QueuesOK, Stream

\* A handler takes the first message of the stream.
LEMMA HandlesFirst ==
    ASSUME QueuesOK, NEW r, Handles(r)
    PROVE  /\ Stream \in Queues /\ Stream # << >>
           /\ Head(Stream) = r /\ Stream' = Tail(Stream) /\ requests' \in Queues
<1>1. requests # << >> /\ Head(requests) = r /\ requests' = Tail(requests)
      /\ step' = step /\ unsent' = unsent
      /\ requests \in Queues /\ unsent \in Queues
  BY DEF Handles, clientVars, QueuesOK
<1>2. requests' \in Queues
  BY <1>1, Headed
<1>3. CASE step \in Gone
  BY <1>1, <1>2, <1>3 DEF Stream
<1>4. CASE step \notin Gone
  BY <1>1, <1>2, <1>4, JoinedTail, StreamType DEF Stream
<1> QED
  BY <1>3, <1>4

\* What the client queues comes behind the stream, unless it is gone with it.
LEMMA ClientQueues ==
    ASSUME QueuesOK, step \notin Gone, NEW s \in Queues,
           unsent' = unsent \o s, requests' = requests
    PROVE  /\ unsent' \in Queues /\ Stream' \in Queues
           /\ step' \notin Gone => Stream' = Stream \o s
           /\ step' \in Gone => \A a, b : Before(a, b, Stream) => Before(a, b, Stream')
<1>1. requests \in Queues /\ unsent \in Queues /\ Stream = requests \o unsent
  BY DEF QueuesOK, Stream
<1>2. unsent' \in Queues
  BY <1>1, Joined
<1>3. (requests \o unsent) \o s = requests \o (unsent \o s)
  BY <1>1, ConcatAssociative DEF Queues
<1>4. CASE step' \notin Gone
  BY <1>1, <1>2, <1>3, <1>4, Joined DEF Stream
<1>5. CASE step' \in Gone
  <2>1. Stream' = requests
    BY <1>5 DEF Stream
  <2> QED
    BY <1>1, <1>2, <1>5, <2>1, Joined
<1> QED
  BY <1>4, <1>5

\* What the client queues before its roundtrips.
LEMMA RequestedIs ==
    /\ Requested("registry") = <<"get_registry", "sync">>
    /\ Requested("seat") = <<"sync">>
    /\ Requested("surface") = <<"get_toplevel", "commit", "sync">>
    /\ Requested("run") = <<"attach_commit">>
<1>1. Requested("registry") = <<"get_registry", "sync">>
  BY DEF Requested
<1>2. Requested("seat") = <<"sync">>
  BY DEF Requested
<1>3. Requested("surface") = <<"get_toplevel", "commit", "sync">>
  BY DEF Requested
<1>4. Requested("run") = <<"attach_commit">>
  BY DEF Requested
<1> QED
  BY <1>1, <1>2, <1>3, <1>4

\* What the listeners queue.
LEMMA AnsweredIs ==
    ASSUME NEW e
    PROVE  /\ Answered(e) \in Queues
           /\ \A m : In(m, Answered(e)) <=>
                        \/ e = "globals" /\ m = "bind"
                        \/ e = "capabilities" /\ m = "get_keyboard"
                        \/ e = "configure" /\ m = "ack_configure"
<1>1. CASE e = "globals"
  <2>1. Answered(e) = <<"bind">>
    BY <1>1 DEF Answered
  <2> QED
    BY <1>1, <2>1, Single DEF Messages
<1>2. CASE e = "capabilities"
  <2>1. Answered(e) = <<"get_keyboard">>
    BY <1>2 DEF Answered
  <2> QED
    BY <1>2, <2>1, Single DEF Messages
<1>3. CASE e = "configure"
  <2>1. Answered(e) = <<"ack_configure">>
    BY <1>3 DEF Answered
  <2> QED
    BY <1>3, <2>1, Single DEF Messages
<1>4. CASE e \notin {"globals", "capabilities", "configure"}
  <2>1. Answered(e) = << >>
    BY <1>4 DEF Answered
  <2> QED
    BY <1>4, <2>1, Empty
<1> QED
  BY <1>1, <1>2, <1>3, <1>4

-----------------------------------------------------------------------------
(* The steps keep the invariant                                            *)

\* The message of an event that is no answer to a sync goes to the end of the
\* outbox, or nothing is posted; the rest of the session stays.
LEMMA PostKeeps ==
    ASSUME SessionInv,
           UNCHANGED <<clientVars, wireVars, hasKeyboard, acked, rejected>>,
           \/ outbox' = outbox
           \/ \E e \in Messages : e # "done" /\ outbox' = Append(outbox, e),
           pending[Client] => pending'[Client] \/ In("configure", outbox'),
           kbFocus' = Client => kbFocus = Client
    PROVE  SessionOK'
<1>1. /\ UNCHANGED <<step, hasGlobals, unsent, inbox, roundtrip, requests, events>>
      /\ UNCHANGED <<hasKeyboard, acked, rejected>>
  BY DEF clientVars, wireVars
<1>2. Stream' = Stream
  BY <1>1 DEF Stream
<1>3. /\ outbox' \in Queues
      /\ \A m : In(m, outbox) => In(m, outbox')
      /\ In("done", outbox') => In("done", outbox)
      /\ Once("done", outbox) => Once("done", outbox')
  <2>1. outbox \in Queues
    BY DEF SessionInv, SessionOK, QueuesOK
  <2>2. ASSUME NEW e \in Messages, e # "done", outbox' = Append(outbox, e)
        PROVE  /\ outbox' \in Queues
               /\ \A m : In(m, outbox) => In(m, outbox')
               /\ In("done", outbox') => In("done", outbox)
               /\ Once("done", outbox) => Once("done", outbox')
    <3>1. /\ Append(outbox, e) \in Queues
          /\ \A m : In(m, Append(outbox, e)) <=> In(m, outbox) \/ m = e
          /\ \A m : Once(m, outbox) /\ ~ (In(m, outbox) /\ m = e)
                       => Once(m, Append(outbox, e))
      BY <2>1, Appended
    <3> QED
      BY ONLY <2>2, <3>1
  <2> QED
    BY <2>1, <2>2
<1>4. QueuesOK'
  BY <1>1, <1>3 DEF SessionInv, SessionOK, QueuesOK
<1>5. OneToken'
  BY <1>1, <1>2, <1>3 DEF SessionInv, SessionOK, OneToken, Token
<1>6. Roundtrips'
  BY <1>1, <1>2, <1>3
     DEF SessionInv, SessionOK, Roundtrips, Brings, KeyboardAsked, AckSent
<1>7. Prepared' /\ NeverRejected' /\ KeyboardIsThere'
  BY <1>1, <1>2
     DEF SessionInv, SessionOK, Prepared, NeverRejected, KeyboardIsThere
<1> QED
  BY <1>4, <1>5, <1>6, <1>7 DEF SessionOK

\* A handled request r leaves the stream; its answer, when it has one, is posted.
LEMMA HandleKeeps ==
    ASSUME SessionInv, NEW r, Handles(r),
           IF r \in DOMAIN Answers THEN outbox' = Append(outbox, Answers[r])
                                   ELSE outbox' = outbox,
           hasKeyboard' = (hasKeyboard \/ r = "get_keyboard"),
           acked' = (acked \/ r = "ack_configure"),
           rejected' = rejected,
           pending[Client] \/ r = "commit" => pending'[Client],
           kbFocus' = Client => kbFocus = Client \/ r \in {"commit", "attach_commit"}
    PROVE  SessionOK'
<1>1. UNCHANGED <<step, hasGlobals, unsent, inbox, roundtrip, events>>
  BY DEF Handles, clientVars
<1>2. /\ Stream \in Queues /\ Stream # << >> /\ Head(Stream) = r
      /\ Stream' = Tail(Stream) /\ requests' \in Queues
  BY HandlesFirst DEF SessionInv, SessionOK
<1>3. /\ r \in Messages
      /\ \A m : In(m, Stream) <=> m = r \/ In(m, Stream')
      /\ \A m : Once(m, Stream) => Once(m, Stream') /\ ~ (m = r /\ In(m, Stream'))
      /\ \A a, b : Before(a, b, Stream) /\ a # r => Before(a, b, Stream')
      /\ \A a, b : Before(a, b, Stream) => b # r
  BY <1>2, Headed
<1>4. /\ outbox' \in Queues
      /\ \A m : In(m, outbox') <=> \/ In(m, outbox)
                                   \/ r = "get_registry" /\ m = "globals"
                                   \/ r = "bind" /\ m = "capabilities"
                                   \/ r = "sync" /\ m = "done"
      /\ Once("done", outbox) /\ ~ (In("done", outbox) /\ r = "sync") => Once("done", outbox')
  <2>1. outbox \in Queues
    BY DEF SessionInv, SessionOK, QueuesOK
  <2>2. /\ DOMAIN Answers = {"get_registry", "bind", "sync"}
        /\ Answers["get_registry"] = "globals"
        /\ Answers["bind"] = "capabilities"
        /\ Answers["sync"] = "done"
    BY DEF Answers
  <2>3. {"globals", "capabilities", "done"} \subseteq Messages
    BY DEF Messages
  <2>8. ASSUME NEW e \in Messages
        PROVE  /\ Append(outbox, e) \in Queues
               /\ \A m : In(m, Append(outbox, e)) <=> In(m, outbox) \/ m = e
               /\ \A m : Once(m, outbox) /\ ~ (In(m, outbox) /\ m = e)
                            => Once(m, Append(outbox, e))
    BY <2>1, Appended
  <2>4. CASE r = "get_registry"
    <3>1. outbox' = Append(outbox, "globals")
      BY <2>2, <2>4
    <3> QED
      BY <2>1, <2>3, <2>4, <3>1, <2>8
  <2>5. CASE r = "bind"
    <3>1. outbox' = Append(outbox, "capabilities")
      BY <2>2, <2>5
    <3> QED
      BY <2>1, <2>3, <2>5, <3>1, <2>8
  <2>6. CASE r = "sync"
    <3>1. outbox' = Append(outbox, "done")
      BY <2>2, <2>6
    <3> QED
      BY <2>1, <2>3, <2>6, <3>1, <2>8
  <2>7. CASE r \notin {"get_registry", "bind", "sync"}
    BY <2>1, <2>2, <2>7
  <2> QED
    BY <2>4, <2>5, <2>6, <2>7
<1>5. QueuesOK'
  <2>1. step # "start"
    BY DEF SessionInv, SessionOK, QueuesOK, Handles
  <2> QED
    BY <1>1, <1>2, <1>4, <2>1 DEF SessionInv, SessionOK, QueuesOK
<1>6. OneToken'
  BY <1>1, <1>3, <1>4 DEF SessionInv, SessionOK, OneToken, Token
<1>7. /\ KeyboardAsked => KeyboardAsked'
      /\ AckSent => AckSent'
  BY <1>3 DEF KeyboardAsked, AckSent, SessionInv, SessionOK, QueuesOK
<1>8. Roundtrips'
  <2>1. Brings("get_registry", "globals", FALSE, hasGlobals)
          => Brings("get_registry", "globals", FALSE, hasGlobals)'
    BY <1>1, <1>3, <1>4 DEF Brings
  <2>2. Brings("bind", "capabilities", FALSE, KeyboardAsked)
          => Brings("bind", "capabilities", FALSE, KeyboardAsked)'
    BY <1>1, <1>3, <1>4, <1>7 DEF Brings
  <2>3. Brings("commit", "configure", pending[Client], AckSent)
          => Brings("commit", "configure", pending[Client], AckSent)'
    BY <1>1, <1>3, <1>4, <1>7 DEF Brings
  <2> QED
    BY <1>1, <1>3, <1>4, <1>7, <2>1, <2>2, <2>3
       DEF SessionInv, SessionOK, Roundtrips
<1>9. Prepared' /\ KeyboardIsThere'
  BY <1>3 DEF SessionInv, SessionOK, QueuesOK, Prepared, KeyboardIsThere
<1>10. NeverRejected'
  BY DEF SessionInv, SessionOK, NeverRejected
<1> QED
  BY <1>5, <1>6, <1>8, <1>9, <1>10 DEF SessionOK

LEMMA HandleInv == SessionInv /\ Handle => SessionOK'
<1> SUFFICES ASSUME SessionInv, Handle PROVE SessionOK'
  OBVIOUS
<1>1. /\ TypeOK /\ QueuesOK
      /\ DOMAIN Answers = {"get_registry", "bind", "sync"}
  BY DEF SessionInv, SessionOK, Answers
<1>2. CASE HandleAnswered
  <2>1. PICK r \in DOMAIN Answers : Handles(r) /\ outbox' = Append(outbox, Answers[r])
    BY <1>2 DEF HandleAnswered, Post
  <2>2. UNCHANGED <<pending, kbFocus, hasKeyboard, acked, rejected>>
    BY <1>2 DEF HandleAnswered, vars, xdgVars, seatVars
  <2> QED
    BY <1>1, <2>1, <2>2, HandleKeeps DEF QueuesOK
<1>3. CASE HandleGetKeyboard
  <2>1. UNCHANGED <<pending, kbFocus, outbox, acked, rejected>> /\ hasKeyboard' = TRUE
        /\ Handles("get_keyboard")
    BY <1>3 DEF HandleGetKeyboard, vars, xdgVars, seatVars
  <2> QED
    BY <1>1, <2>1, HandleKeeps DEF QueuesOK
<1>4. CASE HandleGetToplevel
  <2>1. UNCHANGED <<pending, kbFocus, outbox, hasKeyboard, acked, rejected>>
        /\ Handles("get_toplevel")
    BY <1>4 DEF HandleGetToplevel, NewToplevel, serverVars, xdgVars, seatVars
  <2> QED
    BY <1>1, <2>1, HandleKeeps DEF QueuesOK
<1>5. CASE HandleInitialCommit
  <2>1. UNCHANGED <<outbox, hasKeyboard, acked, rejected>>
        /\ Handles("commit") /\ pending'[Client]
    BY <1>1, <1>5, ClientCommit DEF HandleInitialCommit, serverVars
  <2> QED
    BY <1>1, <2>1, HandleKeeps DEF QueuesOK
<1>6. CASE HandleAck
  <2>1. UNCHANGED <<pending, kbFocus, outbox, hasKeyboard, rejected>> /\ acked' = TRUE
        /\ Handles("ack_configure")
    BY <1>6 DEF HandleAck, vars, xdgVars, seatVars
  <2> QED
    BY <1>1, <2>1, HandleKeeps DEF QueuesOK
<1>7. CASE HandleBuffer
  <2>1. Handles("attach_commit") /\ UNCHANGED <<outbox, hasKeyboard, acked>>
    BY <1>7 DEF HandleBuffer
  <2>2. acked
    <3>1. ~ Before("ack_configure", "attach_commit", Stream)
      BY <1>1, <2>1, HandlesFirst, Headed
    <3> QED
      BY <3>1 DEF SessionInv, SessionOK, Prepared
  <2>3. rejected' = rejected /\ pending'[Client]
    BY <1>1, <1>7, <2>2, ClientCommit DEF HandleBuffer
  <2> QED
    BY <1>1, <2>1, <2>3, HandleKeeps DEF QueuesOK
<1> QED
  BY <1>2, <1>3, <1>4, <1>5, <1>6, <1>7 DEF Handle

LEMMA ServerWriteInv == SessionInv /\ ServerWrite => SessionOK'
<1> SUFFICES ASSUME SessionInv, ServerWrite PROVE SessionOK'
  OBVIOUS
<1>1. /\ UNCHANGED <<step, hasGlobals, unsent, inbox, roundtrip, requests>>
      /\ UNCHANGED <<hasKeyboard, acked, rejected, kbFocus, pending>>
      /\ events' = events \o outbox /\ outbox' = << >> /\ ~ pending[Client]
  BY DEF ServerWrite, clientVars, vars, xdgVars, seatVars
<1>2. Stream' = Stream
  BY <1>1 DEF Stream
<1>3. /\ events' \in Queues /\ outbox' \in Queues
      /\ \A m : In(m, events') <=> In(m, events) \/ In(m, outbox)
      /\ Once("done", events) /\ Once("done", outbox)
           /\ ~ (In("done", events) /\ In("done", outbox)) => Once("done", events')
      /\ \A m : ~ In(m, outbox') /\ Once(m, outbox')
  BY <1>1, Joined, Empty DEF SessionInv, SessionOK, QueuesOK
<1>4. QueuesOK'
  BY <1>1, <1>3 DEF SessionInv, SessionOK, QueuesOK
<1>5. OneToken'
  BY <1>1, <1>2, <1>3 DEF SessionInv, SessionOK, OneToken, Token
<1>6. Roundtrips'
  BY <1>1, <1>2, <1>3
     DEF SessionInv, SessionOK, Roundtrips, Brings, KeyboardAsked, AckSent
<1>7. Prepared' /\ NeverRejected' /\ KeyboardIsThere'
  BY <1>1, <1>2
     DEF SessionInv, SessionOK, Prepared, NeverRejected, KeyboardIsThere
<1> QED
  BY <1>4, <1>5, <1>6, <1>7 DEF SessionOK

LEMMA ClientWriteInv == SessionInv /\ ClientWrite => SessionOK'
<1> SUFFICES ASSUME SessionInv, ClientWrite PROVE SessionOK'
  OBVIOUS
<1>1. /\ UNCHANGED <<step, hasGlobals, inbox, roundtrip, events, outbox>>
      /\ UNCHANGED <<hasKeyboard, acked, rejected, kbFocus, pending>>
      /\ requests' = requests \o unsent /\ unsent' = << >> /\ step \in Waiting
  BY DEF ClientWrite, serverVars, vars, xdgVars, seatVars
<1>2. requests' \in Queues /\ unsent' \in Queues
  BY <1>1, Joined, Empty DEF SessionInv, SessionOK, QueuesOK
<1>3. Stream' = Stream
  BY <1>1, <1>2, ConcatEmptySeq DEF Stream, Waiting, Gone, Queues
<1>4. QueuesOK'
  BY <1>1, <1>2 DEF SessionInv, SessionOK, QueuesOK, Waiting
<1>5. OneToken'
  BY <1>1, <1>3 DEF SessionInv, SessionOK, OneToken, Token
<1>6. Roundtrips'
  BY <1>1, <1>3
     DEF SessionInv, SessionOK, Roundtrips, Brings, KeyboardAsked, AckSent
<1>7. Prepared' /\ NeverRejected' /\ KeyboardIsThere'
  BY <1>1, <1>3
     DEF SessionInv, SessionOK, Prepared, NeverRejected, KeyboardIsThere
<1> QED
  BY <1>4, <1>5, <1>6, <1>7 DEF SessionOK

LEMMA ClientReadInv == SessionInv /\ ClientRead => SessionOK'
<1> SUFFICES ASSUME SessionInv, ClientRead PROVE SessionOK'
  OBVIOUS
<1>1. /\ UNCHANGED <<step, hasGlobals, unsent, requests, roundtrip, outbox>>
      /\ UNCHANGED <<hasKeyboard, acked, rejected, kbFocus, pending>>
      /\ inbox = << >> /\ inbox' = events /\ events' = << >>
      /\ roundtrip \/ step = "run"
  BY DEF ClientRead, serverVars, vars, xdgVars, seatVars
<1>2. Stream' = Stream
  BY <1>1 DEF Stream
<1>3. /\ events' \in Queues
      /\ \A m : ~ In(m, events') /\ Once(m, events') /\ ~ In(m, inbox)
  BY <1>1, Empty
<1>4. QueuesOK'
  BY <1>1, <1>3 DEF SessionInv, SessionOK, QueuesOK
<1>5. OneToken'
  BY <1>1, <1>2, <1>3 DEF SessionInv, SessionOK, OneToken, Token
<1>6. Roundtrips'
  BY <1>1, <1>2, <1>3
     DEF SessionInv, SessionOK, Roundtrips, Brings, KeyboardAsked, AckSent
<1>7. Prepared' /\ NeverRejected' /\ KeyboardIsThere'
  BY <1>1, <1>2
     DEF SessionInv, SessionOK, Prepared, NeverRejected, KeyboardIsThere
<1> QED
  BY <1>4, <1>5, <1>6, <1>7 DEF SessionOK

\* The client is gone, and what it had not written with it.
LEMMA GoneInv ==
    ASSUME SessionInv, step \notin Gone, step' \in Gone,
           UNCHANGED <<vars, serverVars, wireVars>>,
           roundtrip' \in BOOLEAN, hasGlobals' \in BOOLEAN, inbox' \in Queues,
           NEW s \in Queues, unsent' = unsent \o s
    PROVE  SessionOK'
<1>1. /\ UNCHANGED <<requests, events, outbox, hasKeyboard, acked, rejected, kbFocus>>
  BY DEF serverVars, wireVars, vars, seatVars
<1>2. /\ unsent' \in Queues
      /\ \A a, b : Before(a, b, Stream) => Before(a, b, Stream')
  BY <1>1, ClientQueues DEF SessionInv, SessionOK
<1>3. QueuesOK'
  BY <1>1, <1>2 DEF SessionInv, SessionOK, QueuesOK, Gone
<1>4. OneToken' /\ Roundtrips'
  BY DEF OneToken, Roundtrips, Gone
<1>5. Prepared' /\ NeverRejected' /\ KeyboardIsThere'
  BY <1>1, <1>2
     DEF SessionInv, SessionOK, Prepared, NeverRejected, KeyboardIsThere
<1> QED
  BY <1>3, <1>4, <1>5 DEF SessionOK

LEMMA HangUpInv == SessionInv /\ HangUp => SessionOK'
<1> SUFFICES ASSUME SessionInv, HangUp PROVE SessionOK'
  OBVIOUS
<1>1. /\ UNCHANGED <<vars, serverVars, wireVars, hasGlobals, unsent, inbox, roundtrip>>
      /\ step \in Waiting /\ step' \in {"failed", "ended"}
  BY DEF HangUp
<1>2. step \notin Gone /\ step' \in Gone
  BY <1>1 DEF Waiting, Gone
<1>3. unsent' = unsent \o << >> /\ << >> \in Queues
  BY <1>1, ConcatEmptySeq, Empty DEF SessionInv, SessionOK, QueuesOK, Queues
<1> QED
  BY <1>1, <1>2, <1>3, GoneInv DEF SessionInv, SessionOK, QueuesOK

LEMMA DisconnectInv == SessionInv /\ Disconnect => SessionOK'
<1> SUFFICES ASSUME SessionInv, Disconnect PROVE SessionOK'
  OBVIOUS
<1>1. /\ UNCHANGED <<step, hasGlobals, unsent, inbox, roundtrip>>
      /\ UNCHANGED <<hasKeyboard, acked, rejected>>
      /\ requests' = << >> /\ outbox' = << >> /\ events' = << >>
      /\ kbFocus' = Forget(kbFocus, Client)
  BY DEF Disconnect, clientVars, ClientGone, SeatForgets
<1>2. step \in Gone
  BY DEF Disconnect, SessionInv, SessionOK, NeverRejected
<1>3. Stream' = << >>
  BY <1>1, <1>2 DEF Stream
<1>4. kbFocus' # Client
  BY <1>1, ClientAssumption, NoViewAssumption DEF Forget
<1>5. QueuesOK'
  BY <1>1, Empty DEF SessionInv, SessionOK, QueuesOK
<1>6. OneToken' /\ Roundtrips'
  BY <1>1, <1>2 DEF OneToken, Roundtrips, Gone
<1>7. Prepared' /\ NeverRejected' /\ KeyboardIsThere'
  BY <1>1, <1>3, <1>4, Empty
     DEF SessionInv, SessionOK, Prepared, NeverRejected, KeyboardIsThere
<1> QED
  BY <1>5, <1>6, <1>7 DEF SessionOK

\* What the client queues before its roundtrips, as the invariant sees it.
LEMMA RequestedQueues ==
    /\ \A s \in Waiting :
          /\ Requested(s) \in Queues
          /\ Once("sync", Requested(s))
          /\ In("sync", Requested(s)) => s # "run"
          /\ In("commit", Requested(s)) => s = "surface"
          /\ In("attach_commit", Requested(s)) => s = "run"
    /\ Before("get_registry", "sync", Requested("registry"))
    /\ In("sync", Requested("seat"))
    /\ Before("commit", "sync", Requested("surface"))
<1>1. /\ <<"get_registry", "sync">> \in Queues
      /\ Once("sync", <<"get_registry", "sync">>)
      /\ ~ In("commit", <<"get_registry", "sync">>)
      /\ ~ In("attach_commit", <<"get_registry", "sync">>)
      /\ Before("get_registry", "sync", <<"get_registry", "sync">>)
  BY DEF Queues, Messages, In, Once, Before
<1>2. /\ <<"sync">> \in Queues
      /\ \A m : In(m, <<"sync">>) <=> m = "sync"
      /\ Once("sync", <<"sync">>)
  BY Single DEF Messages
<1>3. /\ <<"get_toplevel", "commit", "sync">> \in Queues
      /\ Once("sync", <<"get_toplevel", "commit", "sync">>)
      /\ ~ In("attach_commit", <<"get_toplevel", "commit", "sync">>)
      /\ Before("commit", "sync", <<"get_toplevel", "commit", "sync">>)
  BY DEF Queues, Messages, In, Once, Before
<1>4. /\ <<"attach_commit">> \in Queues
      /\ \A m : In(m, <<"attach_commit">>) <=> m = "attach_commit"
      /\ Once("sync", <<"attach_commit">>)
  BY Single DEF Messages
<1> QED
  BY <1>1, <1>2, <1>3, <1>4, RequestedIs DEF Waiting

\* A step of the client's program that ends with the next roundtrip's requests.
LEMMA EnterInv ==
    ASSUME SessionInv, NEW s \in Waiting, Enter(s), step \notin Gone, ~ roundtrip,
           UNCHANGED <<vars, serverVars, wireVars, hasGlobals, inbox>>,
           s = "registry" => ~ hasGlobals,
           s = "seat" => step = "registry" /\ hasGlobals,
           s = "surface" => KeyboardAsked,
           s = "run" => KeyboardAsked /\ AckSent
    PROVE  SessionOK'
<1>1. /\ UNCHANGED <<requests, events, outbox, inbox, hasGlobals>>
      /\ UNCHANGED <<hasKeyboard, acked, rejected, kbFocus, pending>>
      /\ step' = s /\ unsent' = unsent \o Requested(s) /\ roundtrip' = (s # "run")
  BY DEF Enter, serverVars, wireVars, vars, seatVars, xdgVars
<1>2. step' \in Waiting /\ step' \notin Gone
  BY <1>1 DEF Waiting, Gone
<1>3. Requested(s) \in Queues /\ QueuesOK
  BY RequestedQueues DEF SessionInv, SessionOK
<1>4. unsent' \in Queues /\ Stream' = Stream \o Requested(s) /\ Stream \in Queues
  BY <1>1, <1>2, <1>3, ClientQueues, StreamType
<1>5. /\ \A m : In(m, Stream') <=> In(m, Stream) \/ In(m, Requested(s))
      /\ \A m : Once(m, Stream) /\ Once(m, Requested(s))
                  /\ ~ (In(m, Stream) /\ In(m, Requested(s))) => Once(m, Stream')
      /\ \A a, b : Before(a, b, Stream) /\ (In(a, Stream) \/ Before(a, b, Requested(s)))
                      => Before(a, b, Stream')
  BY <1>3, <1>4, Joined
<1>6. /\ ~ In("sync", Stream) /\ ~ In("done", outbox)
      /\ ~ In("done", events) /\ ~ In("done", inbox)
  BY DEF SessionInv, SessionOK, OneToken, Token
<1>7. QueuesOK'
  BY <1>1, <1>2, <1>4 DEF SessionInv, SessionOK, QueuesOK, Waiting
<1>8. OneToken'
  BY <1>1, <1>5, <1>6, RequestedQueues DEF SessionInv, SessionOK, OneToken, Token
<1>9. /\ KeyboardAsked => KeyboardAsked'
      /\ AckSent => AckSent'
  BY <1>1, <1>5 DEF KeyboardAsked, AckSent
<1>10. Roundtrips'
  <2>1. s = "registry" => Brings("get_registry", "globals", FALSE, hasGlobals)'
    BY <1>1, <1>5, <1>6, RequestedQueues, NoneBefore DEF Brings
  <2>2. s = "seat" => Brings("bind", "capabilities", FALSE, KeyboardAsked)'
    <3> SUFFICES ASSUME s = "seat"
                 PROVE  Brings("bind", "capabilities", FALSE, KeyboardAsked)'
      OBVIOUS
    <3>1. \/ In("bind", Stream)
          \/ In("capabilities", outbox) \/ In("capabilities", events)
          \/ In("capabilities", inbox) \/ KeyboardAsked
      BY DEF SessionInv, SessionOK, Roundtrips
    <3>2. In("bind", Stream) => Before("bind", "sync", Stream')
      BY <1>5, <1>6, NoneBefore
    <3> QED
      BY <1>1, <1>6, <1>9, <3>1, <3>2 DEF Brings
  <2>3. s = "surface" => Brings("commit", "configure", pending[Client], AckSent)'
    BY <1>1, <1>5, <1>6, RequestedQueues, NoneBefore DEF Brings
  <2>4. s \in {"registry", "seat"} /\ hasGlobals =>
          \/ In("bind", Stream')
          \/ In("capabilities", outbox) \/ In("capabilities", events)
          \/ In("capabilities", inbox) \/ KeyboardAsked'
    <3> SUFFICES ASSUME s = "seat"
                 PROVE  \/ In("bind", Stream')
                        \/ In("capabilities", outbox) \/ In("capabilities", events)
                        \/ In("capabilities", inbox) \/ KeyboardAsked'
      OBVIOUS
    <3>1. \/ In("bind", Stream)
          \/ In("capabilities", outbox) \/ In("capabilities", events)
          \/ In("capabilities", inbox) \/ KeyboardAsked
      BY DEF SessionInv, SessionOK, Roundtrips
    <3> QED
      BY <1>5, <1>9, <3>1
  <2>5. s = "seat" => hasGlobals'
    BY <1>1
  <2>6. s = "surface" => KeyboardAsked'
    BY <1>9
  <2>7. step' = s /\ hasGlobals' = hasGlobals
    BY <1>1
  <2>8. step' \in {"registry", "seat"} /\ hasGlobals' =>
          \/ In("bind", Stream')
          \/ In("capabilities", outbox') \/ In("capabilities", events')
          \/ In("capabilities", inbox') \/ KeyboardAsked'
    BY <1>1, <2>4
  <2> QED
    BY <2>1, <2>2, <2>3, <2>5, <2>6, <2>7, <2>8 DEF Roundtrips
<1>11. Prepared'
  <2>1. /\ In("commit", Requested(s)) => KeyboardAsked
        /\ In("attach_commit", Requested(s)) => KeyboardAsked /\ AckSent
    BY RequestedQueues
  <2> QED
    BY <1>1, <1>5, <2>1, NoneBefore
       DEF SessionInv, SessionOK, Prepared, KeyboardAsked, AckSent
<1>12. NeverRejected' /\ KeyboardIsThere'
  BY <1>1 DEF SessionInv, SessionOK, NeverRejected, KeyboardIsThere
<1> QED
  BY <1>7, <1>8, <1>10, <1>11, <1>12 DEF SessionOK

LEMMA ClientDispatchInv == SessionInv /\ ClientDispatch => SessionOK'
<1> SUFFICES ASSUME SessionInv, ClientDispatch PROVE SessionOK'
  OBVIOUS
<1> DEFINE e == Head(inbox)
<1>1. /\ UNCHANGED <<vars, serverVars, wireVars>>
      /\ UNCHANGED <<requests, events, outbox>>
      /\ UNCHANGED <<hasKeyboard, acked, rejected, kbFocus, pending>>
      /\ step \in Waiting /\ inbox # << >> /\ inbox' = Tail(inbox)
      /\ step' = StepAfter(e) /\ unsent' = unsent \o Answered(e)
      /\ hasGlobals' = (hasGlobals \/ e = "globals")
      /\ roundtrip' = (roundtrip /\ e # "done")
  BY DEF ClientDispatch, serverVars, wireVars, vars, seatVars, xdgVars
<1>2. step \notin Gone /\ QueuesOK /\ inbox \in Queues
  BY <1>1 DEF Waiting, Gone, SessionInv, SessionOK, QueuesOK
<1>3. /\ inbox' \in Queues
      /\ \A m : In(m, inbox) <=> m = e \/ In(m, inbox')
      /\ \A m : Once(m, inbox) => Once(m, inbox') /\ ~ (m = e /\ In(m, inbox'))
  BY <1>1, <1>2, Headed
<1>4. roundtrip' \in BOOLEAN /\ hasGlobals' \in BOOLEAN
  BY <1>1
<1>5. /\ Answered(e) \in Queues
      /\ \A m : In(m, Answered(e)) <=>
                        \/ e = "globals" /\ m = "bind"
                        \/ e = "capabilities" /\ m = "get_keyboard"
                        \/ e = "configure" /\ m = "ack_configure"
  BY AnsweredIs
<1>6. step' \in {"crashed", "exited", step}
  BY <1>1 DEF StepAfter
<1> HIDE DEF e
<1>7. CASE step' \in Gone
  BY <1>1, <1>2, <1>3, <1>4, <1>5, <1>7, GoneInv
<1>8. ASSUME step' \notin Gone PROVE SessionOK'
  <2>1. step' = step
    BY <1>6, <1>8 DEF Gone
  <2>2. unsent' \in Queues /\ Stream' = Stream \o Answered(e) /\ Stream \in Queues
    BY <1>1, <1>2, <1>5, <1>8, ClientQueues, StreamType
  <2>3. /\ \A m : In(m, Stream') <=> In(m, Stream) \/ In(m, Answered(e))
        /\ \A m : Once(m, Stream) /\ ~ In(m, Answered(e)) => Once(m, Stream')
        /\ \A a, b : Before(a, b, Stream) /\ ~ In(b, Answered(e)) => Before(a, b, Stream')
    <3>1. \A m : ~ In(m, Answered(e)) => Once(m, Answered(e))
      BY DEF In, Once
    <3> QED
      BY <1>5, <2>2, <3>1, Joined, NoneBefore
  <2>4. QueuesOK'
    BY <1>1, <1>3, <1>4, <2>1, <2>2 DEF SessionInv, SessionOK, QueuesOK, Waiting
  <2>5. OneToken'
    <3>1. /\ Token(In("sync", Stream), In("done", outbox), In("done", events),
                   In("done", inbox))
          /\ Once("sync", Stream)
          /\ Once("done", outbox) /\ Once("done", events) /\ Once("done", inbox)
      BY <1>2 DEF SessionInv, SessionOK, OneToken
    <3>2. ~ In("sync", Answered(e))
      BY <1>5
    <3>3. In("sync", Stream') <=> In("sync", Stream)
      BY <2>3, <3>2
    <3>4. In("done", inbox) <=> e = "done" \/ In("done", inbox')
      BY <1>3
    <3>5. Once("done", inbox') /\ ~ (e = "done" /\ In("done", inbox'))
      BY <1>3, <3>1
    <3>6. Once("sync", Stream')
      BY <2>3, <3>1, <3>2
    <3>7. Token(In("sync", Stream), In("done", outbox), In("done", events),
                In("done", inbox))'
      BY <1>1, <3>1, <3>3, <3>4, <3>5 DEF Token
    <3> QED
      BY <1>1, <3>1, <3>5, <3>6, <3>7 DEF OneToken
  <2>6. /\ KeyboardAsked \/ e = "capabilities" => KeyboardAsked'
        /\ AckSent \/ e = "configure" => AckSent'
    BY <1>1, <1>5, <2>3 DEF KeyboardAsked, AckSent
  <2>7. Roundtrips'
    <3>1. /\ In("sync", Stream') <=> In("sync", Stream)
          /\ \A a : Before(a, "sync", Stream) => Before(a, "sync", Stream')
      BY <1>5, <2>3
    <3>2. e = "done" => In("done", inbox)
      BY <1>3
    <3>3. Brings("get_registry", "globals", FALSE, hasGlobals)
            => Brings("get_registry", "globals", FALSE, hasGlobals)'
      <4>1. /\ In("globals", inbox) \/ hasGlobals => In("globals", inbox') \/ hasGlobals'
            /\ hasGlobals => hasGlobals'
        BY <1>1, <1>3, <2>6
      <4>2. In("done", inbox') => In("done", inbox)
        BY <1>3
      <4> QED
        BY <1>1, <3>1, <3>2, <4>1, <4>2 DEF Brings
    <3>4. Brings("bind", "capabilities", FALSE, KeyboardAsked)
            => Brings("bind", "capabilities", FALSE, KeyboardAsked)'
      <4>1. /\ In("capabilities", inbox) \/ KeyboardAsked => In("capabilities", inbox') \/ KeyboardAsked'
            /\ KeyboardAsked => KeyboardAsked'
        BY <1>1, <1>3, <2>6
      <4>2. In("done", inbox') => In("done", inbox)
        BY <1>3
      <4> QED
        BY <1>1, <3>1, <3>2, <4>1, <4>2 DEF Brings
    <3>5. Brings("commit", "configure", pending[Client], AckSent)
            => Brings("commit", "configure", pending[Client], AckSent)'
      <4>1. /\ In("configure", inbox) \/ AckSent => In("configure", inbox') \/ AckSent'
            /\ AckSent => AckSent'
        BY <1>1, <1>3, <2>6
      <4>2. In("done", inbox') => In("done", inbox)
        BY <1>3
      <4> QED
        BY <1>1, <3>1, <3>2, <4>1, <4>2 DEF Brings
    <3> QED
      BY <1>1, <1>3, <1>5, <2>1, <2>3, <2>6, <3>3, <3>4, <3>5
         DEF SessionInv, SessionOK, Roundtrips
  <2>8. Prepared' /\ NeverRejected' /\ KeyboardIsThere'
    BY <1>1, <1>5, <2>3
       DEF SessionInv, SessionOK, Prepared, NeverRejected, KeyboardIsThere
  <2> QED
    BY <2>4, <2>5, <2>7, <2>8 DEF SessionOK
<1> QED
  BY <1>7, <1>8

LEMMA ProgramInv == SessionInv /\ (Connect \/ ClientProgram) => SessionOK'
<1> SUFFICES ASSUME SessionInv, Connect \/ ClientProgram PROVE SessionOK'
  OBVIOUS
<1>1. /\ unsent = unsent \o << >> /\ << >> \in Queues
      /\ \A m : ~ In(m, << >>)
  BY ConcatEmptySeq, Empty DEF SessionInv, SessionOK, QueuesOK, Queues
<1>2. CASE Connect
  <2>1. /\ step = "start" /\ ~ roundtrip /\ ~ hasGlobals /\ step \notin Gone /\ "registry" \in Waiting
        /\ UNCHANGED <<vars, serverVars, wireVars, hasGlobals, inbox>>
    BY <1>2 DEF Connect, SessionInv, SessionOK, QueuesOK, Gone, Waiting
  <2>2. CASE Enter("registry")
    BY <2>1, <2>2, EnterInv
  <2>3. CASE step' = "failed" /\ UNCHANGED <<unsent, roundtrip>>
    BY <1>1, <2>1, <2>3, GoneInv DEF Gone, SessionInv, SessionOK, QueuesOK
  <2> QED
    BY <1>2, <2>2, <2>3 DEF Connect
<1>3. CASE Continue
  <2>1. /\ ~ roundtrip /\ inbox = << >>
        /\ UNCHANGED <<vars, serverVars, wireVars, hasGlobals, inbox>>
    BY <1>3 DEF Continue
  <2>2. /\ step = "registry" => hasGlobals
        /\ step = "seat" => KeyboardAsked
        /\ step = "surface" => KeyboardAsked /\ AckSent
    BY <1>1, <2>1 DEF SessionInv, SessionOK, Roundtrips, Brings
  <2>3. CASE step = "registry" /\ Enter("seat")
    BY <2>1, <2>2, <2>3, EnterInv DEF Gone, Waiting
  <2>4. CASE step = "seat" /\ Enter("surface")
    BY <2>1, <2>2, <2>4, EnterInv DEF Gone, Waiting
  <2>5. CASE step = "surface" /\ Enter("run")
    BY <2>1, <2>2, <2>5, EnterInv DEF Gone, Waiting
  <2>6. CASE step = "seat" /\ step' = "failed" /\ UNCHANGED <<unsent, roundtrip>>
    BY <1>1, <2>1, <2>6, GoneInv DEF Gone, SessionInv, SessionOK, QueuesOK
  <2> QED
    BY <1>3, <2>3, <2>4, <2>5, <2>6 DEF Continue
<1> QED
  BY <1>2, <1>3, ClientWriteInv, ClientReadInv, ClientDispatchInv, HangUpInv
     DEF ClientProgram

LEMMA ServerInv ==
    SessionInv /\ (ConfigureClient \/ CloseKey \/ EscapeKey \/ OtherStep
                   \/ UNCHANGED sessionVars) => SessionOK'
<1>1. SessionInv /\ ConfigureClient => SessionOK'
  <2> SUFFICES ASSUME SessionInv, ConfigureClient PROVE SessionOK'
    OBVIOUS
  <2>1. /\ UNCHANGED <<clientVars, wireVars, hasKeyboard, acked, rejected>>
        /\ outbox' = Append(outbox, "configure") /\ UNCHANGED kbFocus
    BY DEF ConfigureClient, Post, SendConfigure, seatVars
  <2>2. "configure" \in Messages /\ outbox \in Queues
    BY DEF Messages, SessionInv, SessionOK, QueuesOK
  <2>3. In("configure", outbox')
    BY <2>1, <2>2, Appended
  <2> QED
    BY <2>1, <2>2, <2>3, PostKeeps
<1>2. SessionInv /\ (CloseKey \/ EscapeKey) => SessionOK'
  <2> SUFFICES ASSUME SessionInv, CloseKey \/ EscapeKey PROVE SessionOK'
    OBVIOUS
  <2>1. /\ UNCHANGED <<clientVars, wireVars, hasKeyboard, acked, rejected>>
        /\ UNCHANGED <<kbFocus, pending>>
        /\ \E e \in {"close", "escape"} : outbox' = Append(outbox, e)
    BY DEF CloseKey, EscapeKey, Post, vars, seatVars, xdgVars
  <2>2. {"close", "escape"} \subseteq Messages
    BY DEF Messages
  <2> QED
    BY <2>1, <2>2, PostKeeps
<1>3. SessionInv /\ OtherStep => SessionOK'
  <2> SUFFICES ASSUME SessionInv, OtherStep PROVE SessionOK'
    OBVIOUS
  <2>1. UNCHANGED <<clientVars, wireVars, outbox, hasKeyboard, acked, rejected>>
    BY DEF OtherStep, serverVars
  <2> QED
    BY <2>1, OtherStepKeeps, PostKeeps DEF SessionInv
<1>4. SessionInv /\ UNCHANGED sessionVars => SessionOK'
  <2> SUFFICES ASSUME SessionInv, UNCHANGED sessionVars PROVE SessionOK'
    OBVIOUS
  <2>1. /\ UNCHANGED <<clientVars, wireVars, outbox, hasKeyboard, acked, rejected>>
        /\ UNCHANGED <<kbFocus, pending>>
    BY DEF sessionVars, serverVars, vars, seatVars, xdgVars
  <2> QED
    BY <2>1, PostKeeps
<1> QED
  BY <1>1, <1>2, <1>3, <1>4

LEMMA SessionInitInv == SessionInit => SessionInv
<1> SUFFICES ASSUME SessionInit PROVE SessionInv
  OBVIOUS
<1>1. TypeOK /\ kbFocus = NoView
  BY InitTypeOK DEF SessionInit, Init
<1>2. /\ step = "start" /\ ~ hasGlobals /\ ~ roundtrip /\ ~ hasKeyboard /\ ~ acked
      /\ roundtrip \in BOOLEAN /\ hasGlobals \in BOOLEAN
      /\ hasKeyboard \in BOOLEAN /\ acked \in BOOLEAN
      /\ unsent = << >> /\ requests = << >>
      /\ outbox = << >> /\ events = << >> /\ inbox = << >> /\ ~ rejected
  BY DEF SessionInit
<1>3. Stream = << >>
  BY <1>2 DEF Stream, Gone
<1>4. QueuesOK
  BY <1>2, Empty DEF QueuesOK
<1>5. OneToken /\ Roundtrips /\ Prepared
  BY <1>2, <1>3, Empty DEF OneToken, Token, Roundtrips, Prepared
<1>6. NeverRejected /\ KeyboardIsThere
  BY <1>1, <1>2, ClientAssumption, NoViewAssumption DEF NeverRejected, KeyboardIsThere
<1> QED
  BY <1>1, <1>4, <1>5, <1>6 DEF SessionInv, SessionOK

-----------------------------------------------------------------------------
(* The theorems                                                            *)

\* In a session the compositor behaves as it does with clients at large.
THEOREM SessionImplementsCompositor == SessionSpec => Spec
<1>1. SessionInit => Init
  BY DEF SessionInit
<1> QED
  BY <1>1, SessionStep, PTL DEF SessionSpec, Spec

\* The invariant of the session.
THEOREM SessionInvariant == SessionSpec => []SessionInv
<1>1. SessionInv /\ [SessionNext]_sessionVars => SessionInv'
  <2>1. SessionInv /\ [SessionNext]_sessionVars => TypeOK'
    BY SessionStep, StepTypeOK DEF SessionInv
  <2>2. SessionInv /\ [SessionNext]_sessionVars => SessionOK'
    BY ProgramInv, HandleInv, ServerWriteInv, DisconnectInv, ServerInv DEF SessionNext
  <2> QED
    BY <2>1, <2>2 DEF SessionInv
<1> QED
  BY <1>1, SessionInitInv, PTL DEF SessionSpec

\* However its messages and those of the compositor interleave, the test client
\* never attaches its buffer before it acknowledged a configure event.
THEOREM ClientNeverRejected == SessionSpec => []NeverRejected
<1>1. SessionInv => NeverRejected
  BY DEF SessionInv, SessionOK
<1> QED
  BY <1>1, SessionInvariant, PTL

\* When the compositor hands the keyboard to the client's window, the client has
\* its wl_keyboard.
THEOREM ClientHasKeyboard == SessionSpec => []KeyboardIsThere
<1>1. SessionInv => KeyboardIsThere
  BY DEF SessionInv, SessionOK
<1> QED
  BY <1>1, SessionInvariant, PTL
=============================================================================
