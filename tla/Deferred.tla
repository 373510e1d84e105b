------------------------------ MODULE Deferred ------------------------------
(***************************************************************************)
(* What whoever hands the animations a callback relies on: it runs once,   *)
(* and after every callback that was handed in before it.                  *)
(***************************************************************************)
EXTENDS Naturals, Sequences

CONSTANT Jobs   \* the callbacks there may be

VARIABLES waiting,   \* the callbacks that have not run, oldest first
          ran        \* those that have, in the order they did

deferredVars == <<waiting, ran>>

Given == {waiting[i] : i \in DOMAIN waiting} \cup {ran[i] : i \in DOMAIN ran}

Init == waiting = << >> /\ ran = << >>

Defer(job) ==
    /\ job \notin Given
    /\ waiting' = Append(waiting, job)
    /\ UNCHANGED ran

\* Any number of callbacks run, the oldest first.
Run ==
    \E n \in 1..Len(waiting) :
        /\ ran' = ran \o SubSeq(waiting, 1, n)
        /\ waiting' = SubSeq(waiting, n + 1, Len(waiting))

Next == Run \/ \E job \in Jobs : Defer(job)

Spec == Init /\ [][Next]_deferredVars
=============================================================================
