------------------------------- MODULE Easing -------------------------------
(***************************************************************************)
(* How far a move of animations.cpp has come: easing, and the position     *)
(* Animations::tick gives a node.  The code computes with floats; here a   *)
(* progress of k is the whole number k * dur * dur, so that every division *)
(* is exact up to the one the code makes, the conversion to int.           *)
(***************************************************************************)
EXTENDS Integers

Easings == {"Linear", "EaseIn", "EaseOut", "EaseInOut"}

\* easing(e, elapsed / dur), times dur * dur.
Fault_Eased(e, elapsed, dur) ==
    LET rest == dur - elapsed
    IN  CASE e = "Linear"    -> elapsed * dur
          [] e = "EaseIn"    -> elapsed * elapsed
          [] e = "EaseOut"   -> dur * dur + rest * rest
          [] e = "EaseInOut" -> IF 2 * elapsed < dur THEN 2 * elapsed * elapsed
                                ELSE dur * dur - 2 * rest * rest
Eased(e, elapsed, dur) ==
    LET rest == dur - elapsed
    IN  CASE e = "Linear"    -> elapsed * dur
          [] e = "EaseIn"    -> elapsed * elapsed
          [] e = "EaseOut"   -> dur * dur - rest * rest
          [] e = "EaseInOut" -> IF 2 * elapsed < dur THEN 2 * elapsed * elapsed
                                ELSE dur * dur - 2 * rest * rest

\* The conversion of n / d to int: towards zero.
Truncated(n, d) == IF n >= 0 THEN n \div d ELSE -((-n) \div d)

\* One coordinate of a node that has come k / d of its way.
Coordinate(from, to, k, d) == Truncated(from * d + (to - from) * k, d)

\* The time that counts at a time of the clock: start_time is 0, and what is
\* beyond the duration does not count.
Fault_Stop(now, dur) == now
Stop(now, dur) == IF now < dur THEN now ELSE dur

Progress(e, now, dur) == Eased(e, Stop(now, dur), dur)

PositionAt(from, to, e, now, dur) ==
    [x |-> Coordinate(from.x, to.x, Progress(e, now, dur), dur * dur),
     y |-> Coordinate(from.y, to.y, Progress(e, now, dur), dur * dur)]

Between(a, p, b) == (a <= p /\ p <= b) \/ (b <= p /\ p <= a)
=============================================================================
