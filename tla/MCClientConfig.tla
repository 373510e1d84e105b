--------------------------- MODULE MCClientConfig ---------------------------
(* Small instances of ClientConfig: combos that are too long, contained in  *)
(* each other, a suffix of each other, or empty.                            *)
EXTENDS ClientConfig

Plain(k) == [mods |-> {}, key |-> k]
Shift(k) == [mods |-> {"shift"}, key |-> k]

a == Plain("a")
b == Plain("b")

ShiftOrNone == {{}, {"shift"}}

BoundNames == {Plain("a"), Shift("b")}

Lists == { << <<a, b>>, <<b, a, b>>, <<a, a>> >>,
           << <<b, a, b>>, <<a, b>> >>,
           << <<a, b, a, b>>, <<Shift("a")>>, <<b, Shift("a")>> >>,
           << <<b, b>>, << >>, <<a>> >> }
=============================================================================
