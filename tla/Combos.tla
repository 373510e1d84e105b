------------------------------- MODULE Combos -------------------------------
(***************************************************************************)
(* What a user of the client's Config may expect of combos: everything     *)
(* typed since the last combo counts, and the first listed combo that what *)
(* was typed ends with runs.  Only combos longer than Longest never do.    *)
(***************************************************************************)
EXTENDS Naturals, Sequences, FiniteSetsExt

CONSTANTS Names,     \* the names of keys, with their modifiers
          Bindings,  \* the names bound to an action of their own
          Longest    \* the length of the longest combo that can run

VARIABLES combos,   \* the combos in the order they were added
          typed,    \* the names typed since a combo ran
          answer    \* what the last key ran: a binding, and a combo or 0

comboVars == <<combos, typed, answer>>

EndsWith(s, c) ==
    /\ Len(c) <= Len(s)
    /\ \A i \in 1..Len(c) : c[i] = s[Len(s) - Len(c) + i]

Due(s) == {i \in DOMAIN combos : Len(combos[i]) <= Longest /\ EndsWith(s, combos[i])}

FirstOf(S) == IF S = {} THEN 0 ELSE Min(S)

Init ==
    /\ combos \in Seq(Seq(Names))
    /\ typed = << >>
    /\ answer = [binding |-> FALSE, combo |-> 0]

Type(name) ==
    LET now == Append(typed, name)
    IN  /\ answer' = [binding |-> name \in Bindings, combo |-> FirstOf(Due(now))]
        /\ typed' = IF Due(now) = {} THEN now ELSE << >>
        /\ UNCHANGED combos

Next == \E name \in Names : Type(name)

Spec == Init /\ [][Next]_comboVars
=============================================================================
