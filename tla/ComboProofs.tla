---------------------------- MODULE ComboProofs ----------------------------
(***************************************************************************)
(* The client's bounded history does what Combos says of an unbounded one, *)
(* for any keys, combos and length of the history.                         *)
(***************************************************************************)
EXTENDS ClientConfig, WellFoundedInduction, TLAPS

\* h is what a history of MaxHistory names shows of s.
WindowOn(h, s) ==
    /\ Len(h) = IF Len(s) < MaxHistory THEN Len(s) ELSE MaxHistory
    /\ \A i \in 1..Len(h) : h[i] = s[Len(s) - Len(h) + i]

HistoryInv ==
    /\ mods \in SUBSET ClientModifiers
    /\ combos \in Seq(Seq(Names))
    /\ history \in Seq(Names)
    /\ typed \in Seq(Names)
    /\ WindowOn(history, typed)

LEMMA PushedWindow ==
    ASSUME HistoryInv, NEW name \in Names
    PROVE  /\ Pushed(name) \in Seq(Names)
           /\ WindowOn(Pushed(name), Append(typed, name))
<1> DEFINE longer == Append(history, name)
           now == Append(typed, name)
           past == Len(typed) - Len(history)
<1>1. /\ longer \in Seq(Names) /\ Len(longer) = Len(history) + 1
      /\ now \in Seq(Names) /\ Len(now) = Len(typed) + 1
      /\ Len(history) \in Nat /\ Len(typed) \in Nat /\ MaxHistory \in Nat \ {0}
      /\ Len(history) <= Len(typed)
  BY HistoryAssumption DEF HistoryInv, WindowOn
<1>2. \A i \in 1..Len(longer) : longer[i] = now[past + i]
  <2> SUFFICES ASSUME NEW i \in 1..Len(longer) PROVE longer[i] = now[past + i]
    OBVIOUS
  <2>1. CASE i \in 1..Len(history)
    <3>1. longer[i] = history[i] /\ now[past + i] = typed[past + i]
      BY <2>1, <1>1 DEF HistoryInv
    <3> QED
      BY <2>1, <3>1 DEF HistoryInv, WindowOn
  <2>2. CASE i = Len(history) + 1
    <3>1. longer[i] = name /\ now[past + i] = name
      BY <2>2, <1>1 DEF HistoryInv
    <3> QED
      BY <3>1
  <2> QED
    BY <1>1, <2>1, <2>2
<1>3. CASE Len(longer) > MaxHistory
  <2>1. Pushed(name) = Tail(longer) /\ Len(history) = MaxHistory
    BY <1>1, <1>3 DEF Pushed, HistoryInv, WindowOn
  <2>2. /\ Tail(longer) \in Seq(Names) /\ Len(Tail(longer)) = MaxHistory
        /\ \A i \in 1..MaxHistory : Tail(longer)[i] = longer[i + 1]
    BY <1>1, <2>1
  <2>3. \A i \in 1..MaxHistory : Tail(longer)[i] = now[Len(now) - MaxHistory + i]
    <3> SUFFICES ASSUME NEW i \in 1..MaxHistory
                 PROVE  Tail(longer)[i] = now[Len(now) - MaxHistory + i]
      OBVIOUS
    <3>1. i + 1 \in 1..Len(longer) /\ past + (i + 1) = Len(now) - MaxHistory + i
      BY <1>1, <2>1
    <3>2. Tail(longer)[i] = now[past + (i + 1)]
      BY <1>2, <2>2, <3>1
    <3> QED
      BY <3>1, <3>2
  <2>4. Len(now) >= MaxHistory /\ ~ (Len(now) < MaxHistory)
    BY <1>1, <1>3, <2>1
  <2> DEFINE tail == Tail(longer)
  <2>5. tail \in Seq(Names) /\ Len(tail) = MaxHistory
    BY <2>2
  <2>6. \A i \in 1..MaxHistory : tail[i] = now[Len(now) - MaxHistory + i]
    BY <2>3
  <2> HIDE DEF tail, now
  <2>7. WindowOn(tail, now)
    BY <2>4, <2>5, <2>6 DEF WindowOn
  <2> QED
    BY <2>1, <2>5, <2>7 DEF tail, now
<1>4. CASE ~ (Len(longer) > MaxHistory)
  <2>1. Pushed(name) = longer
    BY <1>4 DEF Pushed
  <2>2. Len(longer) = Len(now) /\ past = 0
    BY <1>1, <1>4 DEF HistoryInv, WindowOn
  <2>3. \A i \in 1..Len(longer) : longer[i] = now[Len(now) - Len(longer) + i]
    BY <1>1, <1>2, <2>2
  <2>4. Len(longer) <= MaxHistory /\ Len(now) <= MaxHistory
    BY <1>1, <1>4, <2>2
  <2> HIDE DEF longer, now
  <2>5. WindowOn(longer, now)
    BY <1>1, <2>2, <2>3, <2>4 DEF WindowOn
  <2> QED
    BY <1>1, <2>1, <2>5 DEF longer, now
<1> QED
  BY <1>3, <1>4

\* A combo ends the window if it ends all that was typed and fits into it.
LEMMA SameEnds ==
    ASSUME NEW h \in Seq(Names), NEW s \in Seq(Names), NEW c \in Seq(Names),
           WindowOn(h, s)
    PROVE  EndOf(h, c) <=> Len(c) <= MaxHistory /\ abstract!EndsWith(s, c)
<1>1. Len(h) \in Nat /\ Len(s) \in Nat /\ Len(c) \in Nat /\ MaxHistory \in Nat
  BY HistoryAssumption
<1>2. Len(c) <= Len(h) <=> Len(c) <= Len(s) /\ Len(c) <= MaxHistory
  BY <1>1 DEF WindowOn
<1>3. ASSUME Len(c) <= Len(h), NEW i \in 1..Len(c)
      PROVE  h[Len(h) - Len(c) + i] = s[Len(s) - Len(c) + i]
  <2>1. /\ Len(h) - Len(c) + i \in 1..Len(h)
        /\ Len(s) - Len(h) + (Len(h) - Len(c) + i) = Len(s) - Len(c) + i
    BY <1>1, <1>3
  <2> QED
    BY <2>1 DEF WindowOn
<1>4. CASE Len(c) <= Len(h)
  BY <1>2, <1>3, <1>4 DEF EndOf, abstract!EndsWith
<1>5. CASE ~ (Len(c) <= Len(h))
  BY <1>2, <1>5 DEF EndOf, abstract!EndsWith
<1> QED
  BY <1>4, <1>5

LEMMA SameFound ==
    ASSUME HistoryInv, NEW h \in Seq(Names), NEW s \in Seq(Names), WindowOn(h, s)
    PROVE  Found(h) = abstract!Due(s)
<1>1. \A i \in DOMAIN combos : combos[i] \in Seq(Names)
  BY DEF HistoryInv
<1> QED
  BY <1>1, SameEnds DEF Found, abstract!Due

LEMMA KeyTypes ==
    ASSUME HistoryInv, NEW k \in Keys, KeyPressed(k)
    PROVE  /\ abstract!Type([mods |-> mods, key |-> k])
           /\ HistoryInv'
<1> DEFINE name == [mods |-> mods, key |-> k]
           now == Append(typed, name)
<1>1. name \in Names
  BY DEF HistoryInv, Names
<1>2. now \in Seq(Names) /\ HandleKey(name)
  BY <1>1 DEF HistoryInv, KeyPressed
<1> HIDE DEF name
<1>3. Pushed(name) \in Seq(Names) /\ WindowOn(Pushed(name), now)
  BY <1>1, PushedWindow
<1> HIDE DEF now
<1>4. Found(Pushed(name)) = abstract!Due(now)
  BY <1>2, <1>3, SameFound
<1>5. abstract!Type(name)
  BY <1>2, <1>4
     DEF HandleKey, First, Min, abstract!Type, abstract!FirstOf, abstract!Min, now
<1>6. HistoryInv'
  <2>1. CASE Found(Pushed(name)) = {}
    <3>1. history' = Pushed(name) /\ typed' = now /\ UNCHANGED <<mods, combos>>
      BY <1>2, <2>1 DEF HandleKey, HistoryAfter, now
    <3> QED
      BY <1>2, <1>3, <3>1 DEF HistoryInv, WindowOn
  <2>2. CASE Found(Pushed(name)) # {}
    <3>1. history' = << >> /\ typed' = << >> /\ UNCHANGED <<mods, combos>>
      BY <1>2, <2>2 DEF HandleKey, HistoryAfter
    <3>2. WindowOn(<< >>, << >>)
      BY HistoryAssumption DEF WindowOn
    <3> QED
      BY <3>1, <3>2 DEF HistoryInv, WindowOn
  <2> QED
    BY <2>1, <2>2
<1> QED
  BY <1>5, <1>6 DEF name

LEMMA StepRefinesCombos ==
    HistoryInv /\ [ClientNext]_clientVars
      => HistoryInv' /\ [abstract!Next]_(abstract!comboVars)
<1> SUFFICES ASSUME HistoryInv, [ClientNext]_clientVars
             PROVE  HistoryInv' /\ [abstract!Next]_(abstract!comboVars)
  OBVIOUS
<1>1. ASSUME NEW k \in Keys, KeyPressed(k)
      PROVE  HistoryInv' /\ [abstract!Next]_(abstract!comboVars)
  <2>1. [mods |-> mods, key |-> k] \in Names
    BY DEF HistoryInv, Names
  <2>2. abstract!Type([mods |-> mods, key |-> k]) /\ HistoryInv'
    BY <1>1, KeyTypes
  <2>3. abstract!Next
    BY <2>1, <2>2 DEF abstract!Next
  <2> QED
    BY <2>2, <2>3
<1>2. CASE ModifiersEvent
  BY <1>2, ModifiersAssumption
     DEF ModifiersEvent, HistoryInv, WindowOn, abstract!comboVars
<1>3. CASE UNCHANGED clientVars
  BY <1>3 DEF clientVars, HistoryInv, WindowOn, abstract!comboVars
<1> QED
  BY <1>1, <1>2, <1>3 DEF ClientNext

LEMMA InitRefinesCombos == ClientInit => HistoryInv /\ abstract!Init
<1> SUFFICES ASSUME ClientInit PROVE HistoryInv /\ abstract!Init
  OBVIOUS
<1>1. combos \in Seq(Seq(Names))
  BY ListsAssumption DEF ClientInit
<1>2. WindowOn(<< >>, << >>)
  BY HistoryAssumption DEF WindowOn
<1>3. mods \in SUBSET ClientModifiers /\ history \in Seq(Names) /\ typed \in Seq(Names)
  BY DEF ClientInit
<1> QED
  BY <1>1, <1>2, <1>3 DEF ClientInit, HistoryInv, abstract!Init

\* The history of MaxHistory names loses nothing that matters: the client runs
\* the bindings and combos that one with an unbounded history would.
THEOREM ClientImplementsCombos == ClientSpec => CombosRefined
<1>1. ClientInit => HistoryInv /\ abstract!Init
  BY InitRefinesCombos
<1>2. HistoryInv /\ [ClientNext]_clientVars
        => HistoryInv' /\ [abstract!Next]_(abstract!comboVars)
  BY StepRefinesCombos
<1> QED
  BY <1>1, <1>2, PTL DEF ClientSpec, CombosRefined, abstract!Spec

-----------------------------------------------------------------------------
(* Shadowed combos                                                         *)

LEMMA LeastOfNaturals ==
    ASSUME NEW S \in SUBSET Nat, S # {}
    PROVE  Min(S) \in S /\ \A y \in S : Min(S) <= y
<1> DEFINE less == {ss \in Nat \X Nat : ss[1] < ss[2]}
<1>1. OpToRel(<, Nat) = less
  BY Zenon DEF OpToRel
<1>2. IsWellFoundedOn(less, Nat)
  BY <1>1, NatLessThanWellFounded, Zenon
<1> HIDE DEF less
<1>3. \E x \in S : \A y \in S : ~ (<<y, x>> \in less)
  BY <1>2, WFMin
<1>4. \E x \in S : \A y \in S : x <= y
  <2>1. \A x, y \in Nat : y < x => <<y, x>> \in less
    BY DEF less
  <2>2. \A x, y \in Nat : ~ (<<y, x>> \in less) => x <= y
    BY <2>1
  <2> QED
    BY <1>3, <2>2
<1> QED
  BY <1>4 DEF Min

LEMMA EndOfEnd ==
    ASSUME NEW s \in Seq(Names), NEW c \in Seq(Names), NEW d \in Seq(Names),
           EndOf(s, c), EndOf(c, d)
    PROVE  EndOf(s, d)
<1>1. Len(s) \in Nat /\ Len(c) \in Nat /\ Len(d) \in Nat
  OBVIOUS
<1>2. Len(d) <= Len(c) /\ Len(c) <= Len(s)
  BY DEF EndOf
<1>3. ASSUME NEW i \in 1..Len(d) PROVE s[Len(s) - Len(d) + i] = d[i]
  <2>1. Len(c) - Len(d) + i \in 1..Len(c)
    BY <1>1, <1>2
  <2>2. s[Len(s) - Len(c) + (Len(c) - Len(d) + i)] = c[Len(c) - Len(d) + i]
    BY <2>1 DEF EndOf
  <2>3. c[Len(c) - Len(d) + i] = d[i]
    BY DEF EndOf
  <2> QED
    BY <1>1, <2>2, <2>3
<1> QED
  BY <1>1, <1>2, <1>3 DEF EndOf

\* Nothing that a combo ends with is left over from before the last key.
Clean(s, n) ==
    \A m \in 1..n : \A i \in DOMAIN combos : ~ EndOf(SubSeq(s, 1, m), combos[i])

ShadowInv == HistoryInv /\ Clean(history, Len(history))

LEMMA StartOf ==
    ASSUME NEW s \in Seq(Names), NEW n \in 0..Len(s)
    PROVE  /\ SubSeq(s, 1, n) \in Seq(Names)
           /\ Len(SubSeq(s, 1, n)) = n
           /\ \A i \in 1..n : SubSeq(s, 1, n)[i] = s[i]
OBVIOUS

\* Pushing a name leaves what was there before it clean.
LEMMA PushedClean ==
    ASSUME ShadowInv, NEW name \in Names
    PROVE  Clean(Pushed(name), Len(Pushed(name)) - 1)
<1> DEFINE longer == Append(history, name)
           p == Pushed(name)
<1>1. /\ history \in Seq(Names) /\ longer \in Seq(Names)
      /\ Len(longer) = Len(history) + 1 /\ Len(history) \in Nat
      /\ \A i \in 1..Len(history) : longer[i] = history[i]
  BY DEF ShadowInv, HistoryInv
<1>2. p \in Seq(Names) /\ Len(p) \in Nat
  BY PushedWindow DEF ShadowInv
<1> SUFFICES ASSUME NEW m \in 1..(Len(p) - 1), NEW i \in DOMAIN combos,
                    EndOf(SubSeq(p, 1, m), combos[i])
             PROVE  FALSE
  BY DEF Clean
<1>3. combos[i] \in Seq(Names) /\ Len(combos[i]) \in Nat
  BY DEF ShadowInv, HistoryInv
<1> DEFINE c == combos[i]
<1>4. /\ SubSeq(p, 1, m) \in Seq(Names) /\ Len(SubSeq(p, 1, m)) = m
      /\ \A j \in 1..m : SubSeq(p, 1, m)[j] = p[j]
  BY <1>2, StartOf
<1>5. Len(c) <= m /\ \A j \in 1..Len(c) : p[m - Len(c) + j] = c[j]
  <2>1. Len(c) <= m
    BY <1>4 DEF EndOf
  <2>2. \A j \in 1..Len(c) : m - Len(c) + j \in 1..m
    BY <1>3, <2>1
  <2> QED
    BY <1>4, <2>1, <2>2 DEF EndOf
<1>6. ASSUME NEW q \in 1..Len(history),
             \A j \in 1..m : q - m + j \in 1..q /\ p[j] = history[q - m + j]
      PROVE  FALSE
  <2> DEFINE t == SubSeq(history, 1, q)
  <2>1. t \in Seq(Names) /\ Len(t) = q /\ \A j \in 1..q : t[j] = history[j]
    BY <1>1, StartOf
  <2>2. q - m + m \in 1..q /\ m <= q
    <3>1. q - m + 1 \in 1..q
      BY <1>6
    <3> QED
      BY <3>1
  <2>3. \A j \in 1..Len(c) : t[q - Len(c) + j] = c[j]
    <3> SUFFICES ASSUME NEW j \in 1..Len(c) PROVE t[q - Len(c) + j] = c[j]
      OBVIOUS
    <3>1. m - Len(c) + j \in 1..m /\ q - m + (m - Len(c) + j) = q - Len(c) + j
      BY <1>3, <1>5
    <3>2. q - Len(c) + j \in 1..q /\ p[m - Len(c) + j] = history[q - Len(c) + j]
      BY <1>6, <3>1
    <3> QED
      BY <1>5, <2>1, <3>2
  <2>4. EndOf(t, c)
    BY <1>5, <2>1, <2>2, <2>3, <1>3 DEF EndOf
  <2> QED
    BY <2>4 DEF ShadowInv, Clean
<1>7. CASE Len(longer) > MaxHistory
  <2>1. p = Tail(longer)
    BY <1>7 DEF Pushed
  <2>2. Len(p) = Len(history) /\ \A j \in 1..Len(p) : p[j] = longer[j + 1]
    BY <1>1, <2>1
  <2>3. m + 1 \in 1..Len(history)
    BY <2>2
  <2>4. \A j \in 1..m : /\ (m + 1) - m + j \in 1..(m + 1)
                        /\ p[j] = history[(m + 1) - m + j]
    BY <1>1, <2>2, <2>3
  <2> QED
    BY <1>6, <2>3, <2>4
<1>8. CASE ~ (Len(longer) > MaxHistory)
  <2>1. p = longer
    BY <1>8 DEF Pushed
  <2>2. m \in 1..Len(history)
    BY <1>1, <2>1
  <2>3. \A j \in 1..m : m - m + j \in 1..m /\ p[j] = history[m - m + j]
    BY <1>1, <2>1, <2>2
  <2> QED
    BY <1>6, <2>2, <2>3
<1> QED
  BY <1>7, <1>8

\* A start of a combo the history ends with lies in the history but for its end.
LEMMA StartInside ==
    ASSUME NEW p \in Seq(Names), NEW c \in Seq(Names), EndOf(p, c),
           NEW n \in 1..(Len(c) - 1)
    PROVE  \E m \in 1..(Len(p) - 1) : EndOf(SubSeq(p, 1, m), SubSeq(c, 1, n))
<1> DEFINE m == Len(p) - Len(c) + n
           t == SubSeq(p, 1, m)
           d == SubSeq(c, 1, n)
<1>1. Len(p) \in Nat /\ Len(c) \in Nat /\ Len(c) <= Len(p)
  BY DEF EndOf
<1>2. m \in 1..(Len(p) - 1) /\ n \in 0..Len(c) /\ m \in 0..Len(p)
  BY <1>1
<1>3. t \in Seq(Names) /\ Len(t) = m /\ \A i \in 1..m : t[i] = p[i]
  BY <1>2, StartOf
<1>4. d \in Seq(Names) /\ Len(d) = n /\ \A i \in 1..n : d[i] = c[i]
  BY <1>2, StartOf
<1>5. ASSUME NEW i \in 1..n PROVE t[m - n + i] = d[i]
  <2>1. /\ m - n + i \in 1..m /\ m - n + i = Len(p) - Len(c) + i
        /\ i \in 1..Len(c)
    BY <1>1, <1>2
  <2>2. t[m - n + i] = p[Len(p) - Len(c) + i]
    BY <1>3, <2>1
  <2>3. p[Len(p) - Len(c) + i] = c[i]
    BY <2>1 DEF EndOf
  <2> QED
    BY <1>4, <2>2, <2>3
<1>6. n <= m
  BY <1>1
<1> HIDE DEF m, t, d
<1>7. EndOf(t, d)
  BY <1>3, <1>4, <1>5, <1>6 DEF EndOf
<1> QED
  BY <1>2, <1>7 DEF t, d

LEMMA RunIsNotShadowed ==
    ASSUME ShadowInv, NEW name \in Names,
           NEW i \in DOMAIN combos, NEW j \in DOMAIN combos, Shadows(j, i)
    PROVE  First(Found(Pushed(name))) # i
<1> DEFINE p == Pushed(name)
<1>1. /\ p \in Seq(Names)
      /\ combos[i] \in Seq(Names) /\ combos[j] \in Seq(Names)
      /\ DOMAIN combos \subseteq Nat \ {0}
  BY PushedWindow DEF ShadowInv, HistoryInv
<1>2. Clean(p, Len(p) - 1)
  BY PushedClean
<1> HIDE DEF p
<1> SUFFICES ASSUME First(Found(p)) = i PROVE FALSE
  BY DEF p
<1>3. Found(p) \in SUBSET Nat /\ Found(p) # {} /\ Min(Found(p)) = i
  BY <1>1 DEF First, Found
<1>4. i \in Found(p) /\ \A k \in Found(p) : i <= k
  BY <1>3, LeastOfNaturals
<1>5. EndOf(p, combos[i])
  BY <1>4 DEF Found
<1>6. ASSUME NEW n \in 1..(Len(combos[i]) - 1),
             EndOf(SubSeq(combos[i], 1, n), combos[j])
      PROVE  FALSE
  <2>1. PICK m \in 1..(Len(p) - 1) : EndOf(SubSeq(p, 1, m), SubSeq(combos[i], 1, n))
    BY <1>1, <1>5, StartInside
  <2>2. SubSeq(p, 1, m) \in Seq(Names) /\ SubSeq(combos[i], 1, n) \in Seq(Names)
    <3>1. m \in 0..Len(p) /\ n \in 0..Len(combos[i])
      BY <1>1
    <3> QED
      BY <1>1, <3>1, StartOf
  <2>3. EndOf(SubSeq(p, 1, m), combos[j])
    BY <1>1, <1>6, <2>1, <2>2, EndOfEnd
  <2> QED
    BY <1>2, <2>3 DEF Clean
<1>7. ASSUME j < i, EndOf(combos[i], combos[j]) PROVE FALSE
  <2>1. j \in Found(p)
    BY <1>1, <1>5, <1>7, EndOfEnd DEF Found
  <2> QED
    BY <1>1, <1>4, <1>7, <2>1
<1> QED
  BY <1>6, <1>7 DEF Shadows

LEMMA KeyShadows ==
    ASSUME ShadowInv, ShadowedNeverRuns, NEW k \in Keys, KeyPressed(k)
    PROVE  ShadowInv' /\ ShadowedNeverRuns'
<1> DEFINE name == [mods |-> mods, key |-> k]
<1>1. name \in Names /\ HandleKey(name)
  BY DEF ShadowInv, HistoryInv, Names, KeyPressed
<1>2. HistoryInv'
  BY KeyTypes DEF ShadowInv
<1> HIDE DEF name
<1> DEFINE p == Pushed(name)
<1>3. UNCHANGED combos /\ answer'.combo = First(Found(p))
  BY <1>1 DEF HandleKey
<1>4. ShadowedNeverRuns'
  BY <1>1, <1>3, RunIsNotShadowed DEF ShadowedNeverRuns, Shadows
<1>5. CASE Found(p) = {}
  <2>1. history' = p
    BY <1>1, <1>5 DEF HandleKey, HistoryAfter
  <2>2. p \in Seq(Names) /\ Clean(p, Len(p) - 1)
    BY <1>1, PushedWindow, PushedClean DEF ShadowInv
  <2>3. ASSUME NEW m \in 1..Len(p), NEW i \in DOMAIN combos
        PROVE  ~ EndOf(SubSeq(p, 1, m), combos[i])
    <3>1. CASE m \in 1..(Len(p) - 1)
      BY <2>2, <3>1 DEF Clean
    <3>2. CASE m = Len(p)
      <4>1. SubSeq(p, 1, m) = p
        BY <2>2, <3>2
      <4> QED
        BY <1>5, <4>1 DEF Found
    <3> QED
      BY <2>2, <3>1, <3>2
  <2> QED
    BY <1>2, <1>3, <1>4, <2>1, <2>3 DEF ShadowInv, Clean
<1>6. CASE Found(p) # {}
  <2>1. history' = << >>
    BY <1>1, <1>6 DEF HandleKey, HistoryAfter
  <2> QED
    BY <1>2, <1>4, <2>1 DEF ShadowInv, Clean
<1> QED
  BY <1>5, <1>6

LEMMA ShadowInductive ==
    ShadowInv /\ ShadowedNeverRuns /\ [ClientNext]_clientVars
      => ShadowInv' /\ ShadowedNeverRuns'
<1> SUFFICES ASSUME ShadowInv, ShadowedNeverRuns, [ClientNext]_clientVars
             PROVE  ShadowInv' /\ ShadowedNeverRuns'
  OBVIOUS
<1>1. CASE ModifiersEvent \/ UNCHANGED clientVars
  <2>1. UNCHANGED <<combos, history, answer, typed>>
    BY <1>1 DEF ModifiersEvent, clientVars
  <2>2. HistoryInv'
    BY StepRefinesCombos DEF ShadowInv
  <2> QED
    BY <2>1, <2>2 DEF ShadowInv, Clean, ShadowedNeverRuns, Shadows
<1> QED
  BY <1>1, KeyShadows DEF ClientNext

LEMMA ShadowInitially == ClientInit => ShadowInv /\ ShadowedNeverRuns
<1> SUFFICES ASSUME ClientInit PROVE ShadowInv /\ ShadowedNeverRuns
  OBVIOUS
<1>1. HistoryInv
  BY InitRefinesCombos
<1>2. Clean(history, Len(history))
  BY DEF ClientInit, Clean
<1>3. \A i \in DOMAIN combos : answer.combo # i
  BY <1>1 DEF ClientInit, HistoryInv
<1> QED
  BY <1>1, <1>2, <1>3 DEF ShadowInv, ShadowedNeverRuns

\* A combo that another one cuts short, or that an earlier one ends, never runs:
\* a combo that runs clears the history, and an earlier one is come to first.
THEOREM ShadowedCombosNeverRun == ClientSpec => []ShadowedNeverRuns
<1>1. ClientSpec => [](ShadowInv /\ ShadowedNeverRuns)
  BY ShadowInitially, ShadowInductive, PTL DEF ClientSpec
<1> QED
  BY <1>1, PTL
=============================================================================
