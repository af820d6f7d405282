----------------------- MODULE SenseChannel_proofs -----------------------
(***************************************************************************)
(* Proofs about SenseChannel for any channels, clamp types, range tables,  *)
(* modes and controllers.                                                  *)
(***************************************************************************)
EXTENDS SenseChannel, FiniteSetTheorems, WellFoundedInduction, TLAPS

\* What is at a connector.
AnyClamp == Types \cup {NoClamp}

-----------------------------------------------------------------------------
(***************************************************************************)
(* Range lists                                                             *)
(***************************************************************************)

\* A set of natural numbers has a least one.
LEMMA LeastNat ==
  ASSUME NEW S, S \subseteq Nat, S # {}
  PROVE  \E m \in S : \A k \in S : m <= k
<1>1. PICK m \in S : \A y \in S : ~(<<y, m>> \in OpToRel(<, Nat))
  BY NatLessThanWellFounded, WFMin
<1>2. \A y \in S : ~(y < m)
  BY <1>1 DEF OpToRel
<1>3. \A y \in S : m \in Nat /\ y \in Nat
  OBVIOUS
<1>4. \A y \in S : m <= y
  BY <1>2, <1>3
<1> QED
  BY <1>4

\* What holds at zero and is kept by each of n steps holds after them.
LEMMA StepByStep ==
  ASSUME NEW n \in Nat, NEW S, 0 \in S, \A i \in 0..(n - 1) : i \in S => i + 1 \in S
  PROVE  \A i \in 0..n : i \in S
<1> SUFFICES ASSUME (0..n) \ S # {} PROVE FALSE
  OBVIOUS
<1> DEFINE missed == (0..n) \ S
<1>0. missed \subseteq Nat /\ missed # {}
  OBVIOUS
<1> HIDE DEF missed
<1>1. PICK m \in missed : \A k \in missed : m <= k
  BY <1>0, LeastNat
<1> USE DEF missed
<1>2. m \in Nat /\ m <= n /\ m \notin S /\ m # 0
  BY <1>1
<1>3. m - 1 \in 0..(n - 1) /\ m - 1 \in 0..n
  BY <1>2
<1>4. m - 1 \in S
  BY <1>1, <1>2, <1>3
<1>5. (m - 1) + 1 = m
  BY <1>2
<1> QED
  BY <1>2, <1>3, <1>4, <1>5

\* One after the other the ranges of l that are not in G.
Left(l, G, n, g) ==
  g = [i \in 0..n |-> IF i = 0 THEN << >>
                      ELSE IF l[i] \in G THEN g[i - 1]
                      ELSE Append(g[i - 1], l[i])]

\* There is such a sequence of lists.
LEMMA LeftExists ==
  ASSUME NEW l, NEW G, NEW n \in Nat
  PROVE  \E g : Left(l, G, n, g)
<1> DEFINE found == {m \in Nat : \E g : Left(l, G, m, g)}
<1>1. 0 \in found
  <2> DEFINE g == [i \in 0..0 |-> << >>]
  <2>1. Left(l, G, 0, g)
    BY DEF Left
  <2> QED
    BY <2>1
<1>2. ASSUME NEW m \in 0..(n - 1), m \in found
      PROVE  m + 1 \in found
  <2>1. PICK g : Left(l, G, m, g)
    BY <1>2
  <2> DEFINE last == IF l[m + 1] \in G THEN g[m] ELSE Append(g[m], l[m + 1])
             h == [i \in 0..(m + 1) |-> IF i = m + 1 THEN last ELSE g[i]]
             value(f, i) == IF i = 0 THEN << >>
                            ELSE IF l[i] \in G THEN f[i - 1]
                            ELSE Append(f[i - 1], l[i])
  <2>2. \A i \in 0..m : h[i] = g[i]
    OBVIOUS
  <2>3. \A i \in 0..m : h[i] = value(h, i)
    <3> TAKE i \in 0..m
    <3>1. g[i] = value(g, i)
      BY <2>1 DEF Left
    <3>2. i # 0 => h[i - 1] = g[i - 1]
      BY <2>2
    <3> QED
      BY <2>2, <3>1, <3>2
  <2>4. h[m + 1] = value(h, m + 1)
    BY <2>2
  <2>5. \A i \in 0..(m + 1) : h[i] = value(h, i)
    <3> TAKE i \in 0..(m + 1)
    <3>1. CASE i \in 0..m
      BY <2>3, <3>1
    <3>2. CASE i = m + 1
      BY <2>4, <3>2
    <3> QED
      BY <3>1, <3>2
  <2>6. h = [i \in 0..(m + 1) |-> h[i]]
    OBVIOUS
  <2> HIDE DEF h
  <2>7. Left(l, G, m + 1, h)
    BY <2>5, <2>6 DEF Left
  <2> QED
    BY <2>7
<1> HIDE DEF found
<1>3. n \in found
  BY <1>1, <1>2, StepByStep
<1> QED
  BY <1>3 DEF found

\* What is left after i ranges of l were looked at.
LeftSoFar(l, G, i, k) ==
  /\ k \in Seq(SenseRange)
  /\ ToSet(k) = {l[j] : j \in 1..i} \ G
  /\ NamedApart(l) => NamedApart(k)
  /\ Len(k) <= i
  /\ Len(k) = i => \A j \in 1..i : k[j] = l[j]

\* One more range.
LEMMA LeftStep ==
  ASSUME NEW l \in Seq(SenseRange), NEW G, NEW i \in 0..(Len(l) - 1),
         NEW k, LeftSoFar(l, G, i, k),
         NEW h, h = IF l[i + 1] \in G THEN k ELSE Append(k, l[i + 1])
  PROVE  LeftSoFar(l, G, i + 1, h)
<1> DEFINE r == l[i + 1]
<1>1. /\ i \in Nat /\ i + 1 \in DOMAIN l /\ r \in SenseRange /\ 1..i \subseteq DOMAIN l
      /\ k \in Seq(SenseRange) /\ Len(k) \in Nat
      /\ i + 1 \notin 1..i
  BY DEF LeftSoFar
<1>2. {l[j] : j \in 1..(i + 1)} = {l[j] : j \in 1..i} \cup {r}
  BY <1>1
<1>3. CASE r \in G
  BY <1>1, <1>2, <1>3 DEF LeftSoFar
<1>4. CASE r \notin G
  <2>1. h = Append(k, r) /\ h \in Seq(SenseRange) /\ Len(h) = Len(k) + 1
    BY <1>1, <1>4
  <2>2. \A j \in DOMAIN k : h[j] = k[j]
    BY <1>1, <2>1
  <2>3. h[Len(k) + 1] = r /\ DOMAIN h = DOMAIN k \cup {Len(k) + 1}
    BY <1>1, <2>1
  <2>4. ToSet(h) = ToSet(k) \cup {r}
    BY <2>2, <2>3 DEF ToSet
  <2>5. NamedApart(l) => NamedApart(h)
    <3> SUFFICES ASSUME NamedApart(l) PROVE NamedApart(h)
      OBVIOUS
    <3>1. ASSUME NEW m \in DOMAIN k PROVE k[m].name # r.name
      <4>1. k[m] \in ToSet(k)
        BY DEF ToSet
      <4>2. PICK j \in 1..i : k[m] = l[j]
        BY <4>1 DEF LeftSoFar
      <4> QED
        BY <1>1, <4>2 DEF NamedApart
    <3>2. NamedApart(k)
      BY DEF LeftSoFar
    <3> QED
      BY <2>2, <2>3, <3>1, <3>2 DEF NamedApart
  <2>6. Len(h) <= i + 1 /\ (Len(h) = i + 1 => \A j \in 1..(i + 1) : h[j] = l[j])
    BY <1>1, <2>1, <2>2, <2>3 DEF LeftSoFar
  <2>7. ToSet(h) = {l[j] : j \in 1..(i + 1)} \ G
    BY <1>2, <1>4, <2>4 DEF LeftSoFar
  <2> QED
    BY <2>1, <2>5, <2>6, <2>7 DEF LeftSoFar
<1> QED
  BY <1>3, <1>4

\* Removing ranges leaves the others, in their order, and nothing is changed if
\* the number of ranges is the same after it.
LEMMA RemoveLeaves ==
  ASSUME NEW l \in Seq(SenseRange), NEW gone,
         NEW k, k = RemoveRangeList(l, gone)
  PROVE  /\ k \in Seq(SenseRange)
         /\ ToSet(k) = ToSet(l) \ ToSet(gone)
         /\ NamedApart(l) => NamedApart(k)
         /\ Len(k) <= Len(l)
         /\ Len(k) = Len(l) => k = l
<1> DEFINE g == CHOOSE f : Left(l, ToSet(gone), Len(l), f)
<1>1. Left(l, ToSet(gone), Len(l), g)
  BY LeftExists
<1>2. k = g[Len(l)]
  BY DEF RemoveRangeList, Left
<1> HIDE DEF g
<1> DEFINE G == ToSet(gone)
           good == {i \in Nat : LeftSoFar(l, G, i, g[i])}
<1> HIDE DEF G
<1>3. 0 \in good
  <2>1. g[0] = << >>
    BY <1>1 DEF Left
  <2>2. LeftSoFar(l, G, 0, << >>)
    BY DEF LeftSoFar, ToSet, NamedApart
  <2> QED
    BY <2>1, <2>2
<1>4. ASSUME NEW i \in 0..(Len(l) - 1), i \in good
      PROVE  i + 1 \in good
  <2>1. g[i + 1] = IF l[i + 1] \in G THEN g[i] ELSE Append(g[i], l[i + 1])
    <3>1. i + 1 \in 0..Len(l) /\ i + 1 # 0 /\ (i + 1) - 1 = i
      OBVIOUS
    <3> QED
      BY <1>1, <3>1 DEF Left, G
  <2>2. LeftSoFar(l, G, i, g[i])
    BY <1>4
  <2>3. LeftSoFar(l, G, i + 1, g[i + 1])
    BY ONLY <2>1, <2>2, LeftStep, l \in Seq(SenseRange), i \in 0..(Len(l) - 1)
  <2> QED
    BY <2>3
<1> HIDE DEF good
<1>5. Len(l) \in good
  <2>1. Len(l) \in Nat /\ Len(l) \in 0..Len(l)
    OBVIOUS
  <2> QED
    BY <1>3, <1>4, <2>1, StepByStep
<1>6. LeftSoFar(l, G, Len(l), k)
  BY <1>2, <1>5 DEF good
<1>7. {l[j] : j \in 1..Len(l)} = ToSet(l)
  BY DEF ToSet
<1>8. Len(k) = Len(l) => k = l
  BY <1>6 DEF LeftSoFar
<1> QED
  BY <1>6, <1>7, <1>8 DEF LeftSoFar, G

\* Adding ranges, of other names, adds them.
LEMMA AddAdds ==
  ASSUME NEW l \in Seq(SenseRange), NEW new \in Seq(SenseRange),
         NEW k, k = AddRangeList(l, new)
  PROVE  /\ k \in Seq(SenseRange)
         /\ ToSet(k) = ToSet(l) \cup ToSet(new)
         /\ /\ NamedApart(l) /\ NamedApart(new)
            /\ \A r \in ToSet(l), s \in ToSet(new) : r.name # s.name
            => NamedApart(k)
         /\ Len(k) = Len(l) + Len(new)
         /\ new = << >> => k = l
<1>1. /\ k \in Seq(SenseRange) /\ Len(k) = Len(l) + Len(new)
      /\ Len(l) \in Nat /\ Len(new) \in Nat
      /\ DOMAIN l = 1..Len(l) /\ DOMAIN new = 1..Len(new) /\ DOMAIN k = 1..Len(k)
  BY DEF AddRangeList
<1>2. \A i \in DOMAIN k : k[i] = IF i <= Len(l) THEN l[i] ELSE new[i - Len(l)]
  BY <1>1 DEF AddRangeList
<1>3. \A i \in DOMAIN l : i \in DOMAIN k /\ k[i] = l[i]
  BY <1>1, <1>2
<1>4. \A i \in DOMAIN new : i + Len(l) \in DOMAIN k /\ k[i + Len(l)] = new[i]
  <2> TAKE i \in DOMAIN new
  <2>1. i + Len(l) \in DOMAIN k /\ ~(i + Len(l) <= Len(l)) /\ (i + Len(l)) - Len(l) = i
    BY <1>1
  <2> QED
    BY <1>2, <2>1
<1>5. ToSet(k) = ToSet(l) \cup ToSet(new)
  <2>1. ToSet(l) \cup ToSet(new) \subseteq ToSet(k)
    BY <1>3, <1>4 DEF ToSet
  <2>2. ASSUME NEW i \in DOMAIN k PROVE k[i] \in ToSet(l) \cup ToSet(new)
    <3>1. CASE i <= Len(l)
      BY <1>1, <1>2, <3>1 DEF ToSet
    <3>2. CASE ~(i <= Len(l))
      <4>1. i - Len(l) \in DOMAIN new
        BY <1>1, <3>2
      <4> QED
        BY <1>2, <3>2, <4>1 DEF ToSet
    <3> QED
      BY <3>1, <3>2
  <2>3. ToSet(k) \subseteq ToSet(l) \cup ToSet(new)
    BY <2>2 DEF ToSet
  <2> QED
    BY <2>1, <2>3
<1>6. ASSUME NamedApart(l), NamedApart(new),
             \A r \in ToSet(l), s \in ToSet(new) : r.name # s.name
      PROVE  NamedApart(k)
  <2> SUFFICES ASSUME NEW i \in DOMAIN k, NEW j \in DOMAIN k, k[i].name = k[j].name, i <= j
               PROVE  i = j
    BY <1>1 DEF NamedApart
  <2>1. CASE j <= Len(l)
    <3>1. i \in DOMAIN l /\ j \in DOMAIN l /\ k[i] = l[i] /\ k[j] = l[j]
      BY <1>1, <1>2, <2>1
    <3> QED
      BY <1>6, <3>1 DEF NamedApart
  <2>2. CASE ~(i <= Len(l))
    <3>1. /\ i - Len(l) \in DOMAIN new /\ j - Len(l) \in DOMAIN new
          /\ ~(j <= Len(l))
      BY <1>1, <2>2
    <3>2. k[i] = new[i - Len(l)] /\ k[j] = new[j - Len(l)]
      BY <1>2, <2>2, <3>1
    <3>3. i - Len(l) = j - Len(l)
      BY <1>6, <3>1, <3>2 DEF NamedApart
    <3> QED
      BY <1>1, <3>3
  <2>3. CASE i <= Len(l) /\ ~(j <= Len(l))
    <3>1. i \in DOMAIN l /\ k[i] = l[i] /\ j - Len(l) \in DOMAIN new /\ k[j] = new[j - Len(l)]
      BY <1>1, <1>2, <2>3
    <3>2. l[i] \in ToSet(l) /\ new[j - Len(l)] \in ToSet(new)
      BY <3>1 DEF ToSet
    <3> QED
      BY <1>6, <3>1, <3>2
  <2> QED
    BY <2>1, <2>2, <2>3
<1>7. new = << >> => k = l
  BY DEF AddRangeList
<1> QED
  BY <1>1, <1>5, <1>6, <1>7

\* A name finds the range that has it.
LEMMA Find ==
  ASSUME NEW l \in Seq(SenseRange), NamedApart(l), NEW n
  PROVE  GetRange(l, n) = {r \in ToSet(l) : r.name = n}
<1>1. ASSUME NEW j \in DOMAIN l, l[j].name = n
      PROVE  \A k \in 1..(j - 1) : l[k].name # n
  <2> TAKE k \in 1..(j - 1)
  <2>1. k \in DOMAIN l /\ k # j
    OBVIOUS
  <2> QED
    BY <1>1, <2>1 DEF NamedApart
<1> QED
  BY <1>1 DEF GetRange, ToSet

\* There is one at most.
LEMMA FindOne ==
  ASSUME NEW l \in Seq(SenseRange), NamedApart(l),
         NEW r \in ToSet(l), NEW s \in ToSet(l), r.name = s.name
  PROVE  r = s
  BY DEF ToSet, NamedApart

-----------------------------------------------------------------------------
(***************************************************************************)
(* What clamps lend                                                        *)
(***************************************************************************)

\* A clamp lends ranges with names of their own, available, and no range of the
\* board's names; and it lends to its channel and the one below only.
LEMMA LentHas ==
  ASSUME NEW c \in Channels, NEW b \in Clampable, NEW t \in AnyClamp,
         NEW l, l = LentTo(c, b, t)
  PROVE  /\ l \in Seq(SenseRange)
         /\ NamedApart(l)
         /\ \A r \in ToSet(l) : /\ r.avail
                                /\ c = b \/ c = Below[b]
                                /\ \A s \in ToSet(Fixed[c]) : s.name # r.name
<1>1. CASE l = << >>
  BY <1>1 DEF NamedApart, ToSet
<1>2. CASE t \in Types /\ l = Lent[t]["own"] /\ c = b
  BY <1>2, SenseAssumption, TablesAssumption DEF SenseAssumption, TablesAssumption
<1>3. CASE t \in Types /\ l = Lent[t]["below"] /\ c = Below[b]
  BY <1>3, SenseAssumption, TablesAssumption DEF SenseAssumption, TablesAssumption
<1> QED
  BY <1>1, <1>2, <1>3 DEF LentTo, AnyClamp

\* A channel is lent ranges by one clamp.
LEMMA OneLender ==
  ASSUME NEW c \in Channels, NEW a \in Clampable, NEW b \in Clampable,
         NEW t \in AnyClamp, NEW u \in AnyClamp,
         NEW r \in ToSet(LentTo(c, a, t)), NEW s \in ToSet(LentTo(c, b, u))
  PROVE  a = b
<1>1. (c = a \/ c = Below[a]) /\ (c = b \/ c = Below[b])
  BY LentHas
<1> QED
  BY <1>1, TablesAssumption DEF TablesAssumption

-----------------------------------------------------------------------------
(***************************************************************************)
(* The invariant                                                           *)
(***************************************************************************)

\* Each range of a channel is one of the board's or is lent by a clamp that is
\* there, and no two have the same name.
RangesHaveOwner ==
  \A c \in Channels :
    /\ NamedApart(list[c])
    /\ \A r \in ToSet(list[c]) :
         \/ r \in ToSet(Fixed[c])
         \/ \E b \in Clampable : r \in ToSet(LentTo(c, b, clamp[b]))

\* A range that was selected is in the list until it is taken away.
SelectionExists ==
  \A c \in Channels \ unsettled :
    selected[c] # NoName => \E r \in ToSet(list[c]) : r.name = selected[c]

CatalogIsList == \A c \in Channels : catalog[c] = NamesOf(list[c])

\* The range found by the selected name has the controller's code, and was
\* available when the name was selected.
SelectionFits ==
  \A c \in Channels : \A r \in ToSet(list[c]) :
    r.name = selected[c] => /\ c \notin unsettled => code[c] = r.code
                            /\ c \notin kept => r \in avail[c]

CtrlModeFits == modeLost \/ ctrlMode = (IF mode = HF THEN HF ELSE AC)

Inv ==
  /\ TypeOK
  /\ RangesHaveOwner
  /\ SelectionExists
  /\ CatalogIsList
  /\ SelectionFits
  /\ AvailabilityFollowsMode
  /\ CtrlModeFits

\* The found range is as the selection left it.
LEMMA FoundFits ==
  ASSUME Inv, NEW c \in Channels
  PROVE  /\ list[c] \in Seq(SenseRange)
         /\ NamedApart(list[c])
         /\ \A n : GetRange(list[c], n) = {r \in ToSet(list[c]) : r.name = n}
<1>1. list[c] \in Seq(SenseRange) /\ NamedApart(list[c])
  BY DEF Inv, TypeOK, RangesHaveOwner
<1> QED
  BY <1>1, Find

\* The properties that are checked follow from the invariant.
LEMMA InvImplies ==
  ASSUME Inv
  PROVE  ControllerInStep /\ SelectedWasAvailable
<1>1. ASSUME NEW c \in Channels \ unsettled, NEW r \in GetRange(list[c], selected[c])
      PROVE  code[c] = r.code
  <2>1. r \in ToSet(list[c]) /\ r.name = selected[c]
    BY <1>1, FoundFits
  <2> QED
    BY <1>1, <2>1 DEF Inv, SelectionFits
<1>2. ASSUME NEW c \in Channels \ kept, NEW r \in GetRange(list[c], selected[c])
      PROVE  r \in avail[c]
  <2>1. r \in ToSet(list[c]) /\ r.name = selected[c]
    BY <1>2, FoundFits
  <2> QED
    BY <1>2, <2>1 DEF Inv, SelectionFits
<1>3. modeLost \/ ctrlMode = (IF mode = HF THEN HF ELSE AC)
  BY DEF Inv, CtrlModeFits
<1> QED
  BY <1>1, <1>2, <1>3 DEF ControllerInStep, SelectedWasAvailable

-----------------------------------------------------------------------------
(***************************************************************************)
(* Start                                                                   *)
(***************************************************************************)

\* The names of a list are names.
LEMMA NamesAreNames ==
  ASSUME NEW l \in Seq(SenseRange)
  PROVE  NamesOf(l) \in Seq(Names)
<1>1. DOMAIN l = 1..Len(l) /\ Len(l) \in Nat
  OBVIOUS
<1>2. \A i \in DOMAIN l : l[i].name \in Names
  <2>1. \A i \in DOMAIN l : l[i] \in SenseRange
    OBVIOUS
  <2> QED
    BY <2>1 DEF SenseRange
<1>3. NamesOf(l) \in [1..Len(l) -> Names]
  BY <1>1, <1>2 DEF NamesOf
<1> QED
  BY <1>1, <1>3

\* No two entries of a list are the same range.
LEMMA NoRangeTwice ==
  ASSUME NEW l, NamedApart(l)
  PROVE  IsInjective(l)
  BY DEF NamedApart, IsInjective

\* The name a channel starts with is that of a range with the controller's code
\* that is built available, or none.
LEMMA StartNameFits ==
  ASSUME NEW c \in Channels, NEW k, NEW lost, NEW n, n = StartName(c, k, lost)
  PROVE  /\ n \in Names \cup {NoName}
         /\ n # NoName => \E r \in ToSet(Fixed[c]) : r.name = n
         /\ \A r \in ToSet(Fixed[c]) : r.name = n => r.code = k /\ AC \in r.modes
<1>1. Fixed[c] \in Seq(SenseRange) /\ NamedApart(Fixed[c])
  BY SenseAssumption, TablesAssumption DEF SenseAssumption, TablesAssumption
<1>2. \A r \in ToSet(Fixed[c]) : r \in SenseRange /\ r.name \in Names
  <2>1. \A j \in DOMAIN Fixed[c] : Fixed[c][j] \in SenseRange
    BY <1>1
  <2> QED
    BY <2>1 DEF ToSet, SenseRange
<1>3. CASE n = NoName
  BY <1>2, <1>3, SenseAssumption DEF SenseAssumption
<1>4. CASE n \in Preselected(c, k)
  <2>1. PICK j \in DOMAIN Fixed[c] :
          n = Fixed[c][j].name /\ Fixed[c][j].code = k /\ Fixed[c][j].avail
    BY <1>4 DEF Preselected
  <2> DEFINE s == Fixed[c][j]
  <2>2. s \in ToSet(Fixed[c]) /\ s.name = n /\ s.code = k /\ s.avail
    BY <2>1 DEF ToSet
  <2> HIDE DEF s
  <2>3. AC \in s.modes
    BY <2>2, TablesAssumption DEF TablesAssumption
  <2>4. ASSUME NEW r \in ToSet(Fixed[c]), r.name = n PROVE r = s
    BY <1>1, <2>2, <2>4, FindOne
  <2> QED
    BY <1>2, <2>2, <2>3, <2>4
<1> QED
  BY <1>3, <1>4 DEF StartName

\* A server that just started.
BoardState ==
  /\ code \in [Channels -> Codes]
  /\ ctrlMode \in {AC, HF} /\ modeLost \in BOOLEAN /\ (modeLost \/ ctrlMode = AC)
  /\ faults \in 0..MaxFaults
  /\ mode = AC
  /\ list = Fixed
  /\ avail = InitialAvail
  /\ \E lost : selected = [c \in Channels |-> StartName(c, code[c], lost)]
  /\ catalog = [c \in Channels |-> NamesOf(Fixed[c])]
  /\ raised = TellAll
  /\ clamp = [c \in Channels |-> NoClamp]
  /\ unsettled = {} /\ kept = {} /\ fresh = {}

LEMMA BoardFits == BoardState => Inv
<1> SUFFICES ASSUME BoardState PROVE Inv
  OBVIOUS
<1>1. \A c \in Channels : Fixed[c] \in Seq(SenseRange) /\ NamedApart(Fixed[c])
  BY SenseAssumption, TablesAssumption DEF SenseAssumption, TablesAssumption
<1>2. PICK lost : selected = [c \in Channels |-> StartName(c, code[c], lost)]
  BY DEF BoardState
<1>3. \A c \in Channels :
        /\ list[c] = Fixed[c]
        /\ avail[c] = {r \in ToSet(Fixed[c]) : AC \in r.modes}
        /\ selected[c] = StartName(c, code[c], lost)
        /\ catalog[c] = NamesOf(Fixed[c])
  BY <1>2 DEF BoardState, InitialAvail
<1>4. \A c \in Channels :
        /\ selected[c] \in Names \cup {NoName}
        /\ selected[c] # NoName => \E r \in ToSet(Fixed[c]) : r.name = selected[c]
        /\ \A r \in ToSet(Fixed[c]) :
             r.name = selected[c] => r.code = code[c] /\ AC \in r.modes
  BY <1>3, StartNameFits
<1>5. TypeOK
  <2>1. modeLost \in BOOLEAN
    BY DEF BoardState
  <2>2. \A c \in Channels : /\ IsInjective(list[c])
                           /\ avail[c] \subseteq ToSet(list[c])
    BY <1>1, <1>3, NoRangeTwice
  <2>3. list \in [Channels -> Seq(SenseRange)]
    BY SenseAssumption DEF SenseAssumption, BoardState
  <2>4. catalog \in [Channels -> Seq(Names)]
    BY <1>1, NamesAreNames DEF BoardState
  <2>5. selected \in [Channels -> Names \cup {NoName}]
    BY <1>2, <1>4
  <2>6. /\ code \in [Channels -> Codes] /\ ctrlMode \in {AC, HF} /\ mode \in Modes
        /\ raised \subseteq Channels /\ clamp \in [Channels -> Types \cup {NoClamp}]
        /\ unsettled \subseteq Channels /\ kept \subseteq Channels
        /\ fresh \subseteq Channels /\ faults \in 0..MaxFaults
    BY SenseAssumption DEF SenseAssumption, BoardState, TellAll
  <2> QED
    BY <2>1, <2>2, <2>3, <2>4, <2>5, <2>6 DEF TypeOK
<1>6. RangesHaveOwner /\ CatalogIsList
  BY <1>1, <1>3 DEF RangesHaveOwner, CatalogIsList
<1>7. SelectionExists
  BY <1>3, <1>4 DEF SelectionExists
<1>8. SelectionFits
  BY <1>3, <1>4 DEF SelectionFits
<1>9. AvailabilityFollowsMode
  BY <1>3 DEF AvailabilityFollowsMode, BoardState
<1>10. CtrlModeFits
  BY SenseAssumption DEF CtrlModeFits, BoardState, SenseAssumption
<1> QED
  BY <1>5, <1>6, <1>7, <1>8, <1>9, <1>10 DEF Inv

LEMMA InitFits == Init => Inv
<1>1. ASSUME Init PROVE BoardState
  <2>1. /\ ctrlMode \in {AC, HF} /\ faults \in 0..MaxFaults
        /\ modeLost \/ ctrlMode = AC
    BY <1>1, SenseAssumption DEF Init, SenseAssumption
  <2>2. modeLost \in BOOLEAN
    BY <1>1 DEF Init
  <2>3. \E lost : selected = [c \in Channels |-> StartName(c, code[c], lost)]
    BY <1>1 DEF Init
  <2> QED
    BY <1>1, <2>1, <2>2, <2>3 DEF Init, BoardState
<1> QED
  BY <1>1, BoardFits

\* A restart may lose answers.
LEMMA RestartFits ==
  ASSUME Inv, Restart
  PROVE  Inv'
<1>1. BoardState'
  <2>1. \A lost \in SUBSET Channels : Cardinality(lost) \in Nat
    BY SenseAssumption, FS_Subset, FS_CardinalityType DEF SenseAssumption
  <2>2. /\ faults' \in 0..MaxFaults
        /\ ctrlMode' \in {AC, HF}
        /\ modeLost' \in BOOLEAN
        /\ modeLost' \/ ctrlMode' = AC
        /\ \E lost : selected' = [c \in Channels |-> StartName(c, code[c], lost)]
    <3>1. PICK lost \in SUBSET Channels :
            /\ \/ /\ Fails(Cardinality(lost))
                  /\ ctrlMode' = AC /\ modeLost' = FALSE
               \/ /\ Fails(Cardinality(lost) + 1)
                  /\ ctrlMode' \in {ctrlMode, AC} /\ modeLost' = TRUE
            /\ selected' = [c \in Channels |-> StartName(c, code[c], lost)]
      BY DEF Restart
    <3>2. Cardinality(lost) \in Nat /\ faults \in Nat /\ MaxFaults \in Nat
      BY <2>1, SenseAssumption DEF Inv, TypeOK, SenseAssumption
    <3>3. faults' \in 0..MaxFaults
      BY <3>1, <3>2 DEF Fails
    <3>4. ctrlMode \in {AC, HF}
      BY DEF Inv, TypeOK
    <3> QED
      BY <3>1, <3>3, <3>4
  <2>3. code' \in [Channels -> Codes] /\ code' = code
    BY DEF Inv, TypeOK, Restart
  <2>4. avail' = [c \in Channels |-> {r \in ToSet(Fixed[c]) : AC \in r.modes}]
    BY DEF Restart, SetMMode
  <2> QED
    BY <2>2, <2>3, <2>4 DEF BoardState, Restart, InitialAvail
<1>2. BoardState' => Inv'
  BY BoardFits, PTL
<1> QED
  BY <1>1, <1>2

-----------------------------------------------------------------------------
(***************************************************************************)
(* Mode and selection                                                      *)
(***************************************************************************)

\* A new mode.
LEMMA SetSenseModeFits ==
  ASSUME Inv, NEW m \in Modes, SetSenseMode(m)
  PROVE  Inv'
<1>1. /\ UNCHANGED <<list, code, selected, catalog, clamp, unsettled>>
      /\ \A c \in Channels : avail'[c] = {r \in ToSet(list[c]) : m \in r.modes}
      /\ mode' = m /\ raised' = Channels /\ kept' = Channels /\ fresh' = {}
  BY DEF SetSenseMode, SetMMode, TellAll
<1>2. /\ ctrlMode' \in {AC, HF} /\ faults' \in 0..MaxFaults
      /\ modeLost' \/ ctrlMode' = (IF mode' = HF THEN HF ELSE AC)
  <2>1. SetMeasMode(m) /\ mode' = m
    BY DEF SetSenseMode
  <2>2. ctrlMode \in {AC, HF} /\ faults \in 0..MaxFaults /\ MaxFaults \in Nat
    BY SenseAssumption DEF Inv, TypeOK, SenseAssumption
  <2> QED
    BY <2>1, <2>2 DEF SetMeasMode, Fails, NoFault
<1>3. modeLost' \in BOOLEAN
  BY DEF SetSenseMode, SetMeasMode
<1>4. TypeOK'
  <2>1. \A c \in Channels : IsInjective(list'[c]) /\ avail'[c] \subseteq ToSet(list'[c])
    BY <1>1 DEF Inv, TypeOK
  <2> QED
    BY <1>1, <1>2, <1>3, <2>1 DEF Inv, TypeOK
<1>5. RangesHaveOwner' /\ CatalogIsList' /\ SelectionExists'
  BY <1>1 DEF Inv, RangesHaveOwner, CatalogIsList, SelectionExists
<1>6. SelectionFits'
  BY <1>1 DEF Inv, SelectionFits
<1>7. AvailabilityFollowsMode'
  BY <1>1 DEF AvailabilityFollowsMode
<1>8. CtrlModeFits'
  BY <1>2 DEF CtrlModeFits
<1> QED
  BY <1>4, <1>5, <1>6, <1>7, <1>8 DEF Inv

\* A range is selected, or not.
LEMMA WriteRangeFits ==
  ASSUME Inv, NEW c \in Channels, NEW n \in Names, WriteRange(c, n)
  PROVE  Inv'
<1>1. UNCHANGED <<ctrlMode, mode, list, avail, catalog, clamp, fresh, modeLost>>
  BY DEF WriteRange
<1>2. faults \in 0..MaxFaults /\ MaxFaults \in Nat
  BY SenseAssumption DEF Inv, TypeOK, SenseAssumption
<1>3. /\ TypeOK
      /\ code \in [Channels -> Codes] /\ selected \in [Channels -> Names \cup {NoName}]
      /\ unsettled \subseteq Channels /\ kept \subseteq Channels
  BY DEF Inv, TypeOK
<1>4. raised' \subseteq Channels /\ faults' \in 0..MaxFaults
  BY <1>2 DEF WriteRange, Fails, NoFault
<1>5. modeLost' \in BOOLEAN
  BY <1>1 DEF Inv, TypeOK
<1>6. ASSUME /\ code' \in [Channels -> Codes]
             /\ selected' \in [Channels -> Names \cup {NoName}]
             /\ unsettled' \subseteq Channels /\ kept' \subseteq Channels,
             SelectionExists', SelectionFits'
      PROVE  Inv'
  <2>1. TypeOK'
    BY <1>1, <1>3, <1>4, <1>5, <1>6 DEF TypeOK
  <2>2. RangesHaveOwner' /\ CatalogIsList'
    BY <1>1 DEF Inv, RangesHaveOwner, CatalogIsList
  <2>3. AvailabilityFollowsMode'
    BY <1>1 DEF Inv, AvailabilityFollowsMode
  <2>4. CtrlModeFits'
    BY <1>1 DEF Inv, CtrlModeFits
  <2> QED
    BY <1>6, <2>1, <2>2, <2>3, <2>4 DEF Inv
<1>7. CASE UNCHANGED <<code, selected, unsettled, kept>>
  BY <1>1, <1>3, <1>6, <1>7 DEF Inv, SelectionExists, SelectionFits
<1>8. ASSUME NEW r \in GetRange(list[c], n) \cap avail[c],
             code' = [code EXCEPT ![c] = r.code],
             selected' = [selected EXCEPT ![c] = n],
             unsettled' = unsettled \ {c},
             kept' = kept \ {c}
      PROVE  Inv'
  <2>1. /\ r \in ToSet(list[c]) /\ r.name = n /\ r \in avail[c] /\ r.code \in Codes
        /\ \A s \in ToSet(list[c]) : s.name = n => s = r
    <3>1. r \in ToSet(list[c]) /\ r.name = n
      BY <1>8, FoundFits
    <3>2. \A i \in DOMAIN list[c] : list[c][i] \in SenseRange
      BY FoundFits
    <3>3. \A s \in ToSet(list[c]) : s.name = n => s = r
      BY <3>1, FoundFits, FindOne
    <3>4. r.code \in Codes
      BY <3>1, <3>2 DEF ToSet, SenseRange
    <3> QED
      BY <1>8, <3>1, <3>3, <3>4
  <2>2. /\ code' \in [Channels -> Codes] /\ selected' \in [Channels -> Names \cup {NoName}]
        /\ unsettled' \subseteq Channels /\ kept' \subseteq Channels
    BY <1>3, <1>8, <2>1
  <2>3. SelectionExists'
    BY <1>1, <1>3, <1>8, <2>1 DEF Inv, SelectionExists
  <2>4. SelectionFits'
    BY <1>1, <1>3, <1>8, <2>1 DEF Inv, SelectionFits
  <2> QED
    BY <1>6, <2>2, <2>3, <2>4
<1>9. ASSUME NEW r \in GetRange(list[c], n) \cap avail[c],
             code' = [code EXCEPT ![c] = r.code],
             unsettled' = unsettled \cup {c},
             UNCHANGED <<selected, kept>>
      PROVE  Inv'
  <2>1. r.code \in Codes
    <3>1. r \in ToSet(list[c])
      BY <1>9, FoundFits
    <3>2. \A i \in DOMAIN list[c] : list[c][i] \in SenseRange
      BY FoundFits
    <3> QED
      BY <3>1, <3>2 DEF ToSet, SenseRange
  <2>2. /\ code' \in [Channels -> Codes] /\ unsettled' \subseteq Channels
        /\ selected' \in [Channels -> Names \cup {NoName}] /\ kept' \subseteq Channels
    BY <1>3, <1>9, <2>1
  <2>3. SelectionExists'
    BY <1>1, <1>9 DEF Inv, SelectionExists
  <2>4. SelectionFits'
    BY <1>1, <1>3, <1>9 DEF Inv, SelectionFits
  <2> QED
    BY <1>6, <2>2, <2>3, <2>4
<1> QED
  BY <1>7, <1>8, <1>9 DEF WriteRange, Refused

-----------------------------------------------------------------------------
(***************************************************************************)
(* Clamps                                                                  *)
(***************************************************************************)

\* What the exchange of a clamp does to a channel: old ranges go, new ones come.
Exchanged(c, old, new) ==
  /\ list'[c] \in Seq(SenseRange)
  /\ ToSet(list'[c]) = (ToSet(list[c]) \ ToSet(old)) \cup ToSet(new)
  /\ avail'[c] = (avail[c] \ ToSet(old)) \cup ToSet(new)
  /\ catalog'[c] = NamesOf(list'[c])
  /\ (\E r \in ToSet(list[c]) \cap ToSet(old) : r.name = selected[c]) => c \in unsettled'
  /\ c \in unsettled => c \in unsettled'
  /\ c \in fresh \/ new # << >> => c \in fresh'
  /\ \A r \in ToSet(list[c]) \ ToSet(old), s \in ToSet(new) : r.name # s.name
  /\ NamedApart(list'[c])
  /\ list'[c] # list[c] \/ avail'[c] # avail[c] => c \in raised'

LEMMA ExchangeEach ==
  ASSUME Inv, NEW b \in Clampable, NEW t \in AnyClamp, NEW add \in BOOLEAN,
         Exchange(b, t, add), NEW c \in Channels
  PROVE  \E new \in {<< >>, LentTo(c, b, t)} : Exchanged(c, LentTo(c, b, clamp[b]), new)
<1> DEFINE old == LentTo(c, b, clamp[b])
           new == IF add THEN LentTo(c, b, t) ELSE << >>
           bare == RemoveRangeList(list[c], old)
           final == AddRangeList(bare, new)
<1>1. /\ list'[c] = final
      /\ avail'[c] = (avail[c] \ ToSet(old)) \cup {r \in ToSet(new) : r.avail}
      /\ catalog'[c] = NamesOf(final)
      /\ c \in raised' <=> \/ NamesOf(bare) # catalog[c]
                           \/ NamesOf(final) # NamesOf(bare)
      /\ c \in unsettled' <=> \/ c \in unsettled
                              \/ GetRange(list[c], selected[c]) \cap ToSet(old) # {}
      /\ c \in fresh' <=> c \in fresh \/ new # << >>
  BY DEF Exchange, RangeCat
<1>2. clamp[b] \in AnyClamp
  BY DEF Inv, TypeOK, AnyClamp, Clampable
<1>3. new \in {<< >>, LentTo(c, b, t)}
  OBVIOUS
<1> HIDE DEF old, new
<1>4. /\ new \in Seq(SenseRange) /\ NamedApart(new)
      /\ \A r \in ToSet(new) : /\ r.avail
                               /\ r \in ToSet(LentTo(c, b, t))
                               /\ \A s \in ToSet(Fixed[c]) : s.name # r.name
  <2>1. CASE new = << >>
    BY <2>1 DEF NamedApart, ToSet
  <2>2. CASE new = LentTo(c, b, t)
    BY <2>2, LentHas
  <2> QED
    BY <1>3, <2>1, <2>2
<1>5. list[c] \in Seq(SenseRange) /\ NamedApart(list[c])
  BY FoundFits
<1> HIDE DEF bare, final
<1>6. /\ bare \in Seq(SenseRange)
      /\ ToSet(bare) = ToSet(list[c]) \ ToSet(old)
      /\ NamedApart(bare)
      /\ Len(bare) = Len(list[c]) => bare = list[c]
  BY <1>5, RemoveLeaves DEF bare
<1>7. \A r \in ToSet(bare), s \in ToSet(new) : r.name # s.name
  <2> TAKE r \in ToSet(bare), s \in ToSet(new)
  <2>1. CASE r \in ToSet(Fixed[c])
    BY <1>4, <2>1
  <2>2. CASE \E a \in Clampable : r \in ToSet(LentTo(c, a, clamp[a]))
    <3>1. PICK a \in Clampable : r \in ToSet(LentTo(c, a, clamp[a]))
      BY <2>2
    <3>2. clamp[a] \in AnyClamp
      BY DEF Inv, TypeOK, AnyClamp, Clampable
    <3>3. s \in ToSet(LentTo(c, b, t))
      BY <1>4
    <3>4. a = b
      BY <3>1, <3>2, <3>3, OneLender
    <3> QED
      BY <1>6, <3>1, <3>4 DEF old
  <2>3. r \in ToSet(list[c])
    BY <1>6
  <2> QED
    BY <2>1, <2>2, <2>3 DEF Inv, RangesHaveOwner
<1>8. /\ final \in Seq(SenseRange)
      /\ ToSet(final) = ToSet(bare) \cup ToSet(new)
      /\ NamedApart(final)
      /\ Len(final) = Len(bare) + Len(new)
      /\ new = << >> => final = bare
  <2>1. final = AddRangeList(bare, new)
    BY DEF final
  <2>2. bare \in Seq(SenseRange) /\ new \in Seq(SenseRange)
    BY <1>4, <1>6
  <2>3. /\ final \in Seq(SenseRange)
        /\ ToSet(final) = ToSet(bare) \cup ToSet(new)
        /\ Len(final) = Len(bare) + Len(new)
        /\ new = << >> => final = bare
    BY ONLY <2>1, <2>2, AddAdds
  <2>4. NamedApart(final)
    BY ONLY <2>1, <2>2, <1>4, <1>6, <1>7, AddAdds
  <2> QED
    BY <2>3, <2>4
<1>9. {r \in ToSet(new) : r.avail} = ToSet(new)
  BY <1>4
<1>10. ASSUME c \notin raised' PROVE list'[c] = list[c] /\ avail'[c] = avail[c]
  <2>1. NamesOf(bare) = NamesOf(list[c]) /\ NamesOf(final) = NamesOf(bare)
    BY <1>1, <1>10 DEF Inv, CatalogIsList
  <2>2. \A k, l : NamesOf(k) = NamesOf(l) => DOMAIN k = DOMAIN l
    BY DEF NamesOf
  <2>3. DOMAIN bare = DOMAIN list[c] /\ DOMAIN final = DOMAIN bare
    BY <2>1, <2>2
  <2>4. Len(bare) = Len(list[c]) /\ Len(final) = Len(bare)
    BY <1>5, <1>6, <1>8, <2>3
  <2>5. bare = list[c]
    BY <1>6, <2>4
  <2>6. new = << >>
    BY <1>4, <1>6, <1>8, <2>4
  <2>7. ToSet(new) = {}
    BY <2>6 DEF ToSet
  <2>8. avail[c] \subseteq ToSet(list[c])
    BY DEF Inv, TypeOK
  <2>9. avail[c] \ ToSet(old) = avail[c]
    BY <1>6, <2>5, <2>8
  <2> QED
    BY <1>1, <1>8, <1>9, <2>5, <2>6, <2>7, <2>9
<1>11. (\E r \in ToSet(list[c]) \cap ToSet(old) : r.name = selected[c]) => c \in unsettled'
  BY <1>1, FoundFits
<1>12. Exchanged(c, old, new)
  BY <1>1, <1>6, <1>7, <1>8, <1>9, <1>10, <1>11 DEF Exchanged
<1> QED
  BY <1>3, <1>12 DEF old

LEMMA ExchangeFits ==
  ASSUME Inv, NEW b \in Clampable, NEW t \in AnyClamp, NEW add \in BOOLEAN,
         Exchange(b, t, add), faults' \in 0..MaxFaults
  PROVE  Inv'
<1>1. UNCHANGED <<code, ctrlMode, mode, selected, kept, modeLost>>
      /\ clamp' = [clamp EXCEPT ![b] = t]
  BY DEF Exchange
<1>2. b \in Channels /\ clamp \in [Channels -> AnyClamp]
  BY DEF Inv, TypeOK, AnyClamp, Clampable
<1>3. \A c \in Channels :
        \E new \in {<< >>, LentTo(c, b, t)} : Exchanged(c, LentTo(c, b, clamp[b]), new)
  BY ExchangeEach
<1>4. TypeOK'
  <2>1. \A c \in Channels : /\ list'[c] \in Seq(SenseRange)
                           /\ IsInjective(list'[c])
                           /\ avail'[c] \subseteq ToSet(list'[c])
                           /\ catalog'[c] \in Seq(Names)
    <3> TAKE c \in Channels
    <3>1. PICK new \in {<< >>, LentTo(c, b, t)} : Exchanged(c, LentTo(c, b, clamp[b]), new)
      BY <1>3
    <3>2. avail[c] \subseteq ToSet(list[c])
      BY DEF Inv, TypeOK
    <3>3. NamedApart(list'[c]) /\ list'[c] \in Seq(SenseRange)
      BY <3>1 DEF Exchanged
    <3> QED
      BY <3>1, <3>2, <3>3, NoRangeTwice, NamesAreNames DEF Exchanged
  <2>2. /\ \E f : list' = [c \in Channels |-> f[c]]
        /\ \E f : catalog' = [c \in Channels |-> f[c]]
    <3>1. list' = [c \in Channels |-> list'[c]] /\ catalog' = [c \in Channels |-> catalog'[c]]
      BY DEF Exchange
    <3> QED
      BY <3>1
  <2>3. list' \in [Channels -> Seq(SenseRange)] /\ catalog' \in [Channels -> Seq(Names)]
    BY <2>1, <2>2
  <2>4. unsettled' \subseteq Channels /\ fresh' \subseteq Channels /\ raised' \subseteq Channels
    BY DEF Exchange, Inv, TypeOK
  <2>5. clamp' \in [Channels -> Types \cup {NoClamp}]
    BY <1>1, <1>2 DEF AnyClamp
  <2>6. modeLost' \in BOOLEAN
    BY <1>1 DEF Inv, TypeOK
  <2> QED
    BY <1>1, <2>1, <2>3, <2>4, <2>5, <2>6 DEF Inv, TypeOK
<1>5. RangesHaveOwner'
  <2> SUFFICES ASSUME NEW c \in Channels
               PROVE  /\ NamedApart(list'[c])
                      /\ \A r \in ToSet(list'[c]) :
                           \/ r \in ToSet(Fixed[c])
                           \/ \E a \in Clampable : r \in ToSet(LentTo(c, a, clamp'[a]))
    BY DEF RangesHaveOwner
  <2>1. PICK new \in {<< >>, LentTo(c, b, t)} : Exchanged(c, LentTo(c, b, clamp[b]), new)
    BY <1>3
  <2>2. clamp'[b] = t /\ \A a \in Clampable \ {b} : clamp'[a] = clamp[a]
    BY <1>1, <1>2 DEF Clampable
  <2>3. ASSUME NEW r \in ToSet(list'[c]), r \notin ToSet(Fixed[c])
        PROVE  \E a \in Clampable : r \in ToSet(LentTo(c, a, clamp'[a]))
    <3>1. CASE r \in ToSet(new)
      <4>1. new # << >>
        BY <3>1 DEF ToSet
      <4> QED
        BY <2>2, <3>1, <4>1
    <3>2. CASE r \in ToSet(list[c]) \ ToSet(LentTo(c, b, clamp[b]))
      <4>1. PICK a \in Clampable : r \in ToSet(LentTo(c, a, clamp[a]))
        BY <2>3, <3>2 DEF Inv, RangesHaveOwner
      <4> QED
        BY <2>2, <3>2, <4>1
    <3> QED
      BY <2>1, <2>3, <3>1, <3>2 DEF Exchanged
  <2> QED
    BY <2>1, <2>3 DEF Exchanged
<1>6. CatalogIsList'
  BY <1>3 DEF Exchanged, CatalogIsList
<1>7. SelectionExists' /\ SelectionFits'
  <2> SUFFICES ASSUME NEW c \in Channels
               PROVE  /\ c \notin unsettled' /\ selected[c] # NoName
                           => \E r \in ToSet(list'[c]) : r.name = selected[c]
                      /\ \A r \in ToSet(list'[c]) :
                           r.name = selected[c] =>
                             /\ c \notin unsettled' => code[c] = r.code
                             /\ c \notin kept => r \in avail'[c]
    BY <1>1 DEF SelectionExists, SelectionFits
  <2>1. PICK new \in {<< >>, LentTo(c, b, t)} : Exchanged(c, LentTo(c, b, clamp[b]), new)
    BY <1>3
  <2> DEFINE gone == ToSet(LentTo(c, b, clamp[b]))
             come == ToSet(new)
             here == ToSet(list[c])
  <2>2. /\ ToSet(list'[c]) = (here \ gone) \cup come
        /\ avail'[c] = (avail[c] \ gone) \cup come
        /\ (\E r \in here \cap gone : r.name = selected[c]) => c \in unsettled'
        /\ c \in unsettled => c \in unsettled'
        /\ \A r \in here \ gone, s \in come : r.name # s.name
    BY <2>1 DEF Exchanged
  <2>3. \A r \in here :
          r.name = selected[c] => /\ c \notin unsettled => code[c] = r.code
                                  /\ c \notin kept => r \in avail[c]
    BY DEF Inv, SelectionFits
  <2>4. c \notin unsettled /\ selected[c] # NoName => \E r \in here : r.name = selected[c]
    BY DEF Inv, SelectionExists
  <2>5. \A r \in ToSet(list'[c]) : r.name # NoName
    <3>1. list'[c] \in Seq(SenseRange)
      BY <2>1 DEF Exchanged
    <3>2. \A i \in DOMAIN list'[c] : list'[c][i] \in SenseRange
      BY <3>1
    <3> QED
      BY <3>2, SenseAssumption DEF ToSet, SenseRange, SenseAssumption
  <2> HIDE DEF gone, come, here
  <2> QED
    BY <2>2, <2>3, <2>4, <2>5
<1>8. AvailabilityFollowsMode'
  <2> SUFFICES ASSUME NEW c \in Channels
               PROVE  /\ \A r \in ToSet(list'[c]) : mode \in r.modes => r \in avail'[c]
                      /\ c \notin fresh' => \A r \in avail'[c] : mode \in r.modes
    BY <1>1 DEF AvailabilityFollowsMode
  <2>1. PICK new \in {<< >>, LentTo(c, b, t)} : Exchanged(c, LentTo(c, b, clamp[b]), new)
    BY <1>3
  <2>2. new = << >> => ToSet(new) = {}
    BY DEF ToSet
  <2> QED
    BY <2>1, <2>2 DEF Exchanged, Inv, AvailabilityFollowsMode
<1>9. CtrlModeFits'
  BY <1>1 DEF Inv, CtrlModeFits
<1> QED
  BY <1>4, <1>5, <1>6, <1>7, <1>8, <1>9 DEF Inv

\* What comes and goes at a connector is an exchange.
LEMMA ClampsExchange ==
  ASSUME Inv, NEW b \in Clampable,
         \/ RemoveAllRanges(b)
         \/ \E t \in Types : AddSense(b, t) \/ WriteType(b, t)
  PROVE  /\ \E t \in AnyClamp, add \in BOOLEAN : Exchange(b, t, add)
         /\ faults' \in 0..MaxFaults
<1>1. faults \in 0..MaxFaults /\ MaxFaults \in Nat
  BY SenseAssumption DEF Inv, TypeOK, SenseAssumption
<1>2. faults' \in 0..MaxFaults
  <2>1. NoFault \/ Fails(1)
    BY Zenon DEF RemoveAllRanges, AddSense, WriteType
  <2> QED
    BY <1>1, <2>1 DEF Fails, NoFault
<1>3. \E t \in AnyClamp, add \in BOOLEAN : Exchange(b, t, add)
  <2>1. TRUE \in BOOLEAN /\ FALSE \in BOOLEAN
    OBVIOUS
  <2>2. CASE RemoveAllRanges(b)
    BY <2>1, <2>2 DEF RemoveAllRanges, AnyClamp
  <2>3. CASE \E t \in Types : AddSense(b, t) \/ WriteType(b, t)
    BY <2>1, <2>3 DEF AddSense, WriteType, AnyClamp
  <2> QED
    BY <2>2, <2>3
<1> QED
  BY <1>2, <1>3

-----------------------------------------------------------------------------
(***************************************************************************)
(* All steps                                                               *)
(***************************************************************************)

LEMMA NextFits == Inv /\ [Next]_vars => Inv'
<1> SUFFICES ASSUME Inv, [Next]_vars PROVE Inv'
  OBVIOUS
<1>1. CASE UNCHANGED vars
  BY <1>1 DEF vars, Inv, TypeOK, RangesHaveOwner, SelectionExists, CatalogIsList,
     SelectionFits, AvailabilityFollowsMode, CtrlModeFits
<1>2. ASSUME NEW m \in Modes, SetSenseMode(m) PROVE Inv'
  BY <1>2, SetSenseModeFits
<1>3. ASSUME NEW c \in Channels, NEW n \in Names, WriteRange(c, n) PROVE Inv'
  BY <1>3, WriteRangeFits
<1>4. ASSUME NEW b \in Clampable,
             \/ RemoveAllRanges(b)
             \/ \E t \in Types : AddSense(b, t) \/ WriteType(b, t)
      PROVE  Inv'
  BY <1>4, ClampsExchange, ExchangeFits
<1>5. CASE Restart
  BY <1>5, RestartFits
<1> QED
  BY <1>1, <1>2, <1>3, <1>4, <1>5 DEF Next

LEMMA Invariance == Spec => []Inv
  BY InitFits, NextFits, PTL DEF Spec

\* Every variable keeps its type, and no list ever holds a range twice, whatever
\* clamps come, go and change their type.
THEOREM TypeCorrect == Spec => []TypeOK
<1>1. Inv => TypeOK
  BY DEF Inv
<1> QED
  BY <1>1, Invariance, PTL

\* The range that the answer to RANGE names and that URVALUE reads is the one the
\* controller measures with, unless it was taken away or an answer was lost.
THEOREM ControllerInStepAlways == Spec => []ControllerInStep
<1>1. Inv => ControllerInStep
  BY InvImplies
<1> QED
  BY <1>1, Invariance, PTL

\* Ranges are available if and only if the mode is in their mask, except those
\* that a clamp brought since the mode was set.
THEOREM AvailabilityFollowsModeAlways == Spec => []AvailabilityFollowsMode
<1>1. Inv => AvailabilityFollowsMode
  BY DEF Inv
<1> QED
  BY <1>1, Invariance, PTL

\* A range that the mode excludes is never selected by a command or at the start.
THEOREM SelectedWasAvailableAlways == Spec => []SelectedWasAvailable
<1>1. Inv => SelectedWasAvailable
  BY InvImplies
<1> QED
  BY <1>1, Invariance, PTL

\* Subscribers of a catalog are told of every change of the ranges and of their
\* availability, and the catalog they read is the list.
THEOREM ChangesAreToldAlways == Spec => ChangesAreTold
<1>1. Inv /\ [Next]_vars
        => [\A c \in Channels :
              list'[c] # list[c] \/ avail'[c] # avail[c] =>
                c \in raised' /\ catalog'[c] = NamesOf(list'[c])]_vars
  <2> SUFFICES ASSUME Inv, Next, NEW c \in Channels,
                      list'[c] # list[c] \/ avail'[c] # avail[c]
               PROVE  c \in raised' /\ catalog'[c] = NamesOf(list'[c])
    OBVIOUS
  <2>1. Inv'
    BY NextFits
  <2>2. catalog'[c] = NamesOf(list'[c])
    BY <2>1 DEF Inv, CatalogIsList
  <2>3. ASSUME NEW m \in Modes, SetSenseMode(m) PROVE c \in raised'
    BY <2>3 DEF SetSenseMode, TellAll
  <2>4. ASSUME NEW d \in Channels, NEW n \in Names, WriteRange(d, n) PROVE c \in raised'
    BY <2>4 DEF WriteRange
  <2>5. ASSUME NEW b \in Clampable,
               \/ RemoveAllRanges(b)
               \/ \E t \in Types : AddSense(b, t) \/ WriteType(b, t)
        PROVE  c \in raised'
    <3>1. PICK t \in AnyClamp, add \in BOOLEAN : Exchange(b, t, add)
      BY <2>5, ClampsExchange
    <3>2. PICK new \in {<< >>, LentTo(c, b, t)} : Exchanged(c, LentTo(c, b, clamp[b]), new)
      BY <3>1, ExchangeEach
    <3> QED
      BY <3>2 DEF Exchanged
  <2>6. CASE Restart
    BY <2>6 DEF Restart, TellAll
  <2> QED
    BY <2>2, <2>3, <2>4, <2>5, <2>6 DEF Next
<1> QED
  BY <1>1, Invariance, PTL DEF Spec, ChangesAreTold
=============================================================================
