---------------------------- MODULE StringMapProofs ----------------------------
(***************************************************************************)
(* The search for a name, in a table of any length.  What is found always  *)
(* has the id that was looked for; and an id that is in the table is found *)
(* if what is before it in the order of ids is before it in the table, as  *)
(* in an ascending one.  The table of the functions' names is not quite,   *)
(* which is why two of them are not found.                                 *)
(*                                                                         *)
(* Both are proved of the smallest span in which the search would go       *)
(* wrong.  That the search is a function at all has to be shown as well:   *)
(* it is built up from the small spans to the large ones.                  *)
(***************************************************************************)
EXTENDS StringMap, WellFoundedInduction, TLAPS

\* A turn of the loop, with what the turns after it would find.
Turn(map, id, found, s) ==
  IF s.bottom < s.top - 1
  THEN IF map[Middle(s)] = id THEN Middle(s) ELSE found[Halved(map, id, s)]
  ELSE IF map[s.bottom] = id THEN s.bottom ELSE NoString

\* found is what the loop finds, for every span it may be at.
Searches(map, length, id, found) ==
  found = [s \in Spans(length) |-> Turn(map, id, found, s)]

\* How much is left to halve.
Size(s) == IF s.bottom < s.top - 1 THEN s.top - s.bottom ELSE 0

\* The same for the spans smaller than n.
SearchesUpTo(map, length, id, n, found) ==
  /\ found = [s \in Spans(length) |-> found[s]]
  /\ \A s \in Spans(length) : Size(s) < n => found[s] = Turn(map, id, found, s)

-----------------------------------------------------------------------------
(* The search is a function.                                               *)

\* A set of numbers has a least one.
LEMMA Least == ASSUME NEW T, T \subseteq Nat, T # {} PROVE \E n \in T : \A m \in T : n <= m
<1>1. PICK n \in T : \A m \in T : <<m, n>> \notin OpToRel(<, Nat)
  BY WFMin, NatLessThanWellFounded, Zenon
<1>2. \A m \in T : ~(m < n)
  BY <1>1, Zenon DEF OpToRel
<1> QED BY <1>2

\* A turn leaves a smaller span, with a bottom below its top.
LEMMA TurnHalves ==
  ASSUME NEW map, NEW length \in Nat, NEW id, NEW s \in Spans(length), s.bottom < s.top - 1
  PROVE  /\ Middle(s) \in Nat /\ s.bottom < Middle(s) /\ Middle(s) < s.top
         /\ Halved(map, id, s) \in Spans(length)
         /\ Halved(map, id, s) =
              IF map[Middle(s)] <= id THEN [bottom |-> Middle(s), top |-> s.top]
              ELSE [bottom |-> s.bottom, top |-> Middle(s)]
         /\ Size(Halved(map, id, s)) < Size(s)
<1> DEFINE m == Middle(s)
<1>1. s.bottom \in 0 .. length /\ s.top \in 0 .. length
      /\ s = [bottom |-> s.bottom, top |-> s.top]
  BY DEF Spans
<1>2. m \in Nat /\ s.bottom < m /\ m < s.top
  BY <1>1 DEF Middle
<1> HIDE DEF m
<1>3. [s EXCEPT !.bottom = m] = [bottom |-> m, top |-> s.top]
      /\ [s EXCEPT !.top = m] = [bottom |-> s.bottom, top |-> m]
  BY <1>1
<1>4. Halved(map, id, s) = IF map[m] <= id THEN [bottom |-> m, top |-> s.top]
                           ELSE [bottom |-> s.bottom, top |-> m]
  BY <1>3 DEF Halved, m
<1>5. m \in 0 .. length
  BY <1>1, <1>2
<1>6. [bottom |-> m, top |-> s.top] \in Spans(length)
      /\ [bottom |-> s.bottom, top |-> m] \in Spans(length)
  BY <1>1, <1>5 DEF Spans
<1>7. Size([bottom |-> m, top |-> s.top]) < Size(s)
      /\ Size([bottom |-> s.bottom, top |-> m]) < Size(s)
  BY <1>1, <1>2 DEF Size
<1> QED
  BY <1>2, <1>4, <1>6, <1>7 DEF m

\* A span is no larger than the table.
LEMMA SizeIsNat ==
  ASSUME NEW length \in Nat, NEW s \in Spans(length)
  PROVE  Size(s) \in Nat /\ Size(s) < length + 1
BY DEF Size, Spans

\* What is found in the spans smaller than n gives what is found in those of
\* size n, as a turn makes them smaller.
LEMMA OneMore ==
  ASSUME NEW map, NEW length \in Nat, NEW id, NEW n \in Nat, NEW f,
         SearchesUpTo(map, length, id, n, f)
  PROVE  \E g : SearchesUpTo(map, length, id, n + 1, g)
<1> DEFINE g == [s \in Spans(length) |-> Turn(map, id, f, s)]
<1>1. g = [s \in Spans(length) |-> g[s]] /\ \A s \in Spans(length) : g[s] = Turn(map, id, f, s)
  OBVIOUS
<1> HIDE DEF g
<1>2. ASSUME NEW s \in Spans(length), Size(s) < n + 1
      PROVE  g[s] = Turn(map, id, g, s)
  <2>1. CASE s.bottom < s.top - 1
    <3> DEFINE h == Halved(map, id, s)
    <3>1. h \in Spans(length) /\ Size(h) < n
      <4>1. h \in Spans(length) /\ Size(h) < Size(s)
        BY <2>1, TurnHalves
      <4>2. Size(h) \in Nat /\ Size(s) \in Nat
        BY <4>1, SizeIsNat
      <4> QED BY <4>1, <4>2, <1>2
    <3> HIDE DEF h
    <3>2. g[h] = f[h]
      BY <3>1, <1>1 DEF SearchesUpTo
    <3>3. Turn(map, id, g, s) = Turn(map, id, f, s)
      BY <3>2, Zenon DEF Turn, h
    <3> QED BY <3>3, <1>1
  <2>2. CASE ~(s.bottom < s.top - 1)
    <3>1. Turn(map, id, g, s) = Turn(map, id, f, s)
      BY <2>2, Zenon DEF Turn
    <3> QED BY <3>1, <1>1
  <2> QED BY <2>1, <2>2
<1>3. SearchesUpTo(map, length, id, n + 1, g)
  BY <1>1, <1>2, Zenon DEF SearchesUpTo
<1> QED BY <1>3

\* The loop ends, whatever the table holds: there is a function that is what
\* it finds.
LEMMA SearchEnds ==
  ASSUME NEW map, NEW length \in Nat, NEW id
  PROVE  \E f : Searches(map, length, id, f)
<1> DEFINE T == {n \in Nat : ~\E f : SearchesUpTo(map, length, id, n, f)}
<1>1. T = {}
  <2> SUFFICES ASSUME T # {} PROVE FALSE
    OBVIOUS
  <2>1. T \subseteq Nat
    OBVIOUS
  <2>2. PICK n \in T : \A m \in T : n <= m
    BY <2>1, Least, Zenon
  <2>3. n \in Nat /\ ~\E f : SearchesUpTo(map, length, id, n, f)
    OBVIOUS
  <2>4. n # 0
    <3> DEFINE f == [s \in Spans(length) |-> 0]
    <3>1. \A s \in Spans(length) : ~(Size(s) < 0)
      BY SizeIsNat
    <3>2. f = [s \in Spans(length) |-> f[s]]
      OBVIOUS
    <3>3. SearchesUpTo(map, length, id, 0, f)
      BY <3>1, <3>2 DEF SearchesUpTo
    <3> QED BY <3>3, <2>3
  <2>5. n - 1 \in Nat /\ (n - 1) + 1 = n /\ ~(n <= n - 1)
    BY <2>3, <2>4
  <2>6. n - 1 \notin T
    BY <2>2, <2>5
  <2>7. \E f : SearchesUpTo(map, length, id, n - 1, f)
    BY <2>5, <2>6
  <2> DEFINE k == n - 1
  <2> HIDE DEF k, T
  <2>8. PICK f : SearchesUpTo(map, length, id, k, f)
    BY <2>7 DEF k
  <2>9. \E g : SearchesUpTo(map, length, id, k + 1, g)
    BY <2>5, <2>8, OneMore DEF k
  <2> QED BY <2>9, <2>5, <2>3 DEF k
<1> DEFINE top == length + 1
<1>2. top \in Nat
  OBVIOUS
<1>3. \A s \in Spans(length) : Size(s) < top
  BY SizeIsNat
<1> HIDE DEF top
<1>4. PICK f : SearchesUpTo(map, length, id, top, f)
  BY <1>1, <1>2
<1>5. Searches(map, length, id, f)
  BY <1>3, <1>4 DEF SearchesUpTo, Searches
<1> QED BY <1>5

\* c2ip_string_map is such a function, of the whole table.
LEMMA SearchIsOne ==
  ASSUME NEW map, NEW length \in Nat, NEW id
  PROVE  \E found : /\ Searches(map, length, id, found)
                    /\ c2ip_string_map(map, length, id) = found[[bottom |-> 0, top |-> length]]
<1> DEFINE search == CHOOSE g : g = [s \in Spans(length) |->
  IF s.bottom < s.top - 1
  THEN IF map[Middle(s)] = id THEN Middle(s) ELSE g[Halved(map, id, s)]
  ELSE IF map[s.bottom] = id THEN s.bottom ELSE NoString]
<1>1. Searches(map, length, id, search)
  <2>1. PICK f : Searches(map, length, id, f)
    BY SearchEnds
  <2> QED BY <2>1, Zenon DEF Searches, Turn
<1>2. c2ip_string_map(map, length, id) = search[[bottom |-> 0, top |-> length]]
  BY Zenon DEF c2ip_string_map
<1> QED BY <1>1, <1>2, Zenon

-----------------------------------------------------------------------------
(* What it finds.                                                          *)

\* The table is in order as far as this id is concerned: all that is smaller
\* comes first, all that is greater last.
Parted(map, length, id) ==
  \A i, j \in 0 .. length - 1 :
    i < j => (map[j] < id => map[i] < id) /\ (map[i] > id => map[j] > id)

\* Where the id is in a span.
PlacesIn(map, id, s) == {i \in s.bottom .. s.top - 1 : map[i] = id}

\* What a search of the span may find.
RightIn(map, length, id, s, found) ==
  /\ found # NoString => found \in PlacesIn(map, id, s)
  /\ Parted(map, length, id) /\ PlacesIn(map, id, s) # {} => found # NoString

\* A position is not NoString.
LEMMA PlacesArePositions ==
  ASSUME NEW map, NEW length \in Nat, NEW id, NEW s \in Spans(length)
  PROVE  NoString \notin PlacesIn(map, id, s)
BY DEF PlacesIn, NoString, Spans

\* A span is searched rightly if the smaller ones are: half of it is left out
\* only if the id is not there.
LEMMA EachSpanRight ==
  ASSUME NEW map, NEW length, NEW id \in Nat, IsTable(map, length),
         NEW f, Searches(map, length, id, f),
         NEW s \in Spans(length), s.bottom < s.top,
         \A r \in Spans(length) :
           r.bottom < r.top /\ Size(r) < Size(s) => RightIn(map, length, id, r, f[r])
  PROVE  RightIn(map, length, id, s, f[s])
<1> DEFINE b == s.bottom
           t == s.top
<1>1. length \in Nat /\ b \in 0 .. length - 1 /\ t \in 1 .. length
      /\ \A i \in 0 .. length - 1 : map[i] \in Nat
  BY DEF IsTable, Spans
<1>2. f[s] = Turn(map, id, f, s)
  BY DEF Searches
<1>3. PlacesIn(map, id, s) = {i \in b .. t - 1 : map[i] = id}
  BY DEF PlacesIn
<1>4. NoString \notin PlacesIn(map, id, s)
  BY <1>1, PlacesArePositions
<1>5. CASE ~(b < t - 1)
  <2>1. f[s] = IF map[b] = id THEN b ELSE NoString
    BY <1>2, <1>5 DEF Turn
  <2>2. b .. t - 1 = {b}
    BY <1>1, <1>5
  <2>3. PlacesIn(map, id, s) = IF map[b] = id THEN {b} ELSE {}
    BY <1>3, <2>2
  <2> QED BY <2>1, <2>3, <1>4 DEF RightIn
<1>6. CASE b < t - 1
  <2> DEFINE m == Middle(s)
             h == Halved(map, id, s)
  <2>1. /\ m \in Nat /\ b < m /\ m < t
        /\ h \in Spans(length) /\ Size(h) < Size(s)
        /\ h = IF map[m] <= id THEN [bottom |-> m, top |-> t] ELSE [bottom |-> b, top |-> m]
    BY <1>1, <1>6, TurnHalves
  <2>2. f[s] = IF map[m] = id THEN m ELSE f[h]
    BY <1>2, <1>6 DEF Turn
  <2>3. h.bottom < h.top
    BY <2>1
  <2>4. RightIn(map, length, id, h, f[h])
    BY <2>1, <2>3
  <2> HIDE DEF h, m
  <2>5. m \in 0 .. length - 1 /\ map[m] \in Nat
    BY <2>1, <1>1
  <2>6. PlacesIn(map, id, h) = {i \in h.bottom .. h.top - 1 : map[i] = id}
    BY DEF PlacesIn
  <2>7. CASE map[m] = id
    <3>1. m \in b .. t - 1
      BY <2>1, <1>1
    <3>2. f[s] = m /\ m \in PlacesIn(map, id, s)
      BY <3>1, <1>3, <2>2, <2>7
    <3> QED BY <3>2, <1>4 DEF RightIn
  <2>8. CASE map[m] < id
    <3>1. f[s] = f[h] /\ h.bottom = m /\ h.top = t
      BY <2>1, <2>2, <2>5, <2>8
    <3>2. PlacesIn(map, id, h) \subseteq PlacesIn(map, id, s)
      BY <3>1, <2>1, <2>6, <1>1, <1>3
    <3>3. ASSUME Parted(map, length, id), NEW i \in PlacesIn(map, id, s)
          PROVE  i \in PlacesIn(map, id, h)
      <4>1. i \in 0 .. length - 1 /\ i \in b .. t - 1 /\ map[i] = id
        BY <1>1, <1>3
      <4>2. ~(i < m)
        BY <4>1, <2>5, <2>8, <3>3 DEF Parted
      <4>3. i \in m .. t - 1
        BY <4>1, <4>2, <2>1, <1>1
      <4> QED BY <4>1, <4>3, <3>1, <2>6
    <3> QED BY <2>4, <3>1, <3>2, <3>3 DEF RightIn
  <2>9. CASE map[m] > id
    <3>1. f[s] = f[h] /\ h.bottom = b /\ h.top = m
      BY <2>1, <2>2, <2>5, <2>9
    <3>2. PlacesIn(map, id, h) \subseteq PlacesIn(map, id, s)
      BY <3>1, <2>1, <2>6, <1>1, <1>3
    <3>3. ASSUME Parted(map, length, id), NEW i \in PlacesIn(map, id, s)
          PROVE  i \in PlacesIn(map, id, h)
      <4>1. i \in 0 .. length - 1 /\ i \in b .. t - 1 /\ map[i] = id
        BY <1>1, <1>3
      <4>2. ~(m < i) /\ i # m
        BY <4>1, <2>5, <2>9, <3>3 DEF Parted
      <4>3. i \in b .. m - 1
        BY <4>1, <4>2, <2>1, <1>1
      <4> QED BY <4>1, <4>3, <3>1, <2>6
    <3> QED BY <2>4, <3>1, <3>2, <3>3 DEF RightIn
  <2> QED BY <2>5, <2>7, <2>8, <2>9
<1> QED BY <1>5, <1>6

\* The whole table is searched rightly: there is no smallest span that is not.
LEMMA SearchIsRight ==
  ASSUME NEW map, NEW length, NEW id \in Nat, IsTable(map, length)
  PROVE  LET found == c2ip_string_map(map, length, id)
             places == PlacesOf(map, length, id)
         IN  /\ found # NoString => found \in places
             /\ Parted(map, length, id) /\ places # {} => found # NoString
             /\ NoString \notin places
<1>1. length \in Nat /\ length # 0
  BY DEF IsTable
<1>2. PICK f : /\ Searches(map, length, id, f)
               /\ c2ip_string_map(map, length, id) = f[[bottom |-> 0, top |-> length]]
  BY <1>1, SearchIsOne
<1> DEFINE Wrong(n) == \E s \in Spans(length) :
                         s.bottom < s.top /\ Size(s) = n /\ ~RightIn(map, length, id, s, f[s])
           T == {n \in Nat : Wrong(n)}
<1>3. T = {}
  <2> SUFFICES ASSUME T # {} PROVE FALSE
    OBVIOUS
  <2>1. T \subseteq Nat
    OBVIOUS
  <2>2. PICK n \in T : \A m \in T : n <= m
    BY <2>1, Least, Zenon
  <2>3. PICK s \in Spans(length) :
          s.bottom < s.top /\ Size(s) = n /\ ~RightIn(map, length, id, s, f[s])
    OBVIOUS
  <2>4. ASSUME NEW r \in Spans(length), r.bottom < r.top, Size(r) < Size(s)
        PROVE  RightIn(map, length, id, r, f[r])
    <3>1. Size(r) \in Nat /\ Size(s) \in Nat
      BY <1>1, SizeIsNat
    <3>2. Size(r) \notin T
      BY <2>2, <2>3, <2>4, <3>1
    <3> QED BY <3>1, <3>2, <2>4
  <2> HIDE DEF T
  <2>5. RightIn(map, length, id, s, f[s])
    BY <1>2, <2>3, <2>4, EachSpanRight
  <2> QED BY <2>3, <2>5
<1> DEFINE whole == [bottom |-> 0, top |-> length]
<1>4. whole \in Spans(length) /\ whole.bottom = 0 /\ whole.top = length
  BY <1>1 DEF Spans
<1>5. whole.bottom < whole.top /\ Size(whole) \in Nat
  BY <1>1, <1>4, SizeIsNat
<1> HIDE DEF whole
<1>6. RightIn(map, length, id, whole, f[whole]) /\ NoString \notin PlacesIn(map, id, whole)
  BY <1>1, <1>3, <1>4, <1>5, PlacesArePositions
<1>7. PlacesIn(map, id, whole) = PlacesOf(map, length, id)
  BY <1>4 DEF PlacesIn, PlacesOf
<1>8. c2ip_string_map(map, length, id) = f[whole]
  BY <1>2 DEF whole
<1> QED
  BY <1>6, <1>7, <1>8 DEF RightIn

-----------------------------------------------------------------------------
(* The results.                                                            *)

\* No function is shown with the name of another one: whatever the order of a
\* table, c2ip_string_map gives the string of the id or none.
THEOREM NeverAnothersName ==
  ASSUME NEW map, NEW length, NEW id \in Nat, IsTable(map, length),
         c2ip_string_map(map, length, id) # NoString
  PROVE  map[c2ip_string_map(map, length, id)] = id
BY SearchIsRight DEF PlacesOf

\* The name of an id is found if the table is in order as far as that id is
\* concerned; entries that are out of order among themselves do no harm to the
\* others.
THEOREM FoundIfParted ==
  ASSUME NEW map, NEW length, NEW id \in Nat, IsTable(map, length), Parted(map, length, id)
  PROVE  FoundWhereItIs(map, length, id)
BY SearchIsRight DEF FoundWhereItIs

\* In an ascending table every id is found, and no other.
THEOREM FoundIfAscending ==
  ASSUME NEW map, NEW length, NEW id \in Nat, IsTable(map, length), Ascending(map, length)
  PROVE  FoundWhereItIs(map, length, id)
<1>1. Parted(map, length, id)
  <2>1. \A i \in 0 .. length - 1 : map[i] \in Nat
    BY DEF IsTable
  <2> QED BY <2>1 DEF Ascending, Parted
<1> QED BY <1>1, FoundIfParted
=============================================================================
