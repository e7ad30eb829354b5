------------------------------ MODULE StringMap ------------------------------
(***************************************************************************)
(* c2ip_strings.c: the names of the functions, found by their ids in a     *)
(* table.  A table is its ids, as a function on 0 .. length - 1; what is   *)
(* found is a position, in the place of the string there.                  *)
(***************************************************************************)
EXTENDS Integers, Sequences, SequencesExt

\* Nothing is found.
NoString == -1

IsTable(map, length) == length \in Nat \ {0} /\ map \in [0 .. length - 1 -> Nat]

Ascending(map, length) == \A i, j \in 0 .. length - 1 : i < j => map[i] < map[j]

\* bottom and top of the loop.
Spans(length) == [bottom : 0 .. length, top : 0 .. length]

Middle(s) == (s.top + s.bottom) \div 2

\* What a turn of the loop makes of them, when the middle is not the id.
Halved(map, id, s) ==
  IF map[Middle(s)] <= id THEN [s EXCEPT !.bottom = Middle(s)] ELSE [s EXCEPT !.top = Middle(s)]

\* c2ip_string_map.
c2ip_string_map(map, length, id) ==
  LET search[s \in Spans(length)] ==
        IF s.bottom < s.top - 1
        THEN IF map[Middle(s)] = id THEN Middle(s) ELSE search[Halved(map, id, s)]
        ELSE IF map[s.bottom] = id THEN s.bottom ELSE NoString
  IN  search[[bottom |-> 0, top |-> length]]

\* Where an id is, looked for everywhere.
PlacesOf(map, length, id) == {i \in 0 .. length - 1 : map[i] = id}

FoundWhereItIs(map, length, id) ==
  LET found == c2ip_string_map(map, length, id)
  IN  IF PlacesOf(map, length, id) = {} THEN found = NoString
      ELSE found \in PlacesOf(map, length, id)

\* The table of the function names, as the ranges of its ids.
FunctionNameRanges ==
  <<<<513, 538>>, <<540, 542>>, <<544, 547>>, <<549, 549>>, <<552, 552>>, <<564, 574>>,
    <<583, 608>>, <<612, 615>>, <<619, 630>>, <<633, 634>>, <<644, 646>>, <<649, 649>>,
    <<652, 662>>, <<734, 734>>, <<739, 739>>, <<741, 745>>, <<762, 763>>, <<769, 770>>,
    <<772, 772>>, <<775, 776>>, <<778, 780>>, <<782, 785>>, <<787, 787>>, <<789, 790>>,
    <<795, 795>>, <<798, 800>>, <<802, 802>>, <<804, 805>>, <<809, 810>>, <<812, 812>>,
    <<820, 824>>, <<826, 833>>, <<837, 844>>, <<849, 851>>, <<968, 970>>, <<980, 980>>,
    <<983, 988>>, <<1025, 1028>>, <<1030, 1030>>, <<1032, 1037>>, <<1039, 1039>>,
    <<1041, 1042>>, <<1044, 1047>>, <<1050, 1052>>, <<1055, 1058>>, <<1060, 1060>>,
    <<1067, 1067>>, <<1073, 1074>>, <<1077, 1077>>, <<1079, 1082>>, <<1084, 1087>>,
    <<1090, 1090>>, <<1104, 1104>>, <<1129, 1131>>, <<1224, 1226>>, <<1228, 1228>>,
    <<1236, 1236>>, <<1239, 1242>>, <<1244, 1245>>, <<1800, 1801>>, <<1809, 1809>>,
    <<1818, 1818>>, <<2051, 2051>>, <<2061, 2061>>, <<2066, 2066>>, <<2561, 2566>>,
    <<4097, 4098>>, <<8192, 8202>>, <<8204, 8207>>, <<8212, 8217>>, <<8227, 8227>>,
    <<8225, 8226>>, <<8228, 8228>>, <<8236, 8236>>, <<8239, 8239>>, <<8242, 8242>>,
    <<8244, 8244>>, <<8246, 8246>>, <<8248, 8248>>, <<8257, 8257>>, <<8260, 8261>>,
    <<8264, 8267>>, <<8272, 8281>>, <<8283, 8285>>, <<8288, 8343>>, <<8448, 8469>>>>

\* c2ip_funtion_name_map: 8227 stands before 8225.
FunctionNames ==
  LET Ids(r) == [i \in 1 .. r[2] - r[1] + 1 |-> r[1] + i - 1]
      ids    == FlattenSeq([k \in DOMAIN FunctionNameRanges |-> Ids(FunctionNameRanges[k])])
  IN  [i \in 0 .. Len(ids) - 1 |-> ids[i + 1]]
=============================================================================
