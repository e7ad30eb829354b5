----------------------------- MODULE MapperProofs -----------------------------
(***************************************************************************)
(* Bindings, the database and the two maps of Mapper, for any set of       *)
(* functions, objects, channels and limits, and with any write to the      *)
(* database failing; and the page of MappingPage, whose steps are steps of *)
(* Mapper because its rows hold limits a mapping may have.                 *)
(*                                                                         *)
(* The proof is in two layers.  IInv, about entries, objects and rows,     *)
(* needs nothing of channel_map.  MapInv, on top of it, is about           *)
(* channel_map: g_sequence_sort, g_sequence_insert_sorted and              *)
(* g_sequence_remove keep it sorted because map_cmp is a total order of    *)
(* the functions that are mapped.                                          *)
(***************************************************************************)
EXTENDS MappingPage, SequenceTheorems, FiniteSetTheorems, TLAPS

\* The types, without order and without the bound on rows; a process that does
\* not run holds nothing.
DataOK ==
  /\ up \in BOOLEAN
  /\ Mapped \subseteq Functions /\ \A f \in Mapped : entry[f] \in Entries
  /\ db \in [Functions -> Seq(Rows)] /\ dbFailed \subseteq Functions
  /\ contested \subseteq Functions
  /\ object \in [Objects -> {"absent", "live", "ready"}]
  /\ ~up => Mapped = {} /\ \A o \in Objects : ~Live(o)

\* Two live objects of one function make it contested.
Contested ==
  \A o, p \in Objects : Live(o) /\ Live(p) /\ KeyOf[o] = KeyOf[p] => o = p \/ KeyOf[o] \in contested

IInv == DataOK /\ Contested /\ BoundToLive /\ BoundWhenReady /\ DbCurrent

-----------------------------------------------------------------------------
(* Rows.                                                                   *)

\* An entry has a row.
LEMMA RowOfEntry == ASSUME NEW e \in Entries PROVE Row(e) \in Rows
  BY DEF Entries, Rows, Row

\* What is inserted becomes the last row.
LEMMA InsertedLast ==
  ASSUME NEW rows \in Seq(Rows), NEW e \in Entries, NEW ok \in BOOLEAN
  PROVE  /\ Insert(rows, e, ok) \in Seq(Rows)
         /\ ok => Insert(rows, e, ok) # << >> /\ Last(Insert(rows, e, ok)) = Row(e)
<1>1. Row(e) \in Rows
  BY RowOfEntry
<1>2. /\ Append(rows, Row(e)) \in Seq(Rows)
      /\ Len(Append(rows, Row(e))) = Len(rows) + 1
      /\ Append(rows, Row(e))[Len(rows) + 1] = Row(e)
      /\ Append(rows, Row(e)) # << >>
  BY <1>1, AppendProperties
<1> QED BY <1>2 DEF Insert, Last

\* What is deleted leaves no row, or all of them.
LEMMA DeletedRows ==
  ASSUME NEW rows \in Seq(Rows), NEW ok \in BOOLEAN
  PROVE  Delete(rows, ok) \in Seq(Rows) /\ (ok => Delete(rows, ok) = << >>)
  BY DEF Delete

\* An update keeps the channel of the last row.
LEMMA UpdatedLast ==
  ASSUME NEW rows \in Seq(Rows), NEW e \in Entries, NEW ok \in BOOLEAN
  PROVE  /\ Update(rows, e, ok) \in Seq(Rows)
         /\ ok /\ rows # << >> /\ Last(rows).channel = e.channel =>
              Update(rows, e, ok) # << >> /\ Last(Update(rows, e, ok)) = Row(e)
         /\ rows = << >> => Update(rows, e, ok) = << >>
<1> DEFINE new == [i \in DOMAIN rows |-> [Row(e) EXCEPT !.channel = rows[i].channel]]
<1>1. DOMAIN rows = 1 .. Len(rows) /\ Len(rows) \in Nat /\ \A i \in 1 .. Len(rows) : rows[i] \in Rows
  BY ElementOfSeq, LenProperties
<1>2. \A i \in 1 .. Len(rows) : new[i] \in Rows
  BY <1>1 DEF Rows, Row, Entries
<1>3. new \in Seq(Rows) /\ Len(new) = Len(rows)
  BY <1>1, <1>2, IsASeq, LenProperties
<1>4. ASSUME rows # << >>, Last(rows).channel = e.channel
      PROVE  new # << >> /\ Last(new) = Row(e)
  <2>1. Len(rows) \in 1 .. Len(rows)
    BY <1>4, <1>1, EmptySeq
  <2>2. new[Len(rows)] = [Row(e) EXCEPT !.channel = rows[Len(rows)].channel]
    BY <2>1, <1>1
  <2>3. rows[Len(rows)] \in Rows /\ rows[Len(rows)].channel = e.channel
    BY <2>1, <1>1, <1>4 DEF Last
  <2>4. new[Len(rows)] = Row(e)
    BY <2>2, <2>3 DEF Rows, Row
  <2> QED BY <2>1, <2>4, <1>3, EmptySeq DEF Last
<1>5. ASSUME rows = << >> PROVE new = << >>
  BY <1>5, <1>1, <1>3, EmptySeq
<1> QED BY <1>3, <1>4, <1>5 DEF Update

-----------------------------------------------------------------------------
(* Entries.                                                                *)

\* An entry of function f has been replaced or added, and its objects are as
\* they were.
LEMMA EntryReplaced ==
  ASSUME IInv, MapperAssumption,
         NEW f \in Functions, NEW e \in Entries, up, up' = up,
         entry' = With(entry, f, e), UNCHANGED objVars,
         e.function # Null => Live(e.function) /\ KeyOf[e.function] = f,
         \A o \in Objects : object[o] = "ready" /\ KeyOf[o] = f /\ f \notin contested
                              => e.function = o
  PROVE  /\ Mapped' = Mapped \cup {f} /\ Mapped' \subseteq Functions
         /\ entry'[f] = e /\ \A g \in Mapped' : g # f => g \in Mapped /\ entry'[g] = entry[g]
         /\ \A g \in Mapped' : entry'[g] \in Entries
         /\ Contested' /\ BoundToLive' /\ BoundWhenReady'
<1>1. /\ Mapped' = Mapped \cup {f} /\ Mapped' \subseteq Functions
      /\ entry'[f] = e /\ \A g \in Mapped' : g # f => g \in Mapped /\ entry'[g] = entry[g]
      /\ \A g \in Mapped' : entry'[g] \in Entries
  BY DEF IInv, DataOK, Mapped, With
<1>2. \A o : Live(o)' = Live(o)
  BY DEF Live, objVars
<1>3. Contested'
  BY <1>2 DEF IInv, Contested, objVars
<1>4. BoundToLive'
  BY <1>1, <1>2 DEF IInv, BoundToLive
<1>5. BoundWhenReady'
  BY <1>1 DEF IInv, BoundWhenReady, objVars
<1> QED BY <1>1, <1>3, <1>4, <1>5

\* A function is mapped or moved.
LEMMA AddMapFunctionKeeps ==
  ASSUME IInv, MapperAssumption,
         NEW o \in Objects, NEW c \in Channels, NEW min \in Limits, NEW max \in Limits,
         NEW d \in BOOLEAN, NEW i \in BOOLEAN, AddMapFunction(o, c, min, max, d, i)
  PROVE  IInv'
<1> DEFINE f == KeyOf[o]
           e == [channel |-> c, min |-> min, max |-> max, function |-> o]
<1>1. f \in Functions /\ e \in Entries /\ o # Null
  BY DEF MapperAssumption, Entries
<1>2. /\ up /\ up' = up /\ Live(o) /\ UNCHANGED objVars
      /\ entry' = With(entry, f, e)
      /\ db' = [db EXCEPT ![f] = Insert(Delete(@, d), e, i)] \/ db' = [db EXCEPT ![f] = Insert(@, e, i)]
      /\ dbFailed' = Marked(f, ~i)
  BY DEF AddMapFunction, AddEntry
<1>3. \A p \in Objects : object[p] = "ready" /\ KeyOf[p] = f /\ f \notin contested => o = p
  BY <1>2 DEF IInv, Contested, Live
<1>4. /\ Mapped' = Mapped \cup {f} /\ Mapped' \subseteq Functions
      /\ entry'[f] = e /\ \A g \in Mapped' : g # f => g \in Mapped /\ entry'[g] = entry[g]
      /\ \A g \in Mapped' : entry'[g] \in Entries
      /\ Contested' /\ BoundToLive' /\ BoundWhenReady'
  <2>1. e.function # Null => Live(e.function) /\ KeyOf[e.function] = f
    BY <1>2
  <2>2. \A p \in Objects : object[p] = "ready" /\ KeyOf[p] = f /\ f \notin contested => e.function = p
    BY <1>3
  <2> HIDE DEF f, e
  <2> QED BY <1>1, <1>2, <2>1, <2>2, EntryReplaced
<1>5. /\ db' \in [Functions -> Seq(Rows)]
      /\ \A g \in Functions : g # f => db'[g] = db[g]
      /\ i => db'[f] # << >> /\ Last(db'[f]) = Row(e)
  <2>1. db \in [Functions -> Seq(Rows)] /\ db[f] \in Seq(Rows)
    BY <1>1 DEF IInv, DataOK
  <2>2. Delete(db[f], d) \in Seq(Rows)
    BY <2>1, DeletedRows
  <2>3. /\ Insert(db[f], e, i) \in Seq(Rows)
        /\ i => Insert(db[f], e, i) # << >> /\ Last(Insert(db[f], e, i)) = Row(e)
    BY <2>1, <1>1, InsertedLast
  <2>4. /\ Insert(Delete(db[f], d), e, i) \in Seq(Rows)
        /\ i => Insert(Delete(db[f], d), e, i) # << >> /\ Last(Insert(Delete(db[f], d), e, i)) = Row(e)
    BY <2>2, <1>1, InsertedLast
  <2>5. db' = [db EXCEPT ![f] = Insert(Delete(@, d), e, i)] \/ db' = [db EXCEPT ![f] = Insert(@, e, i)]
    BY <1>2
  <2> HIDE DEF f, e
  <2>6. CASE db' = [db EXCEPT ![f] = Insert(Delete(@, d), e, i)]
    BY <1>1, <2>1, <2>4, <2>6
  <2>7. CASE db' = [db EXCEPT ![f] = Insert(@, e, i)]
    BY <1>1, <2>1, <2>3, <2>7
  <2> QED BY <2>5, <2>6, <2>7
<1>6. DataOK'
  BY <1>1, <1>2, <1>4, <1>5 DEF IInv, DataOK, Marked, objVars
<1>7. DbCurrent'
  <2> SUFFICES ASSUME NEW g \in Functions \ dbFailed'
               PROVE  IF g \in Mapped' THEN db'[g] # << >> /\ Last(db'[g]) = Row(entry'[g])
                      ELSE db'[g] = << >>
    BY DEF DbCurrent
  <2>1. CASE g = f
    BY <2>1, <1>2, <1>4, <1>5 DEF Marked
  <2>2. CASE g # f
    BY <2>2, <1>2, <1>4, <1>5 DEF IInv, DbCurrent, Marked
  <2> QED BY <2>1, <2>2
<1> QED BY <1>4, <1>6, <1>7 DEF IInv

\* A mapping is removed.
LEMMA RemoveFuncKeeps ==
  ASSUME IInv, MapperAssumption, NEW f \in Functions, NEW d \in BOOLEAN, RemoveFunc(f, d)
  PROVE  IInv'
<1>1. /\ up /\ up' = up /\ f \in Mapped /\ entry' = Without(entry, f) /\ UNCHANGED objVars
      /\ db' = [db EXCEPT ![f] = Delete(@, d)] /\ dbFailed' = Marked(f, ~d)
  BY DEF RemoveFunc
<1>2. Mapped' = Mapped \ {f} /\ \A g \in Mapped' : entry'[g] = entry[g]
  BY <1>1 DEF Mapped, Without
<1>3. /\ db' \in [Functions -> Seq(Rows)] /\ \A g \in Functions : g # f => db'[g] = db[g]
      /\ d => db'[f] = << >>
  <2>1. db \in [Functions -> Seq(Rows)] /\ db[f] \in Seq(Rows)
    BY DEF IInv, DataOK
  <2>2. Delete(db[f], d) \in Seq(Rows) /\ (d => Delete(db[f], d) = << >>)
    BY <2>1, DeletedRows
  <2> QED BY <1>1, <2>1, <2>2
<1>4. DataOK'
  BY <1>1, <1>2, <1>3 DEF IInv, DataOK, Marked, objVars
<1>5. \A o : Live(o)' = Live(o)
  BY <1>1 DEF Live, objVars
<1>6. Contested' /\ BoundToLive' /\ BoundWhenReady'
  BY <1>1, <1>2, <1>5 DEF IInv, Contested, BoundToLive, BoundWhenReady, objVars
<1>7. DbCurrent'
  BY <1>1, <1>2, <1>3 DEF IInv, DbCurrent, Marked
<1> QED BY <1>4, <1>6, <1>7 DEF IInv

\* SetMin and SetMax change nothing of an entry but a limit.
LEMMA SetLimitsKeeps ==
  ASSUME IInv, MapperAssumption, NEW f \in Functions, NEW u \in BOOLEAN, NEW e \in Entries,
         f \in Mapped => e.channel = entry[f].channel /\ e.function = entry[f].function,
         SetLimits(f, e, u)
  PROVE  IInv'
<1>1. /\ up /\ up' = up /\ f \in Mapped /\ entry' = [entry EXCEPT ![f] = e] /\ UNCHANGED objVars
      /\ db' = [db EXCEPT ![f] = Update(@, e, u)] /\ dbFailed' = Marked(f, ~u \/ f \in dbFailed)
  BY DEF SetLimits
<1>2. Mapped' = Mapped /\ entry'[f] = e /\ \A g \in Mapped : g # f => entry'[g] = entry[g]
  BY <1>1 DEF Mapped
<1>3. db \in [Functions -> Seq(Rows)] /\ db[f] \in Seq(Rows)
  BY DEF IInv, DataOK
<1>4. /\ Update(db[f], e, u) \in Seq(Rows)
      /\ u /\ db[f] # << >> /\ Last(db[f]).channel = e.channel =>
           Update(db[f], e, u) # << >> /\ Last(Update(db[f], e, u)) = Row(e)
  BY <1>3, UpdatedLast
<1>5. /\ db' \in [Functions -> Seq(Rows)] /\ db'[f] = Update(db[f], e, u)
      /\ \A g \in Functions : g # f => db'[g] = db[g]
  BY <1>1, <1>3, <1>4
<1>6. DataOK'
  BY <1>1, <1>2, <1>5 DEF IInv, DataOK, Marked, objVars
<1>7. \A o : Live(o)' = Live(o)
  BY <1>1 DEF Live, objVars
<1>8. Contested'
  BY <1>1, <1>7 DEF IInv, Contested, objVars
<1>9. BoundToLive'
  BY <1>1, <1>2, <1>7 DEF IInv, BoundToLive
<1>10. BoundWhenReady'
  BY <1>1, <1>2 DEF IInv, BoundWhenReady, objVars
<1>11. DbCurrent'
  <2> SUFFICES ASSUME NEW g \in Functions \ dbFailed'
               PROVE  IF g \in Mapped' THEN db'[g] # << >> /\ Last(db'[g]) = Row(entry'[g])
                      ELSE db'[g] = << >>
    BY DEF DbCurrent
  <2>1. CASE g = f
    <3>1. u /\ f \notin dbFailed
      BY <2>1, <1>1 DEF Marked
    <3>2. db[f] # << >> /\ Last(db[f]).channel = e.channel
      <4>1. db[f] # << >> /\ Last(db[f]) = Row(entry[f])
        BY <3>1, <1>1 DEF IInv, DbCurrent
      <4>2. Row(entry[f]).channel = entry[f].channel
        BY DEF Row
      <4> QED BY <4>1, <4>2, <1>1
    <3> QED BY <2>1, <3>1, <3>2, <1>1, <1>2, <1>4, <1>5
  <2>2. CASE g # f
    BY <2>2, <1>1, <1>2, <1>5 DEF IInv, DbCurrent, Marked
  <2> QED BY <2>1, <2>2
<1> QED BY <1>6, <1>8, <1>9, <1>10, <1>11 DEF IInv

-----------------------------------------------------------------------------
(* Objects.                                                                *)

\* An object is created; a second one makes its function contested.
LEMMA CreateKeeps ==
  ASSUME IInv, MapperAssumption, NEW o \in Objects, Create(o)
  PROVE  IInv'
<1>1. /\ up /\ ~Live(o) /\ UNCHANGED <<memVars, dbVars>>
      /\ object' = [object EXCEPT ![o] = "live"]
      /\ contested' = IF \E p \in Objects : KeyOf[p] = KeyOf[o] /\ Live(p)
                      THEN contested \cup {KeyOf[o]} ELSE contested
  BY DEF Create
<1>2. /\ object' \in [Objects -> {"absent", "live", "ready"}] /\ object'[o] = "live"
      /\ \A p \in Objects : p # o => object'[p] = object[p]
  BY <1>1 DEF IInv, DataOK
<1>3. /\ Mapped' = Mapped /\ entry' = entry /\ up' = up /\ db' = db /\ dbFailed' = dbFailed
      /\ contested \subseteq contested'
  BY <1>1 DEF Mapped, memVars, dbVars
<1>4. \A p \in Objects : (p # o => Live(p)' = Live(p)) /\ (Live(p) => Live(p)')
  BY <1>1, <1>2 DEF Live
<1>5. DataOK'
  <2>1. KeyOf[o] \in Functions
    BY DEF MapperAssumption
  <2>2. contested' \subseteq Functions
    BY <2>1, <1>1 DEF IInv, DataOK
  <2>3. \A f \in Mapped' : entry'[f] \in Entries
    BY <1>3 DEF IInv, DataOK
  <2> QED BY <2>2, <2>3, <1>1, <1>2, <1>3 DEF IInv, DataOK
<1>6. Contested'
  BY <1>1, <1>3, <1>4 DEF IInv, Contested
<1>7. BoundToLive'
  BY <1>3, <1>4 DEF IInv, DataOK, BoundToLive, Entries
<1>8. BoundWhenReady'
  BY <1>2, <1>3 DEF IInv, BoundWhenReady
<1>9. DbCurrent'
  BY <1>3 DEF IInv, DbCurrent
<1> QED BY <1>5, <1>6, <1>7, <1>8, <1>9 DEF IInv

\* An object becomes ready, and its entry is bound to it.
LEMMA BindFunctionKeeps ==
  ASSUME IInv, MapperAssumption, NEW o \in Objects, BindFunction(o)
  PROVE  IInv'
<1> DEFINE f == KeyOf[o]
           binds == f \in Mapped /\ entry[f].function = Null
<1>1. /\ up /\ object[o] = "live" /\ UNCHANGED <<up, dbVars, contested>>
      /\ object' = [object EXCEPT ![o] = "ready"]
      /\ entry' = IF binds THEN [entry EXCEPT ![f].function = o] ELSE entry
  BY DEF BindFunction
<1>2. /\ object' \in [Objects -> {"absent", "live", "ready"}] /\ object'[o] = "ready"
      /\ \A p \in Objects : p # o => object'[p] = object[p]
  BY <1>1 DEF IInv, DataOK
<1>3. \A p \in Objects : Live(p)' = Live(p)
  BY <1>1, <1>2 DEF Live
<1>4. /\ Mapped' = Mapped /\ f \in Functions
      /\ \A g \in Mapped : /\ entry'[g] \in Entries /\ Row(entry'[g]) = Row(entry[g])
                           /\ entry'[g].function = IF g = f /\ entry[f].function = Null THEN o
                                                   ELSE entry[g].function
  <2>1. f \in Functions
    BY DEF MapperAssumption
  <2>2. CASE binds
    <3>1. Mapped' = Mapped /\ \A g \in Mapped : entry'[g] = IF g = f THEN [entry[f] EXCEPT !.function = o]
                                                            ELSE entry[g]
      BY <1>1, <2>2 DEF Mapped
    <3>2. \A g \in Mapped : entry[g] \in Entries
      BY DEF IInv, DataOK
    <3>3. [entry[f] EXCEPT !.function = o] \in Entries
          /\ Row([entry[f] EXCEPT !.function = o]) = Row(entry[f])
          /\ [entry[f] EXCEPT !.function = o].function = o
      BY <2>2, <3>2 DEF Entries, Row
    <3> QED BY <2>1, <2>2, <3>1, <3>2, <3>3
  <2>3. CASE ~binds
    BY <1>1, <2>1, <2>3 DEF IInv, DataOK, Mapped
  <2> QED BY <2>2, <2>3
<1>5. DataOK'
  BY <1>1, <1>2, <1>4 DEF IInv, DataOK, dbVars
<1>6. Contested'
  BY <1>1, <1>3 DEF IInv, Contested
<1>7. Live(o)
  BY <1>1 DEF Live
<1> HIDE DEF binds
<1>8. BoundToLive'
  <2> SUFFICES ASSUME NEW g \in Mapped, entry'[g].function # Null
               PROVE  object'[entry'[g].function] # "absent" /\ KeyOf[entry'[g].function] = g
    BY <1>4 DEF BoundToLive, Live
  <2>1. entry'[g].function \in Objects
    BY <1>4 DEF Entries
  <2>2. Live(entry'[g].function) /\ KeyOf[entry'[g].function] = g
    BY <1>4, <1>7 DEF IInv, BoundToLive
  <2> QED BY <1>3, <2>1, <2>2 DEF Live
<1>9. BoundWhenReady'
  <2> SUFFICES ASSUME NEW p \in Objects, object'[p] = "ready", KeyOf[p] \in Mapped \ contested
               PROVE  entry'[KeyOf[p]].function = p
    BY <1>1, <1>4 DEF BoundWhenReady
  <2>1. CASE p = o
    <3>1. entry[f].function \in Objects \cup {Null}
      BY <2>1 DEF IInv, DataOK, Entries
    <3>2. entry[f].function # Null => entry[f].function = o
      BY <2>1, <3>1, <1>7 DEF IInv, BoundToLive, Contested
    <3> QED BY <2>1, <3>2, <1>4
  <2>2. CASE p # o
    <3>1. entry[KeyOf[p]].function = p
      BY <2>2, <1>2 DEF IInv, BoundWhenReady
    <3>2. p # Null
      BY DEF MapperAssumption
    <3> QED BY <3>1, <3>2, <1>4
  <2> QED BY <2>1, <2>2
<1>10. DbCurrent'
  BY <1>1, <1>4 DEF IInv, DataOK, DbCurrent, dbVars
<1> QED BY <1>5, <1>6, <1>8, <1>9, <1>10 DEF IInv

\* Closing connections takes nothing from an entry but its object.
LEMMA ClosedEntries ==
  ASSUME IInv, MapperAssumption, NEW K, Closes(K)
  PROVE  /\ Mapped' = Mapped
         /\ \A f \in Mapped :
              /\ entry'[f] \in Entries
              /\ entry'[f].channel = entry[f].channel
              /\ entry'[f].min = entry[f].min /\ entry'[f].max = entry[f].max
              /\ entry'[f].function = IF entry[f].function # Null /\ ConnectionOf[entry[f].function] \in K
                                      THEN Null ELSE entry[f].function
<1>1. entry' = [f \in Mapped |-> IF entry[f].function # Null /\ ConnectionOf[entry[f].function] \in K
                                 THEN [entry[f] EXCEPT !.function = Null] ELSE entry[f]]
  BY DEF Closes
<1>2. \A f \in Mapped : entry[f] \in Entries
  BY DEF IInv, DataOK
<1>3. Mapped' = Mapped
  BY <1>1 DEF Mapped
<1> QED BY <1>1, <1>2, <1>3 DEF Entries

\* Connections are closed, and the entries bound to their objects lose these.
LEMMA ClosesKeeps ==
  ASSUME IInv, MapperAssumption, NEW K, up, Closes(K), UNCHANGED <<up, dbVars, contested>>
  PROVE  IInv'
<1>1. object' = [o \in Objects |-> IF ConnectionOf[o] \in K THEN "absent" ELSE object[o]]
  BY DEF Closes
<1>2. object' \in [Objects -> {"absent", "live", "ready"}]
  BY <1>1 DEF IInv, DataOK
<1>3. \A p \in Objects : IF ConnectionOf[p] \in K THEN ~Live(p)' ELSE Live(p)' = Live(p)
  BY <1>1 DEF Live
<1>4. /\ Mapped' = Mapped
      /\ \A f \in Mapped :
           /\ entry'[f] \in Entries /\ Row(entry'[f]) = Row(entry[f])
           /\ entry'[f].function = IF entry[f].function # Null /\ ConnectionOf[entry[f].function] \in K
                                   THEN Null ELSE entry[f].function
  BY ClosedEntries DEF Row
<1>5. DataOK'
  BY <1>2, <1>4 DEF IInv, DataOK, dbVars
<1>6. Contested'
  BY <1>3 DEF IInv, Contested
<1>7. BoundToLive'
  <2> SUFFICES ASSUME NEW g \in Mapped, entry'[g].function # Null
               PROVE  object'[entry'[g].function] # "absent" /\ KeyOf[entry'[g].function] = g
    BY <1>4 DEF BoundToLive, Live
  <2>1. entry'[g].function = entry[g].function /\ ConnectionOf[entry[g].function] \notin K
    BY <1>4
  <2>2. entry[g].function \in Objects
    BY <2>1 DEF IInv, DataOK, Entries
  <2> QED BY <1>3, <2>1, <2>2 DEF IInv, BoundToLive, Live
<1>8. BoundWhenReady'
  <2> SUFFICES ASSUME NEW p \in Objects, object'[p] = "ready", KeyOf[p] \in Mapped \ contested
               PROVE  entry'[KeyOf[p]].function = p
    BY <1>4 DEF BoundWhenReady
  <2>1. ConnectionOf[p] \notin K /\ object[p] = "ready"
    BY <1>1
  <2>2. entry[KeyOf[p]].function = p
    BY <2>1 DEF IInv, BoundWhenReady
  <2> QED BY <2>1, <2>2, <1>4
<1>9. DbCurrent'
  BY <1>4 DEF IInv, DbCurrent, dbVars
<1> QED BY <1>5, <1>6, <1>7, <1>8, <1>9 DEF IInv

\* What a level does to entries and objects is to close connections, if anything.
LEMMA LevelCloses ==
  ASSUME NEW c, NEW v, SetChannel(c, v)
  PROVE  /\ up /\ UNCHANGED <<up, order, dbVars, contested>>
         /\ UNCHANGED <<entry, object>> \/ \E K : Closes(K)
BY DEF SetChannel

-----------------------------------------------------------------------------
(* The process.                                                            *)

\* The process ends: nothing is left in memory.
LEMMA LostKeeps ==
  ASSUME IInv, MapperAssumption, Lost,
         db' \in [Functions -> Seq(Rows)], dbFailed' = dbFailed
  PROVE  IInv'
<1>1. up' = FALSE /\ Mapped' = {} /\ \A o \in Objects : object'[o] = "absent"
  BY DEF Lost, Mapped
<1>2. \A o \in Objects : ~Live(o)'
  BY <1>1 DEF Live
<1>3. DataOK'
  BY <1>1, <1>2 DEF IInv, DataOK, Lost
<1>4. Contested' /\ BoundToLive' /\ BoundWhenReady' /\ DbCurrent'
  BY <1>1, <1>2 DEF Contested, BoundToLive, BoundWhenReady, DbCurrent
<1> QED BY <1>3, <1>4 DEF IInv

\* The process starts with what the database has.
LEMMA ReadDbKeeps ==
  ASSUME IInv, MapperAssumption, ReadDb
  PROVE  IInv'
<1>1. /\ ~up /\ up' = TRUE /\ dbFailed' = {} /\ db' = db /\ UNCHANGED objVars
      /\ entry' = [f \in {g \in Functions : db[g] # << >>} |->
                     LET r == Last(db[f]) IN
                     [channel |-> r.channel, min |-> r.min, max |-> r.max, function |-> Null]]
  BY DEF ReadDb
<1>2. Mapped' = {g \in Functions : db[g] # << >>}
  BY <1>1 DEF Mapped
<1>3. \A f \in Mapped' : Last(db[f]) \in Rows
  <2> SUFFICES ASSUME NEW f \in Mapped' PROVE Last(db[f]) \in Rows
    OBVIOUS
  <2>1. db[f] \in Seq(Rows) /\ db[f] # << >>
    BY <1>2 DEF IInv, DataOK
  <2>2. Len(db[f]) \in 1 .. Len(db[f])
    BY <2>1, LenProperties, EmptySeq
  <2> QED BY <2>1, <2>2, ElementOfSeq DEF Last
<1>4. \A f \in Mapped' : /\ entry'[f] \in Entries /\ entry'[f].function = Null
                         /\ Row(entry'[f]) = Last(db[f])
  <2> SUFFICES ASSUME NEW f \in Mapped'
               PROVE  /\ entry'[f] \in Entries /\ entry'[f].function = Null
                      /\ Row(entry'[f]) = Last(db[f])
    OBVIOUS
  <2>1. entry'[f] = [channel |-> Last(db[f]).channel, min |-> Last(db[f]).min,
                     max |-> Last(db[f]).max, function |-> Null]
    BY <1>1, <1>2
  <2> QED BY <2>1, <1>3 DEF Rows, Entries, Row
<1>5. \A o \in Objects : ~Live(o)' /\ object'[o] # "ready"
  BY <1>1 DEF IInv, DataOK, Live, objVars
<1>6. DataOK'
  BY <1>1, <1>2, <1>4 DEF IInv, DataOK, objVars
<1>7. Contested' /\ BoundToLive' /\ BoundWhenReady'
  BY <1>4, <1>5 DEF Contested, BoundToLive, BoundWhenReady
<1>8. DbCurrent'
  BY <1>1, <1>2, <1>4 DEF DbCurrent
<1> QED BY <1>6, <1>7, <1>8 DEF IInv

-----------------------------------------------------------------------------
(* Theorems.                                                               *)

\* It holds at first.
LEMMA InitHolds == ASSUME Init PROVE IInv
<1>1. Mapped = {} /\ \A o \in Objects : ~Live(o) /\ object[o] # "ready"
  BY DEF Init, Mapped, Live
<1>2. db \in [Functions -> Seq(Rows)] /\ \A f \in Functions : db[f] = << >>
  BY DEF Init
<1>3. DataOK
  BY <1>1, <1>2 DEF Init, DataOK
<1> QED BY <1>1, <1>2, <1>3 DEF IInv, Contested, BoundToLive, BoundWhenReady, DbCurrent

\* Each step keeps IInv.
LEMMA StepKeeps == ASSUME IInv, [Next]_vars PROVE IInv'
<1> USE MapperAssumption
<1>1. ASSUME NEW o \in Objects, NEW c \in Channels, NEW min \in Limits, NEW max \in Limits,
             NEW d \in BOOLEAN, NEW i \in BOOLEAN, AddMapFunction(o, c, min, max, d, i)
      PROVE  IInv'
  <2>1. d \in BOOLEAN /\ i \in BOOLEAN
    BY DEF MapperAssumption
  <2> QED BY <1>1, <2>1, AddMapFunctionKeeps
<1>2. ASSUME NEW f \in Functions, NEW d \in BOOLEAN, RemoveFunc(f, d) PROVE IInv'
  <2>1. d \in BOOLEAN
    BY DEF MapperAssumption
  <2> QED BY <1>2, <2>1, RemoveFuncKeeps
<1>3. ASSUME NEW f \in Functions, NEW m \in Limits, NEW u \in BOOLEAN,
             SetMin(f, m, u) \/ SetMax(f, m, u)
      PROVE  IInv'
  <2>1. u \in BOOLEAN /\ f \in Mapped /\ entry[f] \in Entries
    BY <1>3 DEF MapperAssumption, SetMin, SetMax, SetLimits, IInv, DataOK
  <2>2. CASE SetMin(f, m, u)
    <3> DEFINE e == [entry[f] EXCEPT !.min = m]
    <3>1. e \in Entries /\ e.channel = entry[f].channel /\ e.function = entry[f].function
      BY <2>1 DEF Entries
    <3>2. SetLimits(f, e, u)
      BY <2>2 DEF SetMin
    <3> HIDE DEF e
    <3> QED BY <2>1, <3>1, <3>2, SetLimitsKeeps
  <2>3. CASE SetMax(f, m, u)
    <3> DEFINE e == [entry[f] EXCEPT !.max = m]
    <3>1. e \in Entries /\ e.channel = entry[f].channel /\ e.function = entry[f].function
      BY <2>1 DEF Entries
    <3>2. SetLimits(f, e, u)
      BY <2>3 DEF SetMax
    <3> HIDE DEF e
    <3> QED BY <2>1, <3>1, <3>2, SetLimitsKeeps
  <2> QED BY <1>3, <2>2, <2>3
<1>4. ASSUME NEW o \in Objects, Create(o) PROVE IInv'
  BY <1>4, CreateKeeps
<1>5. ASSUME NEW o \in Objects, BindFunction(o) PROVE IInv'
  BY <1>5, BindFunctionKeeps
<1>6. ASSUME NEW k \in Connections, Destroy(k) PROVE IInv'
  BY <1>6, ClosesKeeps DEF Destroy
<1>7. ASSUME UNCHANGED <<memVars, dbVars, objVars>> PROVE IInv'
  <2>1. Mapped' = Mapped /\ \A o : Live(o)' = Live(o)
    BY <1>7 DEF Mapped, Live, memVars, objVars
  <2> QED BY <1>7, <2>1 DEF IInv, DataOK, Contested, BoundToLive, BoundWhenReady, DbCurrent,
                            memVars, dbVars, objVars
<1>8. ASSUME NEW c \in Channels, NEW v \in Levels, SetChannel(c, v) PROVE IInv'
  <2>1. up /\ UNCHANGED <<up, order, dbVars, contested>>
    BY <1>8, LevelCloses
  <2>2. CASE UNCHANGED <<entry, object>>
    BY <1>7, <2>1, <2>2 DEF memVars, objVars
  <2>3. ASSUME NEW K, Closes(K) PROVE IInv'
    BY <2>1, <2>3, ClosesKeeps
  <2> QED BY <1>8, <2>2, <2>3, LevelCloses
<1>9. CASE Stop
  <2>1. Lost /\ db' \in [Functions -> Seq(Rows)] /\ dbFailed' = dbFailed
    BY <1>9 DEF Stop, IInv, DataOK, dbVars
  <2> QED BY <2>1, LostKeeps
<1>10. ASSUME NEW o \in Objects, StopInRemap(o) PROVE IInv'
  <2>1. Lost /\ db' \in [Functions -> Seq(Rows)] /\ dbFailed' = dbFailed
    BY <1>10 DEF StopInRemap, IInv, DataOK
  <2> QED BY <2>1, LostKeeps
<1>11. CASE ReadDb
  BY <1>11, ReadDbKeeps
<1>12. CASE UNCHANGED vars
  BY <1>7, <1>12 DEF vars
<1> QED BY <1>1, <1>2, <1>3, <1>4, <1>5, <1>6, <1>8, <1>9, <1>10, <1>11, <1>12 DEF Next

\* IInv is an inductive invariant of the mapper.
THEOREM Inductive == Spec => []IInv
<1>1. Init => IInv
  BY InitHolds
<1>2. IInv /\ [Next]_vars => IInv'
  BY StepKeeps
<1> QED BY <1>1, <1>2, PTL DEF Spec

\* Whatever comes and goes, an entry is bound to a live object of its own
\* function or to none: the weak pointer of dmx_c2ip_mapper.c:433 never dangles.
THEOREM BindingsLive == Spec => []BoundToLive
<1>1. IInv => BoundToLive
  BY DEF IInv
<1> QED BY <1>1, Inductive, PTL

\* A mapped function whose connection is ready is bound to its object, unless
\* it has had two objects at once, through any sequence of connections,
\* mappings and restarts.
THEOREM ReadyBound == Spec => []BoundWhenReady
<1>1. IInv => BoundWhenReady
  BY DEF IInv
<1> QED BY <1>1, Inductive, PTL

\* A restart brings back the mappings in memory, except for functions whose
\* last decisive write failed, whichever writes fail.
THEOREM DatabaseCurrent == Spec => []DbCurrent
<1>1. IInv => DbCurrent
  BY DEF IInv
<1> QED BY <1>1, Inductive, PTL

-----------------------------------------------------------------------------
(* What the database forgets.                                              *)

Forgets(f) == db[f] # << >> /\ db'[f] = << >>

\* How a change of channel may lose a mapping: stopped between its two
\* transactions, or with the first of them done and the second failed.
LostInRemap(f) ==
  \E o \in Objects :
    /\ KeyOf[o] = f
    /\ \/ StopInRemap(o)
       \/ \E c \in Channels, min, max \in Limits : AddMapFunction(o, c, min, max, TRUE, FALSE)

\* A mapping is added or moved: its rows are gone only if they were deleted and
\* the new one was not inserted.
LEMMA AddForgets ==
  ASSUME IInv, MapperAssumption,
         NEW o \in Objects, NEW c \in Channels, NEW min \in Limits, NEW max \in Limits,
         NEW d \in BOOLEAN, NEW i \in BOOLEAN, AddMapFunction(o, c, min, max, d, i),
         NEW f \in Functions, Forgets(f)
  PROVE  LostInRemap(f)
<1> DEFINE k == KeyOf[o]
           e == [channel |-> c, min |-> min, max |-> max, function |-> o]
<1>1. k \in Functions /\ e \in Entries /\ db \in [Functions -> Seq(Rows)]
  BY DEF MapperAssumption, Entries, IInv, DataOK
<1>2. db' = [db EXCEPT ![k] = Insert(Delete(@, d), e, i)] \/ db' = [db EXCEPT ![k] = Insert(@, e, i)]
  BY DEF AddMapFunction, AddEntry
<1> HIDE DEF e, k
<1>3. f = k
  BY <1>1, <1>2 DEF Forgets
<1>4. Insert(db[k], e, i) = << >> => i = FALSE /\ db[k] = << >>
  BY <1>1, InsertedLast DEF Insert
<1>5. Insert(Delete(db[k], d), e, i) = << >> => i = FALSE /\ Delete(db[k], d) = << >>
  <2>1. Delete(db[k], d) \in Seq(Rows)
    BY <1>1, DeletedRows
  <2> QED BY <1>1, <2>1, InsertedLast DEF Insert
<1>6. i = FALSE /\ d = TRUE
  BY <1>1, <1>2, <1>3, <1>4, <1>5 DEF Forgets, Delete
<1>7. AddMapFunction(o, c, min, max, TRUE, FALSE)
  BY <1>6
<1> QED BY <1>3, <1>7 DEF LostInRemap, k

\* The database forgets a mapping when a request removes it, and otherwise only
\* in a change of channel that is not completed: no connection, level, limit or
\* restart loses one.  MCMapperCrash.cfg shows that the second way is there.
THEOREM OnlyRemapsLose ==
  Spec => [][\A f \in Functions :
               Forgets(f) => (\E d \in BOOLEAN : RemoveFunc(f, d)) \/ LostInRemap(f)]_vars
<1>1. ASSUME IInv, Next, NEW f \in Functions, Forgets(f)
      PROVE  (\E d \in BOOLEAN : RemoveFunc(f, d)) \/ LostInRemap(f)
  <2>1. db \in [Functions -> Seq(Rows)]
    BY <1>1, MapperAssumption DEF IInv, DataOK, MapperAssumption
  <2>2. ASSUME NEW o \in Objects, NEW c \in Channels, NEW min \in Limits, NEW max \in Limits,
               NEW d \in BOOLEAN, NEW i \in BOOLEAN, AddMapFunction(o, c, min, max, d, i)
        PROVE  LostInRemap(f)
    BY <1>1, <2>1, <2>2, AddForgets, MapperAssumption
  <2>3. ASSUME NEW g \in Functions, NEW d \in BOOLEAN, RemoveFunc(g, d)
        PROVE  \E ok \in BOOLEAN : RemoveFunc(f, ok)
    <3>1. db' = [db EXCEPT ![g] = Delete(@, d)]
      BY <2>3 DEF RemoveFunc
    <3>2. f = g
      BY <1>1, <2>1, <3>1 DEF Forgets
    <3> QED BY <2>1, <2>3, <3>2
  <2>4. ASSUME NEW g \in Functions, NEW e \in Entries, NEW u \in BOOLEAN, SetLimits(g, e, u)
        PROVE  FALSE
    <3>1. db' = [db EXCEPT ![g] = Update(@, e, u)]
      BY <2>4 DEF SetLimits
    <3>2. f = g /\ Update(db[g], e, u) = << >>
      BY <1>1, <2>1, <3>1 DEF Forgets
    <3>3. ASSUME u PROVE DOMAIN Update(db[g], e, u) = DOMAIN db[g]
      BY <3>3 DEF Update
    <3>4. db[g] = << >>
      BY <2>1, <3>2, <3>3, EmptySeq, LenProperties DEF Update
    <3> QED BY <1>1, <3>2, <3>4 DEF Forgets
  <2>5. ASSUME NEW g \in Functions, NEW m \in Limits, NEW u \in BOOLEAN,
               SetMin(g, m, u) \/ SetMax(g, m, u)
        PROVE  FALSE
    <3>1. g \in Mapped
      BY <2>5 DEF SetMin, SetMax, SetLimits
    <3>2. [entry[g] EXCEPT !.min = m] \in Entries /\ [entry[g] EXCEPT !.max = m] \in Entries
      BY <1>1, <3>1 DEF IInv, DataOK, Entries
    <3> QED BY <2>4, <2>5, <3>2 DEF SetMin, SetMax
  <2>6. ASSUME UNCHANGED db PROVE FALSE
    BY <1>1, <2>6 DEF Forgets
  <2>7. ASSUME NEW o \in Objects, StopInRemap(o) PROVE LostInRemap(f)
    <3>1. db' = [db EXCEPT ![KeyOf[o]] = << >>]
      BY <2>7 DEF StopInRemap
    <3>2. KeyOf[o] = f
      BY <1>1, <2>1, <3>1 DEF Forgets
    <3> QED BY <2>7, <3>2 DEF LostInRemap
  <2>8. ASSUME \/ \E o \in Objects : Create(o) \/ BindFunction(o)
               \/ \E k \in Connections : Destroy(k)
        PROVE  FALSE
    BY <2>6, <2>8 DEF Create, BindFunction, Destroy, dbVars
  <2>9. ASSUME NEW c \in Channels, NEW v \in Levels, SetChannel(c, v) PROVE FALSE
    BY <2>6, <2>9 DEF SetChannel, dbVars
  <2>10. ASSUME Stop \/ ReadDb PROVE FALSE
    BY <2>6, <2>10 DEF Stop, ReadDb, dbVars
  <2> QED
    BY <1>1, <2>2, <2>3, <2>5, <2>7, <2>8, <2>9, <2>10 DEF Next
<1>2. IInv /\ [Next]_vars =>
        [\A f \in Functions :
           Forgets(f) => (\E d \in BOOLEAN : RemoveFunc(f, d)) \/ LostInRemap(f)]_vars
  BY <1>1
<1> QED BY <1>2, Inductive, PTL DEF Spec

-----------------------------------------------------------------------------
(* channel_map.                                                            *)

\* What map_cmp needs to know of the entries.
Comparable(map) == DOMAIN map \subseteq Functions /\ \A f \in DOMAIN map : map[f].channel \in Int

Ascending(s, map) == \A i, j \in DOMAIN s : i < j => Before(map, s[i], s[j])

\* map_cmp orders the functions that are mapped.
LEMMA BeforeOrders ==
  ASSUME MapperAssumption, NEW map, Comparable(map)
  PROVE  /\ \A f \in DOMAIN map : ~Before(map, f, f)
         /\ \A f, g \in DOMAIN map : f = g \/ Before(map, f, g) \/ Before(map, g, f)
         /\ \A f, g, h \in DOMAIN map : Before(map, f, g) /\ Before(map, g, h) => Before(map, f, h)
<1>1. \A f \in DOMAIN map : f \in Int /\ map[f].channel \in Int
  BY DEF MapperAssumption, Comparable
<1> QED BY <1>1 DEF Before

\* The elements with a smaller place are the ones that stand before.
LEMMA Places ==
  ASSUME MapperAssumption, NEW map, Comparable(map), NEW s \in Seq(DOMAIN map)
  PROVE  /\ \A i \in DOMAIN s : Place(s, map, i) \in DOMAIN s
         /\ \A i, j \in DOMAIN s :
              Before(map, s[i], s[j]) \/ (s[i] = s[j] /\ i < j) => Place(s, map, i) < Place(s, map, j)
<1> DEFINE Ahead(i) == {j \in DOMAIN s : Before(map, s[j], s[i]) \/ (s[j] = s[i] /\ j < i)}
<1>1. DOMAIN s = 1 .. Len(s) /\ Len(s) \in Nat /\ \A i \in DOMAIN s : i \in Int /\ s[i] \in DOMAIN map
  BY LenProperties, ElementOfSeq
<1>2. IsFiniteSet(DOMAIN s) /\ Cardinality(DOMAIN s) = Len(s)
  <2> DEFINE n == Len(s)
  <2>1. n \in Int /\ 1 \in Int /\ (1 > n => n = 0) /\ n - 1 + 1 = n
    BY <1>1
  <2> HIDE DEF n
  <2>2. IsFiniteSet(1 .. n) /\ Cardinality(1 .. n) = IF 1 > n THEN 0 ELSE n - 1 + 1
    BY <2>1, FS_Interval
  <2>3. IsFiniteSet(1 .. n) /\ Cardinality(1 .. n) = n
    BY <2>1, <2>2
  <2> QED BY <1>1, <2>3 DEF n
<1>3. ASSUME NEW i \in DOMAIN s
      PROVE  /\ IsFiniteSet(Ahead(i)) /\ Cardinality(Ahead(i)) \in Nat
             /\ Cardinality(Ahead(i)) < Len(s) /\ i \notin Ahead(i)
  <2>1. i \notin Ahead(i)
    BY <1>1, BeforeOrders
  <2>2. Ahead(i) \in SUBSET DOMAIN s /\ Ahead(i) # DOMAIN s
    BY <2>1
  <2> HIDE DEF Ahead
  <2>3. /\ IsFiniteSet(Ahead(i)) /\ Cardinality(Ahead(i)) <= Len(s)
        /\ Cardinality(Ahead(i)) # Len(s)
    BY <2>2, <1>2, FS_Subset
  <2>4. Cardinality(Ahead(i)) \in Nat
    BY <2>3, FS_CardinalityType
  <2> QED BY <2>1, <2>3, <2>4, <1>1
<1>4. ASSUME NEW i \in DOMAIN s, NEW j \in DOMAIN s, i \in Ahead(j)
      PROVE  Cardinality(Ahead(i)) < Cardinality(Ahead(j))
  <2>1. Ahead(i) \subseteq Ahead(j)
    <3> SUFFICES ASSUME NEW k \in Ahead(i) PROVE k \in Ahead(j)
      OBVIOUS
    <3>1. /\ k \in Int /\ i \in Int /\ j \in Int /\ k \in DOMAIN s
          /\ s[i] \in DOMAIN map /\ s[j] \in DOMAIN map /\ s[k] \in DOMAIN map
      BY <1>1
    <3>2. Before(map, s[k], s[i]) \/ (s[k] = s[i] /\ k < i)
      OBVIOUS
    <3>3. Before(map, s[i], s[j]) \/ (s[i] = s[j] /\ i < j)
      BY <1>4
    <3>4. Before(map, s[k], s[i]) /\ Before(map, s[i], s[j]) => Before(map, s[k], s[j])
      BY <3>1, BeforeOrders
    <3>5. Before(map, s[k], s[j]) \/ (s[k] = s[j] /\ k < j)
      BY <3>1, <3>2, <3>3, <3>4
    <3> QED BY <3>1, <3>5
  <2>2. i \in Ahead(j) /\ i \notin Ahead(i)
    BY <1>3, <1>4
  <2> HIDE DEF Ahead
  <2>3. Ahead(i) \in SUBSET Ahead(j) /\ Ahead(i) # Ahead(j)
    BY <2>1, <2>2
  <2>4. Cardinality(Ahead(i)) <= Cardinality(Ahead(j)) /\ Cardinality(Ahead(i)) # Cardinality(Ahead(j))
    BY <2>3, <1>3, FS_Subset
  <2> QED BY <2>4, <1>3
<1>5. \A i : Place(s, map, i) = Cardinality(Ahead(i)) + 1
  BY DEF Place
<1>6. \A i, j \in DOMAIN s :
         Before(map, s[i], s[j]) \/ (s[i] = s[j] /\ i < j) => i \in Ahead(j)
  OBVIOUS
<1> HIDE DEF Ahead
<1> QED BY <1>1, <1>3, <1>4, <1>5, <1>6

\* Sorting gives the elements of the sequence, and in ascending order where
\* none is there twice.
LEMMA ResortedProperties ==
  ASSUME MapperAssumption, NEW map, Comparable(map), NEW s \in Seq(DOMAIN map), IsInjective(s)
  PROVE  /\ Resorted(s, map) \in Seq(DOMAIN map)
         /\ Range(Resorted(s, map)) = Range(s)
         /\ Ascending(Resorted(s, map), map)
<1> DEFINE place == [i \in DOMAIN s |-> Place(s, map, i)]
           At(k) == CHOOSE i \in DOMAIN s : Place(s, map, i) = k
           t == Resorted(s, map)
<1>1. DOMAIN s = 1 .. Len(s) /\ Len(s) \in Nat /\ \A i \in DOMAIN s : i \in Int /\ s[i] \in DOMAIN map
  BY LenProperties, ElementOfSeq
<1>2. IsFiniteSet(DOMAIN s)
  BY <1>1, FS_Interval
<1>3. /\ \A i \in DOMAIN s : Place(s, map, i) \in DOMAIN s
      /\ \A i, j \in DOMAIN s :
           Before(map, s[i], s[j]) \/ (s[i] = s[j] /\ i < j) => Place(s, map, i) < Place(s, map, j)
  BY Places
<1>4. \A i, j \in DOMAIN s : i = j \/ Before(map, s[i], s[j]) \/ Before(map, s[j], s[i])
  BY <1>1, BeforeOrders DEF IsInjective
<1>5. \A i, j \in DOMAIN s : Place(s, map, i) = Place(s, map, j) => i = j
  BY <1>1, <1>3, <1>4
<1>6. place \in Injection(DOMAIN s, DOMAIN s)
  BY <1>3, <1>5 DEF Injection, IsInjective
<1>7. place \in Surjection(DOMAIN s, DOMAIN s)
  <2> HIDE DEF place
  <2> QED BY <1>2, <1>6, FS_Injection
<1>8. \A k \in DOMAIN s : \E i \in DOMAIN s : Place(s, map, i) = k
  BY <1>7 DEF Surjection
<1>9. \A k \in DOMAIN s : At(k) \in DOMAIN s /\ Place(s, map, At(k)) = k
  BY <1>8
<1>10. \A i \in DOMAIN s : At(Place(s, map, i)) = i
  BY <1>3, <1>5, <1>9
<1>11. t = [k \in DOMAIN s |-> s[At(k)]]
  BY DEF Resorted
<1> HIDE DEF At, t
<1>12. DOMAIN t = 1 .. Len(s) /\ \A k \in 1 .. Len(s) : t[k] \in DOMAIN map
  BY <1>1, <1>9, <1>11
<1>13. t \in Seq(DOMAIN map)
  BY <1>1, <1>9, <1>11, <1>12, IsASeq
<1>14. Range(t) = Range(s)
  <2>1. \A k \in DOMAIN t : t[k] \in Range(s)
    BY <1>1, <1>9, <1>11 DEF Range
  <2>2. ASSUME NEW i \in DOMAIN s PROVE s[i] \in Range(t)
    <3>1. Place(s, map, i) \in DOMAIN t /\ t[Place(s, map, i)] = s[i]
      BY <1>3, <1>10, <1>11
    <3> QED BY <3>1 DEF Range
  <2> QED BY <2>1, <2>2 DEF Range
<1>15. Ascending(t, map)
  <2> SUFFICES ASSUME NEW k \in DOMAIN t, NEW l \in DOMAIN t, k < l
               PROVE  Before(map, t[k], t[l])
    BY DEF Ascending
  <2>1. /\ At(k) \in DOMAIN s /\ Place(s, map, At(k)) = k /\ t[k] = s[At(k)]
        /\ At(l) \in DOMAIN s /\ Place(s, map, At(l)) = l /\ t[l] = s[At(l)]
        /\ k \in Int /\ l \in Int
    BY <1>1, <1>9, <1>11
  <2>2. ~Before(map, s[At(l)], s[At(k)]) /\ At(k) # At(l)
    BY <2>1, <1>3
  <2> QED BY <2>1, <2>2, <1>4
<1> QED BY <1>13, <1>14, <1>15 DEF t

\* An ascending sequence holds nothing twice.
LEMMA AscendingInjective ==
  ASSUME MapperAssumption, NEW map, Comparable(map), NEW s \in Seq(DOMAIN map), Ascending(s, map)
  PROVE  IsInjective(s)
<1>1. DOMAIN s = 1 .. Len(s) /\ \A i \in DOMAIN s : i \in Int /\ s[i] \in DOMAIN map
  BY LenProperties, ElementOfSeq
<1>2. \A i, j \in DOMAIN s : i < j => s[i] # s[j]
  BY <1>1, BeforeOrders DEF Ascending
<1> QED BY <1>1, <1>2 DEF IsInjective

\* What is inserted at position i stands there; the positions from i on move
\* up by one.
LEMMA InsertAtProperties ==
  ASSUME NEW S, NEW s \in Seq(S), NEW i \in 1 .. Len(s) + 1, NEW e \in S
  PROVE  /\ InsertAt(s, i, e) \in Seq(S)
         /\ DOMAIN InsertAt(s, i, e) = 1 .. Len(s) + 1
         /\ \A j \in 1 .. Len(s) + 1 :
              InsertAt(s, i, e)[j] = IF j < i THEN s[j] ELSE IF j = i THEN e ELSE s[j - 1]
<1> DEFINE a == SubSeq(s, 1, i - 1)
           b == SubSeq(s, i, Len(s))
           c == a \o <<e>>
<1>1. Len(s) \in Nat /\ i \in 1 .. Len(s) + 1
  BY LenProperties
<1>2. \A j \in 1 .. Len(s) : s[j] \in S
  BY <1>1, ElementOfSeq
<1>3. a \in Seq(S) /\ Len(a) = i - 1 /\ \A j \in 1 .. i - 1 : a[j] = s[j]
  BY <1>1, <1>2, SubSeqProperties
<1>4. b \in Seq(S) /\ Len(b) = Len(s) - i + 1 /\ \A j \in 1 .. Len(s) - i + 1 : b[j] = s[i + j - 1]
  BY <1>1, <1>2, SubSeqProperties
<1>5. <<e>> \in Seq(S) /\ Len(<<e>>) = 1 /\ <<e>>[1] = e
  OBVIOUS
<1> HIDE DEF a, b
<1>6. /\ c \in Seq(S) /\ Len(c) = Len(a) + Len(<<e>>)
      /\ \A j \in 1 .. Len(a) + Len(<<e>>) :
           c[j] = IF j <= Len(a) THEN a[j] ELSE <<e>>[j - Len(a)]
  BY <1>3, <1>5, ConcatProperties, Zenon
<1>7. Len(c) = i /\ \A j \in 1 .. i : c[j] = IF j < i THEN s[j] ELSE e
  <2>1. Len(c) = i
    BY <1>1, <1>3, <1>5, <1>6
  <2>2. ASSUME NEW j \in 1 .. i PROVE c[j] = IF j < i THEN s[j] ELSE e
    <3>1. CASE j < i
      BY <3>1, <1>1, <1>3, <1>5, <1>6
    <3>2. CASE j = i
      <4>1. j \in 1 .. Len(a) + Len(<<e>>) /\ ~(j <= Len(a)) /\ j - Len(a) = 1
        BY <3>2, <1>1, <1>3, <1>5
      <4> QED BY <4>1, <3>2, <1>5, <1>6
    <3>3. j < i \/ j = i
      BY <1>1
    <3> QED BY <3>1, <3>2, <3>3
  <2> QED BY <2>1, <2>2
<1> HIDE DEF c
<1>11. b \in Seq(S) /\ c \in Seq(S)
  BY <1>4, <1>6
<1>8. /\ c \o b \in Seq(S) /\ Len(c \o b) = Len(c) + Len(b)
      /\ \A j \in 1 .. Len(c) + Len(b) :
           (c \o b)[j] = IF j <= Len(c) THEN c[j] ELSE b[j - Len(c)]
  BY <1>11, ConcatProperties, Zenon
<1>9. Len(c) + Len(b) = Len(s) + 1
  BY <1>1, <1>4, <1>7
<1>10. ASSUME NEW j \in 1 .. Len(s) + 1
       PROVE  (c \o b)[j] = IF j < i THEN s[j] ELSE IF j = i THEN e ELSE s[j - 1]
  <2>1. CASE j <= i
    <3>1. j \in 1 .. i /\ j \in 1 .. Len(c) + Len(b) /\ j <= Len(c)
      BY <2>1, <1>1, <1>7, <1>9
    <3> QED BY <3>1, <2>1, <1>7, <1>8
  <2>2. CASE ~(j <= i)
    <3>1. /\ j - Len(c) \in 1 .. Len(s) - i + 1 /\ i + (j - Len(c)) - 1 = j - 1 /\ ~(j <= Len(c))
          /\ j \in 1 .. Len(c) + Len(b)
      BY <2>2, <1>1, <1>7, <1>9
    <3>2. (c \o b)[j] = b[j - Len(c)]
      BY <3>1, <1>8
    <3>3. b[j - Len(c)] = s[i + (j - Len(c)) - 1]
      BY <3>1, <1>4
    <3>4. (c \o b)[j] = s[j - 1] /\ ~(j < i) /\ j # i
      BY <3>1, <3>2, <3>3, <2>2, <1>1
    <3> QED BY <3>4
  <2> QED BY <2>1, <2>2, <1>1
<1> QED BY <1>8, <1>9, <1>10, LenProperties DEF InsertAt, a, b, c

\* An insertion keeps the sequence ascending.
LEMMA InsertSortedProperties ==
  ASSUME MapperAssumption, NEW map, Comparable(map), NEW s \in Seq(DOMAIN map), Ascending(s, map),
         NEW f \in DOMAIN map, f \notin Range(s)
  PROVE  /\ InsertSorted(s, map, f) \in Seq(DOMAIN map)
         /\ Range(InsertSorted(s, map, f)) = Range(s) \cup {f}
         /\ Ascending(InsertSorted(s, map, f), map)
<1> DEFINE before == {i \in DOMAIN s : Before(map, s[i], f)}
           k == Cardinality(before)
           t == InsertAt(s, k + 1, f)
<1>1. DOMAIN s = 1 .. Len(s) /\ Len(s) \in Nat /\ \A i \in DOMAIN s : i \in Int /\ s[i] \in DOMAIN map
  BY LenProperties, ElementOfSeq
<1>2. \A i \in DOMAIN s : s[i] # f
  BY DEF Range
<1>3. ASSUME NEW i \in before, NEW j \in 1 .. i PROVE j \in before
  <2>1. /\ i \in DOMAIN s /\ j \in DOMAIN s /\ Before(map, s[i], f) /\ s[i] \in DOMAIN map
        /\ s[j] \in DOMAIN map /\ i \in Int /\ j \in Int /\ j <= i
    BY <1>1
  <2>2. j = i \/ Before(map, s[j], s[i])
    BY <2>1 DEF Ascending
  <2>3. Before(map, s[j], s[i]) /\ Before(map, s[i], f) => Before(map, s[j], f)
    BY <2>1, BeforeOrders
  <2> QED BY <2>1, <2>2, <2>3
<1>4. IsFiniteSet(before) /\ k \in Nat /\ k <= Len(s)
  <2>1. before \in SUBSET (1 .. Len(s)) /\ IsFiniteSet(1 .. Len(s)) /\ Cardinality(1 .. Len(s)) = Len(s)
    BY <1>1, FS_Interval
  <2> HIDE DEF before
  <2>2. IsFiniteSet(before) /\ Cardinality(before) <= Cardinality(1 .. Len(s))
    BY <2>1, FS_Subset
  <2>3. Cardinality(before) \in Nat
    BY <2>2, FS_CardinalityType
  <2> QED BY <2>1, <2>2, <2>3
<1>5. ASSUME NEW i \in DOMAIN s PROVE i \in before <=> i <= k
  <2>1. i \in 1 .. Len(s) /\ i \in Int
    BY <1>1
  <2>2. ASSUME i \in before PROVE i <= k
    <3>1. 1 .. i \in SUBSET before
      BY <2>2, <1>3
    <3>2. Cardinality(1 .. i) = i
      BY <2>1, FS_Interval
    <3> HIDE DEF before
    <3>3. Cardinality(1 .. i) <= Cardinality(before)
      BY <3>1, <1>4, FS_Subset
    <3> QED BY <3>2, <3>3
  <2>3. ASSUME i \notin before PROVE k < i
    <3>1. before \in SUBSET (1 .. i - 1)
      <4> SUFFICES ASSUME NEW j \in before PROVE j \in 1 .. i - 1
        OBVIOUS
      <4>1. j \in 1 .. Len(s) /\ j \in Int
        BY <1>1
      <4>2. i \notin 1 .. j
        BY <2>3, <1>3
      <4> QED BY <4>1, <4>2, <2>1
    <3>2. Cardinality(1 .. i - 1) = i - 1 /\ IsFiniteSet(1 .. i - 1)
      <4>1. i - 1 \in Int /\ (1 > i - 1 => i - 1 = 0) /\ (i - 1) - 1 + 1 = i - 1
        BY <2>1
      <4>2. /\ IsFiniteSet(1 .. i - 1)
            /\ Cardinality(1 .. i - 1) = IF 1 > i - 1 THEN 0 ELSE (i - 1) - 1 + 1
        <5> DEFINE b == i - 1
        <5>1. 1 \in Int /\ b \in Int
          BY <4>1
        <5> HIDE DEF b
        <5>2. IsFiniteSet(1 .. b) /\ Cardinality(1 .. b) = IF 1 > b THEN 0 ELSE b - 1 + 1
          BY <5>1, FS_Interval
        <5> QED BY <5>2 DEF b
      <4> QED BY <4>1, <4>2
    <3> HIDE DEF before
    <3>3. Cardinality(before) <= Cardinality(1 .. i - 1)
      BY <3>1, <3>2, FS_Subset
    <3> QED BY <3>2, <3>3, <2>1, <1>4
  <2> QED BY <2>1, <2>2, <2>3, <1>4
<1>6. \A i \in DOMAIN s : IF i <= k THEN Before(map, s[i], f) ELSE Before(map, f, s[i])
  BY <1>1, <1>2, <1>5, BeforeOrders
<1>7. t = InsertSorted(s, map, f)
  BY DEF InsertSorted
<1> HIDE DEF before
<1>8. k + 1 \in 1 .. Len(s) + 1
  BY <1>1, <1>4
<1> HIDE DEF k
<1>9. /\ t \in Seq(DOMAIN map) /\ DOMAIN t = 1 .. Len(s) + 1
      /\ \A j \in 1 .. Len(s) + 1 :
           t[j] = IF j < k + 1 THEN s[j] ELSE IF j = k + 1 THEN f ELSE s[j - 1]
  <2> DEFINE m == k + 1
             D == DOMAIN map
  <2>1. m \in 1 .. Len(s) + 1 /\ s \in Seq(D) /\ f \in D
    BY <1>8
  <2> HIDE DEF m, D
  <2>2. /\ InsertAt(s, m, f) \in Seq(D) /\ DOMAIN InsertAt(s, m, f) = 1 .. Len(s) + 1
        /\ \A j \in 1 .. Len(s) + 1 :
             InsertAt(s, m, f)[j] = IF j < m THEN s[j] ELSE IF j = m THEN f ELSE s[j - 1]
    BY <2>1, InsertAtProperties
  <2> QED BY <2>2 DEF m, D
<1> HIDE DEF t
<1>10. Range(t) = Range(s) \cup {f}
  <2>1. ASSUME NEW j \in DOMAIN t PROVE t[j] \in Range(s) \cup {f}
    <3>1. j \in Int /\ (j < k + 1 => j \in DOMAIN s) /\ (j > k + 1 => j - 1 \in DOMAIN s)
      BY <1>1, <1>4, <1>9
    <3> QED BY <3>1, <1>4, <1>9 DEF Range
  <2>2. ASSUME NEW j \in DOMAIN s PROVE s[j] \in Range(t)
    <3>1. CASE j <= k
      <4>1. j \in DOMAIN t /\ t[j] = s[j]
        BY <3>1, <1>1, <1>4, <1>9
      <4> QED BY <4>1 DEF Range
    <3>2. CASE ~(j <= k)
      <4>1. j + 1 \in 1 .. Len(s) + 1 /\ ~(j + 1 < k + 1) /\ j + 1 # k + 1 /\ (j + 1) - 1 = j
        BY <3>2, <1>1, <1>4
      <4>2. j + 1 \in DOMAIN t /\ t[j + 1] = s[j]
        BY <4>1, <1>9
      <4> QED BY <4>2 DEF Range
    <3> QED BY <3>1, <3>2
  <2>3. f \in Range(t)
    <3>1. k + 1 \in DOMAIN t /\ t[k + 1] = f
      BY <1>4, <1>8, <1>9
    <3> QED BY <3>1 DEF Range
  <2> QED BY <2>1, <2>2, <2>3 DEF Range
<1>11. Ascending(t, map)
  <2> SUFFICES ASSUME NEW i \in DOMAIN t, NEW j \in DOMAIN t, i < j
               PROVE  Before(map, t[i], t[j])
    BY DEF Ascending
  <2>1. i \in 1 .. Len(s) + 1 /\ j \in 1 .. Len(s) + 1 /\ k \in Nat
    BY <1>4, <1>9
  <2>2. CASE j < k + 1
    <3>1. i \in DOMAIN s /\ j \in DOMAIN s /\ t[i] = s[i] /\ t[j] = s[j]
      BY <2>1, <2>2, <1>1, <1>4, <1>9
    <3> QED BY <3>1 DEF Ascending
  <2>3. CASE j = k + 1
    <3>1. i \in DOMAIN s /\ i <= k /\ t[i] = s[i] /\ t[j] = f
      BY <2>1, <2>3, <1>1, <1>4, <1>9
    <3> QED BY <3>1, <1>6
  <2>4. CASE j > k + 1 /\ i < k + 1
    <3>1. i \in DOMAIN s /\ j - 1 \in DOMAIN s /\ t[i] = s[i] /\ t[j] = s[j - 1]
      BY <2>1, <2>4, <1>1, <1>4, <1>9
    <3>2. i < j - 1
      BY <2>1, <2>4
    <3> QED BY <3>1, <3>2 DEF Ascending
  <2>5. CASE j > k + 1 /\ i = k + 1
    <3>1. j - 1 \in DOMAIN s /\ t[j] = s[j - 1] /\ t[i] = f /\ ~(j - 1 <= k)
      BY <2>1, <2>5, <1>1, <1>4, <1>9
    <3> QED BY <3>1, <1>6
  <2>6. CASE j > k + 1 /\ i > k + 1
    <3>1. i - 1 \in DOMAIN s /\ j - 1 \in DOMAIN s /\ t[i] = s[i - 1] /\ t[j] = s[j - 1]
      BY <2>1, <2>6, <1>1, <1>4, <1>9
    <3>2. i - 1 < j - 1
      BY <2>1
    <3> QED BY <3>1, <3>2 DEF Ascending
  <2> QED BY <2>1, <2>2, <2>3, <2>4, <2>5, <2>6
<1> QED BY <1>7, <1>9, <1>10, <1>11

\* A set of functions is enumerated without repetition.
LEMMA SetToSeqProperties ==
  ASSUME NEW S, IsFiniteSet(S)
  PROVE  SetToSeq(S) \in Seq(S) /\ IsInjective(SetToSeq(S)) /\ Range(SetToSeq(S)) = S
<1> DEFINE t == SetToSeq(S)
<1>1. Cardinality(S) \in Nat /\ \E b : b \in Bijection(1 .. Cardinality(S), S)
  BY FS_CardinalityType DEF ExistsBijection
<1>2. \E b \in [1 .. Cardinality(S) -> S] : IsInjective(b)
  BY <1>1 DEF Bijection, Injection
<1>3. t \in [1 .. Cardinality(S) -> S] /\ IsInjective(t)
  BY <1>2 DEF SetToSeq
<1>4. t \in Injection(1 .. Cardinality(S), S)
  BY <1>3 DEF Injection
<1>5. t \in Surjection(1 .. Cardinality(S), S)
  <2>1. Cardinality(1 .. Cardinality(S)) = Cardinality(S)
    BY <1>1, FS_Interval
  <2> HIDE DEF t
  <2> QED BY <2>1, <1>4, FS_Injection
<1> HIDE DEF t
<1>6. t \in Seq(S)
  BY <1>1, <1>3, IsASeq
<1>7. Range(t) = S
  BY <1>3, <1>5 DEF Surjection, Range
<1> QED BY <1>3, <1>6, <1>7 DEF t

\* Taking position i out gives a sequence without it; the positions after it
\* move up by one.
LEMMA RemoveAtProperties ==
  ASSUME NEW S, NEW s \in Seq(S), NEW i \in DOMAIN s
  PROVE  /\ RemoveAt(s, i) \in Seq(S)
         /\ DOMAIN RemoveAt(s, i) = 1 .. Len(s) - 1
         /\ \A j \in 1 .. Len(s) - 1 : RemoveAt(s, i)[j] = IF j < i THEN s[j] ELSE s[j + 1]
<1> DEFINE a == SubSeq(s, 1, i - 1)
           b == SubSeq(s, i + 1, Len(s))
<1>1. Len(s) \in Nat /\ DOMAIN s = 1 .. Len(s) /\ i \in 1 .. Len(s)
  BY LenProperties
<1>2. \A j \in 1 .. Len(s) : s[j] \in S
  BY <1>1, ElementOfSeq
<1>3. a \in Seq(S) /\ Len(a) = i - 1 /\ \A j \in 1 .. i - 1 : a[j] = s[j]
  BY <1>1, <1>2, SubSeqProperties
<1>4. b \in Seq(S) /\ Len(b) = Len(s) - i /\ \A j \in 1 .. Len(s) - i : b[j] = s[i + j]
  BY <1>1, <1>2, SubSeqProperties
<1> HIDE DEF a, b
<1>5. a \in Seq(S) /\ b \in Seq(S)
  BY <1>3, <1>4
<1>6. /\ a \o b \in Seq(S)
      /\ Len(a \o b) = Len(a) + Len(b)
      /\ \A j \in 1 .. Len(a) + Len(b) :
           (a \o b)[j] = IF j <= Len(a) THEN a[j] ELSE b[j - Len(a)]
  BY <1>5, ConcatProperties, Zenon
<1>7. Len(a) + Len(b) = Len(s) - 1
  BY <1>1, <1>3, <1>4
<1>8. ASSUME NEW j \in 1 .. Len(s) - 1
      PROVE  (a \o b)[j] = IF j < i THEN s[j] ELSE s[j + 1]
  <2>1. CASE j < i
    BY <2>1, <1>1, <1>3, <1>6, <1>7
  <2>2. CASE ~(j < i)
    <3>1. j - Len(a) \in 1 .. Len(s) - i /\ i + (j - Len(a)) = j + 1 /\ ~(j <= Len(a))
      BY <2>2, <1>1, <1>3, <1>8
    <3>2. (a \o b)[j] = b[j - Len(a)]
      BY <3>1, <1>6, <1>7
    <3> QED
      BY <3>1, <3>2, <1>4, <2>2
  <2> QED
    BY <2>1, <2>2
<1> QED
  BY <1>6, <1>7, <1>8, LenProperties DEF RemoveAt, a, b

\* A removal keeps the sequence ascending.
LEMMA RemovedProperties ==
  ASSUME MapperAssumption, NEW map, Comparable(map), NEW s \in Seq(DOMAIN map), Ascending(s, map),
         NEW i \in DOMAIN s
  PROVE  /\ RemoveAt(s, i) \in Seq(DOMAIN map \ {s[i]})
         /\ Range(RemoveAt(s, i)) = Range(s) \ {s[i]}
         /\ Ascending(RemoveAt(s, i), map)
<1> DEFINE t == RemoveAt(s, i)
<1>1. DOMAIN s = 1 .. Len(s) /\ Len(s) \in Nat /\ i \in 1 .. Len(s)
  BY LenProperties
<1>2. /\ t \in Seq(DOMAIN map) /\ DOMAIN t = 1 .. Len(s) - 1
      /\ \A j \in 1 .. Len(s) - 1 : t[j] = IF j < i THEN s[j] ELSE s[j + 1]
  <2> DEFINE D == DOMAIN map
  <2>1. s \in Seq(D)
    OBVIOUS
  <2> HIDE DEF D
  <2>2. /\ RemoveAt(s, i) \in Seq(D) /\ DOMAIN RemoveAt(s, i) = 1 .. Len(s) - 1
        /\ \A j \in 1 .. Len(s) - 1 : RemoveAt(s, i)[j] = IF j < i THEN s[j] ELSE s[j + 1]
    BY <2>1, RemoveAtProperties
  <2> QED BY <2>2 DEF D
<1> HIDE DEF t
<1>3. \A j, k \in DOMAIN s : s[j] = s[k] => j = k
  BY AscendingInjective DEF IsInjective
<1>4. \A j \in DOMAIN t : \E k \in DOMAIN s : k # i /\ t[j] = s[k]
  <2> SUFFICES ASSUME NEW j \in DOMAIN t PROVE \E k \in DOMAIN s : k # i /\ t[j] = s[k]
    OBVIOUS
  <2>1. CASE j < i
    <3>1. j \in DOMAIN s /\ j # i /\ t[j] = s[j]
      BY <2>1, <1>1, <1>2
    <3> QED BY <3>1
  <2>2. CASE ~(j < i)
    <3>1. j + 1 \in DOMAIN s /\ j + 1 # i /\ t[j] = s[j + 1]
      BY <2>2, <1>1, <1>2
    <3> QED BY <3>1
  <2> QED BY <2>1, <2>2
<1>5. \A k \in DOMAIN s : k # i => \E j \in DOMAIN t : t[j] = s[k]
  <2> SUFFICES ASSUME NEW k \in DOMAIN s, k # i PROVE \E j \in DOMAIN t : t[j] = s[k]
    OBVIOUS
  <2>1. CASE k < i
    BY <2>1, <1>1, <1>2
  <2>2. CASE k > i
    <3>1. k - 1 \in 1 .. Len(s) - 1 /\ ~(k - 1 < i) /\ (k - 1) + 1 = k
      BY <2>2, <1>1
    <3> QED BY <3>1, <1>2
  <2> QED BY <2>1, <2>2, <1>1
<1>6. Range(t) = Range(s) \ {s[i]}
  BY <1>3, <1>4, <1>5 DEF Range
<1>7. t \in Seq(DOMAIN map \ {s[i]})
  <2>1. \A j \in DOMAIN t : t[j] \in DOMAIN map \ {s[i]}
    BY <1>3, <1>4, ElementOfSeq, <1>1
  <2>2. t = [j \in 1 .. Len(s) - 1 |-> t[j]] /\ Len(s) - 1 \in Nat
    BY <1>1, <1>2, SeqDef
  <2> QED BY <2>1, <2>2, <1>2, IsASeq
<1>8. Ascending(t, map)
  <2> SUFFICES ASSUME NEW j \in DOMAIN t, NEW k \in DOMAIN t, j < k
               PROVE  Before(map, t[j], t[k])
    BY DEF Ascending
  <2>1. \E l, m \in DOMAIN s : l < m /\ t[j] = s[l] /\ t[k] = s[m]
    <3>0. j \in 1 .. Len(s) - 1 /\ k \in 1 .. Len(s) - 1 /\ j \in DOMAIN s /\ k \in DOMAIN s
      BY <1>1, <1>2
    <3>1. CASE k < i
      <4>1. j < i
        BY <3>0, <3>1, <1>1
      <4>2. t[k] = s[k] /\ t[j] = s[j]
        BY <3>0, <3>1, <4>1, <1>2
      <4> QED BY <3>0, <4>2
    <3>2. CASE ~(k < i) /\ j < i
      <4>1. k + 1 \in DOMAIN s /\ j \in DOMAIN s /\ j < k + 1 /\ t[k] = s[k + 1] /\ t[j] = s[j]
        BY <3>2, <1>1, <1>2
      <4> QED BY <4>1
    <3>3. CASE ~(j < i)
      <4>1. /\ k + 1 \in DOMAIN s /\ j + 1 \in DOMAIN s /\ j + 1 < k + 1
            /\ t[k] = s[k + 1] /\ t[j] = s[j + 1]
        BY <3>3, <1>1, <1>2
      <4> QED BY <4>1
    <3> QED BY <3>1, <3>2, <3>3
  <2> QED BY <2>1 DEF Ascending
<1> QED BY <1>6, <1>7, <1>8 DEF t

-----------------------------------------------------------------------------
(* The types and channel_map.                                              *)

\* channel_map holds mapped functions, and what MapsAgree says.
Ordered == order \in Seq(Mapped) /\ MapsAgree

\* A restart reads finitely many rows.
FiniteRows == IsFiniteSet({f \in Functions : db[f] # << >>})

RowsBounded == \A f \in Functions : Len(db[f]) <= MaxRows

Written == \A w \in writes : w[1] \in Objects /\ w[2] \in Int

MapInv == Ordered /\ FiniteRows /\ RowsBounded /\ Written

\* The maps in the words of the lemmas.
LEMMA OrderedMaps ==
  Ordered <=> order \in Seq(Mapped) /\ Range(order) = DOMAIN entry /\ Ascending(order, entry)
BY DEF Ordered, MapsAgree, Mapped, Range, Ascending

\* Of two mapped functions one is before the other.
LEMMA EntriesComparable ==
  ASSUME MapperAssumption, Mapped \subseteq Functions, \A f \in Mapped : entry[f] \in Entries
  PROVE  Comparable(entry)
BY DEF MapperAssumption, Comparable, Mapped, Entries, Channels

\* A step that neither changes channel_map nor the channel of an entry.
LEMMA OrderKept ==
  ASSUME IInv, Ordered, order' = order, Mapped' = Mapped,
         \A f \in Mapped : entry'[f].channel = entry[f].channel
  PROVE  Ordered'
<1>1. \A i \in DOMAIN order : order[i] \in Mapped
  BY ElementOfSeq, LenProperties DEF Ordered
<1>2. \A i, j \in DOMAIN order :
         Before(entry, order[i], order[j]) => Before(entry', order[i], order[j])
  BY <1>1 DEF Before
<1> QED BY <1>2 DEF Ordered, MapsAgree

\* A write changes the rows of one function.
LEMMA RowsChanged ==
  ASSUME IInv, FiniteRows, RowsBounded, NEW f \in Functions, NEW rows,
         db' = [db EXCEPT ![f] = rows], Len(rows) <= MaxRows
  PROVE  FiniteRows' /\ RowsBounded'
<1> DEFINE D == {g \in Functions : db[g] # << >>}
           E == {g \in Functions : db'[g] # << >>}
<1>1. \A g \in Functions : db'[g] = IF g = f THEN rows ELSE db[g]
  BY DEF IInv, DataOK
<1>2. E \in SUBSET (D \cup {f})
  BY <1>1
<1>3. IsFiniteSet(D)
  BY DEF FiniteRows
<1> HIDE DEF D, E
<1>4. IsFiniteSet(E)
  <2>1. IsFiniteSet(D \cup {f})
    BY <1>3, FS_AddElement
  <2> QED BY <2>1, <1>2, FS_Subset
<1>5. RowsBounded'
  BY <1>1 DEF RowsBounded
<1> QED BY <1>4, <1>5 DEF FiniteRows, E

\* A function is inserted in its place, or moved by sorting again.
LEMMA AddMapFunctionOrders ==
  ASSUME IInv, IInv', MapInv, MapperAssumption,
         NEW o \in Objects, NEW c \in Channels, NEW min \in Limits, NEW max \in Limits,
         NEW d \in BOOLEAN, NEW i \in BOOLEAN, AddMapFunction(o, c, min, max, d, i)
  PROVE  MapInv'
<1> DEFINE f == KeyOf[o]
           e == [channel |-> c, min |-> min, max |-> max, function |-> o]
<1>1. f \in Functions /\ e \in Entries
  BY DEF MapperAssumption, Entries
<1>2. /\ entry' = With(entry, f, e) /\ writes' = {}
      /\ \/ /\ f \in Mapped
            /\ order' = Resorted(order, entry')
            /\ Len(Delete(db[f], d)) < MaxRows
            /\ db' = [db EXCEPT ![f] = Insert(Delete(db[f], d), e, i)]
         \/ /\ f \notin Mapped
            /\ order' = InsertSorted(order, entry', f)
            /\ Len(db[f]) < MaxRows
            /\ db' = [db EXCEPT ![f] = Insert(db[f], e, i)]
  BY DEF AddMapFunction, AddEntry
<1>3. /\ Mapped' = Mapped \cup {f}
      /\ \A g \in Mapped : g # f => entry'[g] = entry[g]
  BY <1>2 DEF Mapped, With
<1>4. Comparable(entry) /\ Comparable(entry')
  <2>1. Mapped \subseteq Functions /\ \A g \in Mapped : entry[g] \in Entries
    BY DEF IInv, DataOK
  <2>2. Mapped' \subseteq Functions /\ \A g \in Mapped' : entry'[g] \in Entries
    BY DEF IInv, DataOK
  <2> QED BY <2>1, <2>2, EntriesComparable DEF MapperAssumption, Comparable, Mapped, Entries, Channels
<1>5. order \in Seq(DOMAIN entry) /\ Range(order) = DOMAIN entry /\ Ascending(order, entry)
  BY OrderedMaps DEF MapInv, Mapped
<1>6. order \in Seq(DOMAIN entry')
  <2>1. DOMAIN entry \subseteq DOMAIN entry'
    BY <1>3 DEF Mapped
  <2>2. order = [j \in 1 .. Len(order) |-> order[j]] /\ Len(order) \in Nat
    BY <1>5, SeqDef, LenProperties
  <2>3. \A j \in 1 .. Len(order) : order[j] \in DOMAIN entry'
    BY <1>5, <2>1, ElementOfSeq
  <2> QED BY <2>2, <2>3, IsASeq
<1>7. ASSUME f \in Mapped PROVE Ordered'
  <2>1. IsInjective(order)
    BY <1>4, <1>5, AscendingInjective
  <2>2. order' = Resorted(order, entry')
    BY <1>2, <1>7
  <2>3. /\ order' \in Seq(DOMAIN entry') /\ Range(order') = Range(order)
        /\ Ascending(order', entry')
    BY <1>4, <1>6, <2>1, <2>2, ResortedProperties
  <2>4. DOMAIN entry' = DOMAIN entry
    BY <1>3, <1>7 DEF Mapped
  <2> QED BY <1>5, <2>3, <2>4 DEF Ordered, MapsAgree, Mapped, Range, Ascending
<1>8. ASSUME f \notin Mapped PROVE Ordered'
  <2>1. order' = InsertSorted(order, entry', f) /\ DOMAIN entry' = DOMAIN entry \cup {f}
    BY <1>2, <1>3, <1>8 DEF Mapped
  <2>2. Ascending(order, entry')
    <3>1. \A j \in DOMAIN order : order[j] \in Mapped /\ entry'[order[j]] = entry[order[j]]
      BY <1>3, <1>5, <1>8 DEF Range, Mapped
    <3> QED BY <3>1, <1>5 DEF Ascending, Before
  <2>3. f \in DOMAIN entry' /\ f \notin Range(order)
    BY <1>5, <1>8, <2>1 DEF Mapped
  <2>4. /\ order' \in Seq(DOMAIN entry') /\ Range(order') = Range(order) \cup {f}
        /\ Ascending(order', entry')
    <3> HIDE DEF f
    <3> QED BY <1>4, <1>6, <2>1, <2>2, <2>3, InsertSortedProperties
  <2> QED BY <1>5, <2>1, <2>4 DEF Ordered, MapsAgree, Mapped, Range, Ascending
<1>9. FiniteRows' /\ RowsBounded'
  <2>1. db[f] \in Seq(Rows) /\ Delete(db[f], d) \in Seq(Rows)
    BY <1>1, DeletedRows DEF IInv, DataOK
  <2>2. ASSUME NEW rows \in Seq(Rows), Len(rows) < MaxRows
        PROVE  Len(Insert(rows, e, i)) <= MaxRows
    <3>1. Row(e) \in Rows
      BY <1>1, RowOfEntry
    <3>2. Len(Append(rows, Row(e))) = Len(rows) + 1 /\ Len(rows) \in Nat
      BY <3>1, AppendProperties, LenProperties
    <3> QED BY <3>2, <2>2 DEF Insert, MapperAssumption
  <2>3. \E rows : db' = [db EXCEPT ![f] = rows] /\ Len(rows) <= MaxRows
    <3> HIDE DEF e, f
    <3> QED BY <1>2, <2>1, <2>2
  <2> HIDE DEF e, f
  <2> QED BY <1>1, <2>3, RowsChanged DEF MapInv
<1> QED BY <1>2, <1>7, <1>8, <1>9 DEF MapInv, Written

\* Taking an element out keeps the rest in order.
LEMMA RemoveFuncOrders ==
  ASSUME IInv, IInv', MapInv, MapperAssumption, NEW f \in Functions, NEW d \in BOOLEAN, RemoveFunc(f, d)
  PROVE  MapInv'
<1>1. /\ f \in Mapped /\ entry' = Without(entry, f) /\ writes' = {}
      /\ db' = [db EXCEPT ![f] = Delete(db[f], d)]
  BY DEF RemoveFunc
<1>2. PICK i \in DOMAIN order : order[i] = f /\ order' = RemoveAt(order, i)
  BY DEF RemoveFunc
<1>3. Mapped' = Mapped \ {f} /\ \A g \in Mapped' : entry'[g] = entry[g]
  BY <1>1 DEF Mapped, Without
<1>4. Comparable(entry)
  BY EntriesComparable DEF IInv, DataOK
<1>5. order \in Seq(DOMAIN entry) /\ Range(order) = DOMAIN entry /\ Ascending(order, entry)
  BY OrderedMaps DEF MapInv, Mapped
<1>6. /\ order' \in Seq(DOMAIN entry \ {f}) /\ Range(order') = Range(order) \ {f}
      /\ Ascending(order', entry)
  BY <1>2, <1>4, <1>5, RemovedProperties
<1>7. Ascending(order', entry')
  <2>1. \A j \in DOMAIN order' : order'[j] \in Mapped'
    BY <1>3, <1>5, <1>6 DEF Range, Mapped
  <2> QED BY <2>1, <1>3, <1>6 DEF Ascending, Before
<1>8. Ordered'
  BY <1>3, <1>5, <1>6, <1>7 DEF Ordered, MapsAgree, Mapped, Range, Ascending
<1>9. FiniteRows' /\ RowsBounded'
  <2>1. Len(Delete(db[f], d)) <= MaxRows
    BY DEF Delete, MapInv, RowsBounded, MapperAssumption
  <2> QED BY <1>1, <2>1, RowsChanged DEF MapInv
<1> QED BY <1>1, <1>8, <1>9 DEF MapInv, Written

\* Limits have no part in the order.
LEMMA SetLimitsOrders ==
  ASSUME IInv, MapInv, MapperAssumption, NEW f \in Functions, NEW u \in BOOLEAN, NEW e \in Entries,
         f \in Mapped => e.channel = entry[f].channel, SetLimits(f, e, u)
  PROVE  MapInv'
<1>1. /\ f \in Mapped /\ entry' = [entry EXCEPT ![f] = e] /\ writes' = {} /\ order' = order
      /\ db' = [db EXCEPT ![f] = Update(db[f], e, u)]
  BY DEF SetLimits
<1>2. Mapped' = Mapped /\ \A g \in Mapped : entry'[g].channel = entry[g].channel
  BY <1>1 DEF Mapped
<1>3. Ordered'
  BY <1>1, <1>2, OrderKept DEF MapInv
<1>4. FiniteRows' /\ RowsBounded'
  <2>1. db[f] \in Seq(Rows) /\ Len(db[f]) \in Nat /\ Len(db[f]) <= MaxRows
    BY LenProperties DEF IInv, DataOK, MapInv, RowsBounded
  <2>2. Len(Update(db[f], e, u)) = Len(db[f])
    BY <2>1, LenProperties DEF Update
  <2> QED BY <1>1, <2>1, <2>2, RowsChanged DEF MapInv
<1> QED BY <1>1, <1>3, <1>4 DEF MapInv, Written

\* Function objects come and go without a change of channel_map or database.
LEMMA ObjectsOrder ==
  ASSUME IInv, MapInv, MapperAssumption,
         \/ \E o \in Objects : Create(o) \/ BindFunction(o)
         \/ \E k \in Connections : Destroy(k)
  PROVE  MapInv'
<1>1. writes' = {} /\ order' = order /\ db' = db
  BY DEF Create, BindFunction, Destroy, memVars, dbVars
<1>2. Mapped' = Mapped /\ \A g \in Mapped : entry'[g].channel = entry[g].channel
  <2>0. \A g \in Mapped : entry[g] \in Entries
    BY DEF IInv, DataOK
  <2>1. ASSUME NEW o \in Objects, Create(o)
        PROVE  Mapped' = Mapped /\ \A g \in Mapped : entry'[g].channel = entry[g].channel
    BY <2>1 DEF Create, memVars, Mapped
  <2>2. ASSUME NEW o \in Objects, BindFunction(o)
        PROVE  Mapped' = Mapped /\ \A g \in Mapped : entry'[g].channel = entry[g].channel
    <3>1. \/ entry' = entry
          \/ KeyOf[o] \in Mapped /\ entry' = [entry EXCEPT ![KeyOf[o]].function = o]
      BY <2>2 DEF BindFunction
    <3> QED BY <3>1, <2>0 DEF Mapped, Entries
  <2>3. ASSUME NEW k \in Connections, Destroy(k)
        PROVE  Mapped' = Mapped /\ \A g \in Mapped : entry'[g].channel = entry[g].channel
    BY <2>3, ClosedEntries DEF Destroy
  <2> QED BY <2>1, <2>2, <2>3
<1>3. Ordered'
  BY <1>1, <1>2, OrderKept DEF MapInv
<1> QED BY <1>1, <1>3 DEF MapInv, FiniteRows, RowsBounded, Written

\* What is set is a bound object, to a whole number of units.
LEMMA SetChannelOrders ==
  ASSUME IInv, MapInv, MapperAssumption, NEW c \in Channels, NEW v \in Levels, SetChannel(c, v)
  PROVE  MapInv'
<1>1. order' = order /\ db' = db
  BY DEF SetChannel, dbVars
<1>2. \A w \in writes' : \E f \in Mapped : entry[f].function # Null /\ w = <<entry[f].function, Scaled(entry[f], v)>>
  <2>1. \A k \in DOMAIN order : order[k] \in Mapped
    BY ElementOfSeq, LenProperties DEF MapInv, Ordered
  <2>2. \A w \in writes' : \E k \in DOMAIN order :
          entry[order[k]].function # Null /\ w = <<entry[order[k]].function, Scaled(entry[order[k]], v)>>
    <3>1. \A i, F : Sets(F, c, i) \subseteq DOMAIN order /\ \A k \in Sets(F, c, i) : Function(k) # Null
      BY DEF Sets, StillBound, RunAround
    <3>2. CASE writes' = {}
      BY <3>2
    <3>3. ASSUME NEW i, NEW F,
                 writes' = {<<Function(k), Scaled(entry[order[k]], v)>> : k \in Sets(F, c, i)}
          PROVE  \A w \in writes' : \E k \in DOMAIN order :
                   entry[order[k]].function # Null /\ w = <<entry[order[k]].function, Scaled(entry[order[k]], v)>>
      BY <3>1, <3>3 DEF Function
    <3> QED BY <3>2, <3>3 DEF SetChannel
  <2> QED BY <2>1, <2>2
<1>3. \A f \in Mapped : entry[f].function # Null =>
        entry[f].function \in Objects /\ Scaled(entry[f], v) \in Int
  <2> SUFFICES ASSUME NEW f \in Mapped, entry[f].function # Null
               PROVE  entry[f].function \in Objects /\ Scaled(entry[f], v) \in Int
    OBVIOUS
  <2>0. entry[f] \in Entries
    BY DEF IInv, DataOK
  <2>1. /\ entry[f].function \in Objects /\ entry[f].min \in Int /\ entry[f].max \in Int
        /\ v \in Int
    <3>1. entry[f].function \in Objects /\ entry[f].min \in Limits /\ entry[f].max \in Limits
      BY <2>0 DEF Entries
    <3>2. Limits \subseteq Int /\ v \in 0 .. 255
      BY DEF MapperAssumption
    <3>3. v \in Int
      BY <3>2
    <3>4. entry[f].min \in Int /\ entry[f].max \in Int
      BY <3>1, <3>2, Zenon
    <3> QED BY <3>1, <3>3, <3>4
  <2>2. entry[f].max - entry[f].min \in Int
    BY <2>1
  <2>3. v * (entry[f].max - entry[f].min) \in Int
    BY <2>1, <2>2
  <2> QED BY <2>1, <2>3 DEF Scaled
<1>4. Written'
  BY <1>2, <1>3 DEF Written
<1>5. Mapped' = Mapped /\ \A g \in Mapped : entry'[g].channel = entry[g].channel
  <2>1. CASE UNCHANGED <<entry, object>>
    BY <2>1 DEF Mapped
  <2>2. ASSUME NEW K, Closes(K)
        PROVE  Mapped' = Mapped /\ \A g \in Mapped : entry'[g].channel = entry[g].channel
    BY <2>2, ClosedEntries
  <2> QED BY <2>1, <2>2, LevelCloses
<1>6. Ordered'
  BY <1>1, <1>5, OrderKept DEF MapInv
<1> QED BY <1>1, <1>4, <1>6 DEF MapInv, FiniteRows, RowsBounded

\* An empty sequence is in order.
LEMMA LostOrders ==
  ASSUME Lost PROVE Ordered' /\ Written'
<1>1. order' = << >> /\ entry' = << >> /\ writes' = {}
  BY DEF Lost
<1>2. Ordered'
  BY <1>1 DEF Ordered, MapsAgree, Mapped
<1> QED BY <1>1, <1>2 DEF Written

\* What is read from the database is in order.
LEMMA ReadDbOrders ==
  ASSUME IInv', MapInv, MapperAssumption, ReadDb
  PROVE  MapInv'
<1> DEFINE t == SetToSeq(DOMAIN entry')
<1>1. /\ db' = db /\ writes' = writes /\ order' = Resorted(t, entry')
      /\ DOMAIN entry' = {f \in Functions : db[f] # << >>}
  BY DEF ReadDb
<1>2. IsFiniteSet(DOMAIN entry')
  BY <1>1 DEF MapInv, FiniteRows
<1>3. Comparable(entry')
  <2>1. Mapped' \subseteq Functions /\ \A g \in Mapped' : entry'[g] \in Entries
    BY DEF IInv, DataOK
  <2> QED BY <2>1 DEF MapperAssumption, Comparable, Mapped, Entries, Channels
<1>4. t \in Seq(DOMAIN entry') /\ IsInjective(t) /\ Range(t) = DOMAIN entry'
  BY <1>2, SetToSeqProperties
<1> HIDE DEF t
<1>5. /\ order' \in Seq(DOMAIN entry') /\ Range(order') = DOMAIN entry'
      /\ Ascending(order', entry')
  BY <1>1, <1>3, <1>4, ResortedProperties
<1>6. Ordered'
  BY <1>5 DEF Ordered, MapsAgree, Mapped, Range, Ascending
<1> QED BY <1>1, <1>6 DEF MapInv, FiniteRows, RowsBounded, Written

\* Nothing is mapped at first.
LEMMA InitOrdered == ASSUME Init, MapperAssumption PROVE MapInv
<1>1. /\ order = << >> /\ entry = << >> /\ writes = {}
      /\ \A f \in Functions : db[f] = << >>
  BY DEF Init
<1>2. Ordered
  BY <1>1 DEF Ordered, MapsAgree, Mapped
<1>3. FiniteRows
  <2>1. {f \in Functions : db[f] # << >>} = {}
    BY <1>1
  <2> QED BY <2>1, FS_EmptySet DEF FiniteRows
<1>4. RowsBounded
  BY <1>1 DEF RowsBounded, MapperAssumption
<1> QED BY <1>1, <1>2, <1>3, <1>4 DEF MapInv, Written

\* Every step keeps channel_map in order.
LEMMA StepOrders == ASSUME IInv, IInv', MapInv, [Next]_vars PROVE MapInv'
<1> USE MapperAssumption
<1>1. ASSUME NEW o \in Objects, NEW c \in Channels, NEW min \in Limits, NEW max \in Limits,
             NEW d \in BOOLEAN, NEW i \in BOOLEAN, AddMapFunction(o, c, min, max, d, i)
      PROVE  MapInv'
  <2>1. d \in BOOLEAN /\ i \in BOOLEAN
    BY DEF MapperAssumption
  <2> QED BY <1>1, <2>1, AddMapFunctionOrders
<1>2. ASSUME NEW f \in Functions, NEW d \in BOOLEAN, RemoveFunc(f, d)
      PROVE  MapInv'
  <2>1. d \in BOOLEAN
    BY DEF MapperAssumption
  <2> QED BY <1>2, <2>1, RemoveFuncOrders
<1>3. ASSUME NEW f \in Functions, NEW m \in Limits, NEW u \in BOOLEAN,
             SetMin(f, m, u) \/ SetMax(f, m, u)
      PROVE  MapInv'
  <2>1. u \in BOOLEAN
    BY DEF MapperAssumption
  <2>2. f \in Mapped
    BY <1>3 DEF SetMin, SetMax, SetLimits
  <2>3. PICK e : /\ e = [entry[f] EXCEPT !.min = m] \/ e = [entry[f] EXCEPT !.max = m]
                 /\ SetLimits(f, e, u)
    BY <1>3 DEF SetMin, SetMax
  <2>4. e \in Entries /\ e.channel = entry[f].channel
    BY <2>2, <2>3 DEF IInv, DataOK, Entries
  <2> QED BY <2>1, <2>3, <2>4, SetLimitsOrders
<1>4. ASSUME \/ \E o \in Objects : Create(o) \/ BindFunction(o)
             \/ \E k \in Connections : Destroy(k)
      PROVE  MapInv'
  BY <1>4, ObjectsOrder
<1>5. ASSUME NEW c \in Channels, NEW v \in Levels, SetChannel(c, v)
      PROVE  MapInv'
  BY <1>5, SetChannelOrders
<1>6. ASSUME Stop PROVE MapInv'
  <2>1. Ordered' /\ Written' /\ db' = db
    BY <1>6, LostOrders DEF Stop, dbVars
  <2> QED BY <2>1 DEF MapInv, FiniteRows, RowsBounded
<1>7. ASSUME NEW o \in Objects, StopInRemap(o) PROVE MapInv'
  <2>1. Ordered' /\ Written'
    BY <1>7, LostOrders DEF StopInRemap
  <2>2. db' = [db EXCEPT ![KeyOf[o]] = << >>] /\ KeyOf[o] \in Functions
    BY <1>7 DEF StopInRemap, MapperAssumption
  <2>3. Len(<< >>) <= MaxRows
    BY DEF MapperAssumption
  <2>4. FiniteRows' /\ RowsBounded'
    BY <2>2, <2>3, RowsChanged DEF MapInv
  <2> QED BY <2>1, <2>4 DEF MapInv
<1>8. ASSUME ReadDb PROVE MapInv'
  BY <1>8, ReadDbOrders
<1>9. ASSUME UNCHANGED vars PROVE MapInv'
  BY <1>9 DEF vars, memVars, dbVars, objVars, MapInv, Ordered, MapsAgree, Mapped, Before,
              FiniteRows, RowsBounded, Written
<1> QED BY <1>1, <1>2, <1>3, <1>4, <1>5, <1>6, <1>7, <1>8, <1>9 DEF Next

\* Both maps and the database as types and order have them, in all that the
\* mapper does.
THEOREM MapsInductive == Spec => [](IInv /\ MapInv)
<1>1. Init => MapInv
  BY InitOrdered, MapperAssumption
<1>2. IInv /\ IInv' /\ MapInv /\ [Next]_vars => MapInv'
  BY StepOrders
<1> QED BY <1>1, <1>2, Inductive, PTL DEF Spec

\* channel_map holds the entries of function_map, each once and in the order its
\* bisection relies on, for any number of functions and channels: an insertion,
\* a change of channel, a removal and a restart keep it so.
THEOREM MapsStayInOrder == Spec => []MapsAgree
<1>1. IInv /\ MapInv => MapsAgree
  BY DEF MapInv, Ordered
<1> QED BY <1>1, MapsInductive, PTL

\* The types of Mapper, with the bound on the rows failed deletes leave.
THEOREM TypeCorrect == Spec => []TypeOK
<1>1. IInv /\ MapInv => TypeOK
  <2> SUFFICES ASSUME IInv, MapInv PROVE TypeOK
    OBVIOUS
  <2>1. order \in Seq(Functions)
    <3>1. order = [j \in 1 .. Len(order) |-> order[j]] /\ Len(order) \in Nat
      BY SeqDef, LenProperties DEF MapInv, Ordered
    <3>2. \A j \in 1 .. Len(order) : order[j] \in Functions
      BY ElementOfSeq DEF MapInv, Ordered, IInv, DataOK
    <3> QED BY <3>1, <3>2, IsASeq
  <2>2. \A f \in Functions : db[f] \in Seq(Rows) /\ Len(db[f]) <= MaxRows
    BY DEF IInv, DataOK, MapInv, RowsBounded
  <2>3. contested \subseteq Functions
    BY DEF IInv, DataOK
  <2> QED BY <2>1, <2>2, <2>3 DEF TypeOK, IInv, DataOK, MapInv, Written
<1> QED BY <1>1, MapsInductive, PTL

\* In an ordered channel_map the walk around any entry of a channel meets all of
\* its entries.
LEMMA RunIsChannel ==
  ASSUME MapperAssumption, Comparable(entry), Ordered, NEW c \in Channels, NEW i \in DOMAIN order,
         entry[order[i]].channel = c
  PROVE  RunAround(c, i) = {k \in DOMAIN order : entry[order[k]].channel = c}
<1>1. /\ \A j \in DOMAIN order : j \in Int /\ order[j] \in DOMAIN entry /\ entry[order[j]].channel \in Int
      /\ c \in Int
  BY LenProperties, ElementOfSeq DEF Ordered, Mapped, Comparable, Channels
<1>2. \A j, k \in DOMAIN order : j <= k => entry[order[j]].channel <= entry[order[k]].channel
  <2> SUFFICES ASSUME NEW j \in DOMAIN order, NEW k \in DOMAIN order, j <= k
               PROVE  entry[order[j]].channel <= entry[order[k]].channel
    OBVIOUS
  <2>1. j = k \/ Before(entry, order[j], order[k])
    BY <1>1 DEF Ordered, MapsAgree
  <2> QED BY <1>1, <2>1 DEF Before
<1>3. ASSUME NEW k \in DOMAIN order, k \in RunAround(c, i) PROVE entry[order[k]].channel = c
  <2>1. (k <= k /\ k <= i) \/ (i <= k /\ k <= k)
    BY <1>1
  <2> QED BY <2>1, <1>3 DEF RunAround
<1>4. ASSUME NEW k \in DOMAIN order, entry[order[k]].channel = c PROVE k \in RunAround(c, i)
  <2> SUFFICES ASSUME NEW j \in DOMAIN order, (k <= j /\ j <= i) \/ (i <= j /\ j <= k)
               PROVE  entry[order[j]].channel = c
    BY DEF RunAround
  <2>1. /\ k <= j /\ j <= i => entry[order[k]].channel <= entry[order[j]].channel
                               /\ entry[order[j]].channel <= entry[order[i]].channel
        /\ i <= j /\ j <= k => entry[order[i]].channel <= entry[order[j]].channel
                               /\ entry[order[j]].channel <= entry[order[k]].channel
    BY <1>2
  <2> QED BY <2>1, <1>1, <1>4
<1> QED BY <1>3, <1>4 DEF RunAround

\* No function is at two positions of channel_map.
LEMMA OnePosition ==
  ASSUME MapperAssumption, Comparable(entry), Ordered, NEW j \in DOMAIN order, NEW k \in DOMAIN order,
         order[j] = order[k]
  PROVE  j = k
<1>1. j \in Int /\ k \in Int /\ order[j] \in DOMAIN entry
  BY LenProperties, ElementOfSeq DEF Ordered, Mapped
<1>2. ~Before(entry, order[j], order[k])
  BY <1>1, BeforeOrders
<1> QED BY <1>1, <1>2 DEF Ordered, MapsAgree

\* What ChannelSetsItsFunctions says of a step.
LEMMA ChannelStep ==
  ASSUME IInv, MapInv, MapperAssumption, NEW c \in Channels, NEW v \in Levels, SetChannel(c, v)
  PROVE  LET all == {f \in Mapped : entry[f].channel = c /\ entry[f].function # Null}
             due(f) == <<entry[f].function, Scaled(entry[f], v)>>
             closedWith(f, g) ==
               /\ ConnectionOf[entry[f].function] = ConnectionOf[entry[g].function]
               /\ object'[entry[f].function] = "absent"
         IN /\ writes' \subseteq {due(f) : f \in all}
            /\ all \subseteq Convertible =>
                 \A f \in all : \/ due(f) \in writes'
                                \/ \E g \in all \ {f} : due(g) \in writes' /\ closedWith(f, g)
<1> DEFINE all == {f \in Mapped : entry[f].channel = c /\ entry[f].function # Null}
           W(f) == <<entry[f].function, Scaled(entry[f], v)>>
           Together(f, g) == /\ ConnectionOf[entry[f].function] = ConnectionOf[entry[g].function]
                          /\ object'[entry[f].function] = "absent"
<1>1. Comparable(entry)
  BY EntriesComparable DEF IInv, DataOK
<1>2. /\ \A k \in DOMAIN order : order[k] \in Mapped
      /\ \A f \in Mapped : \E k \in DOMAIN order : order[k] = f
  BY DEF MapInv, Ordered, MapsAgree
<1>3. CASE /\ \A k \in DOMAIN order : entry[order[k]].channel # c
           /\ writes' = {}
  <2>1. all = {}
    BY <1>2, <1>3
  <2> QED BY <2>1, <1>3
<1>4. ASSUME NEW i \in DOMAIN order, NEW Failed \in SUBSET Sent,
             entry[order[i]].channel = c, Failed \subseteq Sets(Failed, c, i),
             writes' = {<<Function(k), Scaled(entry[order[k]], v)>> : k \in Sets(Failed, c, i)},
             Closes({Uses(k) : k \in Failed})
      PROVE  /\ writes' \subseteq {W(f) : f \in all}
             /\ all \subseteq Convertible =>
                  \A f \in all : W(f) \in writes' \/ \E g \in all \ {f} : W(g) \in writes' /\ Together(f, g)
  <2> DEFINE bound == {k \in RunAround(c, i) : StillBound(Failed, i, k)}
  <2>1. RunAround(c, i) = {k \in DOMAIN order : entry[order[k]].channel = c}
    BY <1>1, <1>4, RunIsChannel DEF MapInv
  <2>2. \A k \in bound : k \in DOMAIN order /\ order[k] \in all
    BY <2>1, <1>2 DEF StillBound, Function
  <2>3. Sets(Failed, c, i) \subseteq bound
    BY DEF Sets
  <2>4. \A k \in Sets(Failed, c, i) : W(order[k]) \in writes'
    BY <1>4 DEF Function
  <2>5. writes' \subseteq {W(f) : f \in all}
    BY <1>4, <2>2, <2>3 DEF Function
  <2>6. ASSUME all \subseteq Convertible, NEW f \in all, W(f) \notin writes'
        PROVE  \E g \in all \ {f} : W(g) \in writes' /\ Together(f, g)
    <3>1. bound \subseteq Sets(Failed, c, i)
      <4>1. \A j \in bound : order[j] \in Convertible
        BY <2>2, <2>6
      <4> QED BY <4>1 DEF Sets
    <3>2. PICK k \in DOMAIN order : order[k] = f
      BY <1>2
    <3>3. k \in RunAround(c, i) /\ k \notin bound /\ Function(k) # Null
      BY <2>1, <2>4, <2>6, <3>1, <3>2 DEF Function
    <3>4. PICK j \in Failed : VisitedBefore(i, j, k) /\ Uses(j) = Uses(k)
      BY <3>3 DEF StillBound
    <3>5. j \in Sets(Failed, c, i) /\ j \in DOMAIN order /\ order[j] \in all /\ W(order[j]) \in writes'
      BY <1>4, <2>2, <2>3, <2>4
    <3>6. order[j] # f
      <4>1. j \in Int /\ k \in Int /\ i \in Int
        BY <3>5, LenProperties DEF MapInv, Ordered
      <4>2. j # k
        BY <4>1, <3>4 DEF VisitedBefore
      <4> QED BY <4>2, <3>2, <3>5, <1>1, OnePosition DEF MapInv
    <3>7. entry[f].function \in Objects
      BY DEF IInv, DataOK, Entries
    <3>8. ConnectionOf[entry[f].function] = ConnectionOf[entry[order[j]].function]
      BY <3>2, <3>4 DEF Uses, Function
    <3>9. ConnectionOf[entry[f].function] \in {Uses(l) : l \in Failed}
      BY <3>2, <3>4 DEF Uses, Function
    <3>10. object'[entry[f].function] = "absent"
      BY <1>4, <3>7, <3>9 DEF Closes
    <3> QED BY <3>5, <3>6, <3>8, <3>10
  <2> QED BY <2>5, <2>6
<1> QED BY <1>3, <1>4 DEF SetChannel

\* A DMX level reaches exactly the objects bound to entries of its channel, if
\* each can take a number, and never another object, whichever entry of the
\* channel the bisection ends at.  The connections closed within the walk make no
\* difference but to the objects they take with them: an entry is missed only if
\* its own connection is closed, because the level could not be sent to another
\* function of the channel.
THEOREM LevelsReachTheirFunctions == Spec => ChannelSetsItsFunctions
<1>1. IInv /\ MapInv =>
        [\A c \in Channels, v \in Levels : SetChannel(c, v) =>
           LET all == {f \in Mapped : entry[f].channel = c /\ entry[f].function # Null}
               due(f) == <<entry[f].function, Scaled(entry[f], v)>>
               closedWith(f, g) ==
                 /\ ConnectionOf[entry[f].function] = ConnectionOf[entry[g].function]
                 /\ object'[entry[f].function] = "absent"
           IN /\ writes' \subseteq {due(f) : f \in all}
              /\ all \subseteq Convertible =>
                   \A f \in all : \/ due(f) \in writes'
                                  \/ \E g \in all \ {f} : due(g) \in writes' /\ closedWith(f, g)]_vars
  BY ChannelStep, MapperAssumption
<1> QED BY <1>1, MapsInductive, PTL DEF ChannelSetsItsFunctions

-----------------------------------------------------------------------------
(* The page.                                                               *)

\* Rows are of functions and have limits; those of mapped functions have the
\* mapper's.  There are none without a process.
PageInv ==
  /\ ~up => DOMAIN page = {}
  /\ DOMAIN page \subseteq Functions
  /\ \A f \in DOMAIN page : page[f].min \in Limits /\ page[f].max \in Limits
  /\ PageAgrees

\* A row is set, and is that of the function's entry if it has one.
LEMMA RowShown ==
  ASSUME PageInv, up', NEW f \in Functions, NEW r, page' = With(page, f, r),
         r.min \in Limits, r.max \in Limits,
         \A g \in Mapped' \ {f} : g \in Mapped /\ Row(entry'[g]) = Row(entry[g]),
         \A g \in Mapped \ {f} : g \in Mapped',
         IF f \in Mapped' THEN r = Row(entry'[f]) ELSE r.channel = 0
  PROVE  PageInv'
<1>1. /\ DOMAIN page' = DOMAIN page \cup {f} /\ page'[f] = r
      /\ \A g \in DOMAIN page' : g # f => g \in DOMAIN page /\ page'[g] = page[g]
  BY DEF With
<1>2. DOMAIN page' \subseteq Functions
  BY <1>1 DEF PageInv
<1>3. \A g \in DOMAIN page' : page'[g].min \in Limits /\ page'[g].max \in Limits
  BY <1>1 DEF PageInv
<1>4. \A g \in Mapped' : g \in DOMAIN page' /\ page'[g] = Row(entry'[g])
  <2> SUFFICES ASSUME NEW g \in Mapped' PROVE g \in DOMAIN page' /\ page'[g] = Row(entry'[g])
    OBVIOUS
  <2>1. CASE g = f
    BY <2>1, <1>1
  <2>2. CASE g # f
    <3>1. g \in Mapped /\ Row(entry'[g]) = Row(entry[g])
      BY <2>2
    <3>2. g \in DOMAIN page /\ page[g] = Row(entry[g])
      BY <3>1 DEF PageInv, PageAgrees
    <3> QED BY <1>1, <2>2, <3>1, <3>2
  <2> QED BY <2>1, <2>2
<1>5. \A g \in DOMAIN page' \ Mapped' : page'[g].channel = 0
  <2> SUFFICES ASSUME NEW g \in DOMAIN page' \ Mapped' PROVE page'[g].channel = 0
    OBVIOUS
  <2>1. CASE g = f
    BY <2>1, <1>1
  <2>2. CASE g # f
    BY <2>2, <1>1 DEF PageInv, PageAgrees
  <2> QED BY <2>1, <2>2
<1> QED BY <1>2, <1>3, <1>4, <1>5 DEF PageInv, PageAgrees

\* A step that shows nothing leaves what the page shows as it is.
LEMMA PageKept ==
  ASSUME PageInv, page' = page, up' = up, Mapped' = Mapped,
         \A g \in Mapped : Row(entry'[g]) = Row(entry[g])
  PROVE  PageInv'
BY DEF PageInv, PageAgrees

\* Objects and levels change no channel and no limits.
LEMMA OnlyMapperKeepsRows ==
  ASSUME IInv, MapperAssumption,
         \/ \E o \in Objects : Create(o)
         \/ \E k \in Connections : Destroy(k)
         \/ \E c \in Channels, v \in Levels : SetChannel(c, v)
  PROVE  Mapped' = Mapped /\ \A f \in Mapped : /\ Row(entry'[f]) = Row(entry[f])
                                              /\ entry'[f].min = entry[f].min
                                              /\ entry'[f].max = entry[f].max
<1>1. UNCHANGED entry \/ \E K : Closes(K)
  <2>1. ASSUME NEW o \in Objects, Create(o) PROVE UNCHANGED entry
    BY <2>1 DEF Create, memVars
  <2>2. ASSUME NEW k \in Connections, Destroy(k) PROVE \E K : Closes(K)
    BY <2>2 DEF Destroy
  <2>3. ASSUME NEW c \in Channels, NEW v \in Levels, SetChannel(c, v)
        PROVE  UNCHANGED entry \/ \E K : Closes(K)
    BY <2>3, LevelCloses
  <2> QED BY <2>1, <2>2, <2>3
<1>2. CASE UNCHANGED entry
  BY <1>2 DEF Mapped
<1>3. ASSUME NEW K, Closes(K)
      PROVE  Mapped' = Mapped /\ \A f \in Mapped : /\ Row(entry'[f]) = Row(entry[f])
                                                  /\ entry'[f].min = entry[f].min
                                                  /\ entry'[f].max = entry[f].max
  BY <1>3, ClosedEntries DEF Row
<1> QED BY <1>1, <1>2, <1>3

\* Each step of the program is one of the mapper, and keeps the page.
LEMMA PageStep ==
  ASSUME IInv, IInv', PageInv, MapperAssumption, PageAssumption, [PageNext]_pageVars
  PROVE  PageInv'
<1>1. ASSUME NEW o \in Objects, NEW c \in Channels, NEW min \in Limits, NEW max \in Limits,
             NEW d \in BOOLEAN, NEW i \in BOOLEAN, RequestChannel(o, c, min, max, d, i)
      PROVE  PageInv'
  <2> DEFINE f == KeyOf[o]
             e == [channel |-> c, min |-> min, max |-> max, function |-> o]
  <2>1. f \in Functions
    BY DEF MapperAssumption
  <2>2. up' /\ entry' = With(entry, f, e) /\ page' = With(page, f, Row(entry'[f]))
    BY <1>1 DEF RequestChannel, AddMapFunction, AddEntry, MappingChanged
  <2>3. /\ Mapped' = Mapped \cup {f} /\ entry'[f] = e
        /\ \A g \in Mapped' \ {f} : g \in Mapped /\ entry'[g] = entry[g]
    BY <2>2 DEF Mapped, With
  <2>4. Row(entry'[f]).min \in Limits /\ Row(entry'[f]).max \in Limits
    BY <2>3 DEF Row
  <2>5. /\ \A g \in Mapped' \ {f} : g \in Mapped /\ Row(entry'[g]) = Row(entry[g])
        /\ \A g \in Mapped \ {f} : g \in Mapped'
        /\ f \in Mapped'
    BY <2>3
  <2> QED BY <2>1, <2>2, <2>4, <2>5, RowShown
<1>2. ASSUME NEW f \in Functions, NEW d \in BOOLEAN, RequestNoChannel(f, d) PROVE PageInv'
  <2>1. up' /\ f \in Mapped /\ entry' = Without(entry, f) /\ page' = [page EXCEPT ![f].channel = 0]
    BY <1>2 DEF RequestNoChannel, RemoveFunc, MappingRemoved
  <2>2. Mapped' = Mapped \ {f} /\ \A g \in Mapped' : entry'[g] = entry[g]
    BY <2>1 DEF Mapped, Without
  <2>3. f \in DOMAIN page /\ page[f] = Row(entry[f])
    BY <2>1 DEF PageInv, PageAgrees
  <2>4. page' = With(page, f, [channel |-> 0, min |-> page[f].min, max |-> page[f].max])
    <3>1. DOMAIN page \cup {f} = DOMAIN page
      BY <2>3
    <3>2. page[f] = [channel |-> entry[f].channel, min |-> entry[f].min, max |-> entry[f].max]
      BY <2>3 DEF Row
    <3>3. [page[f] EXCEPT !.channel = 0] = [channel |-> 0, min |-> page[f].min, max |-> page[f].max]
      BY <3>2
    <3>4. page' = [g \in DOMAIN page |-> IF g = f THEN [page[f] EXCEPT !.channel = 0] ELSE page[g]]
      BY <2>1
    <3> QED BY <3>1, <3>3, <3>4 DEF With
  <2>5. page[f].min \in Limits /\ page[f].max \in Limits
    BY <2>3 DEF PageInv
  <2>6. /\ \A g \in Mapped' \ {f} : g \in Mapped /\ Row(entry'[g]) = Row(entry[g])
        /\ \A g \in Mapped \ {f} : g \in Mapped'
        /\ f \notin Mapped'
    BY <2>2
  <2> DEFINE r == [channel |-> 0, min |-> page[f].min, max |-> page[f].max]
  <2>7. r.min \in Limits /\ r.max \in Limits /\ r.channel = 0
    BY <2>5
  <2> HIDE DEF r
  <2> QED BY <2>1, <2>4, <2>6, <2>7, RowShown DEF r
<1>3. ASSUME NEW f \in Functions, NEW m \in Limits, NEW u \in BOOLEAN, RequestLimit(f, m, u)
      PROVE  PageInv'
  <2>1. /\ up' /\ f \in Mapped /\ page' = With(page, f, Row(entry'[f]))
        /\ Mapped' = Mapped /\ \A g \in Mapped' \ {f} : entry'[g] = entry[g]
    BY <1>3 DEF RequestLimit, SetMin, SetMax, SetLimits, MappingChanged, Mapped
  <2>2. Row(entry'[f]).min \in Limits /\ Row(entry'[f]).max \in Limits
    BY <2>1 DEF IInv, DataOK, Entries, Row
  <2>3. /\ \A g \in Mapped' \ {f} : g \in Mapped /\ Row(entry'[g]) = Row(entry[g])
        /\ \A g \in Mapped \ {f} : g \in Mapped'
        /\ f \in Mapped'
    BY <2>1
  <2> QED BY <2>1, <2>2, <2>3, RowShown
<1>4. ASSUME NEW o \in Objects, Available(o) PROVE PageInv'
  <2> DEFINE f == KeyOf[o]
  <2>1. f \in Functions /\ up /\ up'
    BY <1>4 DEF MapperAssumption, Available, BindFunction
  <2>2. Mapped' = Mapped /\ \A g \in Mapped : Row(entry'[g]) = Row(entry[g])
    BY <1>4 DEF Available, BindFunction, Mapped, Row, IInv, DataOK, Entries
  <2>3. /\ \A g \in Mapped' \ {f} : g \in Mapped /\ Row(entry'[g]) = Row(entry[g])
        /\ \A g \in Mapped \ {f} : g \in Mapped'
    BY <2>2
  <2>4. CASE f \in Mapped
    <3>1. page' = With(page, f, Row(entry'[f])) /\ f \in Mapped'
      BY <1>4, <2>4, <2>2 DEF Available, ExportMapping
    <3>2. Row(entry'[f]).min \in Limits /\ Row(entry'[f]).max \in Limits
      BY <3>1 DEF IInv, DataOK, Entries, Row
    <3> QED BY <2>1, <2>3, <3>1, <3>2, RowShown
  <2>5. CASE f \notin Mapped /\ f \in DOMAIN DefaultOf
    <3>1. page' = With(page, f, Unmapped(f)) /\ f \notin Mapped'
      BY <1>4, <2>5, <2>2 DEF Available, ExportMapping
    <3>2. Unmapped(f).min \in Limits /\ Unmapped(f).max \in Limits /\ Unmapped(f).channel = 0
      BY <2>5 DEF Unmapped, PageAssumption
    <3> QED BY <2>1, <2>3, <3>1, <3>2, RowShown
  <2>6. CASE f \notin Mapped /\ f \notin DOMAIN DefaultOf
    <3>1. page' = page
      BY <1>4, <2>6 DEF Available, ExportMapping
    <3> QED BY <3>1, <2>1, <2>2, PageKept
  <2> QED BY <2>4, <2>5, <2>6
<1>5. CASE OnlyMapper
  <2>1. page' = page /\ up' = up
    BY <1>5 DEF OnlyMapper, Create, Destroy, SetChannel, memVars
  <2>2. Mapped' = Mapped /\ \A g \in Mapped : Row(entry'[g]) = Row(entry[g])
    BY <1>5, OnlyMapperKeepsRows DEF OnlyMapper
  <2> QED BY <2>1, <2>2, PageKept
<1>6. CASE Ends
  <2>1. Mapped' = {} /\ DOMAIN page' = {}
    BY <1>6 DEF Ends, Stop, StopInRemap, Lost, Mapped
  <2> QED BY <2>1 DEF PageInv, PageAgrees
<1>7. CASE ReadDbRows
  <2>1. up' /\ page' = [f \in Mapped' |-> Row(entry'[f])]
    BY <1>7 DEF ReadDbRows, ReadDb, Mapped
  <2>2. Mapped' \subseteq Functions /\ \A f \in Mapped' : entry'[f] \in Entries
    BY DEF IInv, DataOK
  <2>3. \A f \in Mapped' : Row(entry'[f]).min \in Limits /\ Row(entry'[f]).max \in Limits
    BY <2>2 DEF Entries, Row
  <2> QED BY <2>1, <2>2, <2>3 DEF PageInv, PageAgrees
<1>8. CASE UNCHANGED pageVars
  <2>1. page' = page /\ entry' = entry /\ up' = up
    BY <1>8 DEF pageVars, vars, memVars
  <2> QED BY <2>1, PageKept DEF Mapped
<1> QED BY <1>1, <1>2, <1>3, <1>4, <1>5, <1>6, <1>7, <1>8 DEF PageNext

\* A step of the page is one of the mapper or leaves it alone: its rows hold
\* limits a mapping may have.
LEMMA PageSteps ==
  ASSUME PageInv, MapperAssumption, [PageNext]_pageVars
  PROVE  [Next]_vars
<1>1. ASSUME NEW o \in Objects, NEW c \in Channels, NEW min \in Limits, NEW max \in Limits,
             NEW d \in BOOLEAN, NEW i \in BOOLEAN, RequestChannel(o, c, min, max, d, i)
      PROVE  Next
  BY <1>1 DEF RequestChannel, Next
<1>2. ASSUME NEW f \in Functions, NEW d \in BOOLEAN, RequestNoChannel(f, d) PROVE Next
  BY <1>2 DEF RequestNoChannel, Next
<1>3. ASSUME NEW f \in Functions, NEW m \in Limits, NEW u \in BOOLEAN, RequestLimit(f, m, u)
      PROVE  Next
  BY <1>3 DEF RequestLimit, Next
<1>4. ASSUME NEW o \in Objects, Available(o) PROVE Next
  BY <1>4 DEF Available, Next
<1>5. CASE OnlyMapper
  BY <1>5 DEF OnlyMapper, Next
<1>6. CASE Ends
  BY <1>6 DEF Ends, Next
<1>7. CASE ReadDbRows
  BY <1>7 DEF ReadDbRows, Next
<1>8. CASE UNCHANGED pageVars
  BY <1>8 DEF pageVars
<1> QED BY <1>1, <1>2, <1>3, <1>4, <1>5, <1>6, <1>7, <1>8 DEF PageNext

\* IInv and the page's invariant, of the program with its page.
THEOREM PageInductive == PageSpec => [](IInv /\ PageInv)
<1>1. PageInit => IInv /\ PageInv
  <2>1. PageInit => IInv
    BY InitHolds DEF PageInit
  <2>2. PageInit => PageInv
    BY DEF PageInit, Init, PageInv, PageAgrees, Mapped
  <2> QED BY <2>1, <2>2
<1>2. (IInv /\ PageInv) /\ [PageNext]_pageVars => (IInv /\ PageInv)'
  <2> SUFFICES ASSUME IInv, PageInv, [PageNext]_pageVars PROVE IInv' /\ PageInv'
    OBVIOUS
  <2>1. IInv'
    BY PageSteps, StepKeeps, MapperAssumption
  <2> QED BY <2>1, PageStep, MapperAssumption, PageAssumption
<1> QED BY <1>1, <1>2, PTL DEF PageSpec

\* What the page shows is what the mapper has, for any functions, channels and
\* limits, through connections, failing writes and restarts.
THEOREM PageCurrent == PageSpec => []PageAgrees
<1>1. PageInv => PageAgrees
  BY DEF PageInv
<1> QED BY <1>1, PageInductive, PTL

\* With its page the program implements Mapper, where a request may bring any
\* limits: what is proved of the mapper holds of the program with its page.
THEOREM PageImplementsMapper == PageSpec => Spec
<1>1. PageInit => Init
  BY DEF PageInit
<1>2. PageInv /\ [PageNext]_pageVars => [Next]_vars
  BY PageSteps, MapperAssumption
<1> QED BY <1>1, <1>2, PageInductive, PTL DEF PageSpec, Spec

\* What is proved of the two maps, for the program with its page.
THEOREM PageKeepsMaps == PageSpec => []TypeOK /\ []MapsAgree /\ ChannelSetsItsFunctions
BY PageImplementsMapper, TypeCorrect, MapsStayInOrder, LevelsReachTheirFunctions

\* A mapping after a step has the limits the page showed before it, or a request
\* for a limit has been made.
LEMMA MappedLimits ==
  ASSUME IInv, PageInv, MapperAssumption, PageNext, NEW f \in DOMAIN page \cap DOMAIN entry'
  PROVE  \/ \E m \in Limits, u \in BOOLEAN : SetMin(f, m, u) \/ SetMax(f, m, u)
         \/ entry'[f].min = page[f].min /\ entry'[f].max = page[f].max
<1>1. ASSUME f \in Mapped PROVE page[f].min = entry[f].min /\ page[f].max = entry[f].max
  <2>1. page[f] = Row(entry[f])
    BY <1>1 DEF PageInv, PageAgrees
  <2> QED BY <2>1 DEF Row
<1>2. ASSUME NEW o \in Objects, NEW c \in Channels, NEW min \in Limits, NEW max \in Limits,
             NEW d \in BOOLEAN, NEW i \in BOOLEAN, RequestChannel(o, c, min, max, d, i)
      PROVE  entry'[f].min = page[f].min /\ entry'[f].max = page[f].max
  <2> DEFINE g == KeyOf[o]
             e == [channel |-> c, min |-> min, max |-> max, function |-> o]
  <2>1. entry' = With(entry, g, e)
    BY <1>2 DEF RequestChannel, AddMapFunction, AddEntry
  <2>2. CASE f = g
    <3>1. min = page[f].min /\ max = page[f].max
      BY <1>2, <2>2 DEF RequestChannel
    <3>2. entry'[f] = e
      BY <2>1, <2>2 DEF With
    <3> QED BY <3>1, <3>2
  <2>3. CASE f # g
    <3>1. f \in Mapped /\ entry'[f] = entry[f]
      BY <2>1, <2>3 DEF With, Mapped
    <3> QED BY <3>1, <1>1
  <2> QED BY <2>2, <2>3
<1>3. ASSUME NEW g \in Functions, NEW d \in BOOLEAN, RequestNoChannel(g, d)
      PROVE  entry'[f].min = page[f].min /\ entry'[f].max = page[f].max
  <2>1. entry' = Without(entry, g)
    BY <1>3 DEF RequestNoChannel, RemoveFunc
  <2>2. f \in Mapped /\ entry'[f] = entry[f]
    BY <2>1 DEF Without, Mapped
  <2> QED BY <2>2, <1>1
<1>4. ASSUME NEW g \in Functions, NEW m \in Limits, NEW u \in BOOLEAN, RequestLimit(g, m, u)
      PROVE  \/ SetMin(f, m, u) \/ SetMax(f, m, u)
             \/ entry'[f].min = page[f].min /\ entry'[f].max = page[f].max
  <2>1. CASE g = f
    BY <1>4, <2>1 DEF RequestLimit
  <2>2. CASE g # f
    <3>1. f \in Mapped /\ entry'[f] = entry[f]
      BY <1>4, <2>2 DEF RequestLimit, SetMin, SetMax, SetLimits, Mapped
    <3> QED BY <3>1, <1>1
  <2> QED BY <2>1, <2>2
<1>5. ASSUME NEW o \in Objects, Available(o)
      PROVE  entry'[f].min = page[f].min /\ entry'[f].max = page[f].max
  <2>1. f \in Mapped /\ entry'[f].min = entry[f].min /\ entry'[f].max = entry[f].max
    BY <1>5 DEF Available, BindFunction, Mapped, IInv, DataOK, Entries
  <2> QED BY <2>1, <1>1
<1>6. ASSUME OnlyMapper
      PROVE  entry'[f].min = page[f].min /\ entry'[f].max = page[f].max
  <2>1. Mapped' = Mapped /\ \A g \in Mapped : entry'[g].min = entry[g].min /\ entry'[g].max = entry[g].max
    BY <1>6, OnlyMapperKeepsRows DEF OnlyMapper
  <2> QED BY <2>1, <1>1 DEF Mapped
<1>7. CASE Ends
  BY <1>7 DEF Ends, Stop, StopInRemap, Lost
<1>8. CASE ReadDbRows
  BY <1>8 DEF ReadDbRows, ReadDb, PageInv
<1> QED BY <1>2, <1>3, <1>4, <1>5, <1>6, <1>7, <1>8 DEF PageNext

\* The limits shown for a function that is not mapped after a step are those that
\* were shown, or its device has become available.
LEMMA UnmappedLimits ==
  ASSUME IInv, PageInv, MapperAssumption, PageNext,
         NEW f \in (DOMAIN page \cap DOMAIN page') \ DOMAIN entry'
  PROVE  \/ \E o \in Objects : KeyOf[o] = f /\ Available(o)
         \/ page'[f].min = page[f].min /\ page'[f].max = page[f].max
<1>1. ASSUME NEW g, NEW r, page' = With(page, g, r), f # g
      PROVE  page'[f] = page[f]
  BY <1>1 DEF With
<1>2. ASSUME NEW o \in Objects, NEW c \in Channels, NEW min \in Limits, NEW max \in Limits,
             NEW d \in BOOLEAN, NEW i \in BOOLEAN, RequestChannel(o, c, min, max, d, i)
      PROVE  page'[f] = page[f]
  <2>1. page' = With(page, KeyOf[o], Row(entry'[KeyOf[o]])) /\ KeyOf[o] \in DOMAIN entry'
    BY <1>2 DEF RequestChannel, AddMapFunction, AddEntry, MappingChanged, With
  <2> QED BY <2>1, <1>1
<1>3. ASSUME NEW g \in Functions, NEW d \in BOOLEAN, RequestNoChannel(g, d)
      PROVE  page'[f].min = page[f].min /\ page'[f].max = page[f].max
  <2>1. g \in Mapped /\ page' = [page EXCEPT ![g].channel = 0]
    BY <1>3 DEF RequestNoChannel, RemoveFunc, MappingRemoved
  <2>2. page[g] = [channel |-> entry[g].channel, min |-> entry[g].min, max |-> entry[g].max]
    BY <2>1 DEF PageInv, PageAgrees, Row
  <2>3. CASE f = g
    <3>1. page'[f] = [page[f] EXCEPT !.channel = 0]
      BY <2>1, <2>3
    <3> QED BY <3>1, <2>2, <2>3
  <2>4. CASE f # g
    BY <2>1, <2>4
  <2> QED BY <2>3, <2>4
<1>4. ASSUME NEW g \in Functions, NEW m \in Limits, NEW u \in BOOLEAN, RequestLimit(g, m, u)
      PROVE  page'[f] = page[f]
  <2>1. page' = With(page, g, Row(entry'[g])) /\ g \in DOMAIN entry'
    BY <1>4 DEF RequestLimit, SetMin, SetMax, SetLimits, MappingChanged, Mapped
  <2> QED BY <2>1, <1>1
<1>5. ASSUME NEW o \in Objects, Available(o), KeyOf[o] # f
      PROVE  page'[f] = page[f]
  <2>1. page' = page \/ \E r : page' = With(page, KeyOf[o], r)
    BY <1>5 DEF Available, ExportMapping
  <2> QED BY <2>1, <1>1, <1>5
<1>6. CASE OnlyMapper
  BY <1>6 DEF OnlyMapper
<1>7. CASE Ends
  BY <1>7 DEF Ends
<1>8. CASE ReadDbRows
  BY <1>8 DEF ReadDbRows, ReadDb, PageInv
<1> QED BY <1>2, <1>3, <1>4, <1>5, <1>6, <1>7, <1>8 DEF PageNext

\* Only a request for a limit changes the limits of a mapping, however often it is
\* moved, disabled and enabled again: they are the ones the page shows, and while
\* there is no mapping only the device, becoming available, changes those.
THEOREM LimitsStay == PageSpec => LimitsKept
<1>1. IInv /\ PageInv /\ [PageNext]_pageVars =>
        [/\ \A f \in DOMAIN page \cap DOMAIN entry' :
              \/ \E m \in Limits, u \in BOOLEAN : SetMin(f, m, u) \/ SetMax(f, m, u)
              \/ entry'[f].min = page[f].min /\ entry'[f].max = page[f].max
         /\ \A f \in (DOMAIN page \cap DOMAIN page') \ DOMAIN entry' :
              \/ \E o \in Objects : KeyOf[o] = f /\ Available(o)
              \/ page'[f].min = page[f].min /\ page'[f].max = page[f].max]_pageVars
  BY MappedLimits, UnmappedLimits, MapperAssumption
<1> QED BY <1>1, PageInductive, PTL DEF PageSpec, LimitsKept
=============================================================================
