------------------------------- MODULE Mapper -------------------------------
(***************************************************************************)
(* dmx_c2ip_mapper.c, with what main.c does around it: which C2IP function *)
(* follows which DMX channel and between which limits.                     *)
(*                                                                         *)
(* The same entries are held by function_map, keyed by function, and by    *)
(* channel_map, a sequence sorted by channel and then function that is     *)
(* searched by bisection.  A table of the database holds a row per entry   *)
(* and outlives the process; a change of an entry's channel deletes the    *)
(* row and inserts a new one, in two transactions.  A write that fails is  *)
(* only logged.                                                            *)
(*                                                                         *)
(* An entry may be bound to a live function object.  Objects come with a   *)
(* connection and die with it, clearing the entries' weak pointers.  That  *)
(* may happen while a level is sent: a write that fails closes the         *)
(* connection before the walk over the entries of the channel goes on.     *)
(* Two connections to one device give two objects for one function.        *)
(*                                                                         *)
(* A function is a number, its place in the order of function_cmp.         *)
(***************************************************************************)
EXTENDS Integers, FiniteSets, Sequences, SequencesExt

CONSTANTS
  Functions,     \* functions that can be mapped, as numbers
  MaxChannel,    \* 512 in the code
  Limits,        \* values of an entry's min and max
  Levels,        \* values of a DMX channel
  Objects,       \* C2IPFunction objects
  KeyOf,         \* the function an object is
  Connections,   \* connections to devices
  ConnectionOf,  \* the connection an object comes with
  Convertible,   \* functions a float can be transformed to the value of
  Null,
  Unreliable,    \* functions whose writes to the database may fail (a bound)
  MaxRows        \* bound: rows of one function a failed delete may leave

ASSUME MapperAssumption ==
  /\ Functions \subseteq Int /\ MaxChannel \in Nat \ {0} /\ MaxRows \in Nat \ {0}
  /\ Limits \subseteq Int /\ Levels \subseteq 0 .. 255
  /\ KeyOf \in [Objects -> Functions] /\ Null \notin Objects
  /\ ConnectionOf \in [Objects -> Connections]
  /\ Convertible \subseteq Functions /\ Unreliable \subseteq Functions

VARIABLES
  up,            \* the process runs
  entry,         \* function_map
  order,         \* channel_map
  db,            \* the rows of every function, oldest first
  dbFailed,      \* functions whose last decisive write to the database failed
  object,        \* where the function objects are in their life
  contested,     \* functions that had two objects at once in this process
  writes         \* what the last step set function objects to

memVars == <<up, entry, order>>
dbVars  == <<db, dbFailed>>
objVars == <<object, contested>>
vars    == <<memVars, dbVars, objVars, writes>>

Channels == 1 .. MaxChannel

Rows == [channel : Channels, min : Limits, max : Limits]

Entries == [channel : Channels, min : Limits, max : Limits, function : Objects \cup {Null}]

Mapped == DOMAIN entry

Row(e) == [channel |-> e.channel, min |-> e.min, max |-> e.max]

Live(o) == object[o] # "absent"

With(map, f, e) == [g \in DOMAIN map \cup {f} |-> IF g = f THEN e ELSE map[g]]

Without(map, f) == [g \in DOMAIN map \ {f} |-> map[g]]

\* map_cmp: by channel, then by function.
Before(map, f, g) ==
  \/ map[f].channel < map[g].channel
  \/ map[f].channel = map[g].channel /\ f < g

\* g_sequence_insert_sorted.
InsertSorted(s, map, f) ==
  InsertAt(s, Cardinality({i \in DOMAIN s : Before(map, s[i], f)}) + 1, f)

\* Mutant: an entry whose channel changes stays where it is.
NotResorted(s, map) == s

\* The position element i of s gets when s is sorted with map_cmp.
Place(s, map, i) ==
  Cardinality({j \in DOMAIN s : Before(map, s[j], s[i]) \/ (s[j] = s[i] /\ j < i)}) + 1

\* g_sequence_sort.
Resorted(s, map) ==
  [k \in DOMAIN s |-> s[CHOOSE i \in DOMAIN s : Place(s, map, i) = k]]

Init ==
  /\ up = TRUE
  /\ entry = << >> /\ order = << >>
  /\ db = [f \in Functions |-> << >>] /\ dbFailed = {}
  /\ object = [o \in Objects |-> "absent"] /\ contested = {}
  /\ writes = {}

-----------------------------------------------------------------------------
(* The database.                                                           *)

Delete(rows, ok) == IF ok THEN << >> ELSE rows

Insert(rows, e, ok) == IF ok THEN Append(rows, Row(e)) ELSE rows

\* Mutant: the limits are written as a new row.
UpdateInserts(rows, e, ok) == IF ok THEN Append(rows, Row(e)) ELSE rows

Update(rows, e, ok) ==
  IF ok THEN [i \in DOMAIN rows |-> [Row(e) EXCEPT !.channel = rows[i].channel]] ELSE rows

\* Writes fail for the functions of a bound only.
Possible(f, ok) == ok \/ f \in Unreliable

Marked(f, failed) == IF failed THEN dbFailed \cup {f} ELSE dbFailed \ {f}

-----------------------------------------------------------------------------
(* Entries: the requests the web interface makes, change_mapping.          *)

\* add_entry: a function that is mapped already loses its rows, is changed,
\* sorted again and inserted; another one is inserted.
AddEntry(f, e, deleted, inserted) ==
  /\ Possible(f, deleted) /\ Possible(f, inserted)
  /\ entry' = With(entry, f, e)
  /\ \/ /\ f \in Mapped
        /\ order' = Resorted(order, entry')
        /\ Len(Delete(db[f], deleted)) < MaxRows
        /\ db' = [db EXCEPT ![f] = Insert(Delete(@, deleted), e, inserted)]
     \/ /\ f \notin Mapped
        /\ order' = InsertSorted(order, entry', f)
        /\ Len(db[f]) < MaxRows
        /\ db' = [db EXCEPT ![f] = Insert(@, e, inserted)]
  /\ dbFailed' = Marked(f, ~inserted)

\* Mutant: a new mapping waits for the next connection to be bound.
AddMapFunctionUnbound(o, c, min, max, deleted, inserted) ==
  /\ up /\ Live(o)
  /\ AddEntry(KeyOf[o], [channel |-> c, min |-> min, max |-> max, function |-> Null],
              deleted, inserted)
  /\ writes' = {}
  /\ UNCHANGED <<up, objVars>>

\* dmx_c2ip_mapper_add_map_function: the web interface asks for a channel,
\* the limits are the ones its tree holds.  The entry is bound to the object
\* the request found, whatever it was bound to before.
AddMapFunction(o, c, min, max, deleted, inserted) ==
  /\ up /\ Live(o)
  /\ AddEntry(KeyOf[o], [channel |-> c, min |-> min, max |-> max, function |-> o],
              deleted, inserted)
  /\ writes' = {}
  /\ UNCHANGED <<up, objVars>>

\* dmx_c2ip_mapper_remove_func: the web interface asks for channel 0.  The
\* bisection finds the position of the entry in channel_map.
RemoveFunc(f, deleted) ==
  /\ up /\ f \in Mapped /\ Possible(f, deleted)
  /\ entry' = Without(entry, f)
  /\ \E i \in DOMAIN order : order[i] = f /\ order' = RemoveAt(order, i)
  /\ db' = [db EXCEPT ![f] = Delete(@, deleted)]
  /\ dbFailed' = Marked(f, ~deleted)
  /\ writes' = {}
  /\ UNCHANGED <<up, objVars>>

\* dmx_c2ip_mapper_set_min, dmx_c2ip_mapper_set_max.  A row that is missing
\* or wrong because an earlier write failed is not repaired.
SetLimits(f, e, updated) ==
  /\ up /\ f \in Mapped /\ Possible(f, updated)
  /\ entry' = [entry EXCEPT ![f] = e]
  /\ db' = [db EXCEPT ![f] = Update(@, e, updated)]
  /\ dbFailed' = Marked(f, ~updated \/ f \in dbFailed)
  /\ writes' = {}
  /\ UNCHANGED <<up, order, objVars>>

SetMin(f, min, updated) == SetLimits(f, [entry[f] EXCEPT !.min = min], updated)

SetMax(f, max, updated) == SetLimits(f, [entry[f] EXCEPT !.max = max], updated)

-----------------------------------------------------------------------------
(* Function objects.                                                       *)

\* A value reply of a new connection creates the function.
Create(o) ==
  /\ up /\ ~Live(o)
  /\ object' = [object EXCEPT ![o] = "live"]
  /\ contested' = IF \E p \in Objects : KeyOf[p] = KeyOf[o] /\ Live(p)
                  THEN contested \cup {KeyOf[o]} ELSE contested
  /\ writes' = {}
  /\ UNCHANGED <<memVars, dbVars>>

\* dmx_c2ip_mapper_bind_function, when the values of the connection are ready.
BindFunction(o) ==
  /\ up /\ object[o] = "live"
  /\ object' = [object EXCEPT ![o] = "ready"]
  /\ entry' = IF KeyOf[o] \in Mapped /\ entry[KeyOf[o]].function = Null
              THEN [entry EXCEPT ![KeyOf[o]].function = o] ELSE entry
  /\ writes' = {}
  /\ UNCHANGED <<up, order, dbVars, contested>>

\* Mutant: the entry holds a plain pointer.
ClosesNotNoticed(K) ==
  /\ object' = [o \in Objects |-> IF ConnectionOf[o] \in K THEN "absent" ELSE object[o]]
  /\ entry' = entry

\* The connections K are closed: their objects are freed, and the weak pointers
\* to these are cleared.
Closes(K) ==
  /\ object' = [o \in Objects |-> IF ConnectionOf[o] \in K THEN "absent" ELSE object[o]]
  /\ entry' = [f \in Mapped |->
                 IF entry[f].function # Null /\ ConnectionOf[entry[f].function] \in K
                 THEN [entry[f] EXCEPT !.function = Null] ELSE entry[f]]

\* A connection is closed on its own.
Destroy(k) ==
  /\ up /\ \E o \in Objects : ConnectionOf[o] = k /\ Live(o)
  /\ Closes({k})
  /\ writes' = {}
  /\ UNCHANGED <<up, order, dbVars, contested>>

-----------------------------------------------------------------------------
(* DMX.                                                                    *)

\* set_function: min + value * (max - min) / 255, in units of 1/255.
Scaled(e, v) == 255 * e.min + v * (e.max - e.min)

\* Mutant: the walk back ends before the first position of the sequence, as
\* the one of dmx_c2ip_mapper_remove_channel does.
RunNotFromBegin(c, i) ==
  {k \in DOMAIN order : (k = 1 => i = 1) /\ \A j \in DOMAIN order :
     (k <= j /\ j <= i) \/ (i <= j /\ j <= k) => entry[order[j]].channel = c}

\* Positions of the run of the channel around i in channel_map.
RunAround(c, i) ==
  {k \in DOMAIN order : \A j \in DOMAIN order :
     (k <= j /\ j <= i) \/ (i <= j /\ j <= k) => entry[order[j]].channel = c}

\* The walk visits i - 1 and down, then i and up.
VisitedBefore(i, j, k) == IF k < i THEN k < j /\ j < i ELSE j < k

Function(k) == entry[order[k]].function

\* The connection of what the entry at k is bound to.
Uses(k) == ConnectionOf[Function(k)]

\* The entry at k is bound when the walk comes to it; at the positions Failed
\* the value could not be sent, and the connection has been closed.
StillBound(Failed, i, k) ==
  /\ Function(k) # Null
  /\ \A j \in Failed : VisitedBefore(i, j, k) => Uses(j) # Uses(k)

\* set_function calls c2ip_function_set_value: g_value_transform has not failed
\* for this entry or an earlier one, which ends the walk.
Sets(Failed, c, i) ==
  LET bound == {k \in RunAround(c, i) : StillBound(Failed, i, k)}
  IN {k \in bound : \A j \in bound : j = k \/ VisitedBefore(i, j, k) => order[j] \in Convertible}

\* What is set is sent to the device if the setup of its connection is done.
Sent ==
  {k \in DOMAIN order : Function(k) # Null /\ \E o \in Objects : ConnectionOf[o] = Uses(k) /\ object[o] = "ready"}

\* dmx_c2ip_mapper_set_channel: the bisection may end at any entry of the
\* channel.
SetChannel(c, v) ==
  /\ up /\ UNCHANGED <<up, order, dbVars, contested>>
  /\ \/ /\ \A k \in DOMAIN order : entry[order[k]].channel # c
        /\ writes' = {}
        /\ UNCHANGED <<entry, object>>
     \/ \E i \in DOMAIN order, Failed \in SUBSET Sent :
          /\ entry[order[i]].channel = c
          /\ Failed \subseteq Sets(Failed, c, i)
          /\ writes' = {<<Function(k), Scaled(entry[order[k]], v)>> : k \in Sets(Failed, c, i)}
          /\ Closes({Uses(k) : k \in Failed})

-----------------------------------------------------------------------------
(* The process ends and starts again.                                      *)

Lost ==
  /\ up' = FALSE
  /\ entry' = << >> /\ order' = << >>
  /\ object' = [o \in Objects |-> "absent"] /\ contested' = {}
  /\ writes' = {}

\* It ends between two steps, in order or not.
Stop ==
  /\ up
  /\ Lost
  /\ UNCHANGED dbVars

\* It is killed inside add_entry, between the delete and the insert.
StopInRemap(o) ==
  /\ up /\ Live(o) /\ KeyOf[o] \in Mapped
  /\ Lost
  /\ db' = [db EXCEPT ![KeyOf[o]] = << >>]
  /\ UNCHANGED dbFailed

\* Mutant: a row does not replace an earlier one of the same function.
ReadDbFirstRow ==
  /\ ~up /\ up' = TRUE
  /\ entry' = [f \in {g \in Functions : db[g] # << >>} |->
                 LET r == Head(db[f]) IN
                 [channel |-> r.channel, min |-> r.min, max |-> r.max, function |-> Null]]
  /\ order' = Resorted(SetToSeq(DOMAIN entry'), entry')
  /\ dbFailed' = {}
  /\ UNCHANGED <<db, objVars, writes>>

\* dmx_c2ip_mapper_read_db: every row is added in turn, with nothing written
\* back, so that the last row of a function counts.
ReadDb ==
  /\ ~up /\ up' = TRUE
  /\ entry' = [f \in {g \in Functions : db[g] # << >>} |->
                 LET r == Last(db[f]) IN
                 [channel |-> r.channel, min |-> r.min, max |-> r.max, function |-> Null]]
  /\ order' = Resorted(SetToSeq(DOMAIN entry'), entry')
  /\ dbFailed' = {}
  /\ UNCHANGED <<db, objVars, writes>>

Next ==
  \/ \E o \in Objects, c \in Channels, min, max \in Limits, d, i \in BOOLEAN :
       AddMapFunction(o, c, min, max, d, i)
  \/ \E f \in Functions, d \in BOOLEAN : RemoveFunc(f, d)
  \/ \E f \in Functions, m \in Limits, u \in BOOLEAN : SetMin(f, m, u)
  \/ \E f \in Functions, m \in Limits, u \in BOOLEAN : SetMax(f, m, u)
  \/ \E o \in Objects : Create(o)
  \/ \E o \in Objects : BindFunction(o)
  \/ \E k \in Connections : Destroy(k)
  \/ \E c \in Channels, v \in Levels : SetChannel(c, v)
  \/ Stop
  \/ \E o \in Objects : StopInRemap(o)
  \/ ReadDb

Spec == Init /\ [][Next]_vars

-----------------------------------------------------------------------------
(* Properties.                                                             *)

TypeOK ==
  /\ up \in BOOLEAN
  /\ Mapped \subseteq Functions /\ \A f \in Mapped : entry[f] \in Entries
  /\ order \in Seq(Functions)
  /\ \A f \in Functions : db[f] \in Seq(Rows) /\ Len(db[f]) <= MaxRows
  /\ dbFailed \subseteq Functions
  /\ object \in [Objects -> {"absent", "live", "ready"}]
  /\ contested \subseteq Functions
  /\ \A w \in writes : w[1] \in Objects /\ w[2] \in Int

\* channel_map holds exactly the entries of function_map, each once, in the
\* order its bisection relies on, whatever was added, moved and removed.
MapsAgree ==
  /\ {order[i] : i \in DOMAIN order} = Mapped
  /\ \A i, j \in DOMAIN order : i < j => Before(entry, order[i], order[j])

\* A restart would bring back exactly the mappings in memory, except for
\* functions whose last decisive write to the database failed.
DbCurrent ==
  up => \A f \in Functions \ dbFailed :
          IF f \in Mapped THEN db[f] # << >> /\ Last(db[f]) = Row(entry[f])
          ELSE db[f] = << >>

\* An entry is bound to a live object of its own function or to none.
BoundToLive ==
  \A f \in Mapped : entry[f].function # Null =>
    Live(entry[f].function) /\ KeyOf[entry[f].function] = f

\* As long as a function has had no two objects at once, a mapped function
\* whose connection has become ready is bound to its object, through any
\* sequence of connections, mappings and restarts.
BoundWhenReady ==
  \A o \in Objects : object[o] = "ready" /\ KeyOf[o] \in Mapped \ contested =>
    entry[KeyOf[o]].function = o

\* A DMX level reaches exactly the objects bound to entries of its channel,
\* scaled between their limits, but for those whose connection is closed
\* meanwhile because the level could not be sent to another function of the
\* channel and the same connection.  If a function of the channel cannot take
\* the value the others may be missed, but nothing else is set.
ChannelSetsItsFunctions ==
  [][\A c \in Channels, v \in Levels : SetChannel(c, v) =>
       LET all == {f \in Mapped : entry[f].channel = c /\ entry[f].function # Null}
           due(f) == <<entry[f].function, Scaled(entry[f], v)>>
           closedWith(f, g) ==
             /\ ConnectionOf[entry[f].function] = ConnectionOf[entry[g].function]
             /\ object'[entry[f].function] = "absent"
       IN /\ writes' \subseteq {due(f) : f \in all}
          /\ all \subseteq Convertible =>
               \A f \in all : \/ due(f) \in writes'
                              \/ \E g \in all \ {f} : due(g) \in writes' /\ closedWith(f, g)]_vars

\* Only a request to remove the mapping makes the database forget it.
OnlyRemovalForgets ==
  [][\A f \in Functions : db[f] # << >> /\ db'[f] = << >> =>
       \E d \in BOOLEAN : RemoveFunc(f, d)]_vars
=============================================================================
