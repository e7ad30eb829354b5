------------------------------ MODULE MappingPage ------------------------------
(***************************************************************************)
(* The mapper with the page of mappings: main.c keeps, under dmxmap/ of the*)
(* web server's tree, the channel and the limits of every function it has  *)
(* told of.  The browser shows a row for each, and what is typed there is  *)
(* a request to change_mapping.                                            *)
(*                                                                         *)
(* A request does not change the tree (http-sets-values is FALSE): only    *)
(* mapping-changed, mapping-removed and the export of a function whose     *)
(* connection is ready do.  But the tree is read as well: a request for a  *)
(* channel takes the limits from it, so that a row that is out of date     *)
(* would change the limits of a mapping that is only moved.                *)
(*                                                                         *)
(* Rows stay when a mapping is removed and when a connection is closed;    *)
(* channel 0 means none.  The tree is lost with the process.               *)
(***************************************************************************)
EXTENDS Mapper

CONSTANT
  DefaultOf   \* the limits shown for a function that is not mapped; BOOL, ENUM
              \* and STRING have none

ASSUME PageAssumption ==
  DOMAIN DefaultOf \subseteq Functions /\ \A f \in DOMAIN DefaultOf : DefaultOf[f] \in Limits \X Limits

VARIABLE page   \* the rows of the functions that have one

pageVars == <<vars, page>>

PageInit == Init /\ page = << >>

-----------------------------------------------------------------------------
(* What changes the tree.                                                  *)

\* Mutant: a row that is there gets the channel only.
ChangedChannel(f, e) ==
  page' = With(page, f, IF f \in DOMAIN page THEN [page[f] EXCEPT !.channel = e.channel] ELSE Row(e))

\* dmx_mapping_changed.
MappingChanged(f, e) == page' = With(page, f, Row(e))

\* dmx_mapping_removed.
MappingRemoved(f) == page' = [page EXCEPT ![f].channel = 0]

Unmapped(f) == [channel |-> 0, min |-> DefaultOf[f][1], max |-> DefaultOf[f][2]]

\* Mutant: the mapper is not asked.
ExportDefaults(f) ==
  page' = IF f \in DOMAIN DefaultOf THEN With(page, f, Unmapped(f)) ELSE page

\* export_mapping.
ExportMapping(f) ==
  page' = IF f \in Mapped THEN With(page, f, Row(entry[f]))
          ELSE IF f \in DOMAIN DefaultOf THEN With(page, f, Unmapped(f))
          ELSE page

-----------------------------------------------------------------------------
(* Requests of the page, change_mapping; those it drops are left out.      *)

\* A channel, for a function whose device is connected.  Without a row the
\* limits are variables that nothing has been written to.
RequestChannel(o, c, min, max, deleted, inserted) ==
  /\ KeyOf[o] \in DOMAIN page => min = page[KeyOf[o]].min /\ max = page[KeyOf[o]].max
  /\ AddMapFunction(o, c, min, max, deleted, inserted)
  /\ MappingChanged(KeyOf[o], entry'[KeyOf[o]])

\* Channel 0.
RequestNoChannel(f, deleted) ==
  /\ RemoveFunc(f, deleted)
  /\ MappingRemoved(f)

\* A limit; for a function that is not mapped nothing is changed.
RequestLimit(f, m, updated) ==
  /\ SetMin(f, m, updated) \/ SetMax(f, m, updated)
  /\ MappingChanged(f, entry'[f])

-----------------------------------------------------------------------------
(* The rest of the program.                                                *)

\* new_function_available: a function is exported before it is bound.
Available(o) ==
  /\ BindFunction(o)
  /\ ExportMapping(KeyOf[o])

\* mapping-changed for every row that is read, with the web server running.
ReadDbRows ==
  /\ ReadDb
  /\ page' = [f \in DOMAIN entry' |-> Row(entry'[f])]

Ends ==
  /\ Stop \/ \E o \in Objects : StopInRemap(o)
  /\ page' = << >>

OnlyMapper ==
  /\ \/ \E o \in Objects : Create(o)
     \/ \E k \in Connections : Destroy(k)
     \/ \E c \in Channels, v \in Levels : SetChannel(c, v)
  /\ UNCHANGED page

PageNext ==
  \/ \E o \in Objects, c \in Channels, min, max \in Limits, d, i \in BOOLEAN :
       RequestChannel(o, c, min, max, d, i)
  \/ \E f \in Functions, d \in BOOLEAN : RequestNoChannel(f, d)
  \/ \E f \in Functions, m \in Limits, u \in BOOLEAN : RequestLimit(f, m, u)
  \/ \E o \in Objects : Available(o)
  \/ OnlyMapper
  \/ Ends
  \/ ReadDbRows

PageSpec == PageInit /\ [][PageNext]_pageVars

-----------------------------------------------------------------------------
(* Properties.                                                             *)

\* The page shows a mapping as the mapper has it, and channel 0 for a function
\* without one, through any sequence of requests, connections and restarts.
PageAgrees ==
  /\ \A f \in Mapped : f \in DOMAIN page /\ page[f] = Row(entry[f])
  /\ \A f \in DOMAIN page \ Mapped : page[f].channel = 0

\* A mapping that is moved to another channel keeps the limits the page shows,
\* and so does one that is disabled and enabled again: only a request for a
\* limit changes them, and while there is no mapping only the device does, when
\* it becomes available and is shown with the limits of its type.
LimitsKept ==
  [][/\ \A f \in DOMAIN page \cap DOMAIN entry' :
          \/ \E m \in Limits, u \in BOOLEAN : SetMin(f, m, u) \/ SetMax(f, m, u)
          \/ entry'[f].min = page[f].min /\ entry'[f].max = page[f].max
     /\ \A f \in (DOMAIN page \cap DOMAIN page') \ DOMAIN entry' :
          \/ \E o \in Objects : KeyOf[o] = f /\ Available(o)
          \/ page'[f].min = page[f].min /\ page'[f].max = page[f].max]_pageVars
=============================================================================
