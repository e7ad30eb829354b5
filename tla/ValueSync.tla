------------------------------- MODULE ValueSync -------------------------------
(***************************************************************************)
(* One function of a device in three places: the device, the C2IPFunction  *)
(* of c2ip_connection_values.c, and the tree of the web server that main.c *)
(* exports it to.                                                          *)
(*                                                                         *)
(* A change comes from the device, as an indication, or from here: a user  *)
(* of the web pages or a DMX level sets the C2IPFunction, and what is set  *)
(* is sent to the device.  The web tree is not set by the user's request,  *)
(* only by the export of what the device has indicated.  What an           *)
(* indication sets must not be sent, as it would come back for ever.       *)
(*                                                                         *)
(* Both directions are TCP: nothing is lost or overtaken, but the two      *)
(* cross.  The device says what value it has after every change that it is *)
(* sent, whether it took it or not.                                        *)
(***************************************************************************)
EXTENDS ValueCodec, Sequences, SequencesExt

CONSTANTS
  Types,         \* types of the function to look at
  DeviceValues,  \* what the device sets by itself, for each type
  UserValues,    \* what is set here, for each type
  MaxOnTheWay    \* bound: messages in one direction

ASSUME SyncAssumption ==
  /\ Types \subseteq IntTypes \cup {"FLOAT16"}
  /\ \A t \in Types : \A w \in DeviceValues[t] : IsWire(t, w)
  /\ \A t \in Types \cap IntTypes : UserValues[t] \subseteq Int
  /\ MaxOnTheWay \in Nat

VARIABLES
  type,    \* of the function
  device,  \* the value the device has
  conn,    \* the connection: open or closed
  setup,   \* setup_state: VALUES, INFO or DONE
  stored,  \* the C2IPFunction's value, in a set: empty before there is one
  web,     \* what the web server shows, in a set: empty if nothing
  up,      \* changes on their way to the device
  down,    \* on its way from the device: the set of a value, {} for ALL_DONE
  dropped  \* history: what is stored was set during the setup, and not sent

vars == <<type, device, conn, setup, stored, web, up, down, dropped>>

\* All values have been requested, and the device has answered.
Init ==
  /\ type \in Types
  /\ device \in DeviceValues[type]
  /\ conn = "open" /\ setup = "VALUES"
  /\ stored = {} /\ web = {}
  /\ up = << >> /\ down = <<{device}, {}>>
  /\ dropped = FALSE

-----------------------------------------------------------------------------
(* The device.                                                             *)

\* Its own buttons, or another client, set it.
DeviceChanges(w) ==
  /\ conn = "open" /\ Len(down) < MaxOnTheWay
  /\ device' = w
  /\ down' = Append(down, {w})
  /\ UNCHANGED <<type, conn, setup, stored, web, up, dropped>>

\* It takes a change it is sent, or keeps its value.
DeviceTakes ==
  /\ conn = "open" /\ up # << >> /\ Len(down) < MaxOnTheWay
  /\ device' \in {Head(up), device}
  /\ up' = Tail(up)
  /\ down' = Append(down, {device'})
  /\ UNCHANGED <<type, conn, setup, stored, web, dropped>>

-----------------------------------------------------------------------------
(* Packets from the device.                                                *)

\* Mutant: the handler of notify::value is not blocked.
EchoesChange(v) == up' = IF setup = "DONE" THEN Append(up, Write(type, v)) ELSE up

\* The handler is blocked while the function is set.
SendsNothing(v) == UNCHANGED up

\* Mutant: the function is exported before it is set.
ExportsBefore(v) == web' = IF setup # "VALUES" THEN stored ELSE web

\* value-changed, on which main.c exports the function.
Exports(v) == web' = IF setup # "VALUES" THEN {v} ELSE web

\* handle_value_reply.
HandleValueReply ==
  /\ conn = "open" /\ down # << >>
  /\ \E w \in Head(down), v \in IF stored = {} THEN {Initially(type)} ELSE stored :
       LET new == IF Storable(type, Read(type, w)) THEN Read(type, w) ELSE v
       IN  /\ stored' = {new}
           /\ dropped' = (dropped /\ ~Storable(type, Read(type, w)))
           /\ SendsNothing(new)
           /\ Exports(new)
  /\ down' = Tail(down)
  /\ UNCHANGED <<type, device, conn, setup>>

\* REPLY_VALUE_ALL_DONE: a function without options or unit makes it the end
\* of the setup, too, and values-ready exports it.
HandleAllDone ==
  /\ conn = "open" /\ down # << >> /\ Head(down) = {}
  /\ \/ setup' = "INFO" /\ UNCHANGED web
     \/ setup' = "DONE" /\ web' = stored
  /\ down' = Tail(down)
  /\ UNCHANGED <<type, device, conn, stored, up, dropped>>

\* The last information has come, or its request has timed out: values-ready.
InfoComplete ==
  /\ conn = "open" /\ setup = "INFO"
  /\ setup' = "DONE" /\ web' = stored
  /\ UNCHANGED <<type, device, conn, stored, up, down, dropped>>

-----------------------------------------------------------------------------
(* Changes made here.                                                      *)

\* value_object_changed.
Sends(v) ==
  IF setup = "DONE" THEN up' = Append(up, Write(type, v)) ELSE UNCHANGED up

\* c2ip_function_set_value, by change_c2ip_function for a user who sees the
\* function, or by set_function of the mapper for a DMX level.
Set(v) ==
  /\ conn = "open" /\ stored # {} /\ web # {}
  /\ Len(up) < MaxOnTheWay
  /\ stored' = {v}
  /\ Sends(v)
  /\ dropped' = (setup # "DONE")
  /\ UNCHANGED <<type, device, conn, setup, web, down>>

\* Mutant: the web server goes on showing the function.
ClosesShown ==
  /\ conn = "open"
  /\ conn' = "closed"
  /\ stored' = {} /\ up' = << >> /\ down' = << >>
  /\ UNCHANGED <<type, device, setup, web, dropped>>

\* The connection ends, a change that cannot be written being one reason:
\* connection_closed of main.c takes the function from the web server.
Closes ==
  /\ conn = "open"
  /\ conn' = "closed"
  /\ web' = {} /\ stored' = {} /\ up' = << >> /\ down' = << >>
  /\ UNCHANGED <<type, device, setup, dropped>>

Ended ==
  /\ conn = "closed"
  /\ UNCHANGED vars

\* What is set here may be what the web page shows.
Settable == UserValues[type] \cup web

Changes == (\E v \in Settable : Set(v)) \/ (\E w \in DeviceValues[type] : DeviceChanges(w))

Next ==
  \/ \E w \in DeviceValues[type] : DeviceChanges(w)
  \/ \E v \in Settable : Set(v)
  \/ DeviceTakes \/ HandleValueReply \/ HandleAllDone \/ InfoComplete
  \/ Closes \/ Ended

Spec == Init /\ [][Next]_vars

(* Messages arrive, and information is gathered for a limited time         *)
(* (GetsReady of ConnectionValues).                                        *)
Fairness ==
  WF_vars(HandleValueReply \/ HandleAllDone) /\ WF_vars(DeviceTakes) /\ WF_vars(InfoComplete)

FairSpec == Spec /\ Fairness

-----------------------------------------------------------------------------
(* Properties.                                                             *)

TypeOK ==
  /\ type \in Types
  /\ IsWire(type, device)
  /\ conn \in {"open", "closed"} /\ setup \in {"VALUES", "INFO", "DONE"}
  /\ \A i \in DOMAIN up : IsWire(type, up[i])
  /\ \A i \in DOMAIN down : Cardinality(down[i]) < 2 /\ \A w \in down[i] : IsWire(type, w)
  /\ dropped \in BOOLEAN
  /\ Cardinality(stored) < 2 /\ Cardinality(web) < 2
  /\ web # {} => stored # {}

Quiet == conn = "open" /\ setup = "DONE" /\ up = << >> /\ down = << >>

\* Once nothing is on its way, whatever crossed, the program and the web page
\* have the device's value.  Two exceptions are the code's: what was set before
\* the setup was done is never sent, and a value outside the range of the
\* property it goes through is not stored.
Converges ==
  Quiet =>
    /\ dropped \/ stored = {Read(type, device)} \/ ~Storable(type, Read(type, device))
    /\ web # {}
    /\ Storable(type, Read(type, device)) /\ ~dropped => web = stored

\* No update loop: unless the device or somebody here changes the value again
\* and again, there comes a time when nothing is on its way any more.
Settles ==
  \/ []<><<Changes>>_vars
  \/ <>[](conn = "closed" \/ Quiet)

\* Setting a function to the value the page shows, when nothing is on its way,
\* tells the device the value it has.  The exceptions are those of Converges,
\* and the floats that set_float16 does not send as they are.
SendsBack ==
  [][/\ Quiet /\ ~dropped
     /\ Storable(type, Read(type, device)) /\ SentAsItIs(type, Read(type, device))
     /\ \E v \in web : Set(v)
     => up' # << >> /\ Read(type, Head(up')) = Read(type, device)]_vars

\* What the proofs take from the codec, which is data: of the floats a packet may
\* hold, and those set here, set_float16 makes a float again, and it is read as
\* what was written unless digits are lost.
FloatCodec ==
  /\ FloatsExact
  /\ FloatsFit({get_float16(w) : w \in Float16})
  /\ "FLOAT16" \in Types => FloatsFit(UserValues["FLOAT16"])
=============================================================================
