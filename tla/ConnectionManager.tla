------------------------- MODULE ConnectionManager -------------------------
(***************************************************************************)
(* c2ip_connection_manager.c: the devices the scanner has found, and the   *)
(* attempts to connect to them, one at a time.                             *)
(*                                                                         *)
(* An attempt connects to the redirection port of a device, asks for a     *)
(* slot and reads the answer in two parts, each part a callback of its     *)
(* own.  The port in the answer is where a C2IPConnection is made.  An     *)
(* attempt that ends, well or not, leaves an idle source behind that looks *)
(* for the next device; a device that is added looks for itself.           *)
(*                                                                         *)
(* The second part of the answer goes into reply_buffer[4..7], which       *)
(* nothing clears, and how much of it was read is not looked at.           *)
(*                                                                         *)
(* A device is what add_device tells devices apart by: type, name, address *)
(* and port.  Of a C2IPConnection only its life is modelled, after         *)
(* c2ip_connection.c: one that cannot connect says nothing, one that was   *)
(* open announces its end.                                                 *)
(***************************************************************************)
EXTENDS Integers, Sequences, SequencesExt

CONSTANTS
  Devices,     \* devices on the network
  Answers,     \* what a device may put in the second part of an answer
  ShortReads,  \* how little of the second part of an answer one read may get
  None,
  MaxIdle      \* bound: idle sources pending when a device is added

ASSUME ManagerAssumption ==
  /\ Answers \subseteq [4 .. 7 -> 0 .. 255]
  /\ ShortReads \subseteq 0 .. 3
  /\ None \notin Devices
  /\ MaxIdle \in Nat \ {0}

VARIABLES
  alive,       \* the manager has not been disposed of
  devices,     \* the list of devices, first to last
  slot,        \* slot a device is asked for
  conn,        \* its C2IPConnection: none, dialling, open or dead
  connecting,  \* connecting_device
  phase,       \* callback the attempt waits for: none, connect, header, data
  reply,       \* reply_buffer[4..7]
  idle,        \* idle sources pending
  dial         \* the port the last step made a connection to, and the one offered

listVars    == <<devices, slot, conn>>
attemptVars == <<connecting, phase, reply>>
vars        == <<alive, listVars, attemptVars, idle, dial>>

PortOf(a) == <<a[6], a[7]>>

IsReply(a) == a[4] = 2

OffLine(a) == a[5] = 0

Listed == {devices[i] : i \in DOMAIN devices}

Waiting(d) == d \in Listed /\ conn[d] = "none"

Init ==
  /\ alive = TRUE
  /\ devices = << >>
  /\ slot = [d \in Devices |-> 4]
  /\ conn = [d \in Devices |-> "none"]
  /\ connecting = None /\ phase = "none"
  /\ reply = [i \in 4 .. 7 |-> 0]
  /\ idle = 0
  /\ dial = << >>

-----------------------------------------------------------------------------
(* Looking for the next device.                                            *)

\* The first device of the list that has no connection.
First(list, d) ==
  \E i \in DOMAIN list :
    /\ d = list[i] /\ conn[d] = "none"
    /\ \A j \in DOMAIN list : conn[list[j]] = "none" => i <= j

\* Mutant: the attempt in progress is forgotten.
SetupAnyway(list) ==
  \/ \E d \in Devices : First(list, d) /\ connecting' = d /\ phase' = "connect"
  \/ /\ \A i \in DOMAIN list : conn[list[i]] # "none"
     /\ UNCHANGED <<connecting, phase>>

\* setup_next_connection.
SetupNext(list) ==
  \/ /\ connecting = None
     /\ \E d \in Devices : First(list, d) /\ connecting' = d /\ phase' = "connect"
  \/ /\ connecting # None \/ \A i \in DOMAIN list : conn[list[i]] # "none"
     /\ UNCHANGED <<connecting, phase>>

\* c2ip_connection_manager_add_device: a device that is listed already is left
\* alone.
AlreadyListed(d) ==
  /\ alive /\ d \in Listed
  /\ dial' = << >>
  /\ UNCHANGED <<alive, listVars, attemptVars, idle>>

\* c2ip_connection_manager_add_device: a device that is not listed.
AddDevice(d) ==
  /\ alive /\ d \notin Listed /\ idle <= MaxIdle
  /\ devices' = <<d>> \o devices
  /\ SetupNext(devices')
  /\ dial' = << >>
  /\ UNCHANGED <<alive, slot, conn, reply, idle>>

\* idle_next_connection.
IdleNext ==
  /\ alive /\ idle > 0
  /\ idle' = idle - 1
  /\ SetupNext(devices)
  /\ dial' = << >>
  /\ UNCHANGED <<alive, listVars, reply>>

-----------------------------------------------------------------------------
(* The end of an attempt.                                                  *)

\* Mutant: nothing looks for the next device.
CleanupWithoutIdle ==
  /\ connecting' = None /\ phase' = "none"
  /\ UNCHANGED idle

\* cleanup_connection.
Cleanup ==
  /\ connecting' = None /\ phase' = "none"
  /\ idle' = idle + 1

\* destroy_device.  What it frees is forgotten; an open connection is closed.
DestroyDevice(d) ==
  /\ \E i \in DOMAIN devices : devices[i] = d /\ devices' = RemoveAt(devices, i)
  /\ slot' = [slot EXCEPT ![d] = 4]
  /\ conn' = [conn EXCEPT ![d] = "none"]

\* fail_connection.
Fail ==
  /\ DestroyDevice(connecting)
  /\ Cleanup

-----------------------------------------------------------------------------
(* The callbacks of an attempt.                                            *)

\* Any of them gets an error: the connection is refused or times out, the
\* request cannot be written, a read fails, or the first part of the answer
\* is short or is not the start of a reply.
AttemptFails ==
  /\ alive /\ phase # "none"
  /\ Fail
  /\ dial' = << >>
  /\ UNCHANGED <<alive, reply>>

\* connect_callback: connected, and the request has been written.
Connected ==
  /\ alive /\ phase = "connect"
  /\ phase' = "header"
  /\ dial' = << >>
  /\ UNCHANGED <<alive, listVars, connecting, reply, idle>>

\* handle_header: the first part is that of a reply.
HandleHeader ==
  /\ alive /\ phase = "header"
  /\ phase' = "data"
  /\ dial' = << >>
  /\ UNCHANGED <<alive, listVars, connecting, reply, idle>>

\* The first n bytes of an answer are read over what reply_buffer held.
Read(a, n) == reply' = [i \in 4 .. 7 |-> IF i < 4 + n THEN a[i] ELSE reply[i]]

\* Mutant: the slot that was found is returned, not the one after it.
SameSlot(s) == IF s = 4 THEN 4 ELSE 0

\* Mutant: slots the protocol does not have follow the last one.
MoreSlots(s) == IF s > 0 THEN s - 1 ELSE 0

\* next_slot.
NextSlot(s) == IF s = 4 THEN 2 ELSE 0

\* handle_data: not a reply.
HandleInvalid(a, n) ==
  /\ alive /\ phase = "data"
  /\ Read(a, n)
  /\ ~IsReply(reply')
  /\ Fail
  /\ dial' = << >>
  /\ UNCHANGED alive

\* handle_data: the device is off-line at this slot.  The next slot is tried
\* when the device's turn comes again; after the last one it is dropped.
HandleOffLine(a, n) ==
  /\ alive /\ phase = "data"
  /\ Read(a, n)
  /\ IsReply(reply') /\ OffLine(reply')
  /\ \/ /\ NextSlot(slot[connecting]) # 0
        /\ slot' = [slot EXCEPT ![connecting] = NextSlot(@)]
        /\ Cleanup
        /\ UNCHANGED <<devices, conn>>
     \/ /\ NextSlot(slot[connecting]) = 0
        /\ Fail
  /\ dial' = << >>
  /\ UNCHANGED alive

\* handle_data: a C2IPConnection is made to the port and announced with
\* new-connection.
HandleOnLine(a, n) ==
  /\ alive /\ phase = "data"
  /\ Read(a, n)
  /\ IsReply(reply') /\ ~OffLine(reply')
  /\ conn' = [conn EXCEPT ![connecting] = "dialling"]
  /\ dial' = <<PortOf(reply'), PortOf(a)>>
  /\ Cleanup
  /\ UNCHANGED <<alive, devices, slot>>

-----------------------------------------------------------------------------
(* The connections.                                                        *)

ConnectionOpens(d) ==
  /\ alive /\ conn[d] = "dialling"
  /\ conn' = [conn EXCEPT ![d] = "open"]
  /\ dial' = << >>
  /\ UNCHANGED <<alive, devices, slot, attemptVars, idle>>

\* close_connection announces nothing: there is no GSocketConnection.
ConnectionFails(d) ==
  /\ alive /\ conn[d] = "dialling"
  /\ conn' = [conn EXCEPT ![d] = "dead"]
  /\ dial' = << >>
  /\ UNCHANGED <<alive, devices, slot, attemptVars, idle>>

\* Mutant: the device at the head of the list is destroyed.
ConnectionClosedHead(d) ==
  /\ alive /\ conn[d] = "open"
  /\ DestroyDevice(Head(devices))
  /\ dial' = << >>
  /\ UNCHANGED <<alive, attemptVars, idle>>

\* connection_closed.
ConnectionClosed(d) ==
  /\ alive /\ conn[d] = "open"
  /\ DestroyDevice(d)
  /\ dial' = << >>
  /\ UNCHANGED <<alive, attemptVars, idle>>

\* dispose, after the main loop has ended: idle_id was never set, so that the
\* idle sources stay, with nobody to run them.
Dispose ==
  /\ alive /\ alive' = FALSE
  /\ devices' = << >>
  /\ slot' = [d \in Devices |-> 4]
  /\ conn' = [d \in Devices |-> "none"]
  /\ connecting' = None /\ phase' = "none"
  /\ dial' = << >>
  /\ UNCHANGED <<reply, idle>>

Ended ==
  /\ ~alive
  /\ UNCHANGED vars

\* What the manager does of itself.
ManagerNext ==
  \/ IdleNext
  \/ AttemptFails
  \/ Connected
  \/ HandleHeader
  \/ \E a \in Answers, n \in ShortReads \cup {4} : HandleInvalid(a, n)
  \/ \E a \in Answers, n \in ShortReads \cup {4} : HandleOffLine(a, n)
  \/ \E a \in Answers, n \in ShortReads \cup {4} : HandleOnLine(a, n)
  \/ \E d \in Devices : ConnectionOpens(d)
  \/ \E d \in Devices : ConnectionFails(d)
  \/ \E d \in Devices : ConnectionClosed(d)

Next ==
  \/ \E d \in Devices : AddDevice(d)
  \/ \E d \in Devices : AlreadyListed(d)
  \/ ManagerNext
  \/ Dispose
  \/ Ended

Spec == Init /\ [][Next]_vars

(* The main loop runs an idle source some time, and the sockets of an      *)
(* attempt have a timeout, so that every callback it waits for is called.  *)
HandleData(a, n) == HandleInvalid(a, n) \/ HandleOffLine(a, n) \/ HandleOnLine(a, n)

Fairness ==
  /\ WF_vars(IdleNext)
  /\ WF_vars(\/ AttemptFails \/ Connected \/ HandleHeader
             \/ \E a \in Answers, n \in ShortReads \cup {4} : HandleData(a, n))

FairSpec == Spec /\ Fairness

-----------------------------------------------------------------------------
(* Properties.                                                             *)

TypeOK ==
  /\ alive \in BOOLEAN
  /\ devices \in Seq(Devices)
  /\ slot \in [Devices -> {2, 4}]
  /\ conn \in [Devices -> {"none", "dialling", "open", "dead"}]
  /\ connecting \in Devices \cup {None}
  /\ phase \in {"none", "connect", "header", "data"}
  /\ reply \in [4 .. 7 -> 0 .. 255]
  /\ idle \in Nat
  /\ dial \in {<< >>} \cup ((0 .. 255) \X (0 .. 255)) \X ((0 .. 255) \X (0 .. 255))

\* A device is listed once; only listed devices have a connection; and the
\* attempt the callbacks work on belongs to a device that is still listed
\* and has no connection, whatever was added and closed meanwhile.
AttemptSound ==
  /\ \A i, j \in DOMAIN devices : devices[i] = devices[j] => i = j
  /\ \A d \in Devices : conn[d] # "none" => d \in Listed
  /\ phase # "none" <=> connecting # None
  /\ connecting # None => Waiting(connecting)

\* No device that waits for its connection is forgotten: an attempt is in
\* progress, or an idle source will look for the next device.
NoStall ==
  (\E d \in Devices : Waiting(d)) => connecting # None \/ idle > 0

\* An attempt, once begun, is the only one until one of its own callbacks
\* ends it: the callbacks find the device they were started for.
OneAttempt ==
  [][connecting # None /\ connecting' # connecting => connecting' = None /\ phase' = "none"]_vars

\* Every device that waits gets its connection or is dropped, while the
\* program runs, unless new devices are found for ever.
Served ==
  \/ []<><<\E d \in Devices : AddDevice(d)>>_vars
  \/ \A d \in Devices : Waiting(d) ~> ~Waiting(d)

\* C2IP_protocol.txt: the reply to a device setup request has the port.  A
\* connection is made to the port the device gave.
PortAsOffered == dial # << >> => dial[1] = dial[2]
=============================================================================
