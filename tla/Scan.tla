--------------------------------- MODULE Scan ---------------------------------
(***************************************************************************)
(* c2ip_scan.c: the scanner asks one address after the other, one at every *)
(* turn of a timer, which devices there are.  Replies come by UDP, so that *)
(* one may be lost, late, out of order or received twice.                  *)
(*                                                                         *)
(* Two programs use it.  dmx2c2ip takes a list of addresses and scans them *)
(* for ever, slower after the first pass; c2ip_tool takes one address,     *)
(* scans it once (its scan-interval is 0) and again when the user says so. *)
(*                                                                         *)
(* A live timeout is known by its interval in milliseconds, as timeout_id  *)
(* is here: 0 is no timeout.  The device-found signal is ScanReceive.      *)
(***************************************************************************)
EXTENDS Integers, Sequences, FiniteSets

CONSTANTS
  Programs,   \* the programs to look at, of "dmx2c2ip" and "c2ip_tool"
  Addresses,  \* the list of addresses, as add_address has left it
  DevicesAt,  \* the devices that answer what is sent to an address
  LongNames   \* those of them whose name has more than 7 characters

ASSUME ScanAssumption ==
  /\ Programs \subseteq {"dmx2c2ip", "c2ip_tool"}
  /\ Addresses \in Seq(DOMAIN DevicesAt)
  /\ Addresses # << >>

VARIABLES
  program,          \* the program the scanner is part of
  current_address,  \* position in the list of addresses
  current_scan_interval,
  sources,          \* how many live timeouts there are of an interval
  timeout_id,
  socket,           \* the socket and its source exist
  replies           \* replies on their way, by the device that sent them

timerVars == <<current_scan_interval, sources, timeout_id>>
scanVars  == <<program, current_address, timerVars, socket, replies>>

Responders == UNION {DevicesAt[Addresses[p]] : p \in DOMAIN Addresses}

first_scan_interval == IF program = "c2ip_tool" THEN 100 ELSE 1000

scan_interval == IF program = "c2ip_tool" THEN 0 ELSE 5000

Intervals == {100, 1000, 5000}

\* c2ip_tool has a single address.
Positions == IF program = "c2ip_tool" THEN {1} ELSE DOMAIN Addresses

NoSources == [i \in Intervals |-> 0]

\* g_timeout_add and g_source_remove, in a bag of sources.
AddTimeout(bag, i) == [bag EXCEPT ![i] = @ + 1]
RemoveTimeout(bag, i) == [bag EXCEPT ![i] = @ - 1]

-----------------------------------------------------------------------------
(* The scanner has been started by the set-up of the program.              *)

ScanInit ==
  /\ program \in Programs
  /\ current_address = 1
  /\ current_scan_interval = first_scan_interval
  /\ sources = AddTimeout(NoSources, first_scan_interval)
  /\ timeout_id = first_scan_interval
  /\ socket = TRUE
  /\ replies = {}

\* Mutant: the timeout runs on.
StopLeavesTimeout == sources

\* c2ip_scan_stop: what is left of the timeouts.
Stopped ==
  IF timeout_id > 0 THEN RemoveTimeout(sources, timeout_id) ELSE sources

\* c2ip_scan_start by the scan command of c2ip_tool.  Without a socket nothing
\* is started, and what was running is stopped.
ScanStart ==
  /\ program = "c2ip_tool"
  /\ current_address' = 1
  /\ replies' = {}
  /\ \/ /\ socket' = TRUE
        /\ timeout_id' = first_scan_interval
        /\ sources' = AddTimeout(Stopped, first_scan_interval)
        /\ current_scan_interval' = first_scan_interval
     \/ /\ socket' = FALSE
        /\ timeout_id' = 0
        /\ sources' = Stopped
        /\ UNCHANGED current_scan_interval
  /\ UNCHANGED program

\* c2ip_scan_stop, by dispose.
ScanStop ==
  /\ timeout_id' = 0
  /\ sources' = Stopped
  /\ socket' = FALSE
  /\ replies' = {}
  /\ UNCHANGED <<program, current_address, current_scan_interval>>

-----------------------------------------------------------------------------
(* The timer.                                                              *)

\* Mutant: the old timeout stays when the new one has been added.
ChangeKeepsOld(i) ==
  /\ timeout_id' = scan_interval
  /\ sources' = IF scan_interval > 0 THEN AddTimeout(sources, scan_interval) ELSE sources
  /\ current_scan_interval' = scan_interval

\* The end of the first pass: returning FALSE removes the timeout of interval i
\* that has fired; another takes its place unless scan_interval is 0.
ChangeInterval(i) ==
  /\ timeout_id' = scan_interval
  /\ sources' = LET rest == RemoveTimeout(sources, i)
                IN  IF scan_interval > 0 THEN AddTimeout(rest, scan_interval) ELSE rest
  /\ current_scan_interval' = scan_interval

SameInterval == UNCHANGED timerVars

\* Mutant: the last address is left out when the list starts over.
NextSkipsLast ==
  IF current_address + 2 \in Positions THEN current_address + 1 ELSE 1

\* Mutant: the end of the list is noticed one address late.
NextPastEnd ==
  IF current_address \in Positions THEN current_address + 1 ELSE 1

\* The address after the current one; after the last one, the first.
NextAddress ==
  IF current_address + 1 \in Positions THEN current_address + 1 ELSE 1

\* Who may answer what is sent now.
Asked == DevicesAt[Addresses[current_address]]

\* timeout_callback.  That a request cannot be sent stops nothing (!x == -1 is
\* never true): it is one more way, like a loss, for a reply not to come.
TimeoutCallback(i, answers) ==
  /\ sources[i] > 0
  /\ replies' = replies \cup answers
  /\ current_address' = NextAddress
  /\ IF current_address + 1 \notin Positions /\ current_scan_interval # scan_interval
     THEN ChangeInterval(i) ELSE SameInterval
  /\ UNCHANGED <<program, socket>>

-----------------------------------------------------------------------------
(* Replies.                                                                *)

\* A reply is 13 bytes and the name; only 20 are read.  What is cut off has not
\* the length it says.
Fits(d) == d \notin LongNames

\* A reply is read; it may have been sent twice.
ReadReply(d) ==
  /\ socket /\ d \in replies
  /\ replies' \in {replies, replies \ {d}}
  /\ UNCHANGED <<program, current_address, timerVars, socket>>

\* recv_callback and handle_packet: device-found is emitted for d.
ScanReceive(d) == ReadReply(d) /\ Fits(d)

\* A reply that is truncated, or is none, is dropped.
ScanDrop(d) == ReadReply(d) /\ ~Fits(d)

\* What changes the scanner and nothing else.
ScanStep ==
  \/ ScanStart
  \/ \E i \in Intervals, answers \in SUBSET Asked : TimeoutCallback(i, answers)
  \/ \E d \in Responders : ScanDrop(d)

ScanNext ==
  \/ ScanStep
  \/ \E d \in Responders : ScanReceive(d)
  \/ ScanStop

ScanSpec == ScanInit /\ [][ScanNext]_scanVars

-----------------------------------------------------------------------------
(* Properties.                                                             *)

ScanTypeOK ==
  /\ program \in Programs
  /\ current_address \in Positions
  /\ current_scan_interval \in Intervals \cup {0}
  /\ sources \in [Intervals -> Nat]
  /\ timeout_id \in Intervals \cup {0}
  /\ socket \in BOOLEAN
  /\ replies \subseteq Responders

\* However often the scan is started, changes its interval and is stopped, no
\* two timeouts live at once, and timeout_id names the one that does, so that
\* stopping the scan stops it; and a timeout never finds the socket closed.
OneTimer ==
  /\ \A i \in Intervals : sources[i] = IF i = timeout_id THEN 1 ELSE 0
  /\ timeout_id # 0 => socket
=============================================================================
