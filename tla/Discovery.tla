------------------------------- MODULE Discovery -------------------------------
(***************************************************************************)
(* The scanner and the connection manager, as main.c and c2ip_tool.c put   *)
(* them together: device-found is add_device, and the two run in the same  *)
(* main loop.  A device that the manager has dropped, because an attempt   *)
(* failed or its connection was closed, comes back with the next reply it  *)
(* gives to the scanner; a device that is still listed is not added twice. *)
(***************************************************************************)
EXTENDS Scan, ConnectionManager

ASSUME DiscoveryAssumption == Responders \subseteq Devices

allVars == <<scanVars, vars>>

DiscoveryInit == ScanInit /\ Init

\* device-found.
DeviceFound(d) ==
  /\ ScanReceive(d)
  /\ AddDevice(d) \/ AlreadyListed(d)

\* app_cleanup: the scanner goes first, so that no device is found while the
\* manager is taken down.
AppCleanup == ScanStop /\ Dispose

\* A step of the scanner alone.
OnlyScan(A) == alive /\ A /\ UNCHANGED vars

DiscoveryNext ==
  \/ OnlyScan(ScanStep)
  \/ \E d \in Responders : DeviceFound(d)
  \/ ManagerNext /\ UNCHANGED scanVars
  \/ AppCleanup
  \/ Ended /\ UNCHANGED scanVars

DiscoverySpec == DiscoveryInit /\ [][DiscoveryNext]_allVars

(* The main loop runs the timer and reads what has come; a device that is  *)
(* asked again and again answers some time.  The manager's fairness is     *)
(* that of ConnectionManager.                                              *)
TimerFires == \E i \in Intervals, answers \in SUBSET Asked : TimeoutCallback(i, answers)

Answered(d) ==
  \E i \in Intervals, answers \in SUBSET Asked : d \in answers /\ TimeoutCallback(i, answers)

DiscoveryFairness ==
  /\ \A d \in Responders \ LongNames :
       SF_allVars(DeviceFound(d)) /\ SF_allVars(OnlyScan(Answered(d)))
  /\ WF_allVars(OnlyScan(TimerFires))
  /\ WF_allVars(IdleNext /\ UNCHANGED scanVars)
  /\ WF_allVars(/\ \/ AttemptFails \/ Connected \/ HandleHeader
                   \/ \E a \in Answers, n \in ShortReads \cup {4} : HandleData(a, n)
                /\ UNCHANGED scanVars)

FairDiscovery == DiscoverySpec /\ DiscoveryFairness

-----------------------------------------------------------------------------
(* Properties.                                                             *)

\* dmx2c2ip scans for ever: a device that answers is listed again, however
\* often an attempt at it has failed or its connection has been closed, as
\* long as the program runs and its reply can be read.
Rediscovered ==
  \A d \in Responders \ LongNames :
    []<>(d \in Listed \/ ~alive \/ program = "c2ip_tool")
=============================================================================
