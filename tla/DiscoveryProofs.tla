---------------------------- MODULE DiscoveryProofs ----------------------------
(***************************************************************************)
(* The scanner, the connection manager, and the two in one main loop.      *)
(*                                                                         *)
(* ConnectionManager for any number of devices, any answers and any short  *)
(* reads: an attempt always belongs to a device that is still listed and   *)
(* has no connection, no waiting device is forgotten, and an attempt is    *)
(* ended by nothing but its own callbacks.                                 *)
(*                                                                         *)
(* Scan for any addresses.  The composition implements the scanner by      *)
(* itself and the manager by itself, so that what is proved of each holds  *)
(* of the two together.                                                    *)
(***************************************************************************)
EXTENDS Discovery, SequenceTheorems, TLAPS

(* The manager.                                                            *)

IInv ==
  /\ TypeOK
  /\ AttemptSound
  /\ NoStall

-----------------------------------------------------------------------------
(* The list of the manager.                                                *)

\* Taking position i out of a list gives a list without it; the positions
\* after it move up by one.
LEMMA RemoveAtProperties ==
  ASSUME NEW S, NEW s \in Seq(S), NEW i \in DOMAIN s
  PROVE  /\ RemoveAt(s, i) \in Seq(S)
         /\ DOMAIN RemoveAt(s, i) = 1 .. Len(s) - 1
         /\ \A j \in 1 .. Len(s) - 1 : RemoveAt(s, i)[j] = IF j < i THEN s[j] ELSE s[j + 1]
<1> DEFINE a == SubSeq(s, 1, i - 1)
           b == SubSeq(s, i + 1, Len(s))
<1>1. Len(s) \in Nat /\ DOMAIN s = 1 .. Len(s) /\ i \in 1 .. Len(s)
  BY LenProperties
<1>2. \A j \in 1 .. Len(s) : s[j] \in S
  BY <1>1, ElementOfSeq
<1>3. a \in Seq(S) /\ Len(a) = i - 1 /\ \A j \in 1 .. i - 1 : a[j] = s[j]
  BY <1>1, <1>2, SubSeqProperties
<1>4. b \in Seq(S) /\ Len(b) = Len(s) - i /\ \A j \in 1 .. Len(s) - i : b[j] = s[i + j]
  BY <1>1, <1>2, SubSeqProperties
<1> HIDE DEF a, b
<1>5. a \in Seq(S) /\ b \in Seq(S)
  BY <1>3, <1>4
<1>6. /\ a \o b \in Seq(S)
      /\ Len(a \o b) = Len(a) + Len(b)
      /\ \A j \in 1 .. Len(a) + Len(b) :
           (a \o b)[j] = IF j <= Len(a) THEN a[j] ELSE b[j - Len(a)]
  BY <1>5, ConcatProperties, Zenon
<1>7. Len(a) + Len(b) = Len(s) - 1
  BY <1>1, <1>3, <1>4
<1>8. ASSUME NEW j \in 1 .. Len(s) - 1
      PROVE  (a \o b)[j] = IF j < i THEN s[j] ELSE s[j + 1]
  <2>1. CASE j < i
    BY <2>1, <1>1, <1>3, <1>6, <1>7
  <2>2. CASE ~(j < i)
    <3>1. j - Len(a) \in 1 .. Len(s) - i /\ i + (j - Len(a)) = j + 1 /\ ~(j <= Len(a))
      BY <2>2, <1>1, <1>3, <1>8
    <3>2. (a \o b)[j] = b[j - Len(a)]
      BY <3>1, <1>6, <1>7
    <3> QED
      BY <3>1, <3>2, <1>4, <2>2
  <2> QED
    BY <2>1, <2>2
<1> QED
  BY <1>6, <1>7, <1>8, LenProperties DEF RemoveAt, a, b

\* destroy_device takes exactly its device out of a list that holds every
\* device once, and leaves nothing of it behind.
LEMMA DestroyProperties ==
  ASSUME IInv, NEW d \in Devices, DestroyDevice(d)
  PROVE  /\ devices' \in Seq(Devices)
         /\ \A i, j \in DOMAIN devices' : devices'[i] = devices'[j] => i = j
         /\ Listed' = Listed \ {d}
         /\ slot' \in [Devices -> {2, 4}]
         /\ conn' \in [Devices -> {"none", "dialling", "open", "dead"}]
         /\ \A e \in Devices : conn'[e] = IF e = d THEN "none" ELSE conn[e]
<1>1. PICK i \in DOMAIN devices : devices[i] = d /\ devices' = RemoveAt(devices, i)
  BY DEF DestroyDevice
<1>2. devices \in Seq(Devices) /\ \A k, j \in DOMAIN devices : devices[k] = devices[j] => k = j
  BY DEF IInv, TypeOK, AttemptSound
<1>3. Len(devices) \in Nat /\ DOMAIN devices = 1 .. Len(devices)
  BY <1>2, LenProperties
<1>4. /\ devices' \in Seq(Devices)
      /\ DOMAIN devices' = 1 .. Len(devices) - 1
      /\ \A j \in 1 .. Len(devices) - 1 :
           devices'[j] = IF j < i THEN devices[j] ELSE devices[j + 1]
  BY <1>1, <1>2, RemoveAtProperties
<1>5. \A k, j \in DOMAIN devices' : devices'[k] = devices'[j] => k = j
  <2>1. TAKE k, j \in DOMAIN devices'
  <2>2. HAVE devices'[k] = devices'[j]
  <2> DEFINE from(m) == IF m < i THEN m ELSE m + 1
  <2>3. /\ k \in 1 .. Len(devices) - 1 /\ j \in 1 .. Len(devices) - 1
        /\ from(k) \in DOMAIN devices /\ from(j) \in DOMAIN devices
    BY <1>3, <1>4
  <2>4. devices[from(k)] = devices[from(j)]
    BY <2>2, <2>3, <1>4
  <2>5. from(k) = from(j)
    BY <2>3, <2>4, <1>2
  <2> QED
    BY <2>3, <2>5, <1>3
<1>6. Listed' = Listed \ {d}
  <2>1. ASSUME NEW e \in Listed' PROVE e \in Listed \ {d}
    BY <2>1, <1>1, <1>2, <1>3, <1>4 DEF Listed
  <2>2. ASSUME NEW e \in Listed, e # d PROVE e \in Listed'
    <3>1. PICK j \in DOMAIN devices : e = devices[j]
      BY <2>2 DEF Listed
    <3>2. CASE j < i
      BY <3>1, <3>2, <1>1, <1>3, <1>4 DEF Listed
    <3>3. CASE j > i
      <4>1. j - 1 \in DOMAIN devices' /\ devices'[j - 1] = e
        BY <3>1, <3>3, <1>1, <1>3, <1>4
      <4> QED
        BY <4>1 DEF Listed
    <3> QED
      BY <3>1, <3>2, <3>3, <2>2, <1>1, <1>3
  <2> QED
    BY <2>1, <2>2
<1>7. /\ slot' \in [Devices -> {2, 4}]
      /\ conn' \in [Devices -> {"none", "dialling", "open", "dead"}]
      /\ \A e \in Devices : conn'[e] = IF e = d THEN "none" ELSE conn[e]
  BY DEF DestroyDevice, IInv, TypeOK
<1> QED
  BY <1>4, <1>5, <1>6, <1>7
-----------------------------------------------------------------------------
(* The invariant.                                                          *)

\* setup_next_connection leaves an attempt in progress alone, otherwise it
\* begins one for a device of the list that has no connection, if there is
\* one.
LEMMA SetupProperties ==
  ASSUME IInv, NEW list \in Seq(Devices), SetupNext(list),
         Listed \subseteq {list[i] : i \in DOMAIN list}
  PROVE  /\ connecting' \in Devices \cup {None}
         /\ phase' \in {"none", "connect", "header", "data"}
         /\ phase' # "none" <=> connecting' # None
         /\ connecting' # None =>
              /\ conn[connecting'] = "none"
              /\ connecting' \in {list[i] : i \in DOMAIN list}
         /\ (\E i \in DOMAIN list : conn[list[i]] = "none") => connecting' # None
<1>1. CASE /\ connecting = None
           /\ \E d \in Devices : First(list, d) /\ connecting' = d /\ phase' = "connect"
  BY <1>1, ManagerAssumption DEF First
<1>2. CASE /\ connecting # None \/ \A i \in DOMAIN list : conn[list[i]] # "none"
           /\ UNCHANGED <<connecting, phase>>
  BY <1>2 DEF IInv, TypeOK, AttemptSound, Waiting
<1> QED
  BY <1>1, <1>2 DEF SetupNext

\* fail_connection ends the attempt and leaves an idle source, whatever it
\* has read.
LEMMA FailKeepsIInv ==
  ASSUME IInv, phase # "none", Fail, dial' = << >>,
         alive' \in BOOLEAN, reply' \in [4 .. 7 -> 0 .. 255]
  PROVE  IInv'
<1>1. connecting \in Devices /\ IInv
  BY DEF IInv, TypeOK, AttemptSound
<1>2. DestroyDevice(connecting) /\ connecting' = None /\ phase' = "none" /\ idle' = idle + 1
  BY DEF Fail, Cleanup
<1>3. TypeOK'
  <2>1. /\ devices' \in Seq(Devices) /\ slot' \in [Devices -> {2, 4}]
        /\ conn' \in [Devices -> {"none", "dialling", "open", "dead"}]
    BY <1>1, <1>2, DestroyProperties
  <2>2. idle' \in Nat /\ connecting' \in Devices \cup {None}
        /\ phase' \in {"none", "connect", "header", "data"}
    BY <1>1, <1>2 DEF IInv, TypeOK
  <2> QED
    BY <2>1, <2>2 DEF TypeOK
<1>4. AttemptSound'
  BY <1>1, <1>2, DestroyProperties DEF IInv, AttemptSound
<1>5. NoStall'
  BY <1>2 DEF IInv, TypeOK, NoStall
<1> QED
  BY <1>3, <1>4, <1>5 DEF IInv

\* A byte read leaves reply_buffer a buffer of bytes.
LEMMA ReadType ==
  ASSUME TypeOK, NEW a \in Answers, NEW n \in ShortReads \cup {4}, Read(a, n)
  PROVE  reply' \in [4 .. 7 -> 0 .. 255] /\ PortOf(reply') \in (0 .. 255) \X (0 .. 255)
                                         /\ PortOf(a) \in (0 .. 255) \X (0 .. 255)
<1>1. a \in [4 .. 7 -> 0 .. 255]
  BY ManagerAssumption
<1>2. reply' \in [4 .. 7 -> 0 .. 255]
  BY <1>1 DEF Read, TypeOK
<1> QED
  BY <1>1, <1>2 DEF PortOf

\* The invariant holds at the start: no device has been found.
LEMMA InitIInv == Init => IInv
BY ManagerAssumption DEF Init, IInv, TypeOK, AttemptSound, NoStall, Waiting, Listed

\* Every step keeps the invariant.
LEMMA NextIInv == IInv /\ [Next]_vars => IInv'
<1> SUFFICES ASSUME IInv, [Next]_vars PROVE IInv'
  OBVIOUS
<1>1. TypeOK /\ AttemptSound /\ NoStall
  BY DEF IInv
<1>2. ASSUME NEW d \in Devices, AddDevice(d) PROVE IInv'
  <2>1. /\ devices' = <<d>> \o devices /\ d \notin Listed /\ SetupNext(devices')
        /\ UNCHANGED <<alive, slot, conn, reply, idle>> /\ dial' = << >>
    BY <1>2 DEF AddDevice
  <2>2. /\ devices \in Seq(Devices) /\ <<d>> \in Seq(Devices)
        /\ Len(devices) \in Nat /\ DOMAIN devices = 1 .. Len(devices)
    BY <1>1, LenProperties DEF TypeOK
  <2>3. /\ devices' \in Seq(Devices)
        /\ DOMAIN devices' = 1 .. Len(devices) + 1
        /\ \A i \in 1 .. Len(devices) + 1 : devices'[i] = IF i = 1 THEN d ELSE devices[i - 1]
    BY <2>1, <2>2, ConcatProperties, LenProperties
  <2>4. Listed' = Listed \cup {d}
    <3>1. ASSUME NEW e \in Listed' PROVE e \in Listed \cup {d}
      BY <3>1, <2>2, <2>3 DEF Listed
    <3>2. d \in Listed'
      BY <2>2, <2>3 DEF Listed
    <3>3. ASSUME NEW e \in Listed PROVE e \in Listed'
      <4>1. PICK i \in DOMAIN devices : e = devices[i]
        BY <3>3 DEF Listed
      <4>2. i + 1 \in DOMAIN devices' /\ devices'[i + 1] = e
        BY <4>1, <2>2, <2>3
      <4> QED
        BY <4>2 DEF Listed
    <3> QED
      BY <3>1, <3>2, <3>3
  <2>5. \A i, j \in DOMAIN devices' : devices'[i] = devices'[j] => i = j
    BY <1>1, <2>1, <2>2, <2>3 DEF AttemptSound, Listed
  <2>6. /\ connecting' \in Devices \cup {None}
        /\ phase' \in {"none", "connect", "header", "data"}
        /\ phase' # "none" <=> connecting' # None
        /\ connecting' # None => conn[connecting'] = "none" /\ connecting' \in Listed'
        /\ (\E i \in DOMAIN devices' : conn[devices'[i]] = "none") => connecting' # None
    <3>1. Listed \subseteq {devices'[i] : i \in DOMAIN devices'}
      BY <2>4 DEF Listed
    <3> QED
      BY <3>1, <2>1, <2>3, SetupProperties DEF Listed
  <2>7. TypeOK'
    BY <1>1, <2>1, <2>3, <2>6 DEF TypeOK
  <2>8. AttemptSound'
    BY <1>1, <2>1, <2>4, <2>5, <2>6 DEF AttemptSound, Waiting
  <2>9. NoStall'
    BY <2>1, <2>6 DEF NoStall, Waiting, Listed
  <2> QED
    BY <2>7, <2>8, <2>9 DEF IInv
<1>3. ASSUME IdleNext PROVE IInv'
  <2>1. /\ idle > 0 /\ idle' = idle - 1 /\ SetupNext(devices)
        /\ UNCHANGED <<alive, devices, slot, conn, reply>> /\ dial' = << >>
    BY <1>3 DEF IdleNext, listVars
  <2>2. /\ connecting' \in Devices \cup {None}
        /\ phase' \in {"none", "connect", "header", "data"}
        /\ phase' # "none" <=> connecting' # None
        /\ connecting' # None => conn[connecting'] = "none" /\ connecting' \in Listed
        /\ (\E i \in DOMAIN devices : conn[devices[i]] = "none") => connecting' # None
    BY <1>1, <2>1, SetupProperties DEF TypeOK, Listed
  <2>3. TypeOK'
    BY <1>1, <2>1, <2>2 DEF TypeOK
  <2>4. AttemptSound'
    BY <1>1, <2>1, <2>2 DEF AttemptSound, Waiting, Listed
  <2>5. NoStall'
    BY <2>1, <2>2 DEF NoStall, Waiting, Listed
  <2> QED
    BY <2>3, <2>4, <2>5 DEF IInv
<1>4. ASSUME AttemptFails PROVE IInv'
  <2>1. /\ phase # "none" /\ Fail /\ dial' = << >>
        /\ alive' \in BOOLEAN /\ reply' \in [4 .. 7 -> 0 .. 255]
    BY <1>1, <1>4 DEF AttemptFails, TypeOK
  <2> QED
    BY <2>1, FailKeepsIInv
<1>5. ASSUME Connected PROVE IInv'
  BY <1>1, <1>5 DEF Connected, IInv, TypeOK, AttemptSound, NoStall, Waiting, Listed, listVars
<1>6. ASSUME HandleHeader PROVE IInv'
  BY <1>1, <1>6 DEF HandleHeader, IInv, TypeOK, AttemptSound, NoStall, Waiting, Listed, listVars
<1>7. ASSUME NEW a \in Answers, NEW n \in ShortReads \cup {4}, HandleInvalid(a, n) PROVE IInv'
  <2>1. /\ phase # "none" /\ Fail /\ dial' = << >>
        /\ alive' \in BOOLEAN /\ reply' \in [4 .. 7 -> 0 .. 255]
    BY <1>1, <1>7, ReadType DEF HandleInvalid, TypeOK
  <2> QED
    BY <2>1, FailKeepsIInv
<1>8. ASSUME NEW a \in Answers, NEW n \in ShortReads \cup {4}, HandleOffLine(a, n) PROVE IInv'
  <2>1. /\ phase # "none" /\ dial' = << >> /\ alive' \in BOOLEAN
        /\ reply' \in [4 .. 7 -> 0 .. 255] /\ connecting \in Devices
    BY <1>1, <1>8, ReadType DEF HandleOffLine, TypeOK, AttemptSound
  <2>2. CASE /\ slot' = [slot EXCEPT ![connecting] = NextSlot(@)]
             /\ NextSlot(slot[connecting]) # 0
             /\ connecting' = None /\ phase' = "none" /\ idle' = idle + 1
             /\ UNCHANGED <<devices, conn>>
    <3>1. slot' \in [Devices -> {2, 4}]
      BY <1>1, <2>1, <2>2 DEF TypeOK, NextSlot
    <3>2. TypeOK'
      BY <1>1, <2>1, <2>2, <3>1 DEF TypeOK
    <3>3. AttemptSound'
      BY <1>1, <2>2 DEF AttemptSound, Listed
    <3>4. NoStall'
      BY <1>1, <2>2 DEF NoStall, TypeOK
    <3> QED
      BY <3>2, <3>3, <3>4 DEF IInv
  <2>3. CASE Fail
    BY <2>1, <2>3, FailKeepsIInv
  <2> QED
    BY <1>8, <2>2, <2>3 DEF HandleOffLine, Cleanup
<1>9. ASSUME NEW a \in Answers, NEW n \in ShortReads \cup {4}, HandleOnLine(a, n) PROVE IInv'
  <2>1. /\ phase # "none" /\ alive' = alive /\ UNCHANGED <<devices, slot>>
        /\ conn' = [conn EXCEPT ![connecting] = "dialling"]
        /\ dial' = <<PortOf(reply'), PortOf(a)>>
        /\ connecting' = None /\ phase' = "none" /\ idle' = idle + 1
    BY <1>9 DEF HandleOnLine, Cleanup
  <2>2. connecting \in Devices /\ connecting \in Listed
    BY <1>1, <2>1 DEF TypeOK, AttemptSound, Waiting
  <2>3. /\ reply' \in [4 .. 7 -> 0 .. 255]
        /\ dial' \in ((0 .. 255) \X (0 .. 255)) \X ((0 .. 255) \X (0 .. 255))
    BY <1>1, <1>9, <2>1, ReadType DEF HandleOnLine
  <2>4. TypeOK'
    BY <1>1, <2>1, <2>2, <2>3 DEF TypeOK
  <2>5. AttemptSound'
    BY <1>1, <2>1, <2>2 DEF AttemptSound, Listed, TypeOK
  <2>6. NoStall'
    BY <1>1, <2>1 DEF NoStall, TypeOK
  <2> QED
    BY <2>4, <2>5, <2>6 DEF IInv
<1>10. ASSUME NEW d \in Devices, ConnectionOpens(d) PROVE IInv'
  BY <1>1, <1>10 DEF ConnectionOpens, attemptVars, IInv, TypeOK, AttemptSound, NoStall, Waiting, Listed
<1>11. ASSUME NEW d \in Devices, ConnectionFails(d) PROVE IInv'
  BY <1>1, <1>11 DEF ConnectionFails, attemptVars, IInv, TypeOK, AttemptSound, NoStall, Waiting, Listed
<1>12. ASSUME NEW d \in Devices, ConnectionClosed(d) PROVE IInv'
  <2>1. /\ conn[d] = "open" /\ DestroyDevice(d) /\ dial' = << >>
        /\ UNCHANGED <<alive, connecting, phase, reply, idle>>
    BY <1>12 DEF ConnectionClosed, attemptVars
  <2>2. TypeOK'
    BY <1>1, <2>1, DestroyProperties DEF TypeOK
  <2>3. AttemptSound'
    <3>1. connecting # None => connecting \in Devices /\ connecting # d /\ connecting \in Listed
      BY <1>1, <2>1 DEF AttemptSound, TypeOK, Waiting
    <3> QED
      BY <1>1, <2>1, <3>1, DestroyProperties DEF AttemptSound, Waiting
  <2>4. NoStall'
    BY <1>1, <2>1, DestroyProperties DEF NoStall, Waiting
  <2> QED
    BY <2>2, <2>3, <2>4 DEF IInv
<1>13. ASSUME Dispose PROVE IInv'
  <2>1. TypeOK'
    <3>1. devices' \in Seq(Devices)
      BY <1>13 DEF Dispose
    <3>4. alive' \in BOOLEAN
      BY <1>13, Zenon DEF Dispose
    <3>2. /\ slot' \in [Devices -> {2, 4}]
          /\ conn' \in [Devices -> {"none", "dialling", "open", "dead"}]
      BY <1>13 DEF Dispose
    <3>3. UNCHANGED <<reply, idle>> /\ connecting' = None /\ phase' = "none" /\ dial' = << >>
      BY <1>13 DEF Dispose
    <3> QED
      BY <1>1, <3>1, <3>2, <3>3, <3>4 DEF TypeOK
  <2>2. AttemptSound' /\ NoStall'
    BY <1>13 DEF Dispose, AttemptSound, NoStall, Waiting, Listed
  <2> QED
    BY <2>1, <2>2 DEF IInv
<1>14. ASSUME NEW d \in Devices, AlreadyListed(d) PROVE IInv'
  BY <1>1, <1>14
  DEF AlreadyListed, listVars, attemptVars, IInv, TypeOK, AttemptSound, NoStall, Waiting, Listed
<1>15. ASSUME UNCHANGED vars PROVE IInv'
  BY <1>1, <1>15
  DEF vars, listVars, attemptVars, IInv, TypeOK, AttemptSound, NoStall, Waiting, Listed
<1> QED
  BY <1>2, <1>3, <1>4, <1>5, <1>6, <1>7, <1>8, <1>9, <1>10, <1>11, <1>12, <1>13, <1>14, <1>15
  DEF Next, ManagerNext, Ended

-----------------------------------------------------------------------------
(* The results about the manager.                                          *)

\* The three invariants hold together in every reachable state.
THEOREM Inductive == Spec => []IInv
BY InitIInv, NextIInv, PTL DEF Spec

\* The state of the manager stays within its types.
THEOREM TypeCorrect == Spec => []TypeOK
BY Inductive, PTL DEF IInv

\* The callbacks of an attempt find its device listed and unconnected.
THEOREM AttemptsSound == Spec => []AttemptSound
BY Inductive, PTL DEF IInv

\* No device that waits is forgotten, whatever is found, closed and failed
\* in the meantime.
THEOREM NothingStalls == Spec => []NoStall
BY Inductive, PTL DEF IInv

\* An attempt is the only one until one of its callbacks ends it.
THEOREM AttemptsOneByOne == Spec => OneAttempt
<1>1. IInv /\ [Next]_vars =>
        [connecting # None /\ connecting' # connecting => connecting' = None /\ phase' = "none"]_vars
  <2> SUFFICES ASSUME IInv, Next, connecting # None, connecting' # connecting
               PROVE  connecting' = None /\ phase' = "none"
    OBVIOUS
  <2>1. ASSUME NEW list, SetupNext(list) PROVE FALSE
    BY <2>1 DEF SetupNext
  <2>2. CASE \/ \E d \in Devices : AddDevice(d) \/ AlreadyListed(d) \/ ConnectionOpens(d)
             \/ \E d \in Devices : ConnectionFails(d) \/ ConnectionClosed(d)
             \/ IdleNext \/ Connected \/ HandleHeader \/ Ended
    BY <2>1, <2>2 DEF AddDevice, AlreadyListed, IdleNext, Connected, HandleHeader, Ended, ConnectionOpens,
                      ConnectionFails, ConnectionClosed, listVars, attemptVars, vars
  <2>3. CASE AttemptFails \/ Dispose
    BY <2>3 DEF AttemptFails, Fail, Cleanup, Dispose
  <2>4. ASSUME NEW a \in Answers, NEW n \in ShortReads \cup {4}, HandleData(a, n)
        PROVE  connecting' = None /\ phase' = "none"
    BY <2>4 DEF HandleData, HandleInvalid, HandleOffLine, HandleOnLine, Fail, Cleanup
  <2> QED
    BY <2>2, <2>3, <2>4 DEF Next, ManagerNext, HandleData
<1> QED
  BY <1>1, Inductive, PTL DEF Spec, OneAttempt

\* A connection is made to the port the device offered if no answer is read in
\* part: the bytes of an earlier answer, which stay in reply_buffer, do no other
\* harm.  MCConnectionManagerShort.cfg shows that the condition is needed.
THEOREM PortsIfReadWhole == ASSUME ShortReads = {} PROVE Spec => []PortAsOffered
<1>1. Init => PortAsOffered
  BY DEF Init, PortAsOffered
<1>2. PortAsOffered /\ [Next]_vars => PortAsOffered'
  <2> SUFFICES ASSUME PortAsOffered, [Next]_vars PROVE PortAsOffered'
    OBVIOUS
  <2>1. ASSUME NEW a \in Answers, NEW n \in ShortReads \cup {4}, HandleOnLine(a, n)
        PROVE  PortAsOffered'
    <3>1. n = 4
      OBVIOUS
    <3>2. reply' = [i \in 4 .. 7 |-> IF i < 8 THEN a[i] ELSE reply[i]]
      BY <2>1, <3>1 DEF HandleOnLine, Read
    <3>3. PortOf(reply') = PortOf(a)
      BY <3>2 DEF PortOf
    <3>4. dial' = <<PortOf(reply'), PortOf(a)>>
      BY <2>1 DEF HandleOnLine
    <3> QED
      BY <3>3, <3>4 DEF PortAsOffered
  <2>2. CASE dial' = << >> \/ UNCHANGED dial
    BY <2>2 DEF PortAsOffered
  <2>3. [Next]_vars =>
          \/ \E a \in Answers, n \in ShortReads \cup {4} : HandleOnLine(a, n)
          \/ dial' = << >> \/ UNCHANGED dial
    BY DEF Next, ManagerNext, AddDevice, AlreadyListed, IdleNext, AttemptFails, Connected,
           HandleHeader, HandleInvalid, HandleOffLine, ConnectionOpens, ConnectionFails,
           ConnectionClosed, Dispose, Ended, vars
  <2> QED
    BY <2>1, <2>2, <2>3
<1> QED
  BY <1>1, <1>2, PTL DEF Spec

-----------------------------------------------------------------------------
(* The scanner.                                                            *)

ScanIInv == ScanTypeOK /\ OneTimer

\* The set-up leaves one timeout and a socket.
LEMMA ScanInitIInv == ScanInit => ScanIInv
<1> SUFFICES ASSUME ScanInit PROVE ScanIInv
  OBVIOUS
<1>1. /\ first_scan_interval \in Intervals /\ 1 \in Positions
      /\ timeout_id = first_scan_interval
      /\ sources = [NoSources EXCEPT ![first_scan_interval] = NoSources[first_scan_interval] + 1]
  <2>1. 1 \in DOMAIN Addresses
    BY ScanAssumption, LenProperties
  <2> QED
    BY <2>1 DEF ScanInit, first_scan_interval, Intervals, Positions, AddTimeout
<1>2. sources \in [Intervals -> Nat] /\ \A i \in Intervals : sources[i] = IF i = timeout_id THEN 1 ELSE 0
  BY <1>1 DEF NoSources
<1>3. socket = TRUE /\ program \in Programs /\ replies = {}
      /\ current_address = 1 /\ current_scan_interval = first_scan_interval
  BY DEF ScanInit
<1> QED
  BY <1>1, <1>2, <1>3, Zenon DEF ScanIInv, ScanTypeOK, OneTimer

\* Stopping leaves no timeout.
LEMMA StoppedIsEmpty ==
  ASSUME ScanIInv
  PROVE  Stopped \in [Intervals -> Nat] /\ \A i \in Intervals : Stopped[i] = 0
<1>1. /\ timeout_id \in Intervals \cup {0} /\ sources \in [Intervals -> Nat]
      /\ \A i \in Intervals : sources[i] = IF i = timeout_id THEN 1 ELSE 0
      /\ \A i \in Intervals : i \in Nat /\ i > 0
  BY DEF ScanIInv, ScanTypeOK, OneTimer, Intervals
<1>2. CASE timeout_id > 0
  <2>1. Stopped = [sources EXCEPT ![timeout_id] = sources[timeout_id] - 1]
    BY <1>2 DEF Stopped, RemoveTimeout
  <2>2. timeout_id \in Intervals
    BY <1>1, <1>2
  <2> QED
    BY <1>1, <2>1, <2>2
<1>3. CASE ~(timeout_id > 0)
  BY <1>1, <1>3 DEF Stopped
<1> QED
  BY <1>2, <1>3

\* Every step keeps one timeout at most, and timeout_id its name.
LEMMA ScanNextIInv == ScanIInv /\ [ScanNext]_scanVars => ScanIInv'
<1> SUFFICES ASSUME ScanIInv, [ScanNext]_scanVars PROVE ScanIInv'
  OBVIOUS
<1>1. /\ ScanTypeOK
      /\ \A i \in Intervals : sources[i] = IF i = timeout_id THEN 1 ELSE 0
      /\ timeout_id # 0 => socket
  BY DEF ScanIInv, OneTimer
<1>2. /\ first_scan_interval \in Intervals /\ scan_interval \in Intervals \cup {0}
      /\ \A i \in Intervals : i \in Nat /\ i > 0
      /\ 1 \in Positions
  <2>1. 1 \in DOMAIN Addresses
    BY ScanAssumption, LenProperties
  <2> QED
    BY <2>1 DEF first_scan_interval, scan_interval, Intervals, Positions
<1>3. ASSUME program' = program
      PROVE  /\ Positions' = Positions /\ Responders' = Responders
             /\ first_scan_interval' = first_scan_interval /\ scan_interval' = scan_interval
  BY <1>3 DEF Positions, Responders, first_scan_interval, scan_interval
<1>4. ASSUME ScanStart PROVE ScanIInv'
  <2>1. /\ program' = program /\ current_address' = 1 /\ replies' = {}
    BY <1>4 DEF ScanStart
  <2>2. CASE /\ socket' = TRUE /\ timeout_id' = first_scan_interval
             /\ sources' = AddTimeout(Stopped, first_scan_interval)
             /\ current_scan_interval' = first_scan_interval
    <3>1. /\ sources' \in [Intervals -> Nat]
          /\ \A i \in Intervals : sources'[i] = IF i = timeout_id' THEN 1 ELSE 0
      BY <2>2, <1>2, StoppedIsEmpty DEF AddTimeout
    <3>2. socket' \in BOOLEAN
      BY <2>2, Zenon
    <3>3. ScanTypeOK'
      BY <1>1, <1>2, <1>3, <2>1, <2>2, <3>1, <3>2 DEF ScanTypeOK
    <3>4. timeout_id' # 0 => socket'
      BY <2>2, Zenon
    <3> QED
      BY <3>1, <3>3, <3>4, Zenon DEF ScanIInv, OneTimer
  <2>3. CASE /\ socket' = FALSE /\ timeout_id' = 0 /\ sources' = Stopped
             /\ UNCHANGED current_scan_interval
    <3>1. /\ sources' \in [Intervals -> Nat]
          /\ \A i \in Intervals : sources'[i] = IF i = timeout_id' THEN 1 ELSE 0
      BY <2>3, <1>2, StoppedIsEmpty
    <3>2. socket' \in BOOLEAN
      BY <2>3, Zenon
    <3>3. ScanTypeOK'
      BY <1>1, <1>2, <1>3, <2>1, <2>3, <3>1, <3>2 DEF ScanTypeOK
    <3> QED
      BY <2>3, <3>1, <3>3 DEF ScanIInv, OneTimer
  <2> QED
    BY <1>4, <2>2, <2>3, Zenon DEF ScanStart
<1>5. ASSUME NEW i \in Intervals, NEW answers \in SUBSET Asked, TimeoutCallback(i, answers)
      PROVE  ScanIInv'
  <2>1. /\ sources[i] > 0 /\ replies' = replies \cup answers /\ current_address' = NextAddress
        /\ program' = program /\ socket' = socket
    BY <1>5 DEF TimeoutCallback
  <2>2. i = timeout_id /\ socket
    BY <1>1, <1>2, <2>1
  <2>3. /\ replies' \subseteq Responders /\ current_address' \in Positions
    <3>1. Asked \subseteq Responders
      <4>1. current_address \in DOMAIN Addresses
        BY <1>1, ScanAssumption, LenProperties DEF ScanTypeOK, Positions
      <4> QED
        BY <4>1 DEF Asked, Responders
    <3> QED
      BY <1>1, <1>2, <2>1, <3>1 DEF ScanTypeOK, NextAddress
  <2>4. /\ sources' \in [Intervals -> Nat]
        /\ timeout_id' \in Intervals \cup {0}
        /\ current_scan_interval' \in Intervals \cup {0}
        /\ \A k \in Intervals : sources'[k] = IF k = timeout_id' THEN 1 ELSE 0
    <3>1. CASE SameInterval
      BY <3>1, <1>1 DEF SameInterval, timerVars, ScanTypeOK
    <3>2. CASE ChangeInterval(i)
      <4> DEFINE rest == RemoveTimeout(sources, i)
      <4>1. rest \in [Intervals -> Nat] /\ \A k \in Intervals : rest[k] = 0
        BY <1>1, <1>2, <2>2 DEF RemoveTimeout, ScanTypeOK
      <4> HIDE DEF rest
      <4>2. CASE scan_interval > 0
        <5>1. sources' = [rest EXCEPT ![scan_interval] = rest[scan_interval] + 1]
              /\ timeout_id' = scan_interval /\ current_scan_interval' = scan_interval
          BY <3>2, <4>2 DEF ChangeInterval, AddTimeout, rest
        <5>2. scan_interval \in Intervals
          BY <1>2, <4>2
        <5> QED
          BY <4>1, <5>1, <5>2
      <4>3. CASE ~(scan_interval > 0)
        <5>1. sources' = rest /\ timeout_id' = scan_interval /\ current_scan_interval' = scan_interval
          BY <3>2, <4>3 DEF ChangeInterval, rest
        <5>2. scan_interval = 0
          BY <1>2, <4>3
        <5> QED
          BY <4>1, <5>1, <5>2, <1>2
      <4> QED
        BY <4>2, <4>3
    <3> QED
      BY <1>5, <3>1, <3>2, Zenon DEF TimeoutCallback
  <2>5. ScanTypeOK'
    BY <1>1, <1>3, <2>1, <2>3, <2>4 DEF ScanTypeOK
  <2>6. socket'
    BY <2>1, <2>2, Zenon
  <2> QED
    BY <2>4, <2>5, <2>6, Zenon DEF ScanIInv, OneTimer
<1>6. ASSUME NEW d \in Responders, ReadReply(d) PROVE ScanIInv'
  <2>1. /\ UNCHANGED <<program, current_address, current_scan_interval, sources, timeout_id, socket>>
        /\ replies' \subseteq replies
    BY <1>6 DEF ReadReply, timerVars
  <2>2. ScanTypeOK'
    BY <1>1, <1>3, <2>1 DEF ScanTypeOK
  <2> QED
    BY <1>1, <2>1, <2>2 DEF ScanIInv, OneTimer
<1>7. ASSUME ScanStop PROVE ScanIInv'
  <2>1. /\ timeout_id' = 0 /\ sources' = Stopped /\ replies' = {}
        /\ UNCHANGED <<program, current_address, current_scan_interval>>
    BY <1>7 DEF ScanStop
  <2>2. socket' \in BOOLEAN
    BY <1>7, Zenon DEF ScanStop
  <2>3. /\ sources' \in [Intervals -> Nat]
        /\ \A i \in Intervals : sources'[i] = IF i = timeout_id' THEN 1 ELSE 0
    BY <2>1, <1>2, StoppedIsEmpty
  <2>4. ScanTypeOK'
    BY <1>1, <1>3, <2>1, <2>2, <2>3 DEF ScanTypeOK
  <2> QED
    BY <2>1, <2>3, <2>4 DEF ScanIInv, OneTimer
<1>8. CASE UNCHANGED scanVars
  <2>1. UNCHANGED <<program, current_address, current_scan_interval, sources, timeout_id,
                    socket, replies>>
    BY <1>8 DEF scanVars, timerVars
  <2>2. ScanTypeOK'
    BY <1>1, <1>3, <2>1 DEF ScanTypeOK
  <2> QED
    BY <1>1, <2>1, <2>2 DEF ScanIInv, OneTimer
<1> QED
  BY <1>4, <1>5, <1>6, <1>7, <1>8 DEF ScanNext, ScanStep, ScanReceive, ScanDrop

\* The scanner by itself never has two timeouts.
THEOREM ScannerInductive == ScanSpec => []ScanIInv
BY ScanInitIInv, ScanNextIInv, PTL DEF ScanSpec

-----------------------------------------------------------------------------
(* The composition.                                                        *)

\* The composition implements the scanner: each of its steps is a step of the
\* scanner or leaves the scanner alone.
THEOREM ImplementsScanner == DiscoverySpec => ScanSpec
<1>1. DiscoveryInit => ScanInit
  BY DEF DiscoveryInit
<1>2. [DiscoveryNext]_allVars => [ScanNext]_scanVars
  BY DEF DiscoveryNext, allVars, OnlyScan, DeviceFound, AppCleanup, ScanNext
<1> QED
  BY <1>1, <1>2, PTL DEF DiscoverySpec, ScanSpec

\* The composition implements the manager: a device it finds is one the
\* manager may be given, and the rest of the scanner does not touch it.
THEOREM ImplementsManager == DiscoverySpec => Spec
<1>1. DiscoveryInit => Init
  BY DEF DiscoveryInit
<1>2. [DiscoveryNext]_allVars => [Next]_vars
  BY DiscoveryAssumption
  DEF DiscoveryNext, allVars, OnlyScan, DeviceFound, AppCleanup, Next
<1> QED
  BY <1>1, <1>2, PTL DEF DiscoverySpec, Spec

\* The state of the scanner stays within its types.
THEOREM ScannerTypeCorrect == DiscoverySpec => []ScanTypeOK
<1>1. ScanIInv => ScanTypeOK
  BY DEF ScanIInv
<1> QED
  BY <1>1, ImplementsScanner, ScannerInductive, PTL

\* However often the scan is started, slowed down and stopped, one timeout at
\* most is alive, and it is the one that stopping the scan removes.
THEOREM OneTimerOnly == DiscoverySpec => []OneTimer
<1>1. ScanIInv => OneTimer
  BY DEF ScanIInv
<1> QED
  BY <1>1, ImplementsScanner, ScannerInductive, PTL

\* With the scanner finding devices in any order and any number of times, an
\* attempt belongs to a device that is listed and unconnected and is ended by
\* its own callbacks only, and no device that waits is forgotten.
THEOREM DiscoveredSound == DiscoverySpec => [](AttemptSound /\ NoStall) /\ OneAttempt
<1>1. IInv => AttemptSound /\ NoStall
  BY DEF IInv
<1> QED
  BY <1>1, ImplementsManager, Inductive, AttemptsOneByOne, PTL
=============================================================================
