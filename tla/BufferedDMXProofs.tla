------------------------- MODULE BufferedDMXProofs -------------------------
(***************************************************************************)
(* Proofs about BufferedDMX for every packet size and every set of byte    *)
(* values: its invariants hold, an emission notifies of exactly what has   *)
(* changed, and the hand-over implements the conflating channel (its       *)
(* safety part; that a pending packet is taken is left to TLC).            *)
(***************************************************************************)
EXTENDS BufferedDMX, TLAPS

\* While dmx_packet runs, the channels it has passed and those whose bit is
\* not set are already right.
EmissionCurrent ==
  mpc = "emit" =>
    \A c \in Channels : c < userLen /\ (c < mpos \/ c \notin bits) => view[c] = mem[user][c]

\* The queue buffer starts with the bytes copied so far.
CopiedSoFar ==
  \E n \in 0 .. MaxBuffer :
    /\ rdata \in PacketsOf(n)
    /\ rpos \in 0 .. n
    /\ rpc = "copy" => \A i \in 0 .. rpos - 1 : mem[queue][i] = rdata[i]

\* Only the reader attaches the source it made.
SourceOwner == rpc = "attach" <=> idle = "made"

IInv ==
  /\ TypeOK
  /\ ViewCurrent
  /\ EmissionCurrent
  /\ CopiedSoFar
  /\ SourceOwner
  /\ Lifetime

-----------------------------------------------------------------------------

\* A packet of n channels is one of the packets.
LEMMA PacketsOfIsPackets ==
  ASSUME NEW n \in 0 .. MaxBuffer, NEW p \in PacketsOf(n)
  PROVE  p \in Packets
BY DEF Packets

\* The invariant holds at the start: nothing has been received.
LEMMA InitIInv == Init => IInv
<1> SUFFICES ASSUME Init PROVE IInv
  OBVIOUS
<1> USE BufferAssumption DEF Init
<1>1. rdata \in PacketsOf(0) /\ 0 \in 0 .. MaxBuffer
  OBVIOUS
<1>2. TypeOK
  BY <1>1, PacketsOfIsPackets DEF TypeOK
<1>3. ViewCurrent /\ EmissionCurrent
  BY DEF ViewCurrent, EmissionCurrent, Channels
<1>4. CopiedSoFar
  BY <1>1 DEF CopiedSoFar
<1>5. SourceOwner /\ Lifetime
  BY DEF SourceOwner, Lifetime
<1> QED
  BY <1>2, <1>3, <1>4, <1>5 DEF IInv

\* Every step keeps the invariant.
LEMMA NextIInv == IInv /\ [Next]_vars => IInv'
<1> SUFFICES ASSUME IInv, [Next]_vars PROVE IInv'
  OBVIOUS
<1> USE BufferAssumption
<1>a. /\ TypeOK /\ ViewCurrent /\ EmissionCurrent
      /\ CopiedSoFar /\ SourceOwner /\ Lifetime
  BY DEF IInv
<1>1. CASE UNCHANGED vars
  BY <1>a, <1>1 DEF IInv, TypeOK, ViewCurrent, EmissionCurrent, CopiedSoFar, SourceOwner,
     Lifetime, vars, bufVars, readerVars, mainVars, queue
<1>2. ASSUME NEW p \in Packets, Queue(p) PROVE IInv'
  <2> USE <1>a, <1>2 DEF Queue, bufVars, mainVars
  <2>1. TypeOK'
    BY DEF TypeOK
  <2>2. ViewCurrent' /\ EmissionCurrent'
    BY DEF ViewCurrent, EmissionCurrent
  <2>3. CopiedSoFar'
    <3>1. PICK n \in 0 .. MaxBuffer : p \in PacketsOf(n)
      BY DEF Packets
    <3> QED
      BY <3>1 DEF CopiedSoFar
  <2>4. SourceOwner' /\ Lifetime'
    BY DEF SourceOwner, Lifetime
  <2> QED
    BY <2>1, <2>2, <2>3, <2>4 DEF IInv
<1>3. CASE CopyByte
  <2> USE <1>a, <1>3 DEF CopyByte, mainVars
  <2>1. PICK n \in 0 .. MaxBuffer :
          /\ rdata \in PacketsOf(n) /\ rpos \in 0 .. n
          /\ \A i \in 0 .. rpos - 1 : mem[queue][i] = rdata[i]
    BY DEF CopiedSoFar
  <2>2. rpos \in 0 .. n - 1 /\ rpos \in Channels /\ rdata[rpos] \in Bytes
    BY <2>1 DEF PacketsOf, Channels
  <2>3. queue \in {0, 1} /\ queue # user
    BY DEF TypeOK, queue
  <2>4. /\ mem' \in [{0, 1} -> [Channels -> Bytes]]
        /\ mem'[user] = mem[user]
        /\ mem'[queue] = [mem[queue] EXCEPT ![rpos] = rdata[rpos]]
    BY <2>2, <2>3 DEF TypeOK
  <2>5. TypeOK'
    BY <2>2, <2>4 DEF TypeOK, Channels
  <2>6. ViewCurrent' /\ EmissionCurrent'
    BY <2>4 DEF ViewCurrent, EmissionCurrent
  <2>7. CopiedSoFar'
    <3>1. queue' = queue
      BY DEF queue
    <3>2. \A i \in 0 .. rpos : mem'[queue][i] = rdata[i]
      BY <2>1, <2>2, <2>3, <2>4 DEF TypeOK, Channels
    <3>3. rpos' \in 0 .. n
      BY <2>2
    <3> QED
      BY <2>1, <2>2, <3>1, <3>2, <3>3 DEF CopiedSoFar
  <2>8. SourceOwner' /\ Lifetime'
    BY DEF SourceOwner, Lifetime
  <2> QED
    BY <2>5, <2>6, <2>7, <2>8 DEF IInv
<1>4. CASE QueueDone
  <2> USE <1>a, <1>4 DEF QueueDone, mainVars
  <2>1. TypeOK'
    BY DEF TypeOK
  <2>2. ViewCurrent' /\ EmissionCurrent'
    BY DEF ViewCurrent, EmissionCurrent
  <2>3. CopiedSoFar'
    BY DEF CopiedSoFar, queue
  <2>4. SourceOwner' /\ Lifetime'
    BY DEF SourceOwner, Lifetime, TypeOK
  <2> QED
    BY <2>1, <2>2, <2>3, <2>4 DEF IInv
<1>5. CASE Attach
  <2> USE <1>a, <1>5 DEF Attach, bufVars, mainVars
  <2>1. TypeOK'
    BY DEF TypeOK
  <2>2. ViewCurrent' /\ EmissionCurrent'
    BY DEF ViewCurrent, EmissionCurrent
  <2>3. CopiedSoFar'
    BY DEF CopiedSoFar, queue
  <2>4. SourceOwner' /\ Lifetime'
    BY DEF SourceOwner, Lifetime
  <2> QED
    BY <2>1, <2>2, <2>3, <2>4 DEF IInv
<1>6. CASE ReaderStop
  <2> USE <1>a, <1>6 DEF ReaderStop, bufVars, mainVars
  <2>1. TypeOK'
    BY DEF TypeOK
  <2>2. ViewCurrent' /\ EmissionCurrent'
    BY DEF ViewCurrent, EmissionCurrent
  <2>3. CopiedSoFar'
    BY DEF CopiedSoFar, queue
  <2>4. SourceOwner' /\ Lifetime'
    BY DEF SourceOwner, Lifetime
  <2> QED
    BY <2>1, <2>2, <2>3, <2>4 DEF IInv
<1>7. CASE NothingChanged
  <2> USE <1>a, <1>7 DEF NothingChanged, Dispatch, bufVars, readerVars, mainVars
  <2>1. TypeOK'
    BY DEF TypeOK, Lifetime
  <2>2. ViewCurrent' /\ EmissionCurrent'
    BY DEF ViewCurrent, EmissionCurrent
  <2>3. CopiedSoFar'
    BY DEF CopiedSoFar, queue
  <2>4. SourceOwner' /\ Lifetime'
    BY DEF SourceOwner, Lifetime, TypeOK
  <2> QED
    BY <2>1, <2>2, <2>3, <2>4 DEF IInv
<1>8. CASE SwapBuffers
  <2> USE <1>a, <1>8 DEF SwapBuffers, Dispatch, readerVars
  <2>1. TypeOK'
    BY DEF TypeOK, queue, Differing
  <2>2. ViewCurrent'
    BY DEF ViewCurrent
  <2>3. EmissionCurrent'
    <3> SUFFICES ASSUME NEW c \in Channels, c < queueLen, c \notin bits \cup Differing
                 PROVE  view[c] = mem[queue][c]
      BY DEF EmissionCurrent, TypeOK, Channels
    <3>1. c < userLen /\ mem[queue][c] = mem[user][c]
      BY DEF Differing, TypeOK, Channels
    <3> QED
      BY <3>1 DEF ViewCurrent
  <2>4. CopiedSoFar'
    BY DEF CopiedSoFar, Locked
  <2>5. SourceOwner' /\ Lifetime'
    BY DEF SourceOwner, Lifetime, TypeOK
  <2> QED
    BY <2>1, <2>2, <2>3, <2>4, <2>5 DEF IInv
<1>9. CASE Deliver
  <2> USE <1>a, <1>9 DEF Deliver, bufVars, readerVars
  <2>1. mpos \in Channels /\ mem[user][mpos] \in Bytes
    <3>1. mpos \in 0 .. MaxBuffer /\ userLen \in 0 .. MaxBuffer /\ mpos < userLen
      BY DEF TypeOK
    <3>2. mpos \in Channels
      BY <3>1 DEF Channels
    <3> QED
      BY <3>2 DEF TypeOK
  <2>2. TypeOK'
    BY <2>1 DEF TypeOK
  <2>3. ViewCurrent'
    BY DEF ViewCurrent
  <2>4. EmissionCurrent'
    BY <2>1 DEF EmissionCurrent, TypeOK, Channels
  <2>5. CopiedSoFar'
    BY DEF CopiedSoFar, queue
  <2>6. SourceOwner' /\ Lifetime'
    BY DEF SourceOwner, Lifetime
  <2> QED
    BY <2>2, <2>3, <2>4, <2>5, <2>6 DEF IInv
<1>10. CASE EmitDone
  <2> USE <1>a, <1>10 DEF EmitDone, readerVars
  <2>1. TypeOK'
    BY DEF TypeOK, Lifetime
  <2>2. ViewCurrent'
    BY DEF ViewCurrent, EmissionCurrent
  <2>3. EmissionCurrent'
    BY DEF EmissionCurrent
  <2>4. CopiedSoFar'
    BY DEF CopiedSoFar, queue
  <2>5. SourceOwner' /\ Lifetime'
    BY DEF SourceOwner, Lifetime, TypeOK
  <2> QED
    BY <2>1, <2>2, <2>3, <2>4, <2>5 DEF IInv
<1>11. CASE Quit
  <2> USE <1>a, <1>11 DEF Quit, bufVars, readerVars
  <2>1. TypeOK'
    BY DEF TypeOK
  <2>2. ViewCurrent' /\ EmissionCurrent'
    BY DEF ViewCurrent, EmissionCurrent
  <2>3. CopiedSoFar'
    BY DEF CopiedSoFar, queue
  <2>4. SourceOwner' /\ Lifetime'
    BY DEF SourceOwner, Lifetime, TypeOK
  <2> QED
    BY <2>1, <2>2, <2>3, <2>4 DEF IInv
<1>12. CASE Dispose
  <2> USE <1>a, <1>12 DEF Dispose, bufVars, readerVars
  <2>1. TypeOK'
    BY DEF TypeOK
  <2>2. ViewCurrent' /\ EmissionCurrent'
    BY DEF ViewCurrent, EmissionCurrent
  <2>3. CopiedSoFar'
    BY DEF CopiedSoFar, queue
  <2>4. SourceOwner' /\ Lifetime'
    BY DEF SourceOwner, Lifetime
  <2> QED
    BY <2>1, <2>2, <2>3, <2>4 DEF IInv
<1>13. CASE Ended
  BY <1>1, <1>13 DEF Ended
<1> QED
  BY <1>1, <1>2, <1>3, <1>4, <1>5, <1>6, <1>7, <1>8, <1>9, <1>10, <1>11, <1>12, <1>13 DEF Next

-----------------------------------------------------------------------------

\* The inductive invariant holds in every reachable state.
THEOREM Inductive == Spec => []IInv
BY InitIInv, NextIInv, PTL DEF Spec

\* The state keeps its types: the consumer never runs past a packet, a
\* packet never past the buffer, and no reference is dropped twice.
THEOREM TypeCorrect == Spec => []TypeOK
BY Inductive, PTL DEF IInv

\* Between emissions the consumer's channels equal the user buffer.
THEOREM ConsumerCurrent == Spec => []ViewCurrent
BY Inductive, PTL DEF IInv

\* The receiver lives exactly as long as its owner, a pending source or a
\* running callback needs it.
THEOREM LifetimeCorrect == Spec => []Lifetime
BY Inductive, PTL DEF IInv

-----------------------------------------------------------------------------

\* Between emissions no bit is left over, except before the first packet.
NoBitsLeft == mpc = "loop" => bits = {} \/ userLen = 0

\* The bits are cleared by the emission they were set for.
LEMMA BitsCleared == Spec => []NoBitsLeft
<1>1. Init => NoBitsLeft
  BY DEF Init, NoBitsLeft
<1>2. NoBitsLeft /\ [Next]_vars => NoBitsLeft'
  BY DEF NoBitsLeft, Next, vars, bufVars, readerVars, mainVars, Queue, CopyByte, QueueDone,
     Attach, ReaderStop, NothingChanged, SwapBuffers, Dispatch, Deliver, EmitDone, Quit,
     Dispose, Ended
<1> QED
  BY <1>1, <1>2, PTL DEF Spec

\* An emission starts with exactly the bits of the channels the consumer has
\* to be told of: the others already have, at the consumer, the value of the
\* new packet.
THEOREM NotifiesExactly == Spec => NotifiesExactlyChanges
<1>1. ASSUME IInv, NoBitsLeft, [Next]_vars, mpc = "loop", mpc' = "emit",
             NEW c \in Channels, c < userLen'
      PROVE  c \in bits' <=> (c >= userLen \/ view[c] # mem'[user'][c])
  <2>1. SwapBuffers
    BY <1>1 DEF Next, vars, bufVars, readerVars, mainVars, Queue, CopyByte, QueueDone,
       Attach, ReaderStop, NothingChanged, SwapBuffers, Dispatch, Deliver, EmitDone, Quit,
       Dispose, Ended
  <2>2. /\ userLen \in Nat /\ c \in Nat /\ c < queueLen
        /\ mem'[user'][c] = mem[queue][c] /\ bits' = bits \cup Differing
    BY <1>1, <2>1 DEF SwapBuffers, IInv, TypeOK, Channels
  <2>3. c < userLen => view[c] = mem[user][c]
    BY <1>1 DEF IInv, ViewCurrent
  <2>4. c \in Differing <=> (c >= userLen \/ mem[queue][c] # mem[user][c])
    BY <1>1, <2>2 DEF Differing
  <2> QED
    BY <1>1, <2>2, <2>3, <2>4 DEF NoBitsLeft
<1>2. IInv /\ NoBitsLeft /\ [Next]_vars =>
        [mpc = "loop" /\ mpc' = "emit" =>
          \A c \in Channels : c < userLen' =>
            (c \in bits' <=> (c >= userLen \/ view[c] # mem'[user'][c]))]_vars
  BY <1>1
<1> QED
  BY <1>2, Inductive, BitsCleared, PTL DEF Spec, NotifiesExactlyChanges

-----------------------------------------------------------------------------
(* Refinement.                                                             *)

\* Nothing is pending or seen at the start.
LEMMA InitRefines == Init => Channel!ChannelInit
BY DEF Init, Channel!ChannelInit, Pending, Seen, Open, Channels, Channel!Channels

\* Every step publishes, takes, closes, discards or changes nothing the
\* channel knows of.
LEMMA NextRefines ==
  IInv /\ [Next]_vars => [Channel!ChannelNext]_(Channel!channelVars)
<1> SUFFICES ASSUME IInv, [Next]_vars
             PROVE  [Channel!ChannelNext]_(Channel!channelVars)
  OBVIOUS
<1> USE BufferAssumption
<1> DEFINE Same == Pending' = Pending /\ Seen' = Seen /\ Open' = Open
<1>a. TypeOK /\ ViewCurrent /\ CopiedSoFar /\ SourceOwner
  BY DEF IInv
<1>0. Same => [Channel!ChannelNext]_(Channel!channelVars)
  BY DEF Channel!channelVars
<1>1. CASE UNCHANGED vars
  BY <1>0, <1>1 DEF vars, bufVars, readerVars, mainVars, Pending, Seen, Open, queue
<1>2. ASSUME NEW p \in Packets, Queue(p) PROVE Channel!ChannelNext
  <2>1. Pending' = {p} /\ Seen' = Seen /\ Open' = Open
    BY <1>2 DEF Queue, bufVars, mainVars, Pending, Seen, Open
  <2>2. p \in Channel!Packets
    BY DEF Packets, PacketsOf, Channel!Packets, Channel!PacketsOf
  <2> QED
    BY <2>1, <2>2 DEF Channel!ChannelNext, Channel!Publish
<1>3. CASE CopyByte
  <2>1. Pending' = Pending /\ Open' = Open
    BY <1>3 DEF CopyByte, mainVars, Pending, Open
  <2>2. mem'[user] = mem[user]
    BY <1>3, <1>a DEF CopyByte, TypeOK, queue
  <2>3. Seen' = Seen
    BY <1>3, <2>2 DEF CopyByte, mainVars, Seen
  <2> QED
    BY <1>0, <2>1, <2>3
<1>4. CASE QueueDone
  <2>1. Open' = Open /\ Seen' = Seen
    BY <1>4 DEF QueueDone, mainVars, Open, Seen
  <2>2. PICK n \in 0 .. MaxBuffer :
          /\ rdata \in PacketsOf(n) /\ rpos \in 0 .. n
          /\ \A i \in 0 .. rpos - 1 : mem[queue][i] = rdata[i]
    BY <1>4, <1>a DEF QueueDone, CopiedSoFar
  <2>3. rpos = n
    BY <1>4, <2>2 DEF QueueDone, PacketsOf
  <2>4. rdata = [c \in 0 .. rpos - 1 |-> mem[queue][c]]
    BY <2>2, <2>3 DEF PacketsOf
  <2>5. Pending' = {[c \in 0 .. rpos - 1 |-> mem[queue][c]]}
    BY <1>4 DEF QueueDone, Pending, queue
  <2>6. Pending = {rdata}
    BY <1>4 DEF QueueDone, Pending
  <2> QED
    BY <1>0, <2>1, <2>4, <2>5, <2>6
<1>5. CASE Attach
  <2>1. Pending' = Pending
    BY <1>5, <1>a DEF Attach, bufVars, SourceOwner, Pending, queue
  <2>2. Open' = Open /\ Seen' = Seen
    BY <1>5 DEF Attach, bufVars, mainVars, Open, Seen
  <2> QED
    BY <1>0, <2>1, <2>2
<1>6. CASE ReaderStop
  BY <1>0, <1>6 DEF ReaderStop, bufVars, mainVars, Pending, Seen, Open, queue
<1>7. CASE NothingChanged
  <2> DEFINE p == [c \in 0 .. queueLen - 1 |-> mem[queue][c]]
  <2>1. /\ Pending = {p} /\ Pending' = {} /\ Seen' = Seen
        /\ Open /\ Open' = Open
    BY <1>7 DEF NothingChanged, Dispatch, Locked, bufVars, readerVars, mainVars, Pending,
       Seen, Open
  <2>2. ASSUME NEW c \in Channels, c < queueLen PROVE mem[queue][c] = Seen[c]
    <3>1. c < userLen /\ mem[queue][c] = mem[user][c]
      BY <1>7, <1>a, <2>2 DEF NothingChanged, Differing, TypeOK, Channels
    <3> QED
      BY <3>1 DEF Seen
  <2>3. Seen = Channel!Overlay(p, Seen)
    <3>1. queueLen \in 0 .. MaxBuffer
      BY <1>a DEF TypeOK
    <3>2. \A c \in Channels : c \in 0 .. queueLen - 1 <=> c < queueLen
      BY <3>1 DEF Channels
    <3>3. Seen = [c \in Channels |-> Seen[c]]
      BY DEF Seen
    <3> QED
      BY <2>2, <3>2, <3>3 DEF Channel!Overlay, Channels, Channel!Channels
  <2> QED
    BY <2>1, <2>3 DEF Channel!ChannelNext, Channel!Take
<1>8. CASE SwapBuffers
  <2> DEFINE p == [c \in 0 .. queueLen - 1 |-> mem[queue][c]]
  <2>1. /\ Pending = {p} /\ Pending' = {}
        /\ Open /\ Open' = Open
    BY <1>8 DEF SwapBuffers, Dispatch, Locked, readerVars, Pending, Open
  <2>2. Seen' = [c \in Channels |-> IF c < queueLen THEN mem[queue][c] ELSE view[c]]
    BY <1>8 DEF SwapBuffers, Seen, queue
  <2>3. \A c \in Channels : Seen[c] = view[c]
    BY <1>8, <1>a DEF SwapBuffers, Dispatch, ViewCurrent, Seen
  <2>4. \A c \in Channels : c \in 0 .. queueLen - 1 <=> c < queueLen
    BY <1>a DEF TypeOK, Channels
  <2>5. Seen' = Channel!Overlay(p, Seen)
    BY <2>2, <2>3, <2>4 DEF Channel!Overlay, Channels, Channel!Channels
  <2> QED
    BY <2>1, <2>5 DEF Channel!ChannelNext, Channel!Take
<1>9. CASE Deliver
  <2>1. Pending' = Pending /\ Open' = Open
    BY <1>9 DEF Deliver, bufVars, readerVars, Pending, Open, queue
  <2>2. \A c \in Channels : c < userLen \/ view'[c] = view[c]
    BY <1>9, <1>a DEF Deliver, TypeOK
  <2>3. Seen' = Seen
    BY <1>9, <2>2 DEF Deliver, bufVars, Seen
  <2> QED
    BY <1>0, <2>1, <2>3
<1>10. CASE EmitDone
  BY <1>0, <1>10 DEF EmitDone, readerVars, Pending, Seen, Open, queue
<1>11. CASE Quit
  <2>1. Pending' = Pending /\ Seen' = Seen /\ ~Open'
    BY <1>11 DEF Quit, bufVars, readerVars, Pending, Seen, Open, queue
  <2> QED
    BY <2>1 DEF Channel!ChannelNext, Channel!Close, Open
<1>12. CASE Dispose
  <2>1. Pending' = {} /\ Seen' = Seen /\ ~Open /\ ~Open'
    BY <1>12 DEF Dispose, bufVars, readerVars, Pending, Seen, Open, queue
  <2> QED
    BY <2>1 DEF Channel!ChannelNext, Channel!Discard, Open
<1>13. CASE Ended
  BY <1>1, <1>13 DEF Ended
<1> QED
  BY <1>1, <1>2, <1>3, <1>4, <1>5, <1>6, <1>7, <1>8, <1>9, <1>10, <1>11, <1>12, <1>13 DEF Next

\* The hand-over implements the conflating channel: whatever the interleaving
\* of the copy, the swap and the emission, the consumer sees whole packets,
\* each replacing an earlier one that was still pending.
THEOREM ImplementsChannel == Spec => Channel!ChannelSpec
BY InitRefines, NextRefines, Inductive, PTL DEF Spec, Channel!ChannelSpec

=============================================================================
