------------------------- MODULE DMXReceiverProofs -------------------------
(***************************************************************************)
(* Proofs about the receivers.                                             *)
(*                                                                         *)
(* SerialDecoder, for every buffer size and every length of packets: the   *)
(* decoder gives out exactly the packets with start code 0, as long as the *)
(* byte 255 does not occur in what it has to skip, as a start code, behind *)
(* another start code or beyond its buffer.  MCSerialDecoderSkip.cfg shows *)
(* that the condition is needed.                                           *)
(*                                                                         *)
(* ReadThread: in every state the thread finds what it uses.  At the end   *)
(* both are carried over to the whole receiver of DMXReceiver.             *)
(***************************************************************************)
EXTENDS DMXReceiver, SequenceTheorems, TLAPS

Clean == 255 \notin StartCodes \cup SkippedBytes

\* Where the decoder is follows from what has been on the line.
InStep ==
  IF Packet = << >>
  THEN state = {"FIRST"} /\ buffer = << >>
  ELSE IF Packet[1] # 0
  THEN state = {"SKIP"} /\ buffer = << >>
  ELSE buffer = Slots /\ state = IF Len(Packet) - 1 > MaxBuffer THEN {"SKIP"} ELSE {}

IInv == TypeOK /\ InStep

Decoders ==
  [state : SUBSET Flags, buffer : Seq(0 .. 255), queued : Seq(Seq(0 .. 255))]

-----------------------------------------------------------------------------
(* What the bytes of one event do to the decoder.                          *)

\* A byte is stored while there is room.
LEMMA StoreByte ==
  ASSUME NEW d \in Decoders, NEW b \in 0 .. 255
  PROVE  /\ Store(d, b).queued = d.queued
         /\ Store(d, b).state = IF Len(d.buffer) < MaxBuffer THEN {} ELSE {"SKIP"}
         /\ Store(d, b).buffer =
              IF Len(d.buffer) < MaxBuffer THEN Append(d.buffer, b) ELSE d.buffer
BY DEF Store, Decoders

\* With no flag set any byte of data is stored, 255 by way of ESCAPE.
LEMMA NormalByte ==
  ASSUME NEW d \in Decoders, d.state = {}, NEW b \in 0 .. 255
  PROVE  /\ DecodeByte(d, b).queued = d.queued
         /\ DecodeByte(d, b).state = IF Len(d.buffer) < MaxBuffer THEN {} ELSE {"SKIP"}
         /\ DecodeByte(d, b).buffer =
              IF Len(d.buffer) < MaxBuffer THEN Append(d.buffer, b) ELSE d.buffer
<1>1. CASE b # 255
  <2>1. DecodeByte(d, b) = Store(d, b)
    BY <1>1 DEF DecodeByte, Decode
  <2>2. /\ Store(d, b).queued = d.queued
        /\ Store(d, b).state = IF Len(d.buffer) < MaxBuffer THEN {} ELSE {"SKIP"}
        /\ Store(d, b).buffer =
             IF Len(d.buffer) < MaxBuffer THEN Append(d.buffer, b) ELSE d.buffer
    BY StoreByte
  <2> QED
    BY <2>1, <2>2, Zenon
<1>2. CASE b = 255
  <2>1. Decode(d, 255) = [d EXCEPT !.state = {"ESCAPE"}]
    BY DEF Decode, Decoders
  <2> DEFINE e == [d EXCEPT !.state = {"ESCAPE"}]
  <2>2. /\ e.state = {"ESCAPE"} /\ e.buffer = d.buffer /\ e.queued = d.queued /\ e \in Decoders
    BY DEF Decoders, Flags
  <2> HIDE DEF e
  <2>3. Decode(e, 255) = Store(e, 255)
    BY <2>2 DEF Decode
  <2>4. DecodeByte(d, 255) = Store(e, 255)
    BY <2>1, <2>3 DEF DecodeByte, e
  <2>5. 255 \in 0 .. 255
    OBVIOUS
  <2>6. /\ Store(e, 255).queued = e.queued
        /\ Store(e, 255).state = IF Len(e.buffer) < MaxBuffer THEN {} ELSE {"SKIP"}
        /\ Store(e, 255).buffer =
             IF Len(e.buffer) < MaxBuffer THEN Append(e.buffer, 255) ELSE e.buffer
    BY <2>2, <2>5, StoreByte
  <2>7. e.buffer = d.buffer /\ e.queued = d.queued
    BY <2>2
  <2>8. DecodeByte(d, 255).queued = d.queued
    BY <2>4, <2>6, <2>7
  <2>9. DecodeByte(d, 255).state = IF Len(d.buffer) < MaxBuffer THEN {} ELSE {"SKIP"}
    BY <2>4, <2>6, <2>7
  <2>10. DecodeByte(d, 255).buffer =
           IF Len(d.buffer) < MaxBuffer THEN Append(d.buffer, 255) ELSE d.buffer
    BY <2>4, <2>6, <2>7
  <2> QED
    BY <1>2, <2>8, <2>9, <2>10
<1> QED
  BY <1>1, <1>2

\* A byte that is skipped changes nothing, unless it is 255.
LEMMA SkippedByte ==
  ASSUME NEW d \in Decoders, d.state = {"SKIP"}, NEW b \in 0 .. 255, b # 255
  PROVE  DecodeByte(d, b) = d
BY DEF DecodeByte, Decode

\* The byte after a break is the start code.
LEMMA FirstByte ==
  ASSUME NEW d \in Decoders, d.state = {"FIRST"}, NEW b \in 0 .. 255, b # 255
  PROVE  /\ DecodeByte(d, b).state = IF b = 0 THEN {} ELSE {"SKIP"}
         /\ DecodeByte(d, b).buffer = d.buffer
         /\ DecodeByte(d, b).queued = d.queued
BY DEF DecodeByte, Decode, Decoders

\* A break is recognised while data is stored and while it is skipped.
LEMMA BreakBytes ==
  ASSUME NEW d \in Decoders, d.state \in {{}, {"SKIP"}}
  PROVE  /\ DecodeBreak(d).state = {"FIRST"}
         /\ DecodeBreak(d).buffer = << >>
         /\ DecodeBreak(d).queued =
              IF d.buffer = << >> THEN d.queued ELSE Append(d.queued, d.buffer)
<1> DEFINE e == [d EXCEPT !.state = @ \cup {"ESCAPE"}]
           f == [e EXCEPT !.state = @ \cup {"FRAMING"}]
<1>1. Decode(d, 255) = e
  BY DEF Decode, Decoders
<1>2. /\ e.state = d.state \cup {"ESCAPE"} /\ e.buffer = d.buffer /\ e.queued = d.queued
      /\ e \in Decoders
  BY DEF Decoders, Flags
<1> HIDE DEF e
<1>3. Decode(e, 0) = f
  BY <1>2 DEF Decode, Decoders
<1>4. f.state = d.state \cup {"ESCAPE", "FRAMING"} /\ f.buffer = d.buffer /\ f.queued = d.queued
  BY <1>2 DEF Decoders
<1> HIDE DEF f
<1>5. Decode(f, 0) = PacketEnds(f)
  BY <1>4 DEF Decode
<1>6. DecodeBreak(d) = PacketEnds(f)
  BY <1>1, <1>3, <1>5 DEF DecodeBreak
<1>7. (f.state \ {"SKIP", "ESCAPE", "FRAMING"}) \cup {"FIRST"} = {"FIRST"}
  BY <1>4
<1> QED
  BY <1>4, <1>6, <1>7 DEF PacketEnds

-----------------------------------------------------------------------------
(* The steps of the line.                                                  *)

\* What a step of the decoder starts from.
LEMMA BeforeProperties ==
  ASSUME IInv
  PROVE  /\ Before \in Decoders
         /\ Before.state = state /\ Before.buffer = buffer /\ Before.queued = << >>
BY DEF Before, Decoders, IInv, TypeOK

\* The levels of a packet, one by one.
LEMMA SlotsProperties ==
  ASSUME NEW l \in Seq(0 .. 255), Len(l) > 0
  PROVE  /\ SlotsOf(l) \in Seq(0 .. 255)
         /\ Len(SlotsOf(l)) = IF Len(l) > MaxBuffer THEN MaxBuffer ELSE Len(l) - 1
         /\ \A i \in 1 .. Len(SlotsOf(l)) : SlotsOf(l)[i] = l[i + 1]
<1> DEFINE n == IF Len(l) > MaxBuffer THEN MaxBuffer + 1 ELSE Len(l)
<1>1. /\ Len(l) \in Nat /\ n \in Int /\ n >= 1 /\ n <= Len(l) /\ MaxBuffer \in Nat
      /\ n - 1 = IF Len(l) > MaxBuffer THEN MaxBuffer ELSE Len(l) - 1
      /\ SlotsOf(l) = SubSeq(l, 2, n)
  BY DecoderAssumption, LenProperties DEF SlotsOf
<1> HIDE DEF n
<1>2. ASSUME NEW i \in 2 .. n PROVE l[i] \in 0 .. 255
  <2>1. i \in 1 .. Len(l)
    BY <1>1
  <2> QED
    BY <2>1, ElementOfSeq
<1>3. /\ SubSeq(l, 2, n) \in Seq(0 .. 255)
      /\ Len(SubSeq(l, 2, n)) = IF 2 <= n THEN n - 2 + 1 ELSE 0
      /\ \A i \in 1 .. n - 2 + 1 : SubSeq(l, 2, n)[i] = l[2 + i - 1]
  BY <1>1, <1>2, SubSeqProperties
<1>4. Len(SlotsOf(l)) = n - 1
  BY <1>1, <1>3
<1>5. \A i \in 1 .. n - 1 : SlotsOf(l)[i] = l[i + 1]
  BY <1>1, <1>3
<1> QED
  BY <1>1, <1>3, <1>4, <1>5

\* The levels of a packet grow by one slot at a time, up to the size of the
\* buffer.
LEMMA SlotsGrow ==
  ASSUME NEW l \in Seq(0 .. 255), Len(l) > 0, NEW b \in 0 .. 255
  PROVE  /\ Append(l, b) \in Seq(0 .. 255)
         /\ Len(Append(l, b)) = Len(l) + 1
         /\ Append(l, b)[1] = l[1]
         /\ Len(l) <= MaxBuffer => /\ Len(SlotsOf(l)) < MaxBuffer
                                   /\ SlotsOf(Append(l, b)) = Append(SlotsOf(l), b)
         /\ Len(l) > MaxBuffer => /\ Len(SlotsOf(l)) = MaxBuffer
                                  /\ SlotsOf(Append(l, b)) = SlotsOf(l)
<1> DEFINE k == Append(l, b)
           s == SlotsOf(l)
           t == SlotsOf(k)
<1>1. Len(l) \in Nat \ {0} /\ MaxBuffer \in Nat \ {0}
  BY DecoderAssumption, LenProperties
<1>2. /\ k \in Seq(0 .. 255) /\ Len(k) = Len(l) + 1
      /\ \A i \in 1 .. Len(l) : k[i] = l[i]
      /\ k[Len(l) + 1] = b
  BY AppendProperties
<1>3. /\ s \in Seq(0 .. 255)
      /\ Len(s) = IF Len(l) > MaxBuffer THEN MaxBuffer ELSE Len(l) - 1
      /\ \A i \in 1 .. Len(s) : s[i] = l[i + 1]
  BY SlotsProperties
<1> HIDE DEF k
<1>4. /\ t \in Seq(0 .. 255)
      /\ Len(t) = IF Len(k) > MaxBuffer THEN MaxBuffer ELSE Len(k) - 1
      /\ \A i \in 1 .. Len(t) : t[i] = k[i + 1]
  <2>1. Len(k) > 0
    BY <1>1, <1>2
  <2> QED
    BY <1>2, <2>1, SlotsProperties
<1> HIDE DEF s, t
<1>5. CASE Len(l) <= MaxBuffer
  <2>1. Len(s) = Len(l) - 1 /\ Len(t) = Len(l)
    BY <1>1, <1>2, <1>3, <1>4, <1>5
  <2>2. /\ Append(s, b) \in Seq(0 .. 255)
        /\ Len(Append(s, b)) = Len(l)
        /\ \A i \in 1 .. Len(l) - 1 : Append(s, b)[i] = s[i]
        /\ Append(s, b)[Len(l)] = b
    <3>1. /\ Append(s, b) \in Seq(0 .. 255)
          /\ Len(Append(s, b)) = Len(s) + 1
          /\ \A i \in 1 .. Len(s) : Append(s, b)[i] = s[i]
          /\ Append(s, b)[Len(s) + 1] = b
      BY <1>3, AppendProperties
    <3>2. Len(s) + 1 = Len(l)
      BY <1>1, <2>1
    <3> QED
      BY <2>1, <3>1, <3>2
  <2>3. ASSUME NEW i \in 1 .. Len(l) PROVE t[i] = Append(s, b)[i]
    <3>1. t[i] = k[i + 1]
      BY <1>4, <2>1
    <3>2. CASE i = Len(l)
      BY <3>1, <3>2, <1>2, <2>2
    <3>3. CASE i < Len(l)
      <4>1. i \in 1 .. Len(l) - 1 /\ i + 1 \in 1 .. Len(l)
        BY <3>3, <1>1
      <4> QED
        BY <3>1, <4>1, <1>2, <1>3, <2>1, <2>2
    <3>4. i = Len(l) \/ i < Len(l)
      BY <1>1
    <3> QED
      BY <3>2, <3>3, <3>4
  <2>4. t = Append(s, b)
    BY <1>4, <2>1, <2>2, <2>3, SeqEqual
  <2> QED
    BY <1>1, <1>2, <1>5, <2>1, <2>4 DEF k, s, t
<1>6. CASE Len(l) > MaxBuffer
  <2>1. Len(s) = MaxBuffer /\ Len(t) = MaxBuffer
    BY <1>1, <1>2, <1>3, <1>4, <1>6
  <2>2. ASSUME NEW i \in 1 .. MaxBuffer PROVE t[i] = s[i]
    <3>1. i + 1 \in 1 .. Len(l)
      BY <1>1, <1>6
    <3>2. t[i] = k[i + 1]
      BY <1>4, <2>1
    <3>3. k[i + 1] = l[i + 1]
      BY <1>2, <3>1
    <3>4. s[i] = l[i + 1]
      BY <1>3, <2>1
    <3> QED
      BY <3>2, <3>3, <3>4
  <2>3. t = s
    BY <1>3, <1>4, <2>1, <2>2, SeqEqual
  <2> QED
    BY <1>1, <1>2, <1>6, <2>1, <2>3 DEF k, s, t
<1> QED
  BY <1>1, <1>5, <1>6

\* The packet is a sequence of bytes, to which the line adds one at a time.
LEMMA PacketProperties ==
  ASSUME line \in Seq(0 .. 255), synced \in BOOLEAN
  PROVE  /\ Packet \in Seq(0 .. 255) /\ Len(Packet) \in Nat
         /\ Packet # << >> => Len(Packet) > 0
         /\ Packet = << >> => synced /\ line = << >>
         /\ \A b \in 0 .. 255 :
              line' = Append(line, b) /\ synced' = synced => Packet' = Append(Packet, b)
<1> DEFINE joined == <<0>> \o line
<1>1. <<0>> \in Seq(0 .. 255) /\ Len(<<0>>) = 1
  OBVIOUS
<1>2. Len(line) \in Nat
  BY LenProperties
<1>3. /\ joined \in Seq(0 .. 255) /\ Len(joined) = 1 + Len(line)
      /\ \A i \in 1 .. 1 + Len(line) : joined[i] = IF i <= 1 THEN <<0>>[i] ELSE line[i - 1]
  BY <1>1, ConcatProperties
<1>4. Packet = IF synced THEN line ELSE joined
  BY DEF Packet
<1> HIDE DEF joined
<1>5. Packet \in Seq(0 .. 255)
  BY <1>3, <1>4
<1>6. Len(Packet) \in Nat /\ (Packet # << >> => Len(Packet) > 0)
  BY <1>5, EmptySeq, LenProperties
<1>7. joined # << >>
  BY <1>2, <1>3, EmptySeq
<1>8. Packet = << >> => synced /\ line = << >>
  BY <1>4, <1>7
<1>9. ASSUME NEW b \in 0 .. 255, line' = Append(line, b), synced' = synced
      PROVE  Packet' = Append(Packet, b)
  <2>1. CASE synced
    BY <1>9, <2>1 DEF Packet
  <2>2. CASE ~synced
    <3> DEFINE l == Append(line, b)
               j == <<0>> \o l
               k == Append(joined, b)
    <3>1. /\ l \in Seq(0 .. 255) /\ Len(l) = Len(line) + 1
          /\ \A i \in 1 .. Len(line) : l[i] = line[i]
          /\ l[Len(line) + 1] = b
      BY AppendProperties
    <3> HIDE DEF l
    <3>2. /\ j \in Seq(0 .. 255) /\ Len(j) = 1 + Len(l)
          /\ \A i \in 1 .. 1 + Len(l) : j[i] = IF i <= 1 THEN <<0>>[i] ELSE l[i - 1]
      BY <1>1, <3>1, ConcatProperties
    <3>3. /\ k \in Seq(0 .. 255) /\ Len(k) = Len(joined) + 1
          /\ \A i \in 1 .. Len(joined) : k[i] = joined[i]
          /\ k[Len(joined) + 1] = b
      BY <1>3, AppendProperties
    <3> HIDE DEF j, k
    <3>4. Len(j) = Len(line) + 2 /\ Len(k) = Len(line) + 2
      BY <1>2, <1>3, <3>1, <3>2, <3>3
    <3>5. ASSUME NEW i \in 1 .. Len(j) PROVE j[i] = k[i]
      <4>1. CASE i = Len(line) + 2
        <5>1. j[i] = l[Len(line) + 1]
          BY <1>2, <3>1, <3>2, <3>4, <4>1
        <5>2. k[i] = b
          BY <1>2, <1>3, <3>3, <4>1
        <5> QED BY <5>1, <5>2, <3>1
      <4>2. CASE i <= Len(line) + 1
        <5>1. k[i] = joined[i] /\ joined[i] = IF i <= 1 THEN <<0>>[i] ELSE line[i - 1]
          BY <1>2, <1>3, <3>3, <3>4, <4>2
        <5>2. j[i] = IF i <= 1 THEN <<0>>[i] ELSE l[i - 1]
          BY <1>2, <3>1, <3>2, <3>4, <4>2
        <5>3. i > 1 => l[i - 1] = line[i - 1]
          BY <1>2, <3>1, <4>2
        <5>4. CASE i > 1
          BY <5>1, <5>2, <5>3, <5>4
        <5>5. CASE i <= 1
          BY <5>1, <5>2, <5>5
        <5> QED BY <5>4, <5>5
      <4> QED BY <1>2, <3>4, <4>1, <4>2
    <3>6. j = k
      BY <3>2, <3>3, <3>4, <3>5, SeqEqual
    <3>7. Packet = joined /\ Packet' = <<0>> \o line'
      BY <1>4, <1>9, <2>2 DEF Packet
    <3> QED BY <1>9, <3>6, <3>7 DEF j, k, l
  <2> QED BY <2>1, <2>2
<1> QED BY <1>5, <1>6, <1>8, <1>9

\* A packet that begins has no levels yet.
LEMMA NoSlots ==
  ASSUME NEW p \in Seq(0 .. 255), Len(p) = 1
  PROVE  SlotsOf(p) = << >> /\ ~(Len(p) - 1 > MaxBuffer)
<1>1. MaxBuffer \in Nat /\ MaxBuffer >= 1
  BY DecoderAssumption
<1>2. /\ SlotsOf(p) \in Seq(0 .. 255)
      /\ Len(SlotsOf(p)) = IF Len(p) > MaxBuffer THEN MaxBuffer ELSE Len(p) - 1
  <2>1. Len(p) > 0
    OBVIOUS
  <2> QED BY <2>1, SlotsProperties
<1>3. Len(SlotsOf(p)) = 0 /\ ~(Len(p) - 1 > MaxBuffer)
  BY <1>1, <1>2
<1> QED BY <1>2, <1>3, EmptySeq

\* At the start nothing has been on the line.
LEMMA InitIInv == Init => IInv
<1> SUFFICES ASSUME Init PROVE IInv
  OBVIOUS
<1>1. /\ state = {} /\ buffer = << >> /\ queued = << >> /\ line = << >> /\ synced = FALSE
      /\ << >> \in Seq(0 .. 255) /\ Len(<< >>) = 0
  BY EmptySeq DEF Init
<1>2. state \subseteq Flags /\ \A i \in DOMAIN queued : FALSE
  BY <1>1
<1>3. synced \in BOOLEAN
  BY <1>1
<1>4. buffer \in Seq(0 .. 255) /\ line \in Seq(0 .. 255) /\ Len(buffer) <= MaxBuffer
  BY <1>1, DecoderAssumption
<1>5. TypeOK
  BY <1>2, <1>3, <1>4 DEF TypeOK
<1>6. Packet = <<0>>
  BY <1>1 DEF Packet
<1>7. Packet \in Seq(0 .. 255) /\ Len(Packet) = 1 /\ Packet[1] = 0 /\ Packet # << >>
  BY <1>6
<1>8. Slots = << >> /\ ~(Len(Packet) - 1 > MaxBuffer)
  BY <1>7, NoSlots DEF Slots
<1> QED
  BY <1>1, <1>5, <1>7, <1>8 DEF IInv, InStep

\* What a step must keep, and what it must give to the main thread.
Right == IInv' /\ queued' = IF Break /\ Carries THEN <<Slots>> ELSE << >>

\* A break ends a packet and gives out what has been stored.
LEMMA BreakRight == ASSUME IInv, Break PROVE Right
<1>1. Becomes(DecodeBreak(Before)) /\ synced' = TRUE /\ line' = << >> /\ Packet # << >>
  BY DEF Break
<1>2. /\ line \in Seq(0 .. 255) /\ synced \in BOOLEAN
      /\ buffer \in Seq(0 .. 255) /\ Len(buffer) <= MaxBuffer
  BY DEF IInv, TypeOK
<1>3. Before.state \in {{}, {"SKIP"}}
  BY <1>1, BeforeProperties DEF IInv, InStep
<1>4. /\ state' = {"FIRST"} /\ buffer' = << >>
      /\ queued' = IF buffer = << >> THEN << >> ELSE <<buffer>>
  <2> DEFINE d == Before
  <2>1. d \in Decoders /\ d.state \in {{}, {"SKIP"}} /\ d.buffer = buffer /\ d.queued = << >>
    BY <1>3, BeforeProperties
  <2>2. /\ state' = DecodeBreak(d).state /\ buffer' = DecodeBreak(d).buffer
        /\ queued' = DecodeBreak(d).queued
    BY <1>1 DEF Becomes
  <2> HIDE DEF d
  <2>3. /\ DecodeBreak(d).state = {"FIRST"} /\ DecodeBreak(d).buffer = << >>
        /\ DecodeBreak(d).queued =
             IF d.buffer = << >> THEN d.queued ELSE Append(d.queued, d.buffer)
    BY <2>1, BreakBytes
  <2>4. Append(<< >>, buffer) = <<buffer>>
    OBVIOUS
  <2> QED
    BY <2>1, <2>2, <2>3, <2>4
<1>5. TypeOK'
  <2>1. buffer # << >> => Len(buffer) \in 1 .. MaxBuffer
    BY <1>2, DecoderAssumption, EmptySeq, LenProperties
  <2>2. \A i \in DOMAIN queued' : Len(queued'[i]) \in 1 .. MaxBuffer
    BY <1>4, <2>1
  <2>3. << >> \in Seq(0 .. 255) /\ Len(<< >>) = 0
    BY EmptySeq
  <2>4. state' \subseteq Flags /\ buffer' \in Seq(0 .. 255) /\ Len(buffer') <= MaxBuffer
    BY <1>4, <2>3, DecoderAssumption DEF Flags
  <2>5. synced' \in BOOLEAN /\ line' \in Seq(0 .. 255)
    BY <1>1, <2>3
  <2> QED
    BY <2>2, <2>4, <2>5 DEF TypeOK
<1>6. InStep'
  <2>1. Packet' = << >>
    BY <1>1 DEF Packet
  <2> QED BY <2>1, <1>4 DEF InStep
<1>7. queued' = IF Carries THEN <<Slots>> ELSE << >>
  <2>1. Packet \in Seq(0 .. 255) /\ Len(Packet) \in Nat /\ Len(Packet) > 0
    BY <1>1, <1>2, PacketProperties
  <2>2. CASE Packet[1] # 0
    BY <1>1, <1>4, <2>2 DEF IInv, InStep, Carries
  <2>3. CASE Packet[1] = 0
    <3>1. buffer = Slots
      BY <1>1, <2>3 DEF IInv, InStep
    <3>2. /\ Slots \in Seq(0 .. 255)
          /\ Len(Slots) = IF Len(Packet) > MaxBuffer THEN MaxBuffer ELSE Len(Packet) - 1
      BY <2>1, SlotsProperties DEF Slots
    <3>3. MaxBuffer \in Nat /\ MaxBuffer >= 1
      BY DecoderAssumption
    <3>4. Len(Slots) = 0 <=> Len(Packet) = 1
      <4> DEFINE n == Len(Packet)
                 m == Len(Slots)
      <4>1. n \in Nat /\ n > 0 /\ m = IF n > MaxBuffer THEN MaxBuffer ELSE n - 1
        BY <2>1, <3>2
      <4> HIDE DEF n, m
      <4>2. m = 0 <=> n = 1
        BY <3>3, <4>1
      <4> QED BY <4>2 DEF n, m
    <3>5. Slots = << >> <=> Len(Packet) = 1
      BY <3>2, <3>4, EmptySeq
    <3>6. Carries <=> Slots # << >>
      <4> DEFINE n == Len(Packet)
      <4>1. n > 1 <=> n # 1
        <5>1. n \in Nat /\ n > 0
          BY <2>1
        <5> HIDE DEF n
        <5> QED BY <5>1
      <4> QED BY <2>3, <3>5, <4>1, Zenon DEF Carries
    <3> QED
      BY <1>4, <3>1, <3>6
  <2> QED
    BY <2>2, <2>3
<1> QED
  BY <1>5, <1>6, <1>7, Zenon DEF Right, IInv

\* A start code begins a packet whose levels are stored or skipped.
LEMMA StartCodeRight ==
  ASSUME Clean, IInv, NEW b \in StartCodes, StartCode(b)
  PROVE  Right
<1>1. /\ Packet = << >> /\ line' = <<b>> /\ synced' = synced
      /\ Becomes(DecodeByte(Before, b)) /\ b \in 0 .. 255 /\ b # 255
  BY DecoderAssumption DEF StartCode, Clean
<1>2. state = {"FIRST"} /\ buffer = << >>
  BY <1>1 DEF IInv, InStep
<1>3. state' = (IF b = 0 THEN {} ELSE {"SKIP"}) /\ buffer' = << >> /\ queued' = << >>
  BY <1>1, <1>2, BeforeProperties, FirstByte DEF Becomes
<1>4. line' \in Seq(0 .. 255)
  BY <1>1
<1>5. TypeOK'
  <2>1. state' \subseteq Flags
    BY <1>3 DEF Flags
  <2>2. buffer' \in Seq(0 .. 255) /\ Len(buffer') <= MaxBuffer
    BY <1>3, DecoderAssumption
  <2>3. \A i \in DOMAIN queued' : Len(queued'[i]) \in 1 .. MaxBuffer
    BY <1>3
  <2>4. synced' \in BOOLEAN
    BY <1>1 DEF IInv, TypeOK
  <2> QED
    BY <1>4, <2>1, <2>2, <2>3, <2>4 DEF TypeOK
<1>6. Packet' = <<b>>
  <2>1. synced
    BY <1>1, PacketProperties DEF IInv, TypeOK
  <2> QED BY <1>1, <2>1 DEF Packet
<1>7. Packet' \in Seq(0 .. 255) /\ Len(Packet') = 1 /\ Packet'[1] = b /\ Packet' # << >>
  BY <1>1, <1>6
<1>8. InStep'
  <2>1. CASE b # 0
    BY <2>1, <1>3, <1>7 DEF InStep
  <2>2. CASE b = 0
    <3>1. Slots' = << >> /\ ~(Len(Packet') - 1 > MaxBuffer)
      BY <1>7, NoSlots DEF Slots
    <3> QED
      BY <2>2, <1>3, <1>7, <3>1 DEF InStep
  <2> QED
    BY <2>1, <2>2
<1>9. ~Break
  BY <1>1 DEF Break
<1> QED
  BY <1>3, <1>5, <1>8, <1>9 DEF Right, IInv

\* A byte that is not part of a break keeps the types.
LEMMA ByteType ==
  ASSUME IInv, NEW b \in 0 .. 255, line' = Append(line, b), synced' \in BOOLEAN,
         queued' = << >>, state' \subseteq Flags,
         buffer' \in Seq(0 .. 255), Len(buffer') <= MaxBuffer
  PROVE  TypeOK'
<1>1. line' \in Seq(0 .. 255)
  BY AppendProperties DEF IInv, TypeOK
<1>2. \A i \in DOMAIN queued' : Len(queued'[i]) \in 1 .. MaxBuffer
  OBVIOUS
<1> QED
  BY <1>1, <1>2 DEF TypeOK

\* What is appended to the buffer while there is room leaves it a buffer.
LEMMA BufferType ==
  ASSUME IInv, NEW b \in 0 .. 255
  PROVE  /\ buffer \in Seq(0 .. 255) /\ Len(buffer) <= MaxBuffer
         /\ Len(buffer) < MaxBuffer =>
              Append(buffer, b) \in Seq(0 .. 255) /\ Len(Append(buffer, b)) <= MaxBuffer
<1>1. buffer \in Seq(0 .. 255) /\ Len(buffer) <= MaxBuffer /\ MaxBuffer \in Nat
  BY DecoderAssumption DEF IInv, TypeOK
<1>2. /\ Append(buffer, b) \in Seq(0 .. 255) /\ Len(Append(buffer, b)) = Len(buffer) + 1
      /\ Len(buffer) \in Nat
  BY <1>1, AppendProperties, LenProperties
<1> QED
  BY <1>1, <1>2

\* A slot is stored in its place, or skipped.
LEMMA SlotRight ==
  ASSUME Clean, IInv, NEW b \in Levels \cup SkippedBytes, Slot(b)
  PROVE  Right
<1>1. /\ synced' = synced /\ line' = Append(line, b) /\ Len(Packet) \in 1 .. MaxSlots
      /\ b \in (IF Skipping THEN SkippedBytes ELSE Levels)
      /\ Becomes(DecodeByte(Before, b)) /\ b \in 0 .. 255
  BY DecoderAssumption DEF Slot
<1>2. /\ Packet \in Seq(0 .. 255) /\ Len(Packet) \in Nat /\ Len(Packet) > 0
      /\ Packet' = Append(Packet, b)
      /\ MaxBuffer \in Nat /\ MaxBuffer >= 1
  <2>1. line \in Seq(0 .. 255) /\ synced \in BOOLEAN
    BY DEF IInv, TypeOK
  <2>2. MaxBuffer \in Nat \ {0} /\ MaxSlots \in Nat
    BY DecoderAssumption
  <2>3. Packet \in Seq(0 .. 255) /\ Packet' = Append(Packet, b)
    BY <1>1, <2>1, PacketProperties
  <2> QED
    BY <1>1, <2>2, <2>3
<1>3. /\ Packet' \in Seq(0 .. 255) /\ Len(Packet') = Len(Packet) + 1 /\ Packet'[1] = Packet[1]
      /\ Packet # << >> /\ Packet' # << >>
      /\ Len(Packet) <= MaxBuffer => Len(Slots) < MaxBuffer /\ Slots' = Append(Slots, b)
      /\ Len(Packet) > MaxBuffer => Len(Slots) = MaxBuffer /\ Slots' = Slots
  <2>1. /\ Packet' \in Seq(0 .. 255) /\ Len(Packet') = Len(Packet) + 1
        /\ Packet'[1] = Packet[1]
        /\ Len(Packet) <= MaxBuffer => Len(Slots) < MaxBuffer /\ Slots' = Append(Slots, b)
        /\ Len(Packet) > MaxBuffer => Len(Slots) = MaxBuffer /\ Slots' = Slots
    BY <1>1, <1>2, SlotsGrow DEF Slots
  <2> QED
    BY <2>1, <1>2, EmptySeq
<1>4. ~Break
  <2>1. line' # << >>
    <3>1. Len(line') = Len(line) + 1 /\ Len(line) \in Nat
      BY <1>1, AppendProperties, LenProperties DEF IInv, TypeOK
    <3> QED BY <3>1, EmptySeq
  <2> QED BY <2>1 DEF Break
<1>5. CASE Packet[1] # 0
  <2>1. state = {"SKIP"} /\ buffer = << >> /\ b # 255
    BY <1>1, <1>3, <1>5 DEF IInv, InStep, Skipping, Clean
  <2>2. state' = {"SKIP"} /\ buffer' = buffer /\ queued' = << >>
    BY <1>1, <2>1, BeforeProperties, SkippedByte DEF Becomes
  <2>3. TypeOK'
    <3>1. buffer' \in Seq(0 .. 255) /\ Len(buffer') <= MaxBuffer
      BY <1>1, <2>2, BufferType
    <3>2. state' \subseteq Flags /\ synced' \in BOOLEAN
      BY <1>1, <2>2 DEF Flags, IInv, TypeOK
    <3> QED
      BY <1>1, <2>2, <3>1, <3>2, ByteType
  <2>4. InStep'
    BY <1>1, <1>3, <1>5, <2>1, <2>2 DEF InStep
  <2> QED
    BY <1>4, <2>2, <2>3, <2>4 DEF Right, IInv
<1>6. CASE Packet[1] = 0 /\ Len(Packet) > MaxBuffer
  <2>1. b # 255 /\ buffer = Slots /\ Len(buffer) = MaxBuffer
    BY <1>1, <1>3, <1>6 DEF IInv, InStep, Skipping, Clean
  <2>2. state = {} \/ state = {"SKIP"}
    BY <1>1, <1>3, <1>6 DEF IInv, InStep
  <2>3. state' = {"SKIP"} /\ buffer' = buffer /\ queued' = << >>
    <3>1. CASE state = {}
      <4>1. ~(Len(buffer) < MaxBuffer)
        BY <1>2, <2>1
      <4> QED
        BY <1>1, <3>1, <4>1, BeforeProperties, NormalByte DEF Becomes
    <3>2. CASE state = {"SKIP"}
      BY <1>1, <2>1, <3>2, BeforeProperties, SkippedByte DEF Becomes
    <3> QED
      BY <2>2, <3>1, <3>2
  <2>4. TypeOK'
    <3>1. buffer' \in Seq(0 .. 255) /\ Len(buffer') <= MaxBuffer
      BY <1>1, <2>3, BufferType
    <3>2. state' \subseteq Flags /\ synced' \in BOOLEAN
      BY <1>1, <2>3 DEF Flags, IInv, TypeOK
    <3> QED
      BY <1>1, <2>3, <3>1, <3>2, ByteType
  <2>5. Len(Packet') - 1 > MaxBuffer /\ buffer' = Slots'
    BY <1>2, <1>3, <1>6, <2>1, <2>3
  <2>6. InStep'
    BY <1>1, <1>3, <1>6, <2>3, <2>5 DEF InStep
  <2> QED
    BY <1>4, <2>3, <2>4, <2>6 DEF Right, IInv
<1>7. CASE Packet[1] = 0 /\ ~(Len(Packet) > MaxBuffer)
  <2>1. Len(Packet) <= MaxBuffer /\ ~(Len(Packet) - 1 > MaxBuffer)
    BY <1>2, <1>7
  <2>2. buffer = Slots /\ Len(buffer) < MaxBuffer /\ state = {}
    BY <1>1, <1>3, <1>7, <2>1 DEF IInv, InStep
  <2>3. state' = {} /\ buffer' = Append(buffer, b) /\ queued' = << >>
    BY <1>1, <2>2, BeforeProperties, NormalByte DEF Becomes
  <2>4. TypeOK'
    <3>1. buffer' \in Seq(0 .. 255) /\ Len(buffer') <= MaxBuffer
      BY <1>1, <2>2, <2>3, BufferType
    <3>2. state' \subseteq Flags /\ synced' \in BOOLEAN
      BY <1>1, <2>2, <2>3 DEF Flags, IInv, TypeOK
    <3> QED
      BY <1>1, <2>2, <2>3, <3>1, <3>2, ByteType
  <2>5. ~(Len(Packet') - 1 > MaxBuffer) /\ buffer' = Slots'
    BY <1>2, <1>3, <2>1, <2>2, <2>3
  <2>6. InStep'
    BY <1>1, <1>3, <1>7, <2>3, <2>5 DEF InStep
  <2> QED
    BY <1>4, <2>3, <2>4, <2>6 DEF Right, IInv
<1> QED
  BY <1>5, <1>6, <1>7

-----------------------------------------------------------------------------
(* The results.                                                            *)

\* Every step keeps the invariant and gives out what it should.
LEMMA NextRight == ASSUME Clean, IInv, Next PROVE Right
BY BreakRight, StartCodeRight, SlotRight DEF Next

\* The decoder is in step with the line in every reachable state.
THEOREM Inductive == ASSUME Clean PROVE Spec => []IInv
<1>1. IInv /\ [Next]_vars => IInv'
  <2>1. ASSUME IInv, UNCHANGED vars PROVE IInv'
    BY <2>1 DEF vars, decVars, IInv, TypeOK, InStep, Slots, Packet
  <2>2. ASSUME IInv, Next PROVE IInv'
    BY <2>2, NextRight DEF Right
  <2> QED
    BY <2>1, <2>2
<1> QED
  BY <1>1, InitIInv, PTL DEF Spec

\* The decoder stays within its types and its buffer.
THEOREM TypeCorrect == ASSUME Clean PROVE Spec => []TypeOK
BY Inductive, PTL DEF IInv

\* As long as 255 does not occur in what is skipped, the main thread is given,
\* break by break, exactly the packets with start code 0 as they were on the
\* line, and at the first break what has come of the packet that was joined.
THEOREM FramesCorrect == ASSUME Clean PROVE Spec => FramesExact
<1>1. IInv /\ [Next]_vars =>
        [queued' = IF Break /\ Carries THEN <<Slots>> ELSE << >>]_vars
  BY NextRight DEF Right
<1> QED
  BY <1>1, Inductive, PTL DEF Spec, FramesExact

-----------------------------------------------------------------------------
(* The thread, of which nothing is bounded: in every state of either       *)
(* receiver it finds what it uses, and the main thread gets a receiver only*)
(* if its loop was made.  This is safety; that the start and the stop come *)
(* to an end needs the scheduler and stays with TLC.                       *)

\* How far the main thread has come says what exists; once it has seen the
\* loop or the error, the thread has left the part in which it makes them.
Progress ==
  /\ main \in {"open", "create"} => thread = "none" /\ mutex = "unset"
  /\ main \notin {"open", "create", "disposed"} =>
       thread # "none" /\ mutex \notin {"unset", "cleared"}
  /\ kind = "serial" /\ main \notin {"open", "disposed"} => port
  /\ main = "disposed" => thread \in {"none", "ended"}
  /\ main \in {"clear", "runs", "stop", "quit", "join"} => thread \notin {"begin", "make"}
  /\ main = "clear" => loop \/ error \/ thread = "ended"
  /\ error => ~loop /\ thread \in {"signal", "ended"} /\ main \in {"lock", "check", "waiting", "clear"}
  /\ thread \in {"begin", "make"} => ~error /\ ~loop

ThreadIInv == T!TypeOK /\ T!UsesLive /\ Progress

\* The thread has not been started.
LEMMA ThreadInitIInv == T!Init => ThreadIInv
BY DEF T!Init, ThreadIInv, T!TypeOK, T!UsesLive, Progress, T!Kinds

\* Every step of either thread keeps the invariant.
LEMMA ThreadNextIInv == ThreadIInv /\ [T!Next]_T!vars => ThreadIInv'
<1> SUFFICES ASSUME ThreadIInv, [T!Next]_T!vars PROVE ThreadIInv'
  OBVIOUS
<1> USE DEF ThreadIInv, T!TypeOK, T!UsesLive, Progress, T!Kinds, T!objects
<1>1. CASE T!Open
  BY <1>1 DEF T!Open
<1>2. CASE T!CreateThread
  BY <1>2 DEF T!CreateThread
<1>3. CASE T!LockToStart
  BY <1>3 DEF T!LockToStart, T!Lock
<1>4. CASE T!CheckStarted
  BY <1>4 DEF T!CheckStarted, T!Unlock, T!Made
<1>5. CASE T!ClearCond
  BY <1>5 DEF T!ClearCond
<1>6. CASE T!SpuriousWake \/ T!Dispose
  BY <1>6 DEF T!SpuriousWake, T!Dispose
<1>7. CASE T!LockToStop
  BY <1>7 DEF T!LockToStop, T!Lock
<1>8. CASE T!Quit
  BY <1>8 DEF T!Quit, T!Quits, T!Unlock
<1>9. CASE T!Join
  BY <1>9 DEF T!Join, T!Joined
<1>10. CASE T!LockToMake
  BY <1>10 DEF T!LockToMake, T!Lock
<1>11. CASE T!MakeLoop
  <2>1. /\ thread = "make" /\ thread' = "signal" /\ mutex = "thread" /\ mutex' = "free"
        /\ UNCHANGED <<kind, main, cond, port, running>>
    BY <1>11 DEF T!MakeLoop, T!Unlock
  <2>2. CASE loop' = TRUE /\ UNCHANGED error
    <3>1. loop' /\ loop' \in BOOLEAN
      BY <2>2, Zenon
    <3> QED
      BY <2>1, <2>2, <3>1
  <2>3. CASE kind = "ola" /\ error' = TRUE /\ UNCHANGED loop
    <3>1. error' /\ error' \in BOOLEAN
      BY <2>3, Zenon
    <3> QED
      BY <2>1, <2>3, <3>1
  <2> QED
    BY <1>11, <2>2, <2>3, Zenon DEF T!MakeLoop
<1>12. CASE T!Signal
  BY <1>12 DEF T!Signal, T!Wakes
<1>13. CASE T!Run \/ T!Poll \/ T!Dispatch
  <2>1. running' \in BOOLEAN
    BY <1>13, Zenon DEF T!Run, T!Poll, T!Dispatch
  <2> QED
    BY <1>13, <2>1 DEF T!Run, T!Poll, T!Dispatch
<1>14. CASE T!ServerGone
  BY <1>14 DEF T!ServerGone
<1>15. CASE T!LockToFree
  BY <1>15 DEF T!LockToFree, T!LocksToFree, T!Lock
<1>16. CASE T!FreeLoop
  BY <1>16 DEF T!FreeLoop, T!Unlock
<1>17. CASE UNCHANGED T!vars
  BY <1>17 DEF T!vars
<1> QED
  BY <1>1, <1>2, <1>3, <1>4, <1>5, <1>6, <1>7, <1>8, <1>9, <1>10, <1>11, <1>12, <1>13,
     <1>14, <1>15, <1>16, <1>17 DEF T!Next, T!MainNext, T!ThreadNext, T!Finished


-----------------------------------------------------------------------------
(* The receiver as a whole.  A step of it is a step of its thread, of the  *)
(* decoder, or of both, the thread staying in its dispatch.                *)

\* The receiver implements the decoder: what its thread does besides leaves the
\* decoder and the line alone.
THEOREM ImplementsDecoder == ReceiverSpec => Spec
<1>1. ReceiverInit => Init
  BY DEF ReceiverInit
<1>2. [ReceiverNext]_allVars => [Next]_vars
  BY DEF ReceiverNext, HandleData, allVars
<1> QED
  BY <1>1, <1>2, PTL DEF ReceiverSpec, Spec

\* The receiver implements the thread: what it decodes in a dispatch changes
\* nothing the two threads share.
THEOREM ImplementsThread == ReceiverSpec => T!Spec
<1>1. ReceiverInit => T!Init
  BY DEF ReceiverInit
<1>2. [ReceiverNext]_allVars => [T!Next]_T!vars
  BY DEF ReceiverNext, HandleData, allVars, threadVars, T!vars, T!objects
<1> QED
  BY <1>1, <1>2, PTL DEF ReceiverSpec, T!Spec

\* The thread's invariant holds in every reachable state, of the thread by
\* itself and of the receiver.
THEOREM ThreadInductive == T!Spec => []ThreadIInv
BY ThreadInitIInv, ThreadNextIInv, PTL DEF T!Spec

\* In the whole receiver the mutex is held, and the loop there, exactly where
\* the code is written to have them, whatever the thread decodes meanwhile.
THEOREM ReceiverTypeCorrect == ReceiverSpec => []ThreadTypeOK
<1>1. ThreadIInv => ThreadTypeOK
  BY DEF ThreadIInv, ThreadTypeOK
<1> QED
  BY <1>1, ImplementsThread, ThreadInductive, PTL

\* A thread that has anything left to do has its mutex and its port, nobody
\* waits on a condition that has been cleared, and a receiver that is given
\* out has a loop.
THEOREM ReceiverUsesLive == ReceiverSpec => []UsesLive
<1>1. ThreadIInv => UsesLive
  BY DEF ThreadIInv, UsesLive
<1> QED
  BY <1>1, ImplementsThread, ThreadInductive, PTL

\* The receiver gives out exactly the packets with start code 0, however its
\* reads are dispatched, if 255 does not occur in what is skipped.
THEOREM ReceiverFrames == ASSUME Clean PROVE ReceiverSpec => FramesExact
BY FramesCorrect, ImplementsDecoder, PTL

=============================================================================
