--------------------------- MODULE SerialDecoder ---------------------------
(***************************************************************************)
(* serial_dmx_recv.c: DMX packets out of the byte stream of a serial port. *)
(*                                                                         *)
(* On the line a packet is a break, a start code and its slots; the next   *)
(* break ends it.  Only packets with start code 0 carry DMX levels.  The   *)
(* port is set to PARMRK without INPCK: a read gives a break as the bytes  *)
(* 255 0 0, a 255 as 255 255, and every other byte, whether its framing is *)
(* right or not, as itself.                                                *)
(*                                                                         *)
(* handle_data takes the bytes one at a time and keeps its state from one  *)
(* read to the next, so that where a read ends makes no difference: a step *)
(* here is what the line does and all the bytes it comes as.               *)
(***************************************************************************)
EXTENDS Naturals, Sequences

CONSTANTS
  MaxBuffer,     \* MAX_BUFFER, 512 in the code
  StartCodes,    \* start codes on the line
  Levels,        \* slots of a packet with start code 0
  SkippedBytes,  \* what follows another start code, or exceeds MaxBuffer slots
  MaxSlots       \* bound: slots of a packet

ASSUME DecoderAssumption ==
  /\ MaxBuffer \in Nat \ {0} /\ MaxSlots \in Nat
  /\ StartCodes \cup Levels \cup SkippedBytes \subseteq 0 .. 255

VARIABLES
  state,    \* the flags of state that are set
  buffer,   \* read_buffer up to read_length
  queued,   \* what the last step gave to buffered_dmx_recv_queue
  synced,   \* the line has had a break
  line      \* on the line since the last break: start code and slots

decVars == <<state, buffer, queued>>
vars    == <<decVars, synced, line>>

Flags == {"ESCAPE", "FRAMING", "SKIP", "FIRST"}

Init ==
  /\ state = {} /\ buffer = << >> /\ queued = << >>
  /\ synced = FALSE /\ line = << >>

-----------------------------------------------------------------------------
(* The decoder: a record of state, buffer and queued.                      *)

\* Mutant: a packet that is skipped is skipped for ever.
PacketEndsKeepsSkip(d) ==
  [state  |-> (d.state \ {"ESCAPE", "FRAMING"}) \cup {"FIRST"},
   buffer |-> << >>,
   queued |-> IF d.buffer = << >> THEN d.queued ELSE Append(d.queued, d.buffer)]

\* A break has been read.
PacketEnds(d) ==
  [state  |-> (d.state \ {"SKIP", "ESCAPE", "FRAMING"}) \cup {"FIRST"},
   buffer |-> << >>,
   queued |-> IF d.buffer = << >> THEN d.queued ELSE Append(d.queued, d.buffer)]

\* Mutant: one byte too many is stored.
StorePastEnd(d, c) ==
  IF Len(d.buffer) <= MaxBuffer
  THEN [d EXCEPT !.state = {}, !.buffer = Append(@, c)]
  ELSE [d EXCEPT !.state = {"SKIP"}]

\* A byte of data, with nothing left of the flags.
Store(d, c) ==
  IF Len(d.buffer) < MaxBuffer
  THEN [d EXCEPT !.state = {}, !.buffer = Append(@, c)]
  ELSE [d EXCEPT !.state = {"SKIP"}]

\* handle_data for one byte.
Decode(d, c) ==
  IF "FIRST" \in d.state
  THEN [d EXCEPT !.state = (@ \ {"FIRST"}) \cup (IF c = 0 THEN {} ELSE {"SKIP"})]
  ELSE IF "FRAMING" \in d.state
  THEN IF c = 0 THEN PacketEnds(d) ELSE [d EXCEPT !.state = @ \ {"ESCAPE", "FRAMING"}]
  ELSE IF "ESCAPE" \in d.state /\ c = 0 THEN [d EXCEPT !.state = @ \cup {"FRAMING"}]
  ELSE IF "ESCAPE" \notin d.state /\ c = 255 THEN [d EXCEPT !.state = @ \cup {"ESCAPE"}]
  ELSE IF "SKIP" \in d.state THEN d
  ELSE Store(d, c)

DecodeBreak(d) == Decode(Decode(Decode(d, 255), 0), 0)

DecodeByte(d, b) == IF b = 255 THEN Decode(Decode(d, 255), 255) ELSE Decode(d, b)

Before == [state |-> state, buffer |-> buffer, queued |-> << >>]

Becomes(d) ==
  state' = d.state /\ buffer' = d.buffer /\ queued' = d.queued

-----------------------------------------------------------------------------
(* The line.  The port may be opened in the middle of a packet: what is    *)
(* left of it comes before the first break.                                *)

\* What the decoder takes for the packet on the line: at first, what follows a
\* start code 0.
Packet == IF synced THEN line ELSE <<0>> \o line

\* Every packet has its start code.
Break ==
  /\ Packet # << >>
  /\ Becomes(DecodeBreak(Before))
  /\ synced' = TRUE /\ line' = << >>

StartCode(b) ==
  /\ Packet = << >>
  /\ Becomes(DecodeByte(Before, b))
  /\ line' = <<b>>
  /\ UNCHANGED synced

\* The decoder should skip what is sent next.
Skipping == Packet[1] # 0 \/ Len(Packet) > MaxBuffer

Slot(b) ==
  /\ Len(Packet) \in 1 .. MaxSlots
  /\ b \in (IF Skipping THEN SkippedBytes ELSE Levels)
  /\ Becomes(DecodeByte(Before, b))
  /\ line' = Append(line, b)
  /\ UNCHANGED synced

Next ==
  \/ Break
  \/ \E b \in StartCodes : StartCode(b)
  \/ \E b \in Levels \cup SkippedBytes : Slot(b)

Spec == Init /\ [][Next]_vars

-----------------------------------------------------------------------------
(* Properties.                                                             *)

TypeOK ==
  /\ state \subseteq Flags
  /\ buffer \in Seq(0 .. 255) /\ Len(buffer) <= MaxBuffer
  /\ \A i \in DOMAIN queued : Len(queued[i]) \in 1 .. MaxBuffer
  /\ synced \in BOOLEAN /\ line \in Seq(0 .. 255)

\* The levels of a packet that starts with its start code: its first MaxBuffer
\* slots.
SlotsOf(p) == SubSeq(p, 2, IF Len(p) > MaxBuffer THEN MaxBuffer + 1 ELSE Len(p))

Slots == SlotsOf(Packet)

Carries == Len(Packet) > 1 /\ Packet[1] = 0

\* A packet is given to the main thread exactly when a break ends one with
\* start code 0 and some slot, and its levels are those on the line, in place,
\* whatever bytes they are and whatever packets came before.  The first break
\* after the port was opened gives out what has come of the packet it ends,
\* from the first channel on and whatever its start code was.
FramesExact ==
  [][queued' = IF Break /\ Carries THEN <<Slots>> ELSE << >>]_vars

\* The comment on handle_data: "Switch buffer on break."  What is given to the
\* main thread is given when there is a break.
SwitchOnBreak ==
  [][synced /\ queued' # << >> => Break]_vars
=============================================================================
