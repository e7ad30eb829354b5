------------------------- MODULE ConflatingChannel -------------------------
(***************************************************************************)
(* What the hand-over of DMX packets from the reader thread to the main    *)
(* thread promises: a one-place channel that conflates.  A new packet      *)
(* replaces the one still pending; what the consumer has seen is only ever *)
(* changed by taking a whole packet; a packet that stays pending while the *)
(* consumer runs is taken.  A channel the packet does not cover keeps the  *)
(* value it had.                                                           *)
(***************************************************************************)
EXTENDS Naturals

CONSTANTS
  MaxBuffer,   \* channels in a packet at most
  Bytes,       \* values of a channel
  Unset        \* a channel no packet has covered yet

VARIABLES
  pending,     \* set of the at most one packet waiting to be taken
  seen,        \* the consumer's value of every channel
  open         \* the consumer's main loop is running

channelVars == <<pending, seen, open>>

Channels == 0 .. MaxBuffer - 1

PacketsOf(n) == [0 .. n - 1 -> Bytes]

Packets == UNION {PacketsOf(n) : n \in 0 .. MaxBuffer}

Overlay(p, v) == [c \in Channels |-> IF c \in DOMAIN p THEN p[c] ELSE v[c]]

ChannelInit ==
  /\ pending = {}
  /\ seen = [c \in Channels |-> Unset]
  /\ open = TRUE

Publish(p) ==
  /\ pending' = {p}
  /\ UNCHANGED <<seen, open>>

Take ==
  /\ open
  /\ \E p \in pending : seen' = Overlay(p, seen)
  /\ pending' = {}
  /\ UNCHANGED open

Close ==
  /\ open' = FALSE
  /\ UNCHANGED <<pending, seen>>

\* Nobody is left to take the packet.
Discard ==
  /\ ~open
  /\ pending' = {}
  /\ UNCHANGED <<seen, open>>

ChannelNext ==
  \/ \E p \in Packets : Publish(p)
  \/ Take
  \/ Close
  \/ Discard

ChannelSpec == ChannelInit /\ [][ChannelNext]_channelVars

FairChannelSpec == ChannelSpec /\ WF_channelVars(Take)
=============================================================================
