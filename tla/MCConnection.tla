---------------------------- MODULE MCConnection ----------------------------
(* A header of two bytes and a buffer of five, so that a buffer can hold   *)
(* two packets, or one and a part of another.  A packet may be nothing but *)
(* its header, may fill the buffer, and may be too long for it.            *)
EXTENDS Lifecycle

Type(kind, len) == [kind |-> kind, len |-> len]

MCPacketTypes ==
  {Type("ping", 3), Type("pong", 3), Type("authenticated", 4),
   Type("other", 2), Type("other", 5), Type("other", 6)}
=============================================================================
