--------------------------- MODULE MCBufferedDMX ---------------------------
(* A small instance of BufferedDMX: two channels and two levels, so that a *)
(* packet can have no, some or all of its channels, and a torn or a mixed  *)
(* packet differs from every packet that was sent.                         *)
EXTENDS BufferedDMX
=============================================================================
