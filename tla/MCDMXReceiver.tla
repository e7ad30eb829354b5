---------------------------- MODULE MCDMXReceiver ----------------------------
(* Both receivers, each started and stopped once.  The serial one has a    *)
(* buffer of two slots and packets of up to five.  0 and 255 are the bytes *)
(* the port gives a meaning of their own, 7 stands for the others.         *)
EXTENDS DMXReceiver
=============================================================================
