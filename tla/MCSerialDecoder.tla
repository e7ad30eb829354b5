-------------------------- MODULE MCSerialDecoder --------------------------
(* A buffer of two slots and packets of up to six.  0 and 255 are the      *)
(* bytes the port gives a meaning of their own, 7 stands for the others.   *)
EXTENDS SerialDecoder
=============================================================================
