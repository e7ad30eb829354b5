----------------------------- MODULE MCValueSync -----------------------------
(* One function of every kind of type.  The values are those where the     *)
(* conversions differ: the ends of the ranges and what lies outside, and   *)
(* of the floats some with every way to bring the mantissa into range.     *)
(*                                                                         *)
(* The pure algorithms a function is read, sent and named by are checked   *)
(* here, too: the 16 bit float and the search for a name.                  *)
EXTENDS ValueSync, StringMap

Float(neg, mantissa, exp) == [neg |-> neg, mantissa |-> mantissa, exp |-> exp]

MCTypes == {"U8", "S16", "U16", "FLOAT16"}

MCDeviceValues ==
  [t \in MCTypes |->
     CASE t = "U8"      -> {0, 255}
       [] t = "S16"     -> {-32768, -1}
       [] t = "U16"     -> {4095, 40000}
       [] t = "FLOAT16" -> {Float(FALSE, 5, 0), Float(TRUE, 5, 13), Float(FALSE, 2047, 7)}]

MCUserValues ==
  [t \in MCTypes |->
     CASE t = "U8"      -> {256}
       [] t = "S16"     -> {32768}
       [] t = "U16"     -> {65535}
       [] t = "FLOAT16" -> {Decimal(FALSE, 2048, 0), Decimal(FALSE, 1, 12)}]

\* Of the 65536 floats a packet can hold, exactly the named ones are not sent
\* back as they were read.
ASSUME SentBack ==
  \A n \in BOOLEAN, m \in 0 .. 2047, x \in 0 .. 15 :
    LET v == get_float16(Float(n, m, x))
    IN  get_float16(set_float16(v)) = v <=> ~LosesDigits(v)

\* Among them the hypothesis of the proofs.
ASSUME CodecAssumption == FloatCodec

\* In a table that ascends every id is found, and no other.
ASSUME FoundIfAscending ==
  \A length \in 1 .. 4 : \A map \in [0 .. length - 1 -> 1 .. 5] :
    Ascending(map, length) => \A id \in 0 .. 6 : FoundWhereItIs(map, length, id)

\* The table of the function names does not, and two of its ids are not found.
ASSUME NamesNotFound ==
  LET map    == FunctionNames
      length == Cardinality(DOMAIN map)
  IN  /\ length = 371
      /\ {id \in 500 .. 8500 : ~FoundWhereItIs(map, length, id)} = {8225, 8226}
=============================================================================
