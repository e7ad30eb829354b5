------------------------------ MODULE ValueCodec ------------------------------
(***************************************************************************)
(* How the value of a function is written in a packet and read from one:   *)
(* handle_value_reply and value_object_changed of c2ip_connection_values.c,*)
(* with the 16 bit floating point number of get_float16 and set_float16.   *)
(*                                                                         *)
(* A value of an integer type is an integer, in the packet and in the      *)
(* program.  A FLOAT16 is a sign, a mantissa of 11 bits and a decimal      *)
(* exponent of 4 in the packet; in the program it is a float, here an      *)
(* exact decimal of up to four digits: a mantissa has no more, and that    *)
(* much a float keeps when it is multiplied by 10 or 0.1.  Strings are     *)
(* copied as they are and left out.                                        *)
(***************************************************************************)
EXTENDS Integers, FiniteSets, FiniteSetsExt

IntTypes == {"U8", "S16", "U16"}   \* BOOL and ENUM are read as U8, U12 as U16

Word == 65536   \* values of two bytes
Half == 32768   \* and of them those that are positive in an S16

-----------------------------------------------------------------------------
(* Decimals: n * 10^e, n without a trailing zero.                          *)

Digits == 4

Zero == [neg |-> FALSE, n |-> 0, e |-> 0]

Decimal(neg, n, e) ==
  IF n = 0 THEN Zero
  ELSE LET k == Max({i \in 0 .. Digits : n % 10 ^ i = 0})
       IN  [neg |-> neg, n |-> n \div 10 ^ k, e |-> e + k]

\* n * 10^e > b and n * 10^e < b, for n and b of up to four digits, n # 0.
Above(n, e, b) ==
  IF e >= 0 THEN e > Digits \/ n * 10 ^ e > b ELSE e >= -Digits /\ n > b * 10 ^ (-e)

Below(n, e, b) ==
  IF e >= 0 THEN e <= Digits /\ n * 10 ^ e < b ELSE e < -Digits \/ n < b * 10 ^ (-e)

\* lrint: the nearest integer, of two the even one.
Nearest(n, e) ==
  IF e >= 0 THEN n * 10 ^ e
  ELSE LET d == 10 ^ (-e)
           q == n \div d
           r == n % d
       IN  IF 2 * r > d \/ (2 * r = d /\ q % 2 = 1) THEN q + 1 ELSE q

-----------------------------------------------------------------------------
(* FLOAT16.                                                                *)

\* What two bytes hold.
Float16 == [neg : BOOLEAN, mantissa : 0 .. 2047, exp : 0 .. 15]

NoFloat16 == [neg |-> FALSE, mantissa |-> 0, exp |-> 0]   \* 0x0000

\* The table exp of get_float16: 8 to 15 are the exponents -8 to -1.
Exponent(b) == IF b < 8 THEN b ELSE b - 16

get_float16(w) == Decimal(w.neg, w.mantissa, Exponent(w.exp))

\* The mantissa is brought to at most 0x7ff, or to at least 0x7ff / 10, which
\* is 204; this is how far the exponent moves.
Shift(n, e) ==
  IF Above(n, e, 2047)
  THEN CHOOSE m \in 1 .. 30 : ~Above(n, e - m, 2047) /\ (m = 1 \/ Above(n, e - m + 1, 2047))
  ELSE IF Below(n, e, 204)
  THEN CHOOSE m \in -30 .. -1 : ~Below(n, e - m, 204) /\ (m = -1 \/ Below(n, e - m - 1, 204))
  ELSE 0

\* A number that is too large is sent as 0, like one that is too small: the
\* largest mantissa and exponent are masked with the sign, not joined to it.
set_float16(f) ==
  LET m == Shift(f.n, f.e)
  IN  IF f.n = 0 \/ m > 7 \/ m < -8 THEN NoFloat16
      ELSE [neg |-> f.neg, mantissa |-> Nearest(f.n, f.e - m), exp |-> m % 16]

-----------------------------------------------------------------------------
(* All types.                                                              *)

\* The value in a reply or an indication, as handle_value_reply reads it.
Read(type, w) == IF type = "FLOAT16" THEN get_float16(w) ELSE w

\* Mutant: of two bytes only the low one is written.
WriteLowByte(type, v) ==
  IF type = "FLOAT16" THEN set_float16(v)
  ELSE IF type = "S16" THEN ((v + Half) % Word) - Half ELSE v % 256

\* The bytes that value_object_changed sends for a value.
Write(type, v) ==
  IF type = "FLOAT16" THEN set_float16(v)
  ELSE IF type = "S16" THEN ((v + Half) % Word) - Half
  ELSE IF type = "U8" THEN v % 256 ELSE v % Word

\* What g_object_set accepts for value-int and value-float: other values leave
\* the function as it was.
Storable(type, v) ==
  IF type = "FLOAT16" THEN v.n = 0 \/ ~Above(v.n, v.e - 3, 1000) ELSE v \in -Half .. Half - 1

\* The value of a new function.
Initially(type) == IF type = "FLOAT16" THEN Zero ELSE 0

\* What a packet may hold.
IsWire(type, w) ==
  \/ type = "U8" /\ w \in 0 .. 255
  \/ type = "U16" /\ w \in 0 .. Word - 1
  \/ type = "S16" /\ w \in -Half .. Half - 1
  \/ type = "FLOAT16" /\ w \in Float16

\* The numbers a packet holds that come out of set_float16 as others: those
\* below 204 * 10^-8 are sent as 0, as their mantissa could only be brought to
\* 204 with a smaller exponent; and between 204 and 204.7 (and a tenth, a
\* hundredth of it, and so on) the mantissa is left with three digits.
LosesDigits(v) ==
  v.n # 0 /\ (Below(v.n, v.e + 8, 204) \/ (v.n \in 2041 .. 2047 /\ v.e < 0))

SentAsItIs(type, v) == type = "FLOAT16" => ~LosesDigits(v)

\* What set_float16 makes of a number fits in two bytes.
FloatsFit(S) == \A f \in S : set_float16(f) \in Float16

\* Any other number that is read is sent as it was.
FloatsExact ==
  \A w \in Float16 :
    ~LosesDigits(get_float16(w)) => get_float16(set_float16(get_float16(w))) = get_float16(w)
=============================================================================
