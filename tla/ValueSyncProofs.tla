---------------------------- MODULE ValueSyncProofs ----------------------------
(***************************************************************************)
(* ValueSync: the function, the web page and the device agree once nothing *)
(* is on its way, for every type, every way to write and read its values,  *)
(* any values set on either side, and any number of messages that cross;   *)
(* and what is sent is what a packet may hold.  Of the floats the latter   *)
(* takes as a hypothesis what can be checked for all 65536 of them.        *)
(***************************************************************************)
EXTENDS ValueSync, SequenceTheorems, FiniteSetTheorems, TLAPS

IsList(s) == \E W : s \in Seq(W)

\* What comes from the device ends with w, the ALL_DONE aside.
LastValue(list, w) ==
  \A i \in DOMAIN list :
    list[i] # {} /\ (\A j \in DOMAIN list : j > i => list[j] = {}) => list[i] = {w}

NoValue(list) == \A i \in DOMAIN list : list[i] = {}

\* The device tells its value after every change.
ToldLast == IsList(up) /\ IsList(down) /\ LastValue(down, device)

\* With nothing under way that would change the device or the function, the
\* function has the device's value.
UpToDate ==
  NoValue(down) /\ up = << >> =>
    dropped \/ stored = {Read(type, device)} \/ ~Storable(type, Read(type, device))

\* ALL_DONE comes behind a value.
ValueFirst ==
  /\ stored = {} => down # << >> /\ Head(down) # {}
  /\ setup # "VALUES" => stored # {}

\* A function that has been announced is shown, with the value it has.
Shown ==
  setup = "DONE" =>
    /\ web # {}
    /\ NoValue(down) /\ up = << >> /\ ~dropped /\ Storable(type, Read(type, device))
       => web = stored

IInv == conn = "open" => ToldLast /\ UpToDate /\ ValueFirst /\ Shown

-----------------------------------------------------------------------------
(* Lists.                                                                  *)

\* A list with one more element.
LEMMA AppendIs ==
  ASSUME NEW s, IsList(s), NEW e
  PROVE  /\ IsList(Append(s, e)) /\ Append(s, e) # << >>
         /\ Len(s) \in Nat /\ DOMAIN s = 1 .. Len(s)
         /\ DOMAIN Append(s, e) = 1 .. Len(s) + 1
         /\ Append(s, e)[Len(s) + 1] = e
         /\ \A i \in 1 .. Len(s) : Append(s, e)[i] = s[i]
<1>1. PICK W : s \in Seq(W)
  BY DEF IsList
<1>2. s \in Seq(W \cup {e})
  BY <1>1, SeqMonotonic
<1>3. /\ Append(s, e) \in Seq(W \cup {e}) /\ Append(s, e) # << >>
      /\ Len(Append(s, e)) = Len(s) + 1 /\ Append(s, e)[Len(s) + 1] = e
      /\ \A i \in 1 .. Len(s) : Append(s, e)[i] = s[i]
  BY <1>2, AppendProperties
<1>4. Len(s) \in Nat /\ DOMAIN s = 1 .. Len(s) /\ DOMAIN Append(s, e) = 1 .. Len(s) + 1
  BY <1>1, <1>3, LenProperties
<1> QED BY <1>3, <1>4 DEF IsList

\* A list without its first element.
LEMMA TailIs ==
  ASSUME NEW s, IsList(s), s # << >>
  PROVE  /\ IsList(Tail(s)) /\ Len(s) \in Nat \ {0} /\ DOMAIN s = 1 .. Len(s)
         /\ Head(s) = s[1]
         /\ DOMAIN Tail(s) = 1 .. Len(s) - 1
         /\ \A i \in 1 .. Len(s) - 1 : Tail(s)[i] = s[i + 1]
<1>1. PICK W : s \in Seq(W)
  BY DEF IsList
<1>2. Len(s) \in Nat \ {0} /\ DOMAIN s = 1 .. Len(s)
  BY <1>1, LenProperties, EmptySeq
<1>3. /\ Tail(s) \in Seq(W) /\ Len(Tail(s)) = Len(s) - 1
      /\ \A i \in 1 .. Len(Tail(s)) : Tail(s)[i] = s[i + 1]
  BY <1>1, HeadTailProperties
<1>4. DOMAIN Tail(s) = 1 .. Len(s) - 1
  BY <1>3, LenProperties
<1>5. Head(s) = s[1]
  BY <1>1
<1> QED BY <1>2, <1>3, <1>4, <1>5 DEF IsList

\* The device tells what it has.
LEMMA Tells ==
  ASSUME NEW s, IsList(s), NEW w
  PROVE  LastValue(Append(s, {w}), w) /\ ~NoValue(Append(s, {w}))
<1> DEFINE t == Append(s, {w})
<1>1. /\ Len(s) \in Nat /\ DOMAIN t = 1 .. Len(s) + 1 /\ t[Len(s) + 1] = {w}
  BY AppendIs
<1> HIDE DEF t
<1>2. ~NoValue(t)
  <2>1. Len(s) + 1 \in DOMAIN t
    BY <1>1
  <2>2. t[Len(s) + 1] # {}
    BY <1>1
  <2> QED BY <2>1, <2>2 DEF NoValue
<1>3. LastValue(t, w)
  <2> SUFFICES ASSUME NEW i \in DOMAIN t, t[i] # {}, \A j \in DOMAIN t : j > i => t[j] = {}
               PROVE  t[i] = {w}
    BY DEF LastValue
  <2>1. ~(Len(s) + 1 > i)
    BY <1>1
  <2>2. i = Len(s) + 1
    BY <1>1, <2>1
  <2> QED BY <1>1, <2>2
<1> QED BY <1>2, <1>3 DEF t

\* The first of what it has told is taken.
LEMMA Hears ==
  ASSUME NEW s, IsList(s), s # << >>, NEW w, LastValue(s, w)
  PROVE  /\ LastValue(Tail(s), w)
         /\ NoValue(Tail(s)) /\ Head(s) # {} => Head(s) = {w}
         /\ NoValue(Tail(s)) /\ Head(s) = {} => NoValue(s)
<1> DEFINE t == Tail(s)
<1>1. /\ Len(s) \in Nat \ {0} /\ DOMAIN s = 1 .. Len(s) /\ Head(s) = s[1]
      /\ DOMAIN t = 1 .. Len(s) - 1 /\ \A i \in 1 .. Len(s) - 1 : t[i] = s[i + 1]
  BY TailIs
<1> HIDE DEF t
<1>2. \A j \in DOMAIN s : j > 1 => j - 1 \in DOMAIN t /\ s[j] = t[j - 1]
  BY <1>1
<1>3. LastValue(t, w)
  <2> SUFFICES ASSUME NEW i \in DOMAIN t, t[i] # {}, \A j \in DOMAIN t : j > i => t[j] = {}
               PROVE  t[i] = {w}
    BY DEF LastValue
  <2>1. i + 1 \in DOMAIN s /\ s[i + 1] = t[i]
    BY <1>1
  <2>2. ASSUME NEW j \in DOMAIN s, j > i + 1 PROVE s[j] = {}
    <3>1. j \in Int /\ i \in Int /\ i >= 1 /\ j > 1 /\ j - 1 > i
      BY <1>1, <2>2
    <3> QED BY <1>2, <2>2, <3>1
  <2> QED BY <2>1, <2>2 DEF LastValue
<1>4. ASSUME NoValue(t), Head(s) # {} PROVE Head(s) = {w}
  <2>1. \A j \in DOMAIN s : j > 1 => s[j] = {}
    BY <1>2, <1>4 DEF NoValue
  <2>2. 1 \in DOMAIN s
    BY <1>1
  <2> QED BY <1>1, <1>4, <2>1, <2>2 DEF LastValue
<1>5. ASSUME NoValue(t), Head(s) = {} PROVE NoValue(s)
  <2> SUFFICES ASSUME NEW j \in DOMAIN s PROVE s[j] = {}
    BY DEF NoValue
  <2>1. j = 1 \/ j > 1
    BY <1>1
  <2> QED BY <1>1, <1>2, <1>5, <2>1 DEF NoValue
<1> QED BY <1>3, <1>4, <1>5 DEF t

-----------------------------------------------------------------------------
(* Actions.                                                                *)

\* The device has changed, or has taken a change, and tells its value.
LEMMA DeviceTells ==
  ASSUME IInv, conn = "open", IsList(up'), down' = Append(down, {device'}),
         UNCHANGED <<setup, stored, web>>
  PROVE  IInv'
<1>1. IsList(down) /\ ValueFirst /\ Shown
  BY DEF IInv, ToldLast
<1>2. /\ IsList(down') /\ down' # << >> /\ LastValue(down', device') /\ ~NoValue(down')
  BY <1>1, AppendIs, Tells
<1>3. ASSUME down # << >> PROVE Head(down') = Head(down)
  <2>1. Head(down) = down[1] /\ 1 \in 1 .. Len(down)
    BY <1>1, <1>3, TailIs
  <2>2. Head(down') = down'[1]
    BY <1>2, TailIs
  <2>3. down'[1] = down[1]
    BY <1>1, <2>1, AppendIs
  <2> QED BY <2>1, <2>2, <2>3
<1>4. ValueFirst'
  BY <1>1, <1>2, <1>3 DEF ValueFirst
<1>5. UpToDate' /\ Shown'
  BY <1>1, <1>2 DEF UpToDate, Shown
<1>6. ToldLast'
  BY <1>2 DEF ToldLast
<1> QED BY <1>4, <1>5, <1>6 DEF IInv

\* An indication is taken over.
LEMMA HandleValueReplyKeeps == IInv /\ HandleValueReply => IInv'
<1> SUFFICES ASSUME IInv, HandleValueReply PROVE IInv'
  OBVIOUS
<1>1. /\ conn = "open" /\ down # << >> /\ down' = Tail(down) /\ up' = up
      /\ UNCHANGED <<type, device, conn, setup>>
  BY DEF HandleValueReply, SendsNothing
<1>2. ToldLast /\ UpToDate /\ ValueFirst /\ Shown
  BY <1>1 DEF IInv
<1>3. PICK w, new :
        /\ w \in Head(down)
        /\ Storable(type, Read(type, w)) => new = Read(type, w)
        /\ stored' = {new} /\ dropped' = (dropped /\ ~Storable(type, Read(type, w)))
        /\ web' = IF setup # "VALUES" THEN {new} ELSE web
  BY DEF HandleValueReply, Exports
<1>4. /\ LastValue(down', device) /\ IsList(down')
      /\ NoValue(down') => Head(down) = {device}
  BY <1>1, <1>2, <1>3, Hears, TailIs DEF ToldLast
<1>5. NoValue(down') => w = device
  BY <1>3, <1>4
<1>6. ToldLast'
  BY <1>1, <1>2, <1>4 DEF ToldLast
<1>7. UpToDate'
  BY <1>1, <1>3, <1>5 DEF UpToDate
<1>8. ValueFirst' /\ Shown'
  BY <1>1, <1>2, <1>3 DEF ValueFirst, Shown
<1> QED BY <1>6, <1>7, <1>8 DEF IInv

\* The setup goes on from the values to the information.
LEMMA HandleAllDoneKeeps == IInv /\ HandleAllDone => IInv'
<1> SUFFICES ASSUME IInv, HandleAllDone PROVE IInv'
  OBVIOUS
<1>1. /\ conn = "open" /\ down # << >> /\ Head(down) = {} /\ down' = Tail(down)
      /\ UNCHANGED <<type, device, conn, stored, up, dropped>>
      /\ setup' = "INFO" \/ (setup' = "DONE" /\ web' = stored)
  BY DEF HandleAllDone
<1>2. ToldLast /\ UpToDate /\ ValueFirst
  BY <1>1 DEF IInv
<1>3. LastValue(down', device) /\ IsList(down') /\ (NoValue(down') => NoValue(down))
  BY <1>1, <1>2, Hears, TailIs DEF ToldLast
<1>4. stored # {}
  BY <1>1, <1>2 DEF ValueFirst
<1>5. ToldLast' /\ UpToDate'
  BY <1>1, <1>2, <1>3 DEF ToldLast, UpToDate
<1>6. ValueFirst' /\ Shown'
  BY <1>1, <1>4 DEF ValueFirst, Shown
<1> QED BY <1>5, <1>6 DEF IInv

\* A value is set here and sent.
LEMMA SetKeeps ==
  ASSUME IInv, NEW v, Set(v)
  PROVE  IInv'
<1>1. /\ conn = "open" /\ stored' = {v} /\ Sends(v) /\ dropped' = (setup # "DONE")
      /\ UNCHANGED <<type, device, conn, setup, web, down>>
  BY DEF Set
<1>2. ToldLast /\ UpToDate /\ ValueFirst /\ Shown
  BY <1>1 DEF IInv
<1>3. IsList(up') /\ (setup = "DONE" => up' # << >>)
  BY <1>1, <1>2, AppendIs DEF Sends, ToldLast
<1>4. ToldLast'
  BY <1>1, <1>2, <1>3 DEF ToldLast
<1>5. UpToDate' /\ ValueFirst' /\ Shown'
  BY <1>1, <1>2, <1>3 DEF UpToDate, ValueFirst, Shown
<1> QED BY <1>4, <1>5 DEF IInv

-----------------------------------------------------------------------------
(* Theorems.                                                               *)

\* IInv is an inductive invariant.
THEOREM Inductive == Spec => []IInv
<1>1. Init => IInv
  <2> SUFFICES ASSUME Init PROVE IInv
    OBVIOUS
  <2>1. up = << >> /\ down = <<{device}, {}>> /\ stored = {} /\ setup = "VALUES"
    BY DEF Init
  <2>2. IsList(up) /\ IsList(down)
    <3>1. up \in Seq({}) /\ down \in Seq({{device}, {}})
      BY <2>1
    <3> QED BY <3>1 DEF IsList
  <2>3. DOMAIN down = {1, 2} /\ down[1] = {device} /\ down[2] = {} /\ Head(down) = {device}
    BY <2>1
  <2>4. LastValue(down, device) /\ ~NoValue(down) /\ down # << >>
    BY <2>1, <2>3 DEF LastValue, NoValue
  <2> QED BY <2>1, <2>2, <2>3, <2>4 DEF IInv, ToldLast, UpToDate, ValueFirst, Shown
<1>2. IInv /\ [Next]_vars => IInv'
  <2> SUFFICES ASSUME IInv, [Next]_vars PROVE IInv'
    OBVIOUS
  <2>1. ASSUME NEW w \in DeviceValues[type], DeviceChanges(w) PROVE IInv'
    <3>1. /\ conn = "open" /\ down' = Append(down, {device'})
          /\ UNCHANGED <<setup, stored, web, up>>
      BY <2>1 DEF DeviceChanges
    <3>2. IsList(up')
      BY <3>1 DEF IInv, ToldLast
    <3> QED BY <3>1, <3>2, DeviceTells
  <2>2. CASE DeviceTakes
    <3>1. /\ conn = "open" /\ down' = Append(down, {device'}) /\ up # << >> /\ up' = Tail(up)
          /\ UNCHANGED <<setup, stored, web>>
      BY <2>2 DEF DeviceTakes
    <3>2. IsList(up')
      BY <3>1, TailIs DEF IInv, ToldLast
    <3> QED BY <3>1, <3>2, DeviceTells
  <2>3. CASE HandleValueReply
    BY <2>3, HandleValueReplyKeeps
  <2>4. CASE HandleAllDone
    BY <2>4, HandleAllDoneKeeps
  <2>5. CASE InfoComplete
    BY <2>5 DEF InfoComplete, IInv, ToldLast, UpToDate, ValueFirst, Shown
  <2>6. ASSUME NEW v \in Settable, Set(v) PROVE IInv'
    BY <2>6, SetKeeps
  <2>7. CASE Closes
    BY <2>7 DEF Closes, IInv
  <2>8. CASE UNCHANGED vars
    BY <2>8 DEF vars, IInv, ToldLast, UpToDate, ValueFirst, Shown
  <2> QED BY <2>1, <2>2, <2>3, <2>4, <2>5, <2>6, <2>7, <2>8 DEF Next, Ended
<1> QED BY <1>1, <1>2, PTL DEF Spec

\* Whatever was set on either side, and crossed: when nothing is on its way any
\* more, the program and its web page have the device's value, but for what was
\* set during the setup, and what the property does not take.
THEOREM Agrees == Spec => []Converges
<1>1. IInv => Converges
  <2> SUFFICES ASSUME IInv, Quiet PROVE Converges
    BY DEF Converges
  <2>1. conn = "open" /\ setup = "DONE" /\ up = << >> /\ down = << >>
    BY DEF Quiet
  <2>2. NoValue(down)
    BY <2>1 DEF NoValue
  <2> QED BY <2>1, <2>2 DEF IInv, UpToDate, Shown, Converges
<1> QED BY <1>1, Inductive, PTL

-----------------------------------------------------------------------------
(* Types, and what is sent.                                                *)

\* A value a function of type t may have.
MayHave(t, v) ==
  v \in UserValues[t] \/ v = Initially(t) \/ \E w : IsWire(t, w) /\ v = Read(t, w)

AtMostOne(s, t) == s = {} \/ \E v : MayHave(t, v) /\ s = {v}

Message(m, t) == m = {} \/ \E w : IsWire(t, w) /\ m = {w}

WireOK ==
  /\ type \in Types /\ IsWire(type, device)
  /\ conn \in {"open", "closed"} /\ setup \in {"VALUES", "INFO", "DONE"}
  /\ IsList(up) /\ \A i \in DOMAIN up : IsWire(type, up[i])
  /\ IsList(down) /\ \A i \in DOMAIN down : Message(down[i], type)
  /\ dropped \in BOOLEAN
  /\ AtMostOne(stored, type) /\ AtMostOne(web, type)
  /\ web # {} => stored # {}

\* The two constants, without their digits.
LEMMA Words == Half \in Nat \ {0} /\ Word = 2 * Half
BY DEF Word, Half

\* Reading and writing keep to the two bytes.
LEMMA Wraps ==
  ASSUME NEW v \in Int, NEW m \in Nat \ {0}
  PROVE  v % m \in 0 .. m - 1 /\ (v \in 0 .. m - 1 => v % m = v)
OBVIOUS

\* Whatever a function has can be written in a packet.
LEMMA WriteFits ==
  ASSUME SyncAssumption, FloatCodec, NEW t \in Types, NEW v, MayHave(t, v)
  PROVE  IsWire(t, Write(t, v))
<1>1. t \in IntTypes \/ t = "FLOAT16"
  BY DEF SyncAssumption
<1>2. CASE t \in IntTypes
  <2>1. t \in {"U8", "S16", "U16"}
    BY <1>2 DEF IntTypes
  <2>2. v \in Int
    <3>1. v \in UserValues[t] => v \in Int
      BY <1>2 DEF SyncAssumption
    <3>2. ASSUME NEW w, IsWire(t, w), v = Read(t, w) PROVE v \in Int
      <4>1. w \in Int
        BY <2>1, <3>2 DEF IsWire
      <4> QED BY <4>1, <2>1, <3>2 DEF Read
    <3>3. Initially(t) \in Int
      BY <2>1 DEF Initially
    <3> QED BY <3>1, <3>2, <3>3 DEF MayHave
  <2>3. CASE t = "U8"
    <3>1. v % 256 \in 0 .. 255
      BY <2>2
    <3> QED BY <2>3, <3>1 DEF IsWire, Write
  <2>4. CASE t = "U16"
    <3>1. v % Word \in 0 .. Word - 1
      BY <2>2, Words, Wraps
    <3> QED BY <2>4, <3>1 DEF IsWire, Write
  <2>5. CASE t = "S16"
    <3>0. v + Half \in Int /\ Word \in Nat \ {0}
      BY <2>2, Words
    <3>2. (v + Half) % Word \in 0 .. Word - 1
      BY <3>0, Wraps
    <3>1. ((v + Half) % Word) - Half \in -Half .. Half - 1
      BY <3>2, Words
    <3> QED BY <2>5, <3>1 DEF IsWire, Write
  <2> QED BY <2>1, <2>3, <2>4, <2>5
<1>3. CASE t = "FLOAT16"
  <2>1. set_float16(Zero) \in Float16
    BY DEF set_float16, Zero, NoFloat16, Float16
  <2>2. v \in UserValues[t] => set_float16(v) \in Float16
    BY <1>3 DEF FloatCodec, FloatsFit
  <2>3. ASSUME NEW w, IsWire(t, w), v = Read(t, w) PROVE set_float16(v) \in Float16
    <3>1. w \in Float16 /\ v = get_float16(w)
      BY <1>3, <2>3 DEF IsWire, Read
    <3> QED BY <3>1 DEF FloatCodec, FloatsFit
  <2>4. set_float16(v) \in Float16
    BY <1>3, <2>1, <2>2, <2>3 DEF MayHave, Initially
  <2> QED BY <1>3, <2>4 DEF IsWire, Write
<1> QED BY <1>1, <1>2, <1>3

\* A value that is read from a packet and fits the property is sent as it was.
LEMMA WriteExact ==
  ASSUME SyncAssumption, FloatCodec, NEW t \in Types, NEW w, IsWire(t, w),
         Storable(t, Read(t, w)), SentAsItIs(t, Read(t, w))
  PROVE  Read(t, Write(t, Read(t, w))) = Read(t, w)
<1>1. t \in IntTypes \/ t = "FLOAT16"
  BY DEF SyncAssumption
<1>2. CASE t \in IntTypes
  <2>1. t \in {"U8", "S16", "U16"}
    BY <1>2 DEF IntTypes
  <2>2. Read(t, w) = w /\ Read(t, Write(t, w)) = Write(t, w)
    BY <2>1 DEF Read
  <2>3. CASE t = "U8"
    <3>1. w \in 0 .. 255
      BY <2>3 DEF IsWire
    <3>2. w % 256 = w
      BY <3>1
    <3> QED BY <2>2, <2>3, <3>2 DEF Write
  <2>4. CASE t = "U16"
    <3>1. w \in 0 .. Word - 1
      BY <2>4 DEF IsWire
    <3>3. w \in Int /\ Word \in Nat \ {0}
      BY <3>1, Words
    <3>2. w % Word = w
      BY <3>1, <3>3, Wraps
    <3> QED BY <2>2, <2>4, <3>2 DEF Write
  <2>5. CASE t = "S16"
    <3>1. w \in -Half .. Half - 1
      BY <2>5 DEF IsWire
    <3>2. w + Half \in 0 .. Word - 1 /\ w + Half \in Int /\ Word \in Nat \ {0} /\ w \in Int
      BY <3>1, Words
    <3>3. (w + Half) % Word = w + Half
      BY <3>2, Wraps
    <3>4. ((w + Half) % Word) - Half = w
      BY <3>2, <3>3, Words
    <3> QED BY <2>2, <2>5, <3>4 DEF Write
  <2> QED BY <2>1, <2>3, <2>4, <2>5
<1>3. CASE t = "FLOAT16"
  <2>1. w \in Float16 /\ Read(t, w) = get_float16(w)
    BY <1>3 DEF IsWire, Read
  <2>2. ~LosesDigits(get_float16(w))
    BY <1>3, <2>1 DEF SentAsItIs
  <2>3. get_float16(set_float16(get_float16(w))) = get_float16(w)
    BY <2>1, <2>2 DEF FloatCodec, FloatsExact
  <2> QED BY <1>3, <2>1, <2>3 DEF Read, Write
<1> QED BY <1>1, <1>2, <1>3

\* The device has answered with a value of its own.
LEMMA WireInitially == ASSUME SyncAssumption, Init PROVE WireOK
<1>1. /\ type \in Types /\ device \in DeviceValues[type] /\ conn = "open" /\ setup = "VALUES"
      /\ stored = {} /\ web = {} /\ up = << >> /\ down = <<{device}, {}>> /\ dropped = FALSE
  BY DEF Init
<1>2. IsWire(type, device)
  BY <1>1 DEF SyncAssumption
<1>3. IsList(up) /\ IsList(down)
  <2>1. up \in Seq({}) /\ down \in Seq({{device}, {}})
    BY <1>1
  <2> QED BY <2>1 DEF IsList
<1>4. DOMAIN up = {} /\ DOMAIN down = {1, 2} /\ down[1] = {device} /\ down[2] = {}
  BY <1>1
<1>5. \A i \in DOMAIN down : Message(down[i], type)
  BY <1>2, <1>4 DEF Message
<1> QED BY <1>1, <1>2, <1>3, <1>4, <1>5 DEF WireOK, AtMostOne

\* The device changes, and tells its value.
LEMMA WireTells ==
  ASSUME WireOK, IsWire(type, device'), down' = Append(down, {device'}),
         IsList(up'), \A i \in DOMAIN up' : IsWire(type, up'[i]),
         UNCHANGED <<type, conn, setup, stored, web, dropped>>
  PROVE  WireOK'
<1>1. /\ IsList(down') /\ Len(down) \in Nat
      /\ DOMAIN down = 1 .. Len(down) /\ DOMAIN down' = 1 .. Len(down) + 1
      /\ down'[Len(down) + 1] = {device'} /\ \A i \in 1 .. Len(down) : down'[i] = down[i]
  BY AppendIs DEF WireOK
<1>2. ASSUME NEW i \in DOMAIN down' PROVE Message(down'[i], type)
  <2>1. i \in 1 .. Len(down) \/ i = Len(down) + 1
    BY <1>1
  <2>2. Message({device'}, type)
    BY DEF Message
  <2> QED BY <1>1, <2>1, <2>2 DEF WireOK
<1> QED BY <1>1, <1>2 DEF WireOK

\* Every step keeps what is held and on its way within its types.
LEMMA WireStep ==
  ASSUME SyncAssumption, FloatCodec, WireOK, [Next]_vars
  PROVE  WireOK'
<1>1. ASSUME NEW w \in DeviceValues[type], DeviceChanges(w) PROVE WireOK'
  <2>1. /\ device' = w /\ down' = Append(down, {device'})
        /\ UNCHANGED <<type, conn, setup, stored, web, up, dropped>>
    BY <1>1 DEF DeviceChanges
  <2>2. IsWire(type, device')
    BY <2>1 DEF SyncAssumption, WireOK
  <2>3. IsList(up') /\ \A i \in DOMAIN up' : IsWire(type, up'[i])
    BY <2>1 DEF WireOK
  <2> QED BY <2>1, <2>2, <2>3, WireTells
<1>2. CASE DeviceTakes
  <2>1. /\ up # << >> /\ device' \in {Head(up), device} /\ up' = Tail(up)
        /\ down' = Append(down, {device'}) /\ UNCHANGED <<type, conn, setup, stored, web, dropped>>
    BY <1>2 DEF DeviceTakes
  <2>2. /\ IsList(up') /\ Len(up) \in Nat \ {0} /\ DOMAIN up = 1 .. Len(up) /\ Head(up) = up[1]
        /\ DOMAIN up' = 1 .. Len(up) - 1 /\ \A i \in 1 .. Len(up) - 1 : up'[i] = up[i + 1]
    BY <2>1, TailIs DEF WireOK
  <2>3. IsWire(type, device')
    <3>1. 1 \in DOMAIN up
      BY <2>2
    <3> QED BY <2>1, <2>2, <3>1 DEF WireOK
  <2>4. ASSUME NEW i \in DOMAIN up' PROVE IsWire(type, up'[i])
    <3>1. i + 1 \in DOMAIN up /\ up'[i] = up[i + 1]
      BY <2>2
    <3> QED BY <3>1 DEF WireOK
  <2> QED BY <2>1, <2>2, <2>3, <2>4, WireTells
<1>3. ASSUME down # << >>, down' = Tail(down)
      PROVE  IsList(down') /\ (\A i \in DOMAIN down' : Message(down'[i], type)) /\ Message(Head(down), type)
  <2>1. /\ IsList(down') /\ Len(down) \in Nat \ {0} /\ DOMAIN down = 1 .. Len(down)
        /\ Head(down) = down[1] /\ DOMAIN down' = 1 .. Len(down) - 1
        /\ \A i \in 1 .. Len(down) - 1 : down'[i] = down[i + 1]
    BY <1>3, TailIs DEF WireOK
  <2>2. 1 \in DOMAIN down /\ \A i \in DOMAIN down' : i + 1 \in DOMAIN down
    BY <2>1
  <2> QED BY <2>1, <2>2 DEF WireOK
<1>4. CASE HandleValueReply
  <2>1. /\ down # << >> /\ down' = Tail(down) /\ up' = up /\ UNCHANGED <<type, device, conn, setup>>
    BY <1>4 DEF HandleValueReply, SendsNothing
  <2>2. PICK w, v, new :
          /\ w \in Head(down) /\ v \in IF stored = {} THEN {Initially(type)} ELSE stored
          /\ new = IF Storable(type, Read(type, w)) THEN Read(type, w) ELSE v
          /\ stored' = {new} /\ dropped' = (dropped /\ ~Storable(type, Read(type, w)))
          /\ web' = IF setup # "VALUES" THEN {new} ELSE web
    BY <1>4 DEF HandleValueReply, Exports
  <2>3. IsWire(type, w)
    BY <1>3, <2>1, <2>2 DEF Message
  <2>4. MayHave(type, v)
    BY <2>2 DEF WireOK, AtMostOne, MayHave
  <2>5. MayHave(type, new)
    BY <2>2, <2>3, <2>4 DEF MayHave
  <2>6. AtMostOne(stored', type) /\ AtMostOne(web', type) /\ stored' # {}
    BY <2>2, <2>5 DEF AtMostOne, WireOK
  <2>7. dropped' \in BOOLEAN
    BY <2>2, Zenon
  <2> QED BY <1>3, <2>1, <2>6, <2>7 DEF WireOK
<1>5. CASE HandleAllDone
  <2>1. /\ down # << >> /\ down' = Tail(down) /\ UNCHANGED <<type, device, conn, stored, up, dropped>>
        /\ setup' \in {"INFO", "DONE"} /\ web' \in {web, stored}
    BY <1>5 DEF HandleAllDone
  <2> QED BY <1>3, <2>1 DEF WireOK
<1>6. CASE InfoComplete
  BY <1>6 DEF InfoComplete, WireOK
<1>7. ASSUME NEW v \in Settable, Set(v) PROVE WireOK'
  <2>1. /\ stored' = {v} /\ Sends(v) /\ dropped' = (setup # "DONE")
        /\ UNCHANGED <<type, device, conn, setup, web, down>>
    BY <1>7 DEF Set
  <2>2. MayHave(type, v)
    BY DEF Settable, WireOK, AtMostOne, MayHave
  <2>3. IsWire(type, Write(type, v))
    BY <2>2, WriteFits DEF WireOK
  <2>4. IsList(up') /\ \A i \in DOMAIN up' : IsWire(type, up'[i])
    <3>1. CASE up' = up
      BY <3>1 DEF WireOK
    <3>2. CASE up' = Append(up, Write(type, v))
      <4>1. /\ IsList(up') /\ Len(up) \in Nat /\ DOMAIN up = 1 .. Len(up)
            /\ DOMAIN up' = 1 .. Len(up) + 1 /\ up'[Len(up) + 1] = Write(type, v)
            /\ \A i \in 1 .. Len(up) : up'[i] = up[i]
        BY <3>2, AppendIs DEF WireOK
      <4>2. \A i \in DOMAIN up' : i \in 1 .. Len(up) \/ i = Len(up) + 1
        BY <4>1
      <4> QED BY <4>1, <4>2, <2>3 DEF WireOK
    <3> QED BY <2>1, <3>1, <3>2 DEF Sends
  <2>5. AtMostOne(stored', type) /\ stored' # {}
    BY <2>1, <2>2 DEF AtMostOne
  <2>6. dropped' \in BOOLEAN
    BY <2>1
  <2> QED BY <2>1, <2>4, <2>5, <2>6 DEF WireOK
<1>8. CASE Closes
  <2>1. /\ conn' = "closed" /\ web' = {} /\ stored' = {} /\ up' = << >> /\ down' = << >>
        /\ UNCHANGED <<type, device, setup, dropped>>
    BY <1>8 DEF Closes
  <2>2. IsList(up') /\ IsList(down') /\ DOMAIN up' = {} /\ DOMAIN down' = {}
    <3>1. << >> \in Seq({}) /\ DOMAIN << >> = {}
      OBVIOUS
    <3> QED BY <2>1, <3>1 DEF IsList
  <2> QED BY <2>1, <2>2 DEF WireOK, AtMostOne
<1>9. CASE UNCHANGED vars
  BY <1>9 DEF vars, WireOK
<1> QED BY <1>1, <1>2, <1>4, <1>5, <1>6, <1>7, <1>8, <1>9 DEF Next, Ended

\* What is held and what is on its way has the type of the function.
THEOREM WireInductive == ASSUME FloatCodec PROVE Spec => []WireOK
<1>1. Init => WireOK
  BY WireInitially, SyncAssumption
<1>2. WireOK /\ [Next]_vars => WireOK'
  BY WireStep, SyncAssumption
<1> QED BY <1>1, <1>2, PTL DEF Spec

\* What is on its way is what a packet may hold, and a value is held in one place
\* at most once: for the values set here, too, which may be any integers.
THEOREM TypeCorrect == ASSUME FloatCodec PROVE Spec => []TypeOK
<1>1. WireOK => TypeOK
  <2> SUFFICES ASSUME WireOK PROVE TypeOK
    OBVIOUS
  <2>1. ASSUME NEW s, s = {} \/ \E v : s = {v} PROVE Cardinality(s) < 2
    <3>1. CASE s = {}
      BY <3>1, FS_EmptySet
    <3>2. CASE \E v : s = {v}
      BY <3>2, FS_Singleton
    <3> QED BY <2>1, <3>1, <3>2
  <2>2. Cardinality(stored) < 2 /\ Cardinality(web) < 2
    BY <2>1 DEF WireOK, AtMostOne
  <2>3. ASSUME NEW i \in DOMAIN down
        PROVE  Cardinality(down[i]) < 2 /\ \A w \in down[i] : IsWire(type, w)
    <3>1. Message(down[i], type)
      BY DEF WireOK
    <3> QED BY <2>1, <3>1 DEF Message
  <2> QED BY <2>2, <2>3 DEF TypeOK, WireOK
<1> QED BY <1>1, WireInductive, PTL

\* What SendsBack says of a step.
LEMMA SetSendsBack ==
  ASSUME SyncAssumption, FloatCodec, WireOK, Converges, Quiet, ~dropped,
         Storable(type, Read(type, device)), SentAsItIs(type, Read(type, device)),
         NEW v \in web, Set(v)
  PROVE  up' # << >> /\ Read(type, Head(up')) = Read(type, device)
<1>1. conn = "open" /\ setup = "DONE" /\ up = << >>
  BY DEF Quiet
<1>2. v = Read(type, device)
  BY DEF Converges
<1>3. up' = Append(up, Write(type, v))
  BY <1>1 DEF Set, Sends
<1>4. up' = <<Write(type, v)>>
  BY <1>1, <1>3
<1>5. up' # << >> /\ Head(up') = Write(type, v)
  BY <1>4
<1>6. Read(type, Write(type, Read(type, device))) = Read(type, device)
  BY WriteExact DEF WireOK
<1> QED BY <1>2, <1>5, <1>6

\* Setting a function to what the page shows sends the device its own value, with
\* the exceptions named, for any integer type, and for floats as FloatCodec says.
THEOREM SentAsShown == ASSUME FloatCodec PROVE Spec => SendsBack
<1>1. WireOK /\ Converges =>
        [/\ Quiet /\ ~dropped
         /\ Storable(type, Read(type, device)) /\ SentAsItIs(type, Read(type, device))
         /\ \E v \in web : Set(v)
         => up' # << >> /\ Read(type, Head(up')) = Read(type, device)]_vars
  BY SetSendsBack, SyncAssumption
<1> QED BY <1>1, WireInductive, Agrees, PTL DEF SendsBack
=============================================================================
