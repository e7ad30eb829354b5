------------------------ MODULE ConnectionValuesProofs ------------------------
(***************************************************************************)
(* ConnectionValues: requests that are out are as many as ALL_DONEs came,  *)
(* at most, so one with a device that sends it once; and values-ready      *)
(* comes when nothing that was listed is missing: for any device, whatever *)
(* it sends in whatever state, and whichever writes fail.                  *)
(***************************************************************************)
EXTENDS ConnectionValues, SequenceTheorems, FiniteSetTheorems, TLAPS

\* Functions wait only between ALL_DONE and values-ready, with the timer armed.
Waits ==
  conn # "closed" =>
    /\ setup \in {"NONE", "DONE"} => pending = << >>
    /\ pending # << >> => timer = "armed"

\* The head of the list has its place among the requests that are out even when
\* it has been answered without being dropped, which happens while the values
\* are being requested again.
HeadCounted ==
  conn # "closed" /\ pending # << >> => Cardinality(waiting \cup {Head(pending)}) <= dones

IInv == TypeOK /\ Waits /\ OneRequest /\ HeadCounted

-----------------------------------------------------------------------------
(* Lists.                                                                  *)

\* The end of a list, from position i.
LEMMA EndOfList ==
  ASSUME NEW S, NEW list \in Seq(S), NEW i \in DOMAIN list,
         NEW rest, rest = SubSeq(list, i, Len(list))
  PROVE  /\ rest \in Seq(S) /\ rest # << >> /\ Head(rest) = list[i]
         /\ Tail(rest) \in Seq(S) /\ DOMAIN rest = 1 .. Len(list) - i + 1
         /\ DOMAIN Tail(rest) = 1 .. Len(list) - i
         /\ \A k \in DOMAIN rest : rest[k] = list[i + k - 1]
         /\ \A k \in DOMAIN Tail(rest) : Tail(rest)[k] = list[i + k]
<1>1. Len(list) \in Nat /\ DOMAIN list = 1 .. Len(list) /\ i \in 1 .. Len(list)
  BY LenProperties
<1>2. \A k \in i .. Len(list) : list[k] \in S
  BY <1>1, ElementOfSeq
<1>3. /\ rest \in Seq(S) /\ Len(rest) = Len(list) - i + 1
      /\ \A k \in 1 .. Len(list) - i + 1 : rest[k] = list[i + k - 1]
  BY <1>1, <1>2, SubSeqProperties
<1>4. rest # << >> /\ DOMAIN rest = 1 .. Len(list) - i + 1
  BY <1>1, <1>3, EmptySeq, LenProperties
<1>5. /\ Tail(rest) \in Seq(S) /\ Len(Tail(rest)) = Len(list) - i
      /\ \A k \in 1 .. Len(list) - i : Tail(rest)[k] = rest[k + 1]
  BY <1>1, <1>3, <1>4, HeadTailProperties
<1>6. DOMAIN Tail(rest) = 1 .. Len(list) - i
  BY <1>5, LenProperties
<1>7. Head(rest) = list[i]
  <2>1. Head(rest) = rest[1]
    BY <1>3, <1>4
  <2>2. rest[1] = list[i + 1 - 1]
    BY <1>1, <1>3
  <2> QED BY <1>1, <2>1, <2>2
<1>8. \A k \in DOMAIN Tail(rest) : Tail(rest)[k] = list[i + k]
  BY <1>1, <1>3, <1>5, <1>6
<1> QED BY <1>3, <1>4, <1>5, <1>6, <1>7, <1>8

\* What request_next_info leaves of a list.
LEMMA NewHead ==
  ASSUME NEW S, NEW list \in Seq(S), NEW f, HeadOf(list, f)
  PROVE  pending' \in Seq(S) /\ pending' # << >> /\ Head(pending') = f
<1>1. PICK i \in DOMAIN list : f = list[i] /\ pending' = SubSeq(list, i, Len(list))
  BY DEF HeadOf
<1> DEFINE rest == pending'
<1>2. rest = SubSeq(list, i, Len(list))
  BY <1>1
<1> HIDE DEF rest
<1>3. rest \in Seq(S)
  BY <1>2, EndOfList
<1>4. rest # << >>
  BY <1>2, EndOfList
<1>5. Head(rest) = list[i]
  BY <1>2, EndOfList
<1> QED BY <1>1, <1>3, <1>4, <1>5 DEF rest

\* The list ALL_DONE makes: every function that is known, before those that
\* wait already.
LEMMA AllFunctions ==
  ASSUME TypeOK, ValuesAssumption,
         NEW list \in SetToAllKPermutations(Functions), Descending(list)
  PROVE  /\ list \o pending \in Seq(Known)
         /\ \A f \in Known : \E i \in DOMAIN (list \o pending) : (list \o pending)[i] = f
<1>1. PICK s \in SUBSET Functions : list \in [1 .. Cardinality(s) -> s]
  BY DEF SetToAllKPermutations, SetToSeqs
<1>2. Cardinality(s) \in Nat
  BY <1>1, FS_Subset, FS_CardinalityType DEF ValuesAssumption
<1>3. list \in Seq(s)
  BY <1>1, <1>2, SeqDef
<1>4. \A i \in 1 .. Len(list) : list[i] \in Known
  BY <1>3, LenProperties DEF Descending
<1>5. list \in Seq(Known)
  <2>1. Len(list) \in Nat /\ list = [i \in 1 .. Len(list) |-> list[i]]
    BY <1>3, LenProperties
  <2>2. [i \in 1 .. Len(list) |-> list[i]] \in Seq(Known)
    BY <1>4, <2>1, IsASeq
  <2> QED BY <2>1, <2>2
<1>6. pending \in Seq(Known)
  BY DEF TypeOK
<1> DEFINE all == list \o pending
<1>7. /\ all \in Seq(Known) /\ Len(all) = Len(list) + Len(pending)
      /\ \A i \in 1 .. Len(list) + Len(pending) :
            all[i] = IF i <= Len(list) THEN list[i] ELSE pending[i - Len(list)]
  BY <1>5, <1>6, ConcatProperties
<1>8. /\ DOMAIN list = 1 .. Len(list) /\ DOMAIN all = 1 .. Len(all)
      /\ Len(list) \in Nat /\ Len(pending) \in Nat
  BY <1>5, <1>6, <1>7, LenProperties
<1> HIDE DEF all
<1>9. ASSUME NEW f \in Known PROVE \E i \in DOMAIN all : all[i] = f
  <2>1. PICK i \in DOMAIN list : list[i] = f
    BY DEF Descending
  <2>2. i \in DOMAIN all /\ i \in 1 .. Len(list) + Len(pending) /\ i <= Len(list)
    BY <1>7, <1>8, <2>1
  <2> QED BY <1>7, <2>1, <2>2
<1> QED BY <1>7, <1>9 DEF all

\* What waits behind the head.
LEMMA Behind ==
  ASSUME TypeOK, pending # << >>
  PROVE  Tail(pending) \in Seq(Known) /\ Head(pending) \in Known
<1> QED BY HeadTailProperties DEF TypeOK

-----------------------------------------------------------------------------
(* Counting.                                                               *)

\* One request takes the place of another.
LEMMA Replaced ==
  ASSUME NEW S, IsFiniteSet(S), NEW h, NEW g
  PROVE  Cardinality((S \ {h}) \cup {g}) <= Cardinality(S \cup {h})
<1> DEFINE W == S \cup {h}
           V == S \ {h}
<1>1. IsFiniteSet(W) /\ h \in W
  BY FS_AddElement
<1>2. V = W \ {h}
  OBVIOUS
<1> HIDE DEF V, W
<1>3. IsFiniteSet(V) /\ Cardinality(V) = Cardinality(W) - 1
  BY <1>1, <1>2, FS_RemoveElement
<1>4. Cardinality(W) \in Nat /\ Cardinality(V) \in Nat
  BY <1>1, <1>3, FS_CardinalityType
<1>5. Cardinality(V \cup {g}) = IF g \in V THEN Cardinality(V) ELSE Cardinality(V) + 1
  BY <1>3, FS_AddElement
<1>6. Cardinality(V \cup {g}) <= Cardinality(W)
  BY <1>3, <1>4, <1>5
<1> QED BY <1>6 DEF V, W

\* A part of a finite set is not larger.
LEMMA NotMore ==
  ASSUME NEW S, IsFiniteSet(S), NEW T \in SUBSET S, NEW n \in Nat, Cardinality(S) <= n
  PROVE  Cardinality(T) <= n
<1>1. IsFiniteSet(T) /\ Cardinality(T) <= Cardinality(S)
  BY FS_Subset
<1>2. Cardinality(T) \in Nat /\ Cardinality(S) \in Nat
  BY <1>1, FS_CardinalityType
<1> QED BY <1>1, <1>2

-----------------------------------------------------------------------------
(* request_next_info, for the three that call it.                          *)

\* There is room for one more request than those that are out.
Room(out) ==
  /\ out \subseteq Functions /\ Cardinality(out) <= dones'
  /\ \A g \in Functions : Cardinality(out \cup {g}) <= dones'

LEMMA NextInfoKeeps ==
  ASSUME TypeOK, values' = values, dones' \in 0 .. MaxDones, MaxDones \in Nat,
         listed' \subseteq Functions, told' \subseteq Functions, gaveUp' \subseteq Functions,
         NEW list \in Seq(Known), NEW out, Room(out), NEW s \in {"VALUES", "INFO"},
         NEW w \in BOOLEAN, NEW failed \in {"spins", "uses freed"},
         NextInfo(list, out, s, w, failed)
  PROVE  IInv'
<1>1. Known' = Known /\ Known \subseteq Functions
  BY DEF TypeOK, Known
<1>2. CASE Request(list, out, s)
  <2>1. PICK f \in Functions : HeadOf(list, f) /\ waiting' = out \cup {f}
    BY <1>2 DEF Request
  <2>2. pending' \in Seq(Known) /\ pending' # << >> /\ Head(pending') = f
    BY <2>1, NewHead
  <2>3. setup' = s /\ timer' = "armed" /\ ready' = FALSE /\ UNCHANGED <<main, conn, bound>>
    BY <1>2 DEF Request
  <2>4. waiting' \subseteq Functions /\ waiting' \cup {f} = waiting'
    BY <2>1 DEF Room
  <2>5. TypeOK'
    BY <1>1, <2>2, <2>3, <2>4 DEF TypeOK
  <2>6. Cardinality(waiting') <= dones'
    BY <2>1 DEF Room
  <2>7. OneRequest' /\ HeadCounted' /\ Waits'
    BY <2>1, <2>2, <2>3, <2>4, <2>6 DEF OneRequest, HeadCounted, Waits
  <2> QED BY <2>5, <2>7 DEF IInv
<1>3. CASE RequestFails(list, out, s, failed)
  <2>1. PICK f \in Functions : HeadOf(list, f)
    BY <1>3 DEF RequestFails
  <2>2. pending' \in Seq(Known)
    BY <2>1, NewHead
  <2>3. /\ main' = failed /\ conn' = "closed" /\ setup' = s /\ timer' = "armed"
        /\ ready' = FALSE /\ waiting' = out /\ bound' = bound
    BY <1>3 DEF RequestFails
  <2>4. TypeOK'
    BY <1>1, <2>2, <2>3 DEF TypeOK, Room
  <2> QED BY <2>3, <2>4 DEF IInv, Waits, OneRequest, HeadCounted
<1>4. CASE Finished(list, out)
  <2>1. /\ pending' = << >> /\ setup' = "DONE" /\ timer' = "armed" /\ ready' = TRUE
        /\ bound' = Known /\ main' = main /\ conn' = conn /\ waiting' = out
    BY <1>4 DEF Finished
  <2>2. TypeOK'
    BY <1>1, <2>1, EmptySeq DEF TypeOK, Room
  <2> QED BY <2>1, <2>2 DEF IInv, Waits, OneRequest, HeadCounted, Room
<1> QED BY <1>2, <1>3, <1>4 DEF NextInfo

-----------------------------------------------------------------------------
(* Actions.                                                                *)

\* A value is replied: its function is known from then on.
LEMMA ValueReplyKeeps ==
  ASSUME IInv, NEW f \in Functions, NEW h \in BOOLEAN, ValueReply(f, h)
  PROVE  IInv'
<1>1. /\ values' = [g \in Known \cup {f} |-> IF g = f THEN h ELSE values[g]]
      /\ ready' = FALSE
      /\ UNCHANGED <<main, conn, setup, pending, timer, infoVars, listVars, bound>>
  BY DEF ValueReply
<1>2. Known' = Known \cup {f} /\ Known \subseteq Known'
  BY <1>1 DEF Known
<1>3. values' \in [Known' -> BOOLEAN]
  BY <1>1, <1>2 DEF IInv, TypeOK
<1>4. pending' \in Seq(Known')
  BY <1>1, <1>2, SeqMonotonic DEF IInv, TypeOK
<1>5. TypeOK'
  BY <1>1, <1>2, <1>3, <1>4 DEF IInv, TypeOK, infoVars, listVars
<1> QED BY <1>1, <1>5 DEF IInv, Waits, OneRequest, HeadCounted, infoVars, listVars

\* The requests that are out are finitely many.
LEMMA FiniteWaiting ==
  ASSUME IInv, ValuesAssumption
  PROVE  IsFiniteSet(waiting) /\ waiting \subseteq Functions
<1>1. waiting \in SUBSET Functions /\ IsFiniteSet(Functions)
  BY DEF IInv, TypeOK, ValuesAssumption
<1> QED BY <1>1, FS_Subset

\* The ALL_DONEs are counted up to the bound.
LEMMA Counter ==
  ASSUME IInv, ValuesAssumption
  PROVE  dones \in Nat /\ MaxDones \in Nat /\ (dones < MaxDones => dones + 1 \in 0 .. MaxDones)
<1>1. dones \in 0 .. MaxDones /\ MaxDones \in Nat
  BY DEF IInv, TypeOK, ValuesAssumption
<1> QED BY <1>1

\* The last value has been replied: a request for information is made, whatever
\* is out already.
LEMMA AllDoneKeeps ==
  ASSUME IInv, ValuesAssumption, NEW w \in BOOLEAN,
         NEW list \in SetToAllKPermutations(Functions), AllDone(list, w)
  PROVE  IInv'
<1>1. /\ conn # "closed" /\ dones < MaxDones /\ Descending(list)
      /\ dones' = dones + 1 /\ listed' = Known /\ told' = {} /\ gaveUp' = {}
      /\ NextInfo(list \o pending, waiting, "INFO", w, "spins")
      /\ values' = values
  BY DEF AllDone, Serving
<1>2. list \o pending \in Seq(Known)
  BY <1>1, AllFunctions DEF IInv
<1>3. dones \in Nat /\ dones' \in 0 .. MaxDones /\ MaxDones \in Nat
  BY <1>1, Counter
<1>4. IsFiniteSet(waiting) /\ waiting \subseteq Functions
  BY FiniteWaiting
<1>5. Cardinality(waiting) \in Nat /\ Cardinality(waiting) <= dones
  BY <1>1, <1>4, FS_CardinalityType DEF IInv, OneRequest
<1>6. ASSUME NEW g \in Functions PROVE Cardinality(waiting \cup {g}) <= dones'
  <2>1. Cardinality(waiting \cup {g}) \in {Cardinality(waiting), Cardinality(waiting) + 1}
    BY <1>4, FS_AddElement
  <2> QED BY <1>1, <1>3, <1>5, <2>1
<1>7. Room(waiting)
  BY <1>1, <1>3, <1>4, <1>5, <1>6 DEF Room
<1>8. listed' \subseteq Functions /\ told' \subseteq Functions /\ gaveUp' \subseteq Functions
  BY <1>1 DEF IInv, TypeOK
<1>9. TypeOK
  BY DEF IInv
<1> QED BY <1>1, <1>2, <1>3, <1>7, <1>8, <1>9, NextInfoKeeps

\* The request of the head of the list is over: there is room for the next one.
LEMMA HeadLeaves ==
  ASSUME IInv, ValuesAssumption, conn # "closed", pending # << >>, dones' = dones
  PROVE  Room(waiting \ {Head(pending)})
<1>1. IsFiniteSet(waiting) /\ waiting \subseteq Functions /\ dones \in Nat
  BY Counter, FiniteWaiting
<1> DEFINE h == Head(pending)
           W == waiting \cup {h}
<1>2. IsFiniteSet(W) /\ Cardinality(W) <= dones
  BY <1>1, FS_AddElement DEF IInv, HeadCounted
<1>3. Cardinality(W) \in Nat
  BY <1>2, FS_CardinalityType
<1>4. waiting \ {h} \subseteq W
  OBVIOUS
<1> HIDE DEF h
<1>5. Cardinality(waiting \ {h}) <= dones
  BY <1>1, <1>2, <1>4, NotMore
<1>6. ASSUME NEW g \in Functions PROVE Cardinality((waiting \ {h}) \cup {g}) <= dones
  <2>1. IsFiniteSet((waiting \ {h}) \cup {g})
    <3>1. IsFiniteSet(waiting \ {h})
      BY <1>1, FS_Subset
    <3> QED BY <3>1, FS_AddElement
  <2>2. Cardinality((waiting \ {h}) \cup {g}) \in Nat
    BY <2>1, FS_CardinalityType
  <2>3. Cardinality((waiting \ {h}) \cup {g}) <= Cardinality(W)
    BY <1>1, Replaced
  <2> HIDE DEF W
  <2> QED BY <1>1, <1>2, <1>3, <2>2, <2>3
<1> QED BY <1>1, <1>5, <1>6 DEF Room, h

\* Information arrives, asked for or not.
LEMMA InfoReplyKeeps ==
  ASSUME IInv, ValuesAssumption, NEW f \in Functions, NEW w \in BOOLEAN, InfoReply(f, w)
  PROVE  IInv'
<1>1. /\ conn # "closed" /\ told' = told \cup {f} /\ GotInfo(f, w)
      /\ UNCHANGED <<values, gaveUp, listVars>>
  BY DEF InfoReply, Serving
<1>2. /\ TypeOK /\ told' \subseteq Functions /\ gaveUp' \subseteq Functions
      /\ listed' \subseteq Functions
      /\ dones' = dones /\ dones \in 0 .. MaxDones /\ MaxDones \in Nat
  BY <1>1 DEF IInv, TypeOK, listVars, ValuesAssumption
<1>3. CASE /\ setup = "INFO" /\ Head(pending) = f
           /\ NextInfo(Tail(pending), waiting \ {f}, setup, w, "spins")
  <2>1. pending # << >>
    BY <1>1, <1>3 DEF IInv, OneRequest
  <2>2. Tail(pending) \in Seq(Known)
    BY <1>2, <2>1, Behind
  <2>3. Room(waiting \ {f})
    BY <1>1, <1>2, <1>3, <2>1, HeadLeaves
  <2> QED BY <1>1, <1>2, <1>3, <2>2, <2>3, NextInfoKeeps
<1>4. CASE /\ setup = "INFO" => Head(pending) # f
           /\ waiting' = waiting \ {f} /\ ready' = FALSE
           /\ UNCHANGED <<main, conn, setup, pending, timer, bound>>
  <2>1. Known' = Known
    BY <1>1 DEF Known
  <2>2. TypeOK'
    BY <1>1, <1>2, <1>4, <2>1 DEF TypeOK
  <2>3. IsFiniteSet(waiting) /\ dones \in Nat
    BY Counter, FiniteWaiting
  <2>4. Cardinality(waiting') <= dones'
    BY <1>1, <1>2, <1>4, <2>3, NotMore DEF IInv, OneRequest
  <2>5. OneRequest'
    BY <1>1, <1>4, <2>4 DEF IInv, OneRequest
  <2>6. ASSUME pending # << >> PROVE Cardinality(waiting' \cup {Head(pending)}) <= dones'
    <3>1. IsFiniteSet(waiting \cup {Head(pending)})
      BY <2>3, FS_AddElement
    <3>2. waiting' \cup {Head(pending)} \subseteq waiting \cup {Head(pending)}
      BY <1>4
    <3>3. Cardinality(waiting \cup {Head(pending)}) <= dones
      BY <1>1, <2>6 DEF IInv, HeadCounted
    <3> QED BY <1>2, <2>3, <3>1, <3>2, <3>3, NotMore
  <2>7. HeadCounted' /\ Waits'
    BY <1>4, <2>6 DEF IInv, HeadCounted, Waits
  <2> QED BY <2>2, <2>5, <2>7 DEF IInv
<1> QED BY <1>1, <1>3, <1>4 DEF GotInfo

\* The request of the head of the list is given up, or a timer that was left
\* over finds nothing to give up.
LEMMA TimesOutKeeps ==
  ASSUME IInv, ValuesAssumption, NEW w \in BOOLEAN, TimesOut(w)
  PROVE  IInv'
<1>1. conn # "closed" /\ UNCHANGED <<values, told, listVars>>
  BY DEF TimesOut, Serving
<1>2. /\ TypeOK /\ told' \subseteq Functions /\ listed' \subseteq Functions
      /\ dones' = dones /\ dones \in 0 .. MaxDones /\ MaxDones \in Nat
  BY <1>1 DEF IInv, TypeOK, listVars, ValuesAssumption
<1>3. CASE /\ pending # << >> /\ gaveUp' = gaveUp \cup {Head(pending)}
           /\ NextInfo(Tail(pending), waiting \ {Head(pending)}, setup, w, "uses freed")
  <2>1. setup \in {"VALUES", "INFO"}
    BY <1>1, <1>2, <1>3 DEF IInv, Waits, TypeOK
  <2>2. Tail(pending) \in Seq(Known) /\ Head(pending) \in Functions
    BY <1>2, <1>3, Behind DEF TypeOK
  <2>3. gaveUp' \subseteq Functions
    BY <1>2, <1>3, <2>2 DEF TypeOK
  <2>4. Room(waiting \ {Head(pending)})
    BY <1>1, <1>2, <1>3, HeadLeaves
  <2> QED BY <1>1, <1>2, <1>3, <2>1, <2>2, <2>3, <2>4, NextInfoKeeps
<1>4. CASE /\ pending = << >> /\ timer' = "stale" /\ ready' = FALSE
           /\ UNCHANGED <<main, conn, setup, pending, waiting, gaveUp, bound>>
  <2>1. Known' = Known
    BY <1>1 DEF Known
  <2>2. TypeOK'
    BY <1>1, <1>2, <1>4, <2>1 DEF TypeOK
  <2> QED BY <1>1, <1>2, <1>4, <2>2 DEF IInv, Waits, OneRequest, HeadCounted
<1> QED BY <1>3, <1>4 DEF TimesOut

-----------------------------------------------------------------------------
(* Theorems.                                                               *)

\* IInv is an inductive invariant.
THEOREM Inductive == Spec => []IInv
<1>1. Init => IInv
  <2> SUFFICES ASSUME Init PROVE IInv
    OBVIOUS
  <2> USE ValuesAssumption
  <2>1. Known = {} /\ values \in [Known -> BOOLEAN] /\ pending \in Seq(Known)
    BY EmptySeq DEF Init, Known
  <2>2. Cardinality({}) = 0
    BY FS_EmptySet
  <2>3. TypeOK
    <3>1. 0 \in 0 .. MaxDones
      BY DEF ValuesAssumption
    <3> QED BY <2>1, <3>1 DEF Init, TypeOK
  <2> QED BY <2>2, <2>3 DEF Init, IInv, Waits, OneRequest, HeadCounted
<1>2. IInv /\ [Next]_vars => IInv'
  <2> SUFFICES ASSUME IInv, [Next]_vars PROVE IInv'
    OBVIOUS
  <2> USE ValuesAssumption
  <2>1. ASSUME NEW w \in SendOutcomes, Connected(w) PROVE IInv'
    <3>1. /\ conn # "closed" /\ setup' = "VALUES" /\ ready' = FALSE
          /\ UNCHANGED <<main, infoVars, listVars, bound>>
      BY <2>1 DEF Connected, Serving
    <3>2. CASE conn' = "open" /\ UNCHANGED <<values, pending, timer>>
      <4>1. TypeOK'
        BY <3>1, <3>2 DEF IInv, TypeOK, Known, infoVars, listVars
      <4> QED BY <3>1, <3>2, <4>1 DEF IInv, Waits, OneRequest, HeadCounted, infoVars, listVars
    <3>3. CASE conn' = "closed" /\ values' = << >> /\ pending' = << >> /\ timer' = "none"
      <4>1. Known' = {} /\ values' \in [Known' -> BOOLEAN] /\ pending' \in Seq(Known')
        BY <3>3, EmptySeq DEF Known
      <4>2. TypeOK'
        BY <3>1, <3>3, <4>1 DEF IInv, TypeOK, infoVars, listVars
      <4> QED BY <3>3, <4>2 DEF IInv, Waits, OneRequest, HeadCounted
    <3> QED BY <2>1, <3>2, <3>3 DEF Connected
  <2>2. CASE Closes
    <3>1. /\ conn' = "closed" /\ values' = << >> /\ pending' = << >> /\ timer' = "none"
          /\ ready' = FALSE /\ UNCHANGED <<main, setup, infoVars, listVars, bound>>
      BY <2>2 DEF Closes
    <3>2. Known' = {} /\ values' \in [Known' -> BOOLEAN] /\ pending' \in Seq(Known')
      BY <3>1, EmptySeq DEF Known
    <3>3. TypeOK'
      BY <3>1, <3>2 DEF IInv, TypeOK, infoVars, listVars
    <3> QED BY <3>1, <3>3 DEF IInv, Waits, OneRequest, HeadCounted
  <2>3. ASSUME NEW f \in Functions, NEW h \in BOOLEAN, ValueReply(f, h) PROVE IInv'
    BY <2>3, ValueReplyKeeps
  <2>4. ASSUME NEW w \in SendOutcomes, NEW s \in SetToAllKPermutations(Functions), AllDone(s, w)
        PROVE  IInv'
    <3>1. w \in BOOLEAN
      BY DEF ValuesAssumption
    <3> QED BY <2>4, <3>1, AllDoneKeeps
  <2>5. ASSUME NEW f \in Functions, NEW w \in SendOutcomes, InfoReply(f, w) PROVE IInv'
    <3>1. w \in BOOLEAN
      BY DEF ValuesAssumption
    <3> QED BY <2>5, <3>1, InfoReplyKeeps
  <2>6. ASSUME NEW w \in SendOutcomes, TimesOut(w) PROVE IInv'
    <3>1. w \in BOOLEAN
      BY DEF ValuesAssumption
    <3> QED BY <2>6, <3>1, TimesOutKeeps
  <2>7. CASE UNCHANGED vars
    BY <2>7 DEF vars, infoVars, listVars, IInv, TypeOK, Waits, OneRequest, HeadCounted, Known
  <2> QED BY <2>1, <2>2, <2>3, <2>4, <2>5, <2>6, <2>7 DEF Next, Ended
<1> QED BY <1>1, <1>2, ValuesAssumption, PTL DEF Spec

\* The variables keep their types; a function that waits is held by values.
THEOREM TypeCorrect == Spec => []TypeOK
<1>1. IInv => TypeOK
  BY DEF IInv
<1> QED BY <1>1, Inductive, PTL

\* While information is gathered the head of the list has been asked and its
\* timer runs, and no more requests are neither answered nor given up than
\* ALL_DONEs came: however late, often or unasked the answers come.
THEOREM OneRequestOnly == Spec => []OneRequest
<1>1. IInv => OneRequest
  BY DEF IInv
<1> QED BY <1>1, Inductive, PTL

-----------------------------------------------------------------------------
(* values-ready.                                                           *)

\* A function that has something to tell whenever it is listed.
AlwaysTells(f) == f \in Options \/ HasInfo[f] = {TRUE}

Flags == \A f \in Known : values[f] \in HasInfo[f]

\* What a list, and what has been told or given up, say of the functions listed.
Covers(list, functions, done) ==
  \A f \in functions : AlwaysTells(f) => f \in done \/ \E i \in DOMAIN list : list[i] = f

\* Nothing that was listed is forgotten: it has been told or given up, or it waits.
Gathering ==
  conn # "closed" => listed \subseteq Known /\ Covers(pending, listed, told \cup gaveUp)

ReadyInv == Flags /\ Gathering

\* What values-ready promises.
Complete ==
  ready' =>
    /\ pending # << >> \/ dones' > dones
    /\ \A f \in listed' : AlwaysTells(f) => f \in told' \cup gaveUp'

\* A function that always tells is never dropped from a list.
LEMMA NeverDropped ==
  ASSUME Flags, NEW f \in Known, AlwaysTells(f)
  PROVE  Wants(values, f)
BY DEF Flags, AlwaysTells, Wants

\* request_next_info forgets nothing of its list that always tells.
LEMMA NextInfoCovers ==
  ASSUME Flags, values' = values, listed' \subseteq Known,
         pending # << >> \/ dones' > dones,
         NEW list \in Seq(Known), NEW out, NEW s, NEW w \in BOOLEAN, NEW failed,
         NextInfo(list, out, s, w, failed),
         Covers(list, listed', told' \cup gaveUp')
  PROVE  ReadyInv' /\ Complete
<1>1. Flags' /\ Known' = Known
  BY DEF Flags, Known
<1>2. ASSUME NEW g, HeadOf(list, g) PROVE Covers(pending', listed', told' \cup gaveUp')
  <2>1. PICK i \in DOMAIN list : /\ \A j \in 1 .. i - 1 : ~Wants(values, list[j])
                                 /\ pending' = SubSeq(list, i, Len(list))
    BY <1>2 DEF HeadOf
  <2>2. Len(list) \in Nat /\ DOMAIN list = 1 .. Len(list) /\ i \in 1 .. Len(list)
    BY LenProperties
  <2>3. /\ DOMAIN pending' = 1 .. Len(list) - i + 1
        /\ \A k \in DOMAIN pending' : pending'[k] = list[i + k - 1]
    <3> DEFINE rest == pending'
    <3>1. rest = SubSeq(list, i, Len(list))
      BY <2>1
    <3> HIDE DEF rest
    <3>2. DOMAIN rest = 1 .. Len(list) - i + 1
      BY <3>1, EndOfList
    <3>3. \A k \in DOMAIN rest : rest[k] = list[i + k - 1]
      BY <3>1, EndOfList
    <3> QED BY <3>2, <3>3 DEF rest
  <2>4. ASSUME NEW f \in listed', AlwaysTells(f), NEW j \in DOMAIN list, list[j] = f
        PROVE  \E k \in DOMAIN pending' : pending'[k] = f
    <3>1. Wants(values, list[j])
      BY <2>4, NeverDropped
    <3>2. j >= i
      BY <2>1, <2>2, <3>1
    <3>3. j - i + 1 \in 1 .. Len(list) - i + 1 /\ i + (j - i + 1) - 1 = j
      BY <2>2, <3>2
    <3>4. j - i + 1 \in DOMAIN pending' /\ pending'[j - i + 1] = list[j]
      BY <2>3, <3>3
    <3> QED BY <2>4, <3>4
  <2> QED BY <2>4 DEF Covers
<1>3. CASE \E g : HeadOf(list, g) /\ ready' = FALSE
  <2>1. Covers(pending', listed', told' \cup gaveUp')
    BY <1>2, <1>3
  <2> QED BY <1>1, <1>3, <2>1 DEF ReadyInv, Gathering, Complete
<1>4. CASE Finished(list, out)
  <2>1. ASSUME NEW f \in listed', AlwaysTells(f) PROVE f \in told' \cup gaveUp'
    <3>1. Wants(values, f)
      BY <2>1, NeverDropped
    <3>2. \A i \in DOMAIN list : list[i] # f
      BY <1>4, <3>1 DEF Finished
    <3> QED BY <2>1, <3>2 DEF Covers
  <2>2. Covers(pending', listed', told' \cup gaveUp')
    BY <2>1 DEF Covers
  <2> QED BY <1>1, <2>1, <2>2 DEF ReadyInv, Gathering, Complete
<1> QED BY <1>3, <1>4 DEF NextInfo, Request, RequestFails

\* The head of the list has been told or given up: the rest covers the others.
LEMMA HeadDone ==
  ASSUME TypeOK, ReadyInv, conn # "closed", pending # << >>,
         NEW done, told \cup gaveUp \cup {Head(pending)} \subseteq done
  PROVE  Covers(Tail(pending), listed, done)
<1>1. pending \in Seq(Known) /\ pending # << >>
  BY DEF TypeOK
<1>2. /\ Len(pending) \in Nat /\ DOMAIN pending = 1 .. Len(pending)
      /\ Head(pending) = pending[1]
      /\ DOMAIN Tail(pending) = 1 .. Len(pending) - 1
      /\ \A i \in 1 .. Len(pending) - 1 : Tail(pending)[i] = pending[i + 1]
  BY <1>1, HeadTailProperties, LenProperties
<1>3. ASSUME NEW f \in listed, AlwaysTells(f), f \notin done
      PROVE  \E i \in DOMAIN Tail(pending) : Tail(pending)[i] = f
  <2>1. f \notin told \cup gaveUp /\ f # Head(pending)
    BY <1>3
  <2>2. PICK i \in DOMAIN pending : pending[i] = f
    BY <1>3, <2>1 DEF ReadyInv, Gathering, Covers
  <2>3. i - 1 \in 1 .. Len(pending) - 1 /\ (i - 1) + 1 = i
    BY <1>2, <2>1, <2>2
  <2>4. i - 1 \in DOMAIN Tail(pending) /\ Tail(pending)[i - 1] = f
    BY <1>2, <2>2, <2>3
  <2> QED BY <2>4
<1> QED BY <1>3 DEF Covers

\* The list begins with every function that was listed.
LEMMA AllDoneCovers ==
  ASSUME IInv, ReadyInv, ValuesAssumption, NEW w \in BOOLEAN,
         NEW list \in SetToAllKPermutations(Functions), AllDone(list, w)
  PROVE  ReadyInv' /\ Complete
<1>1. /\ Descending(list) /\ listed' = Known /\ dones' = dones + 1 /\ values' = values
      /\ NextInfo(list \o pending, waiting, "INFO", w, "spins")
  BY DEF AllDone
<1>2. TypeOK /\ dones \in Nat
  BY Counter DEF IInv
<1>3. list \o pending \in Seq(Known)
  BY <1>1, <1>2, AllFunctions
<1>4. \A f \in Known : \E i \in DOMAIN (list \o pending) : (list \o pending)[i] = f
  BY <1>1, <1>2, AllFunctions
<1>5. Covers(list \o pending, listed', told' \cup gaveUp')
  BY <1>1, <1>4 DEF Covers
<1>6. dones' > dones
  BY <1>1, <1>2
<1> QED BY <1>1, <1>3, <1>5, <1>6, NextInfoCovers DEF ReadyInv

\* Who leaves the list has been told.
LEMMA InfoReplyCovers ==
  ASSUME IInv, ReadyInv, NEW f \in Functions, NEW w \in BOOLEAN, InfoReply(f, w)
  PROVE  ReadyInv' /\ Complete
<1>1. /\ conn # "closed" /\ told' = told \cup {f} /\ TypeOK
      /\ GotInfo(f, w) /\ values' = values /\ gaveUp' = gaveUp /\ listed' = listed
  BY DEF InfoReply, Serving, listVars, IInv
<1>2. CASE /\ setup = "INFO" /\ Head(pending) = f
           /\ NextInfo(Tail(pending), waiting \ {f}, setup, w, "spins")
  <2>1. pending # << >>
    BY <1>1, <1>2 DEF IInv, OneRequest
  <2>2. Tail(pending) \in Seq(Known) /\ listed' \subseteq Known
    BY <1>1, <2>1, Behind DEF ReadyInv, Gathering
  <2>3. Covers(Tail(pending), listed, told' \cup gaveUp')
    BY <1>1, <1>2, <2>1, HeadDone
  <2> QED BY <1>1, <1>2, <2>1, <2>2, <2>3, NextInfoCovers DEF ReadyInv
<1>3. CASE ready' = FALSE /\ UNCHANGED <<conn, pending>>
  BY <1>1, <1>3 DEF ReadyInv, Flags, Gathering, Covers, Complete, Known
<1> QED BY <1>1, <1>2, <1>3 DEF GotInfo

\* Who leaves the list has been given up.
LEMMA TimesOutCovers ==
  ASSUME IInv, ReadyInv, NEW w \in BOOLEAN, TimesOut(w)
  PROVE  ReadyInv' /\ Complete
<1>1. conn # "closed" /\ values' = values /\ told' = told /\ listed' = listed /\ TypeOK
  BY DEF TimesOut, Serving, listVars, IInv
<1>2. CASE /\ pending # << >> /\ gaveUp' = gaveUp \cup {Head(pending)}
           /\ NextInfo(Tail(pending), waiting \ {Head(pending)}, setup, w, "uses freed")
  <2>1. Tail(pending) \in Seq(Known) /\ listed' \subseteq Known
    BY <1>1, <1>2, Behind DEF ReadyInv, Gathering
  <2>2. Covers(Tail(pending), listed, told' \cup gaveUp')
    BY <1>1, <1>2, HeadDone
  <2> QED BY <1>1, <1>2, <2>1, <2>2, NextInfoCovers DEF ReadyInv
<1>3. CASE ready' = FALSE /\ UNCHANGED <<conn, pending, gaveUp>>
  BY <1>1, <1>3 DEF ReadyInv, Flags, Gathering, Covers, Complete, Known
<1> QED BY <1>2, <1>3 DEF TimesOut

\* Each step keeps what was listed in sight, and emits values-ready only when
\* it is complete.
LEMMA StepCovers ==
  ASSUME IInv, ReadyInv, ValuesAssumption, Next
  PROVE  ReadyInv' /\ (Complete \/ UNCHANGED vars)
<1>0. SendOutcomes \subseteq BOOLEAN
  BY DEF ValuesAssumption
<1>1. ASSUME NEW w \in SendOutcomes, Connected(w) PROVE ReadyInv' /\ Complete
  <2>1. conn # "closed" /\ ready' = FALSE /\ UNCHANGED <<told, gaveUp, listed>>
    BY <1>1 DEF Connected, Serving, infoVars, listVars
  <2>2. CASE UNCHANGED <<values, pending>>
    BY <2>1, <2>2 DEF ReadyInv, Flags, Gathering, Covers, Complete, Known
  <2>3. CASE conn' = "closed" /\ values' = << >>
    BY <2>1, <2>3 DEF ReadyInv, Flags, Gathering, Complete, Known
  <2> QED BY <1>1, <2>2, <2>3 DEF Connected
<1>2. CASE Closes
  <2>1. conn' = "closed" /\ ready' = FALSE /\ Known' = {}
    BY <1>2 DEF Closes, Known
  <2> QED BY <2>1 DEF ReadyInv, Flags, Gathering, Complete
<1>3. ASSUME NEW f \in Functions, NEW h \in BOOLEAN, ValueReply(f, h) PROVE ReadyInv' /\ Complete
  <2>1. /\ h \in HasInfo[f] /\ ready' = FALSE
        /\ values' = [g \in Known \cup {f} |-> IF g = f THEN h ELSE values[g]]
        /\ UNCHANGED <<conn, setup, pending, told, gaveUp, listed>>
    BY <1>3 DEF ValueReply, infoVars, listVars
  <2>2. Known' = Known \cup {f} /\ \A g \in Known' : values'[g] = IF g = f THEN h ELSE values[g]
    BY <2>1 DEF Known
  <2>3. Flags'
    BY <2>1, <2>2 DEF ReadyInv, Flags
  <2> QED BY <2>1, <2>2, <2>3 DEF ReadyInv, Gathering, Covers, Complete
<1>4. ASSUME NEW w \in SendOutcomes, NEW s \in SetToAllKPermutations(Functions), AllDone(s, w)
      PROVE  ReadyInv' /\ Complete
  BY <1>0, <1>4, AllDoneCovers
<1>5. ASSUME NEW f \in Functions, NEW w \in SendOutcomes, InfoReply(f, w)
      PROVE  ReadyInv' /\ Complete
  BY <1>0, <1>5, InfoReplyCovers
<1>6. ASSUME NEW w \in SendOutcomes, TimesOut(w) PROVE ReadyInv' /\ Complete
  BY <1>0, <1>6, TimesOutCovers
<1>7. CASE Ended
  BY <1>7 DEF Ended, vars, infoVars, listVars, ReadyInv, Flags, Gathering, Covers, Known
<1> QED BY <1>1, <1>2, <1>3, <1>4, <1>5, <1>6, <1>7 DEF Next

\* values-ready is emitted once for what one ALL_DONE or several put on the list,
\* and not before every listed function that always has something to tell has
\* told it since or has been given up: for any device, with answers that come
\* late, twice, unasked or never, and new functions it indicates meanwhile.
THEOREM ReadyWhenComplete == Spec => ReadyComplete
<1>1. Init => ReadyInv
  BY DEF Init, ReadyInv, Flags, Gathering, Covers, Known
<1>2. IInv /\ ReadyInv /\ [Next]_vars => ReadyInv'
  <2>1. ASSUME ReadyInv, UNCHANGED vars PROVE ReadyInv'
    BY <2>1 DEF vars, infoVars, listVars, ReadyInv, Flags, Gathering, Covers, Known
  <2> QED BY <2>1, StepCovers, ValuesAssumption
<1>3. IInv /\ ReadyInv /\ [Next]_vars =>
        [ready' =>
           /\ pending # << >> \/ dones' > dones
           /\ \A f \in listed' : f \in Options \/ HasInfo[f] = {TRUE} => f \in told' \cup gaveUp']_vars
  BY StepCovers, ValuesAssumption DEF Complete, AlwaysTells
<1> QED BY <1>1, <1>2, <1>3, Inductive, PTL DEF Spec, ReadyComplete
=============================================================================
