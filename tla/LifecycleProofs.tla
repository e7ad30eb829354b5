---------------------------- MODULE LifecycleProofs ----------------------------
(***************************************************************************)
(* Connection and Lifecycle, for packets of any kinds and lengths, any     *)
(* buffer and any stream cut into reads in any way.                        *)
(*                                                                         *)
(* The invariant of the stream is stated of a sequence of bytes, Stream,   *)
(* so that what the device adds and what handle_data takes off are lemmas  *)
(* about sequences.  A step of Lifecycle is a step of Connection, or       *)
(* leaves its variables alone, so that what is proved of the one holds of  *)
(* the other.                                                              *)
(***************************************************************************)
EXTENDS Lifecycle, SequenceTheorems, FiniteSetTheorems, WellFoundedInduction, TLAPS

Bytes == Nat \X Nat

\* s is what is left of the packets ps after the first k.  The bytes are in
\* the order of their packets, which makes the rest inductive: what comes
\* after a packet that is taken off belongs to later ones.
Stream(s, k, ps) ==
  /\ ps \in Seq(PacketTypes) /\ s \in Seq(Bytes) /\ k \in 0 .. Len(ps)
  /\ s = << >> => k = Len(ps)
  /\ s # << >> => s[1] = <<k + 1, 1>> /\ s[Len(s)] = <<Len(ps), ps[Len(ps)].len>>
  /\ \A j \in 1 .. Len(s) - 1 :
       s[j + 1] = IF s[j][2] < ps[s[j][1]].len THEN <<s[j][1], s[j][2] + 1>>
                  ELSE <<s[j][1] + 1, 1>>
  /\ \A j \in 1 .. Len(s) : s[j][1] \in k + 1 .. Len(ps)
  /\ \A i, j \in 1 .. Len(s) : i < j => s[i][1] <= s[j][1]

\* The state of the connection and of its callbacks.
Control ==
  /\ main \in {"runs", "closing", "ends", "uses freed"}
  /\ conn \in {"connecting", "open", "failed", "closed"}
  /\ timer = (conn = "open")
  /\ reading \in BOOLEAN /\ handling \in BOOLEAN /\ ended \in BOOLEAN
  /\ conn = "open" => reading = ~handling
  /\ conn = "connecting" => ~reading /\ ~handling

Buffered ==
  /\ buffer \in Seq(Bytes) /\ net \in Seq(Bytes) /\ Len(buffer) <= BufferSize
  /\ Stream(buffer \o net, Len(handled), packets)

Handed ==
  /\ handled \in Seq(Seq(Bytes)) /\ replies \in Nat
  /\ \A p \in 1 .. Len(handled) : handled[p] = BytesOf(p)

\* The pings among the first k packets.
PingsUpTo(k) == {p \in 1 .. k : packets[p].kind = "ping"}

Counted ==
  conn \in {"connecting", "open"} => replies = Cardinality(PingsUpTo(Len(handled)))

IInv == Control /\ Buffered /\ Handed /\ Counted

-----------------------------------------------------------------------------
(* Sequences of bytes.                                                     *)

\* A set of numbers has a least one.
LEMMA Least == ASSUME NEW T, T \subseteq Nat, T # {} PROVE \E n \in T : \A m \in T : n <= m
<1>1. PICK n \in T : \A m \in T : <<m, n>> \notin OpToRel(<, Nat)
  BY WFMin, NatLessThanWellFounded, Zenon
<1>2. \A m \in T : ~(m < n)
  BY <1>1, Zenon DEF OpToRel
<1> QED BY <1>2

\* A sequence cut after the first n.
LEMMA Cut ==
  ASSUME NEW S, NEW s \in Seq(S), NEW n \in 0 .. Len(s)
  PROVE  /\ SubSeq(s, 1, n) \in Seq(S) /\ Len(SubSeq(s, 1, n)) = n
         /\ \A i \in 1 .. n : SubSeq(s, 1, n)[i] = s[i]
         /\ SubSeq(s, n + 1, Len(s)) \in Seq(S)
         /\ Len(SubSeq(s, n + 1, Len(s))) = Len(s) - n
         /\ \A i \in 1 .. Len(s) - n : SubSeq(s, n + 1, Len(s))[i] = s[n + i]
<1> DEFINE front == SubSeq(s, 1, n)
           back == SubSeq(s, n + 1, Len(s))
<1>1. Len(s) \in Nat
  BY LenProperties
<1>2. front \in Seq(S) /\ Len(front) = n /\ \A i \in 1 .. n : front[i] = s[i]
  <2>1. \A i \in 1 .. n : s[i] \in S
    BY <1>1, ElementOfSeq
  <2>2. \A i \in 1 .. n - 1 + 1 : front[i] = s[1 + i - 1]
    BY <2>1, <1>1, SubSeqProperties
  <2>3. front \in Seq(S) /\ Len(front) = IF 1 <= n THEN n - 1 + 1 ELSE 0
    BY <2>1, <1>1, SubSeqProperties
  <2> HIDE DEF front
  <2>4. n - 1 + 1 = n /\ (\A i \in 1 .. n : 1 + i - 1 = i) /\ (~(1 <= n) => n = 0)
    BY <1>1
  <2> QED BY <2>2, <2>3, <2>4
<1>3. back \in Seq(S) /\ Len(back) = Len(s) - n /\ \A i \in 1 .. Len(s) - n : back[i] = s[n + i]
  <2>1. \A i \in n + 1 .. Len(s) : s[i] \in S
    BY <1>1, ElementOfSeq
  <2>2. \A i \in 1 .. Len(s) - (n + 1) + 1 : back[i] = s[(n + 1) + i - 1]
    BY <2>1, <1>1, SubSeqProperties
  <2>3. back \in Seq(S) /\ Len(back) = IF n + 1 <= Len(s) THEN Len(s) - (n + 1) + 1 ELSE 0
    BY <2>1, <1>1, SubSeqProperties
  <2> HIDE DEF back
  <2>4. /\ Len(s) - (n + 1) + 1 = Len(s) - n
        /\ \A i \in 1 .. Len(s) - n : (n + 1) + i - 1 = n + i
        /\ ~(n + 1 <= Len(s)) => Len(s) - n = 0
    BY <1>1
  <2> QED BY <2>2, <2>3, <2>4
<1> QED BY <1>2, <1>3

\* A packet is at least a header.
LEMMA PacketLength ==
  ASSUME ConnectionAssumption, NEW ps \in Seq(PacketTypes), NEW p \in 1 .. Len(ps)
  PROVE  ps[p] \in PacketTypes /\ ps[p].len \in Nat /\ ps[p].len >= HeaderSize /\ ps[p].len >= 1
<1>1. ps[p] \in PacketTypes
  BY ElementOfSeq
<1> QED BY <1>1 DEF ConnectionAssumption

\* What is left begins with the bytes of the next packet, as far as it goes.
LEMMA NextPacket ==
  ASSUME ConnectionAssumption, NEW s, NEW k, NEW ps, Stream(s, k, ps), s # << >>
  PROVE  /\ k + 1 \in 1 .. Len(ps)
         /\ \A j \in 1 .. Len(s) : j <= ps[k + 1].len => s[j] = <<k + 1, j>>
<1>1. Len(ps) \in Nat /\ Len(s) \in Nat /\ Len(s) >= 1 /\ k \in Nat
  BY LenProperties, EmptySeq DEF Stream
<1>2. k + 1 \in 1 .. Len(ps)
  <2>1. s[1] = <<k + 1, 1>> /\ s[1][1] \in k + 1 .. Len(ps)
    BY <1>1 DEF Stream
  <2> QED BY <2>1, <1>1
<1> DEFINE len == ps[k + 1].len
           Bad == {j \in 1 .. Len(s) : j <= len /\ s[j] # <<k + 1, j>>}
<1>3. len \in Nat /\ len >= 1
  BY <1>2, PacketLength DEF Stream
<1>4. ASSUME Bad # {} PROVE FALSE
  <2>1. Bad \subseteq Nat
    BY <1>1
  <2>2. PICK n \in Bad : \A m \in Bad : n <= m
    BY <2>1, <1>4, Least
  <2>3. n \in 1 .. Len(s) /\ n <= len /\ s[n] # <<k + 1, n>>
    BY <2>2
  <2>4. n # 1
    BY <2>3, <1>1 DEF Stream
  <2>5. n - 1 \in 1 .. Len(s) - 1 /\ n - 1 <= len /\ n - 1 \in 1 .. Len(s) /\ n - 1 < n
    BY <2>3, <2>4, <1>1, <1>3
  <2>6. n - 1 \notin Bad
    BY <2>2, <2>3, <2>5, <1>1
  <2>7. s[n - 1] = <<k + 1, n - 1>>
    BY <2>5, <2>6
  <2>8. s[n - 1][1] = k + 1 /\ s[n - 1][2] = n - 1
    BY <2>7
  <2>9. n - 1 < len /\ (n - 1) + 1 = n
    BY <2>3, <1>1, <1>3
  <2>10. s[(n - 1) + 1] = <<k + 1, (n - 1) + 1>>
    BY <2>5, <2>8, <2>9 DEF Stream
  <2> QED BY <2>10, <2>9, <2>3
<1> QED BY <1>2, <1>4

\* What the device sends comes behind what is there.
LEMMA StreamGrows ==
  ASSUME ConnectionAssumption, NEW s, NEW k, NEW ps, Stream(s, k, ps), NEW t \in PacketTypes
  PROVE  Stream(s \o [i \in 1 .. t.len |-> <<Len(ps) + 1, i>>], k, Append(ps, t))
<1> DEFINE n == Len(s)
           p == Len(ps)
           new == [i \in 1 .. t.len |-> <<p + 1, i>>]
           u == s \o new
           qs == Append(ps, t)
<1>1. n \in Nat /\ p \in Nat /\ k \in Nat /\ k <= p /\ s \in Seq(Bytes) /\ ps \in Seq(PacketTypes)
  BY LenProperties DEF Stream
<1>2. t.len \in Nat /\ t.len >= 1
  BY DEF ConnectionAssumption
<1>3. new \in Seq(Bytes) /\ Len(new) = t.len /\ \A i \in 1 .. t.len : new[i] = <<p + 1, i>>
  <2>1. \A i \in 1 .. t.len : <<p + 1, i>> \in Bytes
    BY <1>1, <1>2 DEF Bytes
  <2>2. new \in [1 .. t.len -> Bytes] /\ DOMAIN new = 1 .. t.len /\ \A i \in 1 .. t.len : new[i] = <<p + 1, i>>
    BY <2>1, Zenon
  <2> HIDE DEF new
  <2>3. new \in Seq(Bytes)
    BY <2>2, <1>2, SeqDef
  <2> QED BY <2>2, <2>3, <1>2, LenProperties
<1>4. /\ u \in Seq(Bytes) /\ Len(u) = n + t.len
      /\ \A i \in 1 .. n : u[i] = s[i]
      /\ \A i \in n + 1 .. n + t.len : u[i] = <<p + 1, i - n>>
  <2> HIDE DEF new
  <2>1. /\ u \in Seq(Bytes) /\ Len(u) = n + Len(new)
        /\ \A i \in 1 .. n + Len(new) : u[i] = IF i <= n THEN s[i] ELSE new[i - n]
    BY <1>1, <1>3, ConcatProperties, Zenon
  <2> HIDE DEF u, n, p
  <2>2. Len(u) = n + t.len /\ \A i \in 1 .. n + t.len : u[i] = IF i <= n THEN s[i] ELSE new[i - n]
    BY <2>1, <1>3
  <2>3. \A i \in n + 1 .. n + t.len : i - n \in 1 .. t.len /\ i \in 1 .. n + t.len /\ ~(i <= n)
    BY <1>1, <1>2
  <2>4. \A i \in 1 .. n : i \in 1 .. n + t.len /\ i <= n
    BY <1>1, <1>2
  <2>5. \A i \in n + 1 .. n + t.len : u[i] = <<p + 1, i - n>>
    BY <2>2, <2>3, <1>3
  <2>6. \A i \in 1 .. n : u[i] = s[i]
    BY <2>2, <2>4
  <2> QED BY <2>1, <2>2, <2>5, <2>6
<1>5. /\ qs \in Seq(PacketTypes) /\ Len(qs) = p + 1
      /\ \A i \in 1 .. p : qs[i] = ps[i]
      /\ qs[p + 1] = t
  BY <1>1, AppendProperties
<1>6. Stream(s, k, ps) /\ n = Len(s) /\ p = Len(ps)
  OBVIOUS
<1> HIDE DEF new, u, qs, n, p
<1>7. \A j \in 1 .. n : s[j] \in Bytes /\ s[j][1] \in k + 1 .. p /\ s[j][1] \in 1 .. p
  <2> TAKE j \in 1 .. n
  <2>1. s[j] \in Bytes
    BY <1>1, <1>6, ElementOfSeq
  <2>2. s[j][1] \in k + 1 .. p
    BY <1>6 DEF Stream
  <2> QED BY <2>1, <2>2, <1>1
<1>8. u # << >> /\ u[1] = <<k + 1, 1>>
  <2>1. u # << >>
    BY <1>1, <1>2, <1>4, EmptySeq
  <2>2. CASE s = << >>
    <3>1. n = 0 /\ k = p
      BY <2>2, <1>6, EmptySeq DEF Stream
    <3>2. 1 \in n + 1 .. n + t.len /\ 1 - n = 1 /\ p + 1 = k + 1
      BY <3>1, <1>1, <1>2
    <3> QED BY <3>2, <2>1, <1>4
  <2>3. CASE s # << >>
    <3>1. 1 \in 1 .. n
      BY <2>3, <1>1, <1>6, EmptySeq
    <3> QED BY <3>1, <2>3, <2>1, <1>4, <1>6 DEF Stream
  <2> QED BY <2>2, <2>3
<1>9. u[Len(u)] = <<Len(qs), qs[Len(qs)].len>>
  <2>1. n + t.len \in n + 1 .. n + t.len /\ (n + t.len) - n = t.len
    BY <1>1, <1>2
  <2>2. u[n + t.len] = <<p + 1, t.len>>
    BY <2>1, <1>4
  <2> QED BY <2>2, <1>4, <1>5
<1>10. ASSUME NEW j \in 1 .. Len(u) - 1
      PROVE  u[j + 1] = IF u[j][2] < qs[u[j][1]].len THEN <<u[j][1], u[j][2] + 1>>
                        ELSE <<u[j][1] + 1, 1>>
  <2>1. CASE j < n
    <3>1. j \in 1 .. n - 1 /\ j \in 1 .. n /\ j + 1 \in 1 .. n
      BY <2>1, <1>1
    <3>2. u[j] = s[j] /\ u[j + 1] = s[j + 1] /\ qs[s[j][1]] = ps[s[j][1]]
      BY <3>1, <1>4, <1>5, <1>7
    <3> QED BY <3>1, <3>2, <1>6 DEF Stream
  <2>2. CASE j = n
    <3>1. n \in 1 .. n /\ n >= 1 /\ s # << >>
      BY <2>2, <1>1, <1>6, EmptySeq
    <3>2. u[j] = s[n] /\ s[n] = <<p, ps[p].len>>
      BY <3>1, <2>2, <1>4, <1>6 DEF Stream
    <3>3. s[n][1] \in 1 .. p /\ s[n][1] = p
      BY <3>1, <3>2, <1>7
    <3>4. qs[p] = ps[p] /\ p \in 1 .. p
      BY <3>3, <1>5
    <3>5. ps[p].len \in Nat
      BY <3>4, <1>1, <1>6, PacketLength
    <3>6. ~(u[j][2] < qs[u[j][1]].len) /\ u[j][1] = p
      BY <3>2, <3>4, <3>5
    <3>7. n + 1 \in n + 1 .. n + t.len /\ (n + 1) - n = 1
      BY <1>1, <1>2
    <3>8. u[j + 1] = <<p + 1, 1>>
      BY <3>7, <2>2, <1>4
    <3> QED BY <3>6, <3>8
  <2>3. CASE j > n
    <3>1. j \in n + 1 .. n + t.len /\ j + 1 \in n + 1 .. n + t.len /\ j - n < t.len
      BY <2>3, <1>1, <1>2, <1>4
    <3>2. u[j] = <<p + 1, j - n>> /\ u[j + 1] = <<p + 1, (j + 1) - n>>
      BY <3>1, <1>4
    <3>3. (j + 1) - n = (j - n) + 1
      BY <3>1, <1>1
    <3>4. u[j][1] = p + 1 /\ u[j][2] = j - n /\ qs[u[j][1]].len = t.len
      BY <3>2, <1>5
    <3> QED BY <3>1, <3>2, <3>3, <3>4
  <2>4. j \in Int
    BY <1>1, <1>2, <1>4
  <2> QED BY <2>1, <2>2, <2>3, <2>4, <1>1
<1>11. \A j \in 1 .. Len(u) : u[j][1] \in k + 1 .. p + 1
  <2> TAKE j \in 1 .. Len(u)
  <2>1. CASE j \in 1 .. n
    <3>1. u[j] = s[j] /\ s[j][1] \in k + 1 .. p
      BY <2>1, <1>4, <1>7
    <3> QED BY <3>1, <1>1
  <2>2. CASE j \in n + 1 .. n + t.len
    <3>1. u[j] = <<p + 1, j - n>>
      BY <2>2, <1>4
    <3> QED BY <3>1, <1>1
  <2> QED BY <2>1, <2>2, <1>1, <1>2, <1>4
<1>12. ASSUME NEW i \in 1 .. Len(u), NEW j \in 1 .. Len(u), i < j
       PROVE  u[i][1] <= u[j][1]
  <2>1. CASE j \in 1 .. n
    <3>1. i \in 1 .. n
      BY <2>1, <1>12, <1>1, <1>2, <1>4
    <3> QED BY <3>1, <2>1, <1>12, <1>4, <1>6 DEF Stream
  <2>2. CASE j \in n + 1 .. n + t.len
    <3>1. u[j] = <<p + 1, j - n>> /\ u[i][1] \in k + 1 .. p + 1
      BY <2>2, <1>4, <1>11
    <3> QED BY <3>1, <1>1
  <2> QED BY <2>1, <2>2, <1>1, <1>2, <1>4
<1>13. k \in 0 .. Len(qs) /\ Len(qs) = p + 1
  BY <1>1, <1>5
<1>14. Stream(u, k, qs)
  BY <1>4, <1>5, <1>8, <1>9, <1>10, <1>11, <1>12, <1>13 DEF Stream
<1> QED BY <1>14 DEF u, new, qs, n, p

\* A packet that is there can be taken off.
LEMMA StreamTaken ==
  ASSUME ConnectionAssumption, NEW s, NEW k, NEW ps, Stream(s, k, ps), s # << >>,
         ps[k + 1].len <= Len(s)
  PROVE  Stream(SubSeq(s, ps[k + 1].len + 1, Len(s)), k + 1, ps)
<1> DEFINE n == Len(s)
           len == ps[k + 1].len
           u == SubSeq(s, len + 1, n)
<1>1. n \in Nat /\ k \in Nat /\ s \in Seq(Bytes) /\ ps \in Seq(PacketTypes) /\ Len(ps) \in Nat
  BY LenProperties DEF Stream
<1>2. k + 1 \in 1 .. Len(ps) /\ \A j \in 1 .. n : j <= len => s[j] = <<k + 1, j>>
  BY NextPacket
<1>3. len \in Nat /\ len >= 1 /\ len <= n
  BY <1>1, <1>2, PacketLength
<1>4. s[len] = <<k + 1, len>> /\ len \in 1 .. n
  BY <1>1, <1>2, <1>3
<1> HIDE DEF len
<1>5. u \in Seq(Bytes) /\ Len(u) = n - len /\ \A i \in 1 .. Len(u) : u[i] = s[i + len]
  <2>1. len \in 0 .. Len(s)
    BY <1>1, <1>3
  <2>2. /\ u \in Seq(Bytes) /\ Len(u) = n - len
        /\ \A i \in 1 .. n - len : u[i] = s[len + i]
    BY <2>1, <1>1, Cut
  <2> HIDE DEF u
  <2>3. \A i \in 1 .. n - len : len + i = i + len
    BY <1>1, <1>3
  <2> QED BY <2>2, <2>3
<1> HIDE DEF u
<1>6. \A i \in 1 .. Len(u) : i + len \in 1 .. n
  BY <1>1, <1>3, <1>5
<1>7. ASSUME len < n
      PROVE  s[len + 1] = <<k + 2, 1>>
  <2>1. len \in 1 .. n - 1
    BY <1>7, <1>1, <1>3
  <2>2. s[len][1] = k + 1 /\ s[len][2] = len /\ ~(len < ps[k + 1].len) /\ (k + 1) + 1 = k + 2
    BY <1>4, <1>1, <1>3 DEF len
  <2> QED BY <2>1, <2>2 DEF Stream
<1>8. u = << >> => k + 1 = Len(ps)
  <2> HAVE u = << >>
  <2>1. n = len
    BY <1>5, <1>1, <1>3, EmptySeq
  <2>2. s[n] = <<Len(ps), ps[Len(ps)].len>>
    BY DEF Stream
  <2> QED BY <2>1, <2>2, <1>4
<1>9. u # << >> => u[1] = <<(k + 1) + 1, 1>> /\ u[Len(u)] = <<Len(ps), ps[Len(ps)].len>>
  <2> HAVE u # << >>
  <2>1. len < n /\ 1 \in 1 .. Len(u) /\ Len(u) \in 1 .. Len(u)
    BY <1>5, <1>1, <1>3, EmptySeq
  <2>2. u[1] = s[1 + len] /\ u[Len(u)] = s[Len(u) + len]
    BY <2>1, <1>5
  <2>3. Len(u) + len = n /\ 1 + len = len + 1 /\ (k + 1) + 1 = k + 2
    BY <1>5, <1>1, <1>3
  <2> QED BY <2>1, <2>2, <2>3, <1>7 DEF Stream
<1>10. ASSUME NEW j \in 1 .. Len(u) - 1
       PROVE  u[j + 1] = IF u[j][2] < ps[u[j][1]].len THEN <<u[j][1], u[j][2] + 1>>
                         ELSE <<u[j][1] + 1, 1>>
  <2>1. j + len \in 1 .. n - 1 /\ (j + len) + 1 = (j + 1) + len /\ j \in 1 .. Len(u) /\ j + 1 \in 1 .. Len(u)
    BY <1>5, <1>1, <1>3
  <2>2. u[j] = s[j + len] /\ u[j + 1] = s[(j + len) + 1]
    BY <2>1, <1>5
  <2> QED BY <2>1, <2>2 DEF Stream
<1>11. \A j \in 1 .. Len(u) : u[j][1] \in (k + 1) + 1 .. Len(ps)
  <2> TAKE j \in 1 .. Len(u)
  <2>1. j + len \in 1 .. n /\ len + 1 \in 1 .. n /\ len < n /\ len + 1 <= j + len
    BY <1>5, <1>1, <1>3
  <2>2. u[j] = s[j + len] /\ s[j + len] \in Bytes /\ s[j + len][1] \in k + 1 .. Len(ps)
    BY <2>1, <1>5, <1>1, ElementOfSeq DEF Stream
  <2>3. s[len + 1][1] = k + 2
    BY <2>1, <1>7
  <2>4. s[len + 1][1] <= s[j + len][1]
    <3>1. CASE len + 1 = j + len
      BY <3>1, <2>3, <1>1
    <3>2. CASE len + 1 < j + len
      BY <3>2, <2>1 DEF Stream
    <3> QED BY <3>1, <3>2, <2>1, <1>1, <1>3
  <2> QED BY <2>2, <2>3, <2>4, <1>1
<1>12. \A i, j \in 1 .. Len(u) : i < j => u[i][1] <= u[j][1]
  <2> TAKE i, j \in 1 .. Len(u)
  <2> HAVE i < j
  <2>1. i + len \in 1 .. n /\ j + len \in 1 .. n /\ i + len < j + len
    BY <1>6, <1>5, <1>1, <1>3
  <2> QED BY <2>1, <1>5 DEF Stream
<1>13. k + 1 \in 0 .. Len(ps)
  BY <1>1, <1>2
<1>14. Stream(u, k + 1, ps)
  BY <1>1, <1>5, <1>8, <1>9, <1>10, <1>11, <1>12, <1>13 DEF Stream
<1> QED BY <1>14 DEF u, len

\* A read that moves bytes from the stream to the buffer leaves the two together
\* as they were.
LEMMA BytesAssociative ==
  \A a, b, c \in Seq(Bytes) : (a \o b) \o c = a \o (b \o c)
  BY ConcatAssociative

-----------------------------------------------------------------------------
(* Connection.                                                             *)

\* The next packet, when handle_data finds it complete, is the one whose
\* length is in the buffer.
LEMMA NextComplete ==
  ASSUME ConnectionAssumption, IInv, Complete
  PROVE  LET k == Len(handled) + 1
         IN /\ k \in 1 .. Len(packets) /\ buffer # << >>
            /\ Length = packets[k].len /\ Length \in 1 .. Len(buffer)
            /\ \A j \in 1 .. Length : buffer[j] = <<k, j>>
<1> DEFINE rest == buffer \o net
           k == Len(handled) + 1
<1>1. /\ HeaderSize \in Nat /\ HeaderSize >= 1 /\ Len(buffer) >= HeaderSize
      /\ buffer \in Seq(Bytes) /\ net \in Seq(Bytes)
      /\ Len(buffer) \in Nat /\ Len(net) \in Nat /\ Len(handled) \in Nat
  BY LenProperties DEF ConnectionAssumption, IInv, Buffered, Handed, Complete
<1>2. /\ rest \in Seq(Bytes) /\ Len(rest) = Len(buffer) + Len(net)
      /\ \A j \in 1 .. Len(buffer) + Len(net) :
           rest[j] = IF j <= Len(buffer) THEN buffer[j] ELSE net[j - Len(buffer)]
  BY <1>1, ConcatProperties, Zenon
<1>3. Stream(rest, Len(handled), packets)
  BY DEF IInv, Buffered
<1> HIDE DEF rest
<1>4. \A j \in 1 .. Len(buffer) : j \in 1 .. Len(rest) /\ rest[j] = buffer[j]
  BY <1>1, <1>2
<1>5. buffer # << >> /\ rest # << >>
  BY <1>1, <1>2, EmptySeq
<1>6. /\ k \in 1 .. Len(packets)
      /\ \A j \in 1 .. Len(rest) : j <= packets[k].len => rest[j] = <<k, j>>
  BY <1>3, <1>5, NextPacket
<1>7. packets[k].len \in Nat /\ packets[k].len >= HeaderSize
  BY <1>3, <1>6, PacketLength DEF Stream
<1>8. buffer[HeaderSize] = <<k, HeaderSize>>
  <2>1. HeaderSize \in 1 .. Len(buffer)
    BY <1>1
  <2> QED BY <2>1, <1>4, <1>6, <1>7
<1>9. Length = packets[k].len
  BY <1>8 DEF Length
<1>10. Length \in 1 .. Len(buffer)
  BY <1>1, <1>7, <1>9 DEF Complete
<1>11. \A j \in 1 .. Length : buffer[j] = <<k, j>>
  <2> TAKE j \in 1 .. Length
  <2>1. j \in 1 .. Len(buffer) /\ j <= packets[k].len
    BY <1>1, <1>9, <1>10
  <2> QED BY <2>1, <1>4, <1>6
<1> QED BY <1>5, <1>6, <1>9, <1>10, <1>11

\* A step that moves no byte.
LEMMA Unread ==
  ASSUME IInv, UNCHANGED <<packets, net, buffer, handled, replies>>,
         conn' \in {"connecting", "open"} => conn \in {"connecting", "open"}
  PROVE  Buffered' /\ Handed' /\ Counted'
<1>1. Buffered'
  BY DEF IInv, Buffered
<1>2. Handed'
  BY DEF IInv, Handed, BytesOf
<1>3. PingsUpTo(Len(handled))' = PingsUpTo(Len(handled))
  BY DEF PingsUpTo
<1>4. Counted'
  BY <1>3 DEF IInv, Counted
<1> QED BY <1>1, <1>2, <1>4

\* The device sends another packet.
LEMMA SendsKeeps ==
  ASSUME ConnectionAssumption, IInv, NEW t \in PacketTypes, Sends(t)
  PROVE  IInv'
<1> DEFINE new == [i \in 1 .. t.len |-> <<Len(packets) + 1, i>>]
           k == Len(handled)
<1>1. Control'
  BY DEF Sends, IInv, Control
<1>2. Stream(buffer \o net, k, packets) /\ buffer \in Seq(Bytes) /\ net \in Seq(Bytes)
  BY DEF IInv, Buffered
<1>3. packets \in Seq(PacketTypes) /\ Len(packets) \in Nat /\ k \in Nat /\ k <= Len(packets)
  BY <1>2, LenProperties DEF Stream
<1>4. /\ Len(packets') = Len(packets) + 1
      /\ \A p \in 1 .. Len(packets) : packets'[p] = packets[p]
  BY <1>3, AppendProperties DEF Sends
<1>5. new \in Seq(Bytes)
  <2>1. t.len \in Nat
    BY DEF ConnectionAssumption
  <2>2. \A i \in 1 .. t.len : <<Len(packets) + 1, i>> \in Bytes
    BY <1>3, <2>1 DEF Bytes
  <2>3. new \in [1 .. t.len -> Bytes]
    BY <2>2, Zenon
  <2> QED BY <2>1, <2>3, SeqDef
<1>6. Stream((buffer \o net) \o new, k, packets')
  BY <1>2, StreamGrows DEF Sends
<1>7. net' = net \o new /\ buffer' = buffer /\ handled' = handled
  BY DEF Sends
<1> HIDE DEF new
<1>8. Buffered'
  <2>1. Stream((buffer \o net) \o new, k, packets')
    BY <1>6
  <2>2. (buffer \o net) \o new = buffer \o (net \o new)
    BY <1>2, <1>5, BytesAssociative
  <2>3. net' = net \o new /\ buffer' = buffer /\ handled' = handled
    BY <1>7
  <2>4. net' \in Seq(Bytes)
    BY <2>3, <1>2, <1>5, ConcatProperties
  <2> QED BY <2>1, <2>2, <2>3, <2>4 DEF IInv, Buffered
<1>9. Handed'
  <2>1. \A p \in 1 .. k : packets'[p] = packets[p]
    BY <1>3, <1>4
  <2> QED BY <2>1 DEF IInv, Handed, BytesOf, Sends
<1>10. Counted'
  <2>1. \A p \in 1 .. k : packets'[p] = packets[p]
    BY <1>3, <1>4
  <2>2. PingsUpTo(k)' = PingsUpTo(k)
    BY <2>1 DEF PingsUpTo, Sends
  <2> QED BY <2>2 DEF IInv, Counted, Sends
<1> QED BY <1>1, <1>8, <1>9, <1>10 DEF IInv

\* A read moves bytes from the stream to the buffer.
LEMMA ReadSomeKeeps ==
  ASSUME ConnectionAssumption, IInv, NEW n \in 1 .. BufferSize, ReadSome(n)
  PROVE  IInv'
<1>1. Control'
  BY DEF ReadSome, ReadCompletes, IInv, Control, deviceVars
<1>2. /\ net \in Seq(Bytes) /\ buffer \in Seq(Bytes)
      /\ Len(net) \in Nat /\ Len(buffer) \in Nat /\ BufferSize \in Nat
      /\ n \in 1 .. Len(net) /\ n <= BufferSize - Len(buffer)
  BY LenProperties DEF IInv, Buffered, ReadSome, ConnectionAssumption
<1>3. /\ buffer' = buffer \o SubSeq(net, 1, n) /\ net' = SubSeq(net, n + 1, Len(net))
      /\ UNCHANGED <<packets, handled, replies, conn>>
  BY DEF ReadSome, Store, deviceVars
<1> DEFINE front == SubSeq(net, 1, n)
           back == SubSeq(net, n + 1, Len(net))
<1>4. front \in Seq(Bytes) /\ Len(front) = n /\ \A i \in 1 .. n : front[i] = net[i]
  BY <1>2, Cut
<1>5. back \in Seq(Bytes) /\ Len(back) = Len(net) - n /\ \A i \in 1 .. Len(net) - n : back[i] = net[n + i]
  BY <1>2, Cut
<1> HIDE DEF front, back
<1>6. front \o back = net
  <2>1. /\ front \o back \in Seq(Bytes) /\ Len(front \o back) = Len(front) + Len(back)
        /\ \A i \in 1 .. Len(front) + Len(back) :
             (front \o back)[i] = IF i <= Len(front) THEN front[i] ELSE back[i - Len(front)]
    BY <1>4, <1>5, ConcatProperties, Zenon
  <2>2. /\ front \o back \in Seq(Bytes) /\ Len(front \o back) = n + (Len(net) - n)
        /\ \A i \in 1 .. n + (Len(net) - n) :
             (front \o back)[i] = IF i <= n THEN front[i] ELSE back[i - n]
    BY <2>1, <1>4, <1>5, Zenon
  <2>3. n + (Len(net) - n) = Len(net)
    BY <1>2
  <2>4. ASSUME NEW i \in 1 .. Len(net) PROVE (front \o back)[i] = net[i]
    <3>1. CASE i <= n
      <4>1. i \in 1 .. n
        BY <3>1, <1>2
      <4> QED BY <4>1, <3>1, <2>2, <2>3, <1>4
    <3>2. CASE ~(i <= n)
      <4>1. i - n \in 1 .. Len(net) - n /\ n + (i - n) = i
        BY <3>2, <1>2
      <4> QED BY <4>1, <3>2, <2>2, <2>3, <1>5
    <3> QED BY <3>1, <3>2
  <2> QED BY <2>2, <2>3, <2>4, <1>2, SeqEqual
<1>7. buffer' \o net' = buffer \o net
  <2>1. (buffer \o front) \o back = buffer \o (front \o back)
    BY <1>2, <1>4, <1>5, BytesAssociative
  <2> QED BY <2>1, <1>3, <1>6 DEF front, back
<1>8. buffer' \in Seq(Bytes) /\ Len(buffer') = Len(buffer) + n
  <2>1. buffer' = buffer \o front
    BY <1>3 DEF front
  <2>2. buffer \o front \in Seq(Bytes) /\ Len(buffer \o front) = Len(buffer) + Len(front)
    BY <1>2, <1>4, ConcatProperties
  <2> QED BY <2>1, <2>2, <1>4
<1>9. Buffered'
  <2>1. Len(buffer') <= BufferSize
    BY <1>2, <1>8
  <2>2. net' \in Seq(Bytes)
    BY <1>3, <1>5 DEF back
  <2> QED BY <1>7, <1>8, <2>1, <2>2, <1>3 DEF IInv, Buffered
<1>10. Handed'
  BY <1>3 DEF IInv, Handed, BytesOf
<1>11. Counted'
  <2>1. PingsUpTo(Len(handled))' = PingsUpTo(Len(handled))
    BY <1>3 DEF PingsUpTo
  <2> QED BY <2>1, <1>3 DEF IInv, Counted
<1> QED BY <1>1, <1>9, <1>10, <1>11 DEF IInv

\* Taking bytes off the buffer takes them off the stream.
LEMMA TakenOff ==
  ASSUME NEW a \in Seq(Bytes), NEW b \in Seq(Bytes), NEW l \in 1 .. Len(a)
  PROVE  /\ SubSeq(a, l + 1, Len(a)) \in Seq(Bytes)
         /\ Len(SubSeq(a, l + 1, Len(a))) <= Len(a)
         /\ SubSeq(a, l + 1, Len(a)) \o b = SubSeq(a \o b, l + 1, Len(a \o b))
<1> DEFINE n == Len(a)
           m == Len(b)
           u == SubSeq(a, l + 1, n)
           ab == a \o b
           v == SubSeq(ab, l + 1, n + m)
           ub == u \o b
<1>1. n \in Nat /\ m \in Nat /\ l \in 1 .. n /\ n = Len(a) /\ m = Len(b)
  BY LenProperties
<1>2. /\ ab \in Seq(Bytes) /\ Len(ab) = n + m
      /\ \A i \in 1 .. n + m : ab[i] = IF i <= n THEN a[i] ELSE b[i - n]
  BY ConcatProperties, Zenon
<1>3. u \in Seq(Bytes) /\ Len(u) = n - l /\ \A i \in 1 .. n - l : u[i] = a[l + i]
  BY <1>1, Cut
<1>4. v \in Seq(Bytes) /\ Len(v) = n + m - l /\ \A i \in 1 .. n + m - l : v[i] = ab[l + i]
  <2> HIDE DEF ab
  <2>1. l \in 0 .. Len(ab)
    BY <1>1, <1>2
  <2>2. v = SubSeq(ab, l + 1, Len(ab)) /\ ab \in Seq(Bytes) /\ Len(ab) = n + m
    BY <1>2
  <2> HIDE DEF v
  <2>3. v \in Seq(Bytes) /\ Len(v) = Len(ab) - l /\ \A i \in 1 .. Len(ab) - l : v[i] = ab[l + i]
    BY <2>1, <2>2, Cut
  <2> QED BY <2>2, <2>3
<1> HIDE DEF u
<1>5. /\ ub \in Seq(Bytes) /\ Len(ub) = Len(u) + m
      /\ \A i \in 1 .. Len(u) + m : ub[i] = IF i <= Len(u) THEN u[i] ELSE b[i - Len(u)]
  BY <1>3, ConcatProperties, Zenon
<1> HIDE DEF n, m, ab, v, ub
<1>6. ASSUME NEW i \in 1 .. n + m - l PROVE ub[i] = v[i]
  <2>1. l + i \in 1 .. n + m /\ i \in 1 .. Len(u) + m /\ v[i] = ab[l + i]
    BY <1>1, <1>3, <1>4
  <2>2. CASE i <= n - l
    <3>1. l + i <= n /\ i \in 1 .. n - l /\ i <= Len(u)
      BY <2>2, <1>1, <1>3
    <3>2. ub[i] = u[i] /\ u[i] = a[l + i] /\ ab[l + i] = a[l + i]
      BY <3>1, <2>1, <1>2, <1>3, <1>5
    <3> QED BY <3>2, <2>1
  <2>3. CASE ~(i <= n - l)
    <3>1. ~(l + i <= n) /\ ~(i <= Len(u)) /\ (l + i) - n = i - Len(u)
      BY <2>3, <1>1, <1>3
    <3>2. ub[i] = b[i - Len(u)] /\ ab[l + i] = b[(l + i) - n]
      BY <3>1, <2>1, <1>2, <1>5
    <3> QED BY <3>1, <3>2, <2>1
  <2> QED BY <2>2, <2>3
<1>7. Len(ub) = n + m - l
  BY <1>1, <1>3, <1>5
<1>8. ub = v
  BY <1>4, <1>5, <1>6, <1>7, SeqEqual
<1>9. u \in Seq(Bytes) /\ Len(u) <= n
  BY <1>1, <1>3
<1> QED BY <1>2, <1>8, <1>9 DEF u, ub, v, ab, n, m

\* The next packet is handed over and taken off.
LEMMA HandleReplyKeeps ==
  ASSUME ConnectionAssumption, IInv, NEW w \in BOOLEAN, HandleReply(w)
  PROVE  IInv'
<1> DEFINE k == Len(handled) + 1
           front == SubSeq(buffer, 1, Length)
           back == SubSeq(buffer, Length + 1, Len(buffer))
<1>1. /\ k \in 1 .. Len(packets) /\ buffer # << >>
      /\ Length = packets[k].len /\ Length \in 1 .. Len(buffer)
      /\ \A j \in 1 .. Length : buffer[j] = <<k, j>>
  BY NextComplete DEF HandleReply
<1>2. /\ handled' = Append(handled, front) /\ buffer' = back
      /\ UNCHANGED <<packets, net, reading, handling, ended>>
  BY DEF HandleReply, deviceVars
<1>3. /\ buffer \in Seq(Bytes) /\ net \in Seq(Bytes) /\ handled \in Seq(Seq(Bytes))
      /\ Len(buffer) \in Nat /\ Len(handled) \in Nat /\ Len(buffer) <= BufferSize
      /\ Stream(buffer \o net, Len(handled), packets)
  BY LenProperties DEF IInv, Buffered, Handed
<1>4. BufferSize \in Nat /\ replies \in Nat
  BY DEF ConnectionAssumption, IInv, Handed
<1>5. Control'
  BY DEF HandleReply, SendRequest, Closing, Close, IInv, Control, deviceVars
<1>6. buffer[1] = <<k, 1>>
  <2>1. 1 \in 1 .. Length
    BY <1>1, <1>3
  <2> QED BY <2>1, <1>1
<1>7. front \in Seq(Bytes) /\ front = BytesOf(k)
  <2>1. Length \in 0 .. Len(buffer)
    BY <1>1, <1>3
  <2>2. front \in Seq(Bytes) /\ Len(front) = Length /\ \A i \in 1 .. Length : front[i] = buffer[i]
    BY <2>1, <1>3, Cut
  <2> HIDE DEF front, k
  <2>3. DOMAIN front = 1 .. Length /\ front = [i \in DOMAIN front |-> front[i]]
    BY <2>2, LenProperties
  <2>4. front = [i \in 1 .. packets[k].len |-> <<k, i>>]
    BY <2>2, <2>3, <1>1
  <2> QED BY <2>2, <2>4 DEF BytesOf
<1>8. handled' \in Seq(Seq(Bytes)) /\ Len(handled') = k
      /\ (\A p \in 1 .. Len(handled) : handled'[p] = handled[p]) /\ handled'[k] = front
  BY <1>2, <1>3, <1>7, AppendProperties
<1>9. Buffered'
  <2>1. /\ back \in Seq(Bytes) /\ Len(back) <= Len(buffer)
        /\ back \o net = SubSeq(buffer \o net, Length + 1, Len(buffer \o net))
    BY <1>1, <1>3, TakenOff
  <2>2. /\ Len(buffer \o net) = Len(buffer) + Len(net) /\ Len(net) \in Nat
        /\ buffer \o net \in Seq(Bytes)
    BY <1>3, ConcatProperties, LenProperties
  <2>3. buffer \o net # << >>
    BY <2>2, <1>1, <1>3, EmptySeq
  <2>4. packets[k].len <= Len(buffer \o net)
    BY <2>2, <1>1, <1>3
  <2>5. Stream(SubSeq(buffer \o net, packets[k].len + 1, Len(buffer \o net)), k, packets)
    BY <2>3, <2>4, <1>3, StreamTaken
  <2>6. Stream(back \o net, k, packets)
    BY <2>1, <2>5, <1>1
  <2> HIDE DEF k, back
  <2>7. Len(buffer') <= BufferSize
    <3>1. Len(back) \in Nat
      BY <2>1, LenProperties
    <3> QED BY <3>1, <2>1, <1>2, <1>3, <1>4
  <2> QED BY <2>1, <2>6, <2>7, <1>2, <1>3, <1>8 DEF Buffered
<1> HIDE DEF front, back
<1>10. replies' = (IF packets[k].kind = "ping" /\ w THEN replies + 1 ELSE replies)
  BY <1>6 DEF HandleReply, Answers
<1>11. Handed'
  <2>1. ASSUME NEW p \in 1 .. Len(handled') PROVE handled'[p] = BytesOf(p)'
    <3>1. BytesOf(p)' = BytesOf(p)
      BY <1>2 DEF BytesOf
    <3>2. CASE p = k
      BY <3>1, <3>2, <1>7, <1>8
    <3>3. CASE p # k
      <4>1. p \in 1 .. Len(handled)
        BY <3>3, <1>3, <1>8
      <4> QED BY <4>1, <3>1, <1>8 DEF IInv, Handed
    <3> QED BY <3>2, <3>3
  <2>2. replies' \in Nat
    BY <1>4, <1>10
  <2> QED BY <2>1, <2>2, <1>8 DEF Handed
<1>12. Counted'
  <2> SUFFICES ASSUME conn' \in {"connecting", "open"}
               PROVE  replies' = Cardinality(PingsUpTo(Len(handled)))'
    BY Zenon DEF Counted
  <2>1. w /\ conn' = conn /\ replies = Cardinality(PingsUpTo(Len(handled)))
    BY DEF HandleReply, SendRequest, Closing, Close, IInv, Counted
  <2>2. PingsUpTo(Len(handled))' = PingsUpTo(k)
    <3>1. Len(handled') = k /\ packets' = packets
      BY <1>2, <1>8
    <3> HIDE DEF k
    <3> QED BY <3>1 DEF PingsUpTo
  <2>3. IsFiniteSet(PingsUpTo(Len(handled))) /\ Cardinality(PingsUpTo(Len(handled))) \in Nat
    <3>1. IsFiniteSet(1 .. Len(handled))
      BY <1>3, FS_Interval
    <3>2. PingsUpTo(Len(handled)) \subseteq 1 .. Len(handled)
      BY DEF PingsUpTo
    <3> QED BY <3>1, <3>2, FS_Subset, FS_CardinalityType
  <2>4. k \notin PingsUpTo(Len(handled))
    BY <1>3 DEF PingsUpTo
  <2>5. CASE packets[k].kind = "ping"
    <3>1. PingsUpTo(k) = PingsUpTo(Len(handled)) \cup {k}
      BY <2>5, <1>3 DEF PingsUpTo
    <3>2. Cardinality(PingsUpTo(Len(handled)) \cup {k}) = Cardinality(PingsUpTo(Len(handled))) + 1
      BY <2>3, <2>4, FS_AddElement
    <3> QED BY <3>1, <3>2, <2>1, <2>2, <2>5, <1>10
  <2>6. CASE packets[k].kind # "ping"
    <3>1. PingsUpTo(k) = PingsUpTo(Len(handled))
      BY <2>6, <1>3 DEF PingsUpTo
    <3> QED BY <3>1, <2>1, <2>2, <2>6, <1>10
  <2> QED BY <2>5, <2>6
<1> QED BY <1>5, <1>9, <1>11, <1>12 DEF IInv

\* A step of the connection keeps the invariant.
LEMMA ConnectionKeeps ==
  ASSUME ConnectionAssumption, IInv, [Next]_vars
  PROVE  IInv'
<1> USE DEF Control
<1>1. CASE \E t \in PacketTypes : Sends(t)
  BY <1>1, SendsKeeps
<1>2. CASE Ends
  BY <1>2, Unread DEF Ends, IInv
<1>3. CASE \E w \in BOOLEAN : Connects(w)
  <2>1. PICK w \in BOOLEAN : Connects(w)
    BY <1>3
  <2>2. Control'
    BY <2>1 DEF Connects, Closing, Close, IInv, deviceVars
  <2>3. Buffered' /\ Handed' /\ Counted'
    BY <2>1, Unread DEF Connects, deviceVars
  <2> QED BY <2>2, <2>3 DEF IInv
<1>4. CASE ConnectFails
  BY <1>4, Unread DEF ConnectFails, IInv, deviceVars
<1>5. CASE ClosingEnds
  BY <1>5, Unread DEF ClosingEnds, IInv, deviceVars
<1>6. CASE \E w \in BOOLEAN : Pings(w)
  BY <1>6, Unread DEF Pings, SendRequest, Closing, Close, IInv, deviceVars
<1>7. CASE RequestFails
  BY <1>7, Unread DEF RequestFails, SendRequest, Closing, Close, IInv, deviceVars
<1>8. CASE Shutdown
  BY <1>8, Unread DEF Shutdown, Close, IInv, deviceVars
<1>9. CASE \E n \in 1 .. BufferSize : ReadSome(n)
  BY <1>9, ReadSomeKeeps
<1>10. CASE ReadNothing
  BY <1>10, Unread DEF ReadNothing, ReadCompletes, Closing, Close, IInv, deviceVars
<1>11. CASE ReadFails
  BY <1>11, Unread DEF ReadFails, ReadCompletes, Closing, Close, IInv, deviceVars
<1>12. CASE ReadClosed
  BY <1>12, Unread DEF ReadClosed, IInv, deviceVars
<1>13. CASE \E w \in BOOLEAN : HandleReply(w)
  BY <1>13, HandleReplyKeeps
<1>14. CASE ReadAgain
  BY <1>14, Unread DEF ReadAgain, IInv, deviceVars
<1>15. CASE UNCHANGED vars
  BY <1>15, Unread DEF vars, IInv, deviceVars
<1>16. Finished => UNCHANGED vars
  BY DEF Finished
<1> QED
  BY <1>1, <1>2, <1>3, <1>4, <1>5, <1>6, <1>7, <1>8, <1>9, <1>10, <1>11, <1>12, <1>13,
     <1>14, <1>15, <1>16 DEF Next

\* A connection that is being made.
LEMMA Initially == ASSUME ConnectionAssumption, Init PROVE IInv
<1>1. Control
  BY DEF Init, Control
<1>2. << >> \in Seq(Bytes) /\ << >> \in Seq(Seq(Bytes)) /\ << >> \in Seq(PacketTypes) /\ Len(<< >>) = 0
  BY EmptySeq
<1>3. << >> \o << >> = << >>
  BY <1>2, ConcatEmptySeq
<1>4. Buffered
  <2>1. Stream(<< >>, 0, << >>)
    BY <1>2 DEF Stream
  <2> QED BY <2>1, <1>2, <1>3 DEF Init, Buffered, ConnectionAssumption
<1>5. Handed
  BY <1>2 DEF Init, Handed
<1>6. Counted
  <2>1. PingsUpTo(0) = {}
    BY DEF PingsUpTo
  <2> QED BY <2>1, <1>2, FS_EmptySet DEF Init, Counted
<1> QED BY <1>1, <1>4, <1>5, <1>6 DEF IInv

\* What the invariant says of the state of the connection, of the stream and
\* of the pings is what Connection promises.
LEMMA IInvImplies ==
  ASSUME ConnectionAssumption, IInv
  PROVE  TypeOK /\ Framed /\ PingsAnswered
<1>1. TypeOK
  BY DEF IInv, Control, Buffered, Handed, Stream, Bytes, TypeOK
<1>2. Framed
  <2> DEFINE rest == buffer \o net
             k == Len(handled)
  <2>1. Stream(rest, k, packets)
    BY DEF IInv, Buffered
  <2> HIDE DEF rest, k
  <2>2. k <= Len(packets)
    BY <2>1, LenProperties DEF Stream
  <2>3. /\ rest = << >> => k = Len(packets)
        /\ rest # << >> => rest[1] = <<k + 1, 1>>
                           /\ rest[Len(rest)] = <<Len(packets), packets[Len(packets)].len>>
        /\ \A j \in 1 .. Len(rest) - 1 :
             rest[j + 1] = IF rest[j][2] < packets[rest[j][1]].len
                           THEN <<rest[j][1], rest[j][2] + 1>>
                           ELSE <<rest[j][1] + 1, 1>>
    BY <2>1, Zenon DEF Stream
  <2>4. \A p \in 1 .. k : handled[p] = BytesOf(p)
    BY DEF IInv, Handed, k
  <2> QED BY <2>2, <2>3, <2>4, Zenon DEF Framed, rest, k
<1>3. PingsAnswered
  <2>1. \A p \in 1 .. Len(handled) : handled[p][1][1] = p
    <3> TAKE p \in 1 .. Len(handled)
    <3>1. p \in 1 .. Len(packets)
      BY LenProperties DEF IInv, Buffered, Handed, Stream
    <3>2. packets[p].len \in Nat /\ packets[p].len >= 1
      BY <3>1, PacketLength DEF IInv, Buffered, Stream
    <3>3. handled[p] = [i \in 1 .. packets[p].len |-> <<p, i>>]
      BY DEF IInv, Handed, BytesOf
    <3> QED BY <3>2, <3>3
  <2>2. {p \in 1 .. Len(handled) : packets[handled[p][1][1]].kind = "ping"} = PingsUpTo(Len(handled))
    BY <2>1 DEF PingsUpTo
  <2> QED BY <2>2 DEF IInv, Counted, PingsAnswered
<1> QED BY <1>1, <1>2, <1>3

\* The behaviours of a connection keep the invariant.
THEOREM ConnectionInductive == Spec => []IInv
<1>1. Init => IInv
  BY Initially, ConnectionAssumption
<1>2. IInv /\ [Next]_vars => IInv'
  BY ConnectionKeeps, ConnectionAssumption
<1> QED BY <1>1, <1>2, PTL DEF Spec

-----------------------------------------------------------------------------
(* Lifecycle.                                                              *)

\* A step with what it begins, or of a call that returns, is a step of the
\* connection or leaves it alone.
THEOREM ImplementsConnection == LifecycleSpec => Spec
<1>1. LifecycleInit => Init
  BY DEF LifecycleInit
<1>2. [LifecycleNext]_allVars => [Next]_vars
  BY DEF LifecycleNext, Steps, Unwinds, allVars
<1> QED BY <1>1, <1>2, PTL DEF LifecycleSpec, Spec

\* The program takes a connection that is being closed, or that is gone, for
\* closed; and it goes over packets only of one that is open.
Alive ==
  /\ main # "runs" => conn = "closed"
  /\ main = "runs" /\ handling => conn = "open"

Calls == Emissions \cup {"destroying", "receiving"}

Push2(s, a, b) == Append(Append(s, a), b)

Push3(s, a, b, c) == Append(Push2(s, a, b), c)

\* The calls in progress of kinds.
Count(s, kinds) == Cardinality({i \in DOMAIN s : s[i] \in kinds})

Told(s) == Count(s, Emissions)

\* From the first emission of connection-closed on top of the stack o to its
\* end, with the values held n times more than at its end.
Unwinding(o, n) ==
  LET At(s, l, v) == stack = s /\ listed = l /\ refs.values = n + v
  IN \/ At(Append(o, "manager"), TRUE, 2)
     \/ At(Push3(o, "values", "destroying", "manager"), FALSE, 2)
     \/ At(Push3(o, "values", "destroying", "values"), FALSE, 2)
     \/ At(Push3(o, "values", "destroying", "done"), FALSE, 1)
     \/ At(Push2(o, "values", "destroying"), FALSE, 1)
     \/ At(Append(o, "values"), FALSE, 1)
     \/ At(Append(o, "done"), FALSE, 0)
     \/ At(o, FALSE, 0)

\* The same when the manager is disposed of, which is told once: main.c keeps
\* a reference to the values.
Destroying ==
  LET At(s, v) == stack = s /\ ~listed /\ refs.values \in v
      o == Append(<< >>, "destroying")
  IN \/ At(Append(o, "manager"), {2})
     \/ At(Append(o, "values"), {2})
     \/ At(Append(o, "done"), {1})
     \/ At(o, {1, 2})
     \/ At(<< >>, {1, 2})

Held ==
  /\ refs \in [conn : Int, values : Nat] /\ listed \in BOOLEAN /\ stack \in Seq(Calls)
  /\ refs.conn = (IF listed THEN 1 ELSE 0) + (IF refs.values > 0 THEN 1 ELSE 0)
                 + Count(stack, Calls)

Stacked ==
  /\ main \in {"runs", "uses freed"} =>
       /\ stack = << >>
       /\ conn = "closed" => ~listed /\ refs.values = 0
       /\ conn # "closed" => listed /\ refs.values = 2
  /\ main = "closing" => Unwinding(<< >>, 0) \/ Unwinding(Append(<< >>, "receiving"), 1)
  /\ main = "ends" => Destroying

LifeIInv == main \in {"runs", "closing", "ends", "uses freed"} /\ Alive /\ Held /\ Stacked

\* A call is pushed on the stack.
LEMMA Pushed ==
  ASSUME NEW s \in Seq(Calls), NEW a \in Calls
  PROVE  /\ Append(s, a) \in Seq(Calls) /\ Append(s, a) # << >>
         /\ Front(Append(s, a)) = s /\ Last(Append(s, a)) = a
         /\ \A kinds : /\ Count(s, kinds) \in Nat
                       /\ Count(Append(s, a), kinds) = Count(s, kinds) + (IF a \in kinds THEN 1 ELSE 0)
<1> DEFINE n == Len(s)
           t == Append(s, a)
<1>1. n \in Nat /\ DOMAIN s = 1 .. n
  BY LenProperties
<1>2. t \in Seq(Calls) /\ Len(t) = n + 1 /\ t[n + 1] = a /\ (\A i \in 1 .. n : t[i] = s[i]) /\ t # << >>
  BY AppendProperties
<1>3. DOMAIN t = 1 .. n + 1
  BY <1>2, LenProperties
<1>4. Last(t) = a
  BY <1>2 DEF Last
<1>5. Front(t) = s
  <2>1. n \in 0 .. Len(t) /\ Len(t) - 1 = n /\ Len(s) = n
    BY <1>1, <1>2
  <2> HIDE DEF t, n
  <2>2. /\ SubSeq(t, 1, n) \in Seq(Calls) /\ Len(SubSeq(t, 1, n)) = n
        /\ \A i \in 1 .. n : SubSeq(t, 1, n)[i] = t[i]
    BY <2>1, <1>2, Cut
  <2>3. SubSeq(t, 1, n) = s
    BY <2>1, <2>2, <1>2, SeqEqual
  <2> QED BY <2>1, <2>3 DEF Front
<1>6. ASSUME NEW kinds
      PROVE  /\ Count(s, kinds) \in Nat
             /\ Count(t, kinds) = Count(s, kinds) + (IF a \in kinds THEN 1 ELSE 0)
  <2> DEFINE old == {i \in 1 .. n : s[i] \in kinds}
  <2>1. IsFiniteSet(old) /\ Cardinality(old) \in Nat /\ n + 1 \notin old
    <3>1. IsFiniteSet(1 .. n)
      BY <1>1, FS_Interval
    <3> QED BY <3>1, <1>1, FS_Subset, FS_CardinalityType
  <2>2. {i \in 1 .. n + 1 : t[i] \in kinds} = IF a \in kinds THEN old \cup {n + 1} ELSE old
    <3> HIDE DEF t, n
    <3>1. \A i \in 1 .. n + 1 : i \in 1 .. n \/ i = n + 1
      BY <1>1
    <3>2. \A i \in 1 .. n : i \in 1 .. n + 1
      BY <1>1
    <3>3. n + 1 \in 1 .. n + 1
      BY <1>1
    <3> QED BY <3>1, <3>2, <3>3, <1>2
  <2>3. Cardinality(old \cup {n + 1}) = Cardinality(old) + 1
    BY <2>1, FS_AddElement
  <2>4. Count(s, kinds) = Cardinality(old)
    BY <1>1 DEF Count
  <2>5. Count(t, kinds) = Cardinality({i \in 1 .. n + 1 : t[i] \in kinds})
    BY <1>3 DEF Count
  <2> HIDE DEF old, t
  <2>6. CASE a \in kinds
    <3>1. Count(t, kinds) = Cardinality(old \cup {n + 1})
      BY <2>2, <2>5, <2>6
    <3> QED BY <3>1, <2>1, <2>3, <2>4, <2>6
  <2>7. CASE a \notin kinds
    <3>1. Count(t, kinds) = Cardinality(old)
      BY <2>2, <2>5, <2>7
    <3>2. Cardinality(old) = Cardinality(old) + 0
      BY <2>1
    <3> QED BY <3>1, <3>2, <2>1, <2>4, <2>7
  <2> QED BY <2>6, <2>7
<1> QED BY <1>2, <1>4, <1>5, <1>6

\* A call that begins is counted once.
LEMMA PushedCount ==
  ASSUME NEW s \in Seq(Calls), NEW a \in Calls
  PROVE  /\ Append(s, a) \in Seq(Calls)
         /\ Count(s, Calls) \in Nat /\ Count(Append(s, a), Calls) = Count(s, Calls) + 1
  BY Pushed

\* A stack that is not empty is its top on the rest.
LEMMA Popped ==
  ASSUME NEW s \in Seq(Calls), s # << >>
  PROVE  Front(s) \in Seq(Calls) /\ Last(s) \in Calls /\ s = Append(Front(s), Last(s))
<1>1. PICK t \in Seq(Calls), a \in Calls : s = Append(t, a)
  BY SequenceEmptyOrAppend
<1> QED BY <1>1, Pushed

\* Three calls pushed at once.
LEMMA PushedThree ==
  ASSUME NEW s \in Seq(Calls), NEW a \in Calls, NEW b \in Calls, NEW c \in Calls
  PROVE  s \o <<a, b, c>> = Push3(s, a, b, c)
<1>1. /\ <<a, b, c>> \in Seq(Calls) /\ Len(<<a, b, c>>) = 3 /\ Len(s) \in Nat
      /\ <<a, b, c>>[1] = a /\ <<a, b, c>>[2] = b /\ <<a, b, c>>[3] = c
  BY LenProperties
<1> DEFINE n == Len(s)
           t == s \o <<a, b, c>>
           s1 == Append(s, a)
           s2 == Append(s1, b)
           s3 == Append(s2, c)
<1>2. /\ t \in Seq(Calls) /\ Len(t) = n + 3
      /\ \A i \in 1 .. n + 3 : t[i] = IF i <= n THEN s[i] ELSE <<a, b, c>>[i - n]
  BY <1>1, ConcatProperties
<1>3. s1 \in Seq(Calls) /\ Len(s1) = n + 1 /\ s1[n + 1] = a /\ \A i \in 1 .. n : s1[i] = s[i]
  BY AppendProperties
<1> HIDE DEF s1
<1>4. s2 \in Seq(Calls) /\ Len(s2) = (n + 1) + 1 /\ s2[(n + 1) + 1] = b /\ \A i \in 1 .. n + 1 : s2[i] = s1[i]
  BY <1>3, AppendProperties
<1> HIDE DEF s2
<1>5. s3 \in Seq(Calls) /\ Len(s3) = (n + 2) + 1 /\ s3[(n + 2) + 1] = c /\ \A i \in 1 .. n + 2 : s3[i] = s2[i]
  <2>1. Len(s2) = n + 2
    BY <1>1, <1>4
  <2> QED BY <2>1, <1>4, AppendProperties
<1> HIDE DEF t, s3
<1>6. ASSUME NEW i \in 1 .. n + 3 PROVE t[i] = s3[i]
  <2>1. CASE i <= n
    <3>1. i \in 1 .. n /\ i \in 1 .. n + 1 /\ i \in 1 .. n + 2
      BY <2>1, <1>1
    <3> QED BY <3>1, <2>1, <1>2, <1>3, <1>4, <1>5
  <2>2. CASE i = n + 1
    <3>1. ~(i <= n) /\ i - n = 1 /\ i \in 1 .. n + 1 /\ i \in 1 .. n + 2
      BY <2>2, <1>1
    <3> QED BY <3>1, <2>2, <1>1, <1>2, <1>3, <1>4, <1>5
  <2>3. CASE i = n + 2
    <3>1. ~(i <= n) /\ i - n = 2 /\ i \in 1 .. n + 2 /\ n + 2 = (n + 1) + 1
      BY <2>3, <1>1
    <3> QED BY <3>1, <2>3, <1>1, <1>2, <1>4, <1>5
  <2>4. CASE i = n + 3
    <3>1. ~(i <= n) /\ i - n = 3 /\ n + 3 = (n + 2) + 1
      BY <2>4, <1>1
    <3> QED BY <3>1, <2>4, <1>1, <1>2, <1>5
  <2> QED BY <2>1, <2>2, <2>3, <2>4, <1>1
<1>7. t = s3
  <2>1. Len(s3) = n + 3
    BY <1>1, <1>5
  <2> QED BY <2>1, <1>2, <1>5, <1>6, SeqEqual
<1> QED BY <1>7 DEF t, s3, s2, s1, Push3, Push2

\* Each return gives up the reference its call held, and no other.
LEMMA UnwindsHeld ==
  ASSUME Held, ManagerHears \/ ValuesHear \/ EmissionEnds \/ Destroyed \/ (Returns /\ refs.values > 0)
  PROVE  Held'
<1> DEFINE rest == Front(stack)
           n == Count(rest, Calls)
<1>1. /\ stack \in Seq(Calls) /\ refs \in [conn : Int, values : Nat] /\ listed \in BOOLEAN
      /\ refs.conn = (IF listed THEN 1 ELSE 0) + (IF refs.values > 0 THEN 1 ELSE 0)
                     + Count(stack, Calls)
  BY DEF Held
<1>2. stack # << >>
  BY DEF ManagerHears, ValuesHear, EmissionEnds, Destroyed, Returns
<1>3. rest \in Seq(Calls) /\ Last(stack) \in Calls /\ stack = Append(rest, Last(stack))
  BY <1>1, <1>2, Popped
<1>4. n \in Nat /\ Count(stack, Calls) = n + 1
  BY <1>3, Pushed
<1>5. ASSUME NEW a \in Calls
      PROVE  Append(rest, a) \in Seq(Calls) /\ Count(Append(rest, a), Calls) = n + 1
  BY <1>3, Pushed
<1>6. {"manager", "values", "done", "destroying", "receiving"} \subseteq Calls
  BY DEF Calls, Emissions
<1> HIDE DEF n
<1>7. Count(stack, Calls)' = Count(stack', Calls)
  BY DEF Count
<1>8. CASE ManagerHears
  <2>1. CASE listed
    <3>1. /\ listed' = FALSE /\ refs' = [refs EXCEPT !.conn = @ + 1]
          /\ stack' = Push3(rest, "values", "destroying", "manager")
      BY <1>8, <2>1, <1>3, <1>6, PushedThree DEF ManagerHears, DestroysDevice, HoldConn
    <3>2. Append(rest, "values") \in Seq(Calls) /\ Count(Append(rest, "values"), Calls) = n + 1
      BY <1>5, <1>6
    <3> DEFINE one == Append(rest, "values")
               two == Append(one, "destroying")
    <3> HIDE DEF one, two
    <3>3. two \in Seq(Calls) /\ Count(two, Calls) = n + 2
      <4>1. one \in Seq(Calls) /\ Count(one, Calls) = n + 1
        BY <3>2 DEF one
      <4>2. two \in Seq(Calls) /\ Count(two, Calls) = (n + 1) + 1
        BY <4>1, <1>6, PushedCount DEF two
      <4> QED BY <4>2, <1>4
    <3>4. stack' = Append(two, "manager")
      BY <3>1 DEF one, two, Push2, Push3
    <3>5. stack' \in Seq(Calls) /\ Count(stack', Calls) = n + 3
      BY <3>3, <3>4, <1>4, <1>6, PushedCount
    <3>6. refs' \in [conn : Int, values : Nat] /\ refs'.conn = refs.conn + 1 /\ refs'.values = refs.values
      BY <3>1, <1>1
    <3>7. refs'.conn = 0 + (IF refs'.values > 0 THEN 1 ELSE 0) + (n + 3)
      BY <3>6, <2>1, <1>1, <1>4
    <3> QED BY <3>1, <3>5, <3>6, <3>7, <1>7 DEF Held
  <2>2. CASE ~listed
    <3>1. stack' = Append(rest, "values") /\ refs' = refs /\ listed' = listed
      BY <1>8, <2>2 DEF ManagerHears
    <3>2. stack' \in Seq(Calls) /\ Count(stack', Calls) = n + 1
      BY <3>1, <1>5, <1>6
    <3> QED BY <3>1, <3>2, <1>1, <1>4, <1>7 DEF Held
  <2> QED BY <2>1, <2>2
<1>9. CASE ValuesHear
  <2>1. stack' = Append(rest, "done") /\ listed' = listed
    BY <1>9 DEF ValuesHear
  <2>2. stack' \in Seq(Calls) /\ Count(stack', Calls) = n + 1
    BY <2>1, <1>5, <1>6
  <2>3. /\ refs' \in [conn : Int, values : Nat]
        /\ refs'.conn = (IF listed THEN 1 ELSE 0) + (IF refs'.values > 0 THEN 1 ELSE 0) + (n + 1)
    BY <1>9, <1>1, <1>4 DEF ValuesHear, DropValues
  <2> QED BY <2>1, <2>2, <2>3, <1>1, <1>7 DEF Held
<1>10. CASE EmissionEnds \/ Destroyed
  <2>1. stack' = rest /\ listed' = listed /\ refs' = [refs EXCEPT !.conn = @ - 1]
    BY <1>10 DEF EmissionEnds, Destroyed, DropConn
  <2>2. refs' \in [conn : Int, values : Nat] /\ refs'.conn = refs.conn - 1 /\ refs'.values = refs.values
    BY <2>1, <1>1
  <2> QED BY <2>1, <2>2, <1>1, <1>3, <1>4, <1>7 DEF Held, n
<1>11. CASE Returns /\ refs.values > 0
  <2>1. stack' = rest /\ listed' = listed /\ refs' = DropConn(DropValues(refs))
    BY <1>11 DEF Returns
  <2>2. /\ refs' \in [conn : Int, values : Nat]
        /\ refs'.conn = (IF listed THEN 1 ELSE 0) + (IF refs'.values > 0 THEN 1 ELSE 0) + n
    BY <2>1, <1>11, <1>1, <1>4 DEF DropConn, DropValues
  <2> QED BY <2>1, <2>2, <1>1, <1>3, <1>7 DEF Held, n
<1> QED BY <1>8, <1>9, <1>10, <1>11

\* What is on top of one, two or three calls that were pushed.
LEMMA Tops ==
  ASSUME NEW o \in Seq(Calls), NEW a \in Calls, NEW b \in Calls, NEW c \in Calls
  PROVE  /\ Front(Append(o, a)) = o /\ Last(Append(o, a)) = a /\ Append(o, a) # << >>
         /\ Front(Push2(o, a, b)) = Append(o, a) /\ Last(Push2(o, a, b)) = b /\ Push2(o, a, b) # << >>
         /\ Front(Push3(o, a, b, c)) = Push2(o, a, b) /\ Last(Push3(o, a, b, c)) = c
         /\ Push3(o, a, b, c) # << >>
<1>1. Append(o, a) \in Seq(Calls) /\ Append(Append(o, a), b) \in Seq(Calls)
  BY Pushed
<1> QED BY <1>1, Pushed DEF Push2, Push3

\* No call is in progress only when the emission is over.
LEMMA NothingUnwinds ==
  ASSUME NEW o \in Seq(Calls), NEW n, Unwinding(o, n), stack = << >>
  PROVE  o = << >> /\ listed = FALSE /\ refs.values = n + 0
<1> DEFINE M == "manager"
           V == "values"
           D == "destroying"
           X == "done"
<1>1. M \in Calls /\ V \in Calls /\ D \in Calls /\ X \in Calls
  BY DEF Calls, Emissions
<1>2. Append(o, M) # << >> /\ Append(o, V) # << >> /\ Append(o, X) # << >> /\ Push2(o, V, D) # << >>
  BY <1>1, Tops
<1>3. Push3(o, V, D, M) # << >> /\ Push3(o, V, D, V) # << >> /\ Push3(o, V, D, X) # << >>
  BY <1>1, Tops
<1> QED BY <1>2, <1>3 DEF Unwinding

\* The calls on top of o go on as Unwinding has it.
LEMMA UnwindingGoesOn ==
  ASSUME NEW o \in Seq(Calls), NEW n \in Nat, refs \in [conn : Int, values : Nat],
         o = << >> \/ Last(o) = "receiving",
         Unwinding(o, n), ManagerHears \/ ValuesHear \/ EmissionEnds \/ Destroyed
  PROVE  Unwinding(o, n)'
<1> DEFINE M == "manager"
           V == "values"
           D == "destroying"
           X == "done"
<1>1. M \in Calls /\ V \in Calls /\ D \in Calls /\ X \in Calls
  BY DEF Calls, Emissions
<1>2. /\ Front(Append(o, M)) = o /\ Front(Append(o, V)) = o /\ Front(Append(o, X)) = o
      /\ Last(Append(o, M)) = M /\ Last(Append(o, V)) = V /\ Last(Append(o, X)) = X
  BY <1>1, Tops
<1>3. Front(Push2(o, V, D)) = Append(o, V) /\ Last(Push2(o, V, D)) = D
  BY <1>1, Tops
<1>4. /\ Front(Push3(o, V, D, M)) = Push2(o, V, D) /\ Last(Push3(o, V, D, M)) = M
      /\ Front(Push3(o, V, D, V)) = Push2(o, V, D) /\ Last(Push3(o, V, D, V)) = V
      /\ Front(Push3(o, V, D, X)) = Push2(o, V, D) /\ Last(Push3(o, V, D, X)) = X
  BY <1>1, Tops
<1>5. o \o <<V, D, M>> = Push3(o, V, D, M)
  BY <1>1, PushedThree
<1>6. \A a : Append(Push2(o, V, D), a) = Push3(o, V, D, a)
  BY DEF Push3
<1>7. stack # << >>
  BY DEF ManagerHears, ValuesHear, EmissionEnds, Destroyed
<1> DEFINE At(s, l, v) == stack = s /\ listed = l /\ refs.values = n + v
<1>8. CASE At(Append(o, M), TRUE, 2)
  <2>1. stack' = Push3(o, V, D, M) /\ listed' = FALSE /\ refs'.values = n + 2
    BY <1>8, <1>2, <1>5 DEF ManagerHears, DestroysDevice, HoldConn, ValuesHear, EmissionEnds, Destroyed
  <2> QED BY <2>1 DEF Unwinding
<1>9. CASE At(Push3(o, V, D, M), FALSE, 2)
  <2>1. stack' = Push3(o, V, D, V) /\ listed' = FALSE /\ refs'.values = n + 2
    BY <1>9, <1>4, <1>6 DEF ManagerHears, ValuesHear, EmissionEnds, Destroyed
  <2> QED BY <2>1 DEF Unwinding
<1>10. CASE At(Push3(o, V, D, V), FALSE, 2)
  <2>1. stack' = Push3(o, V, D, X) /\ listed' = FALSE
        /\ refs' = IF refs.values > 0 THEN DropValues(refs) ELSE refs
    BY <1>10, <1>4, <1>6 DEF ManagerHears, ValuesHear, EmissionEnds, Destroyed
  <2>2. refs.values = n + 2 /\ refs.values > 0
    BY <1>10
  <2>3. refs'.values = refs.values - 1
    BY <2>1, <2>2 DEF DropValues
  <2>4. refs'.values = n + 1
    BY <2>2, <2>3
  <2> QED BY <2>1, <2>4 DEF Unwinding
<1>11. CASE At(Push3(o, V, D, X), FALSE, 1)
  <2>1. stack' = Push2(o, V, D) /\ listed' = FALSE /\ refs'.values = n + 1
    BY <1>11, <1>4 DEF ManagerHears, ValuesHear, EmissionEnds, Destroyed, DropConn
  <2> QED BY <2>1 DEF Unwinding
<1>12. CASE At(Push2(o, V, D), FALSE, 1)
  <2>1. stack' = Append(o, V) /\ listed' = FALSE /\ refs'.values = n + 1
    BY <1>12, <1>3 DEF ManagerHears, ValuesHear, EmissionEnds, Destroyed, DropConn
  <2> QED BY <2>1 DEF Unwinding
<1>13. CASE At(Append(o, V), FALSE, 1)
  <2>1. stack' = Append(o, X) /\ listed' = FALSE /\ refs'.values = n + 0
    BY <1>13, <1>2 DEF ManagerHears, ValuesHear, EmissionEnds, Destroyed, DropValues
  <2> QED BY <2>1 DEF Unwinding
<1>14. CASE At(Append(o, X), FALSE, 0)
  <2>1. stack' = o /\ listed' = FALSE /\ refs'.values = n + 0
    BY <1>14, <1>2 DEF ManagerHears, ValuesHear, EmissionEnds, Destroyed, DropConn
  <2> QED BY <2>1 DEF Unwinding
<1>15. ~At(o, FALSE, 0)
  BY <1>7 DEF ManagerHears, ValuesHear, EmissionEnds, Destroyed
<1> QED BY <1>8, <1>9, <1>10, <1>11, <1>12, <1>13, <1>14, <1>15 DEF Unwinding

\* The calls of the manager's end go on as Destroying has it.
LEMMA DestroyingGoesOn ==
  ASSUME refs \in [conn : Int, values : Nat],
         Destroying, ManagerHears \/ ValuesHear \/ EmissionEnds \/ Destroyed \/ Returns
  PROVE  Destroying'
<1> DEFINE M == "manager"
           V == "values"
           X == "done"
           o == Append(<< >>, "destroying")
<1>1. M \in Calls /\ V \in Calls /\ X \in Calls /\ "destroying" \in Calls
  BY DEF Calls, Emissions
<1>2. << >> \in Seq(Calls)
  BY EmptySeq
<1>3. o \in Seq(Calls) /\ Front(o) = << >> /\ Last(o) = "destroying"
  BY <1>1, <1>2, Pushed
<1> HIDE DEF o
<1>4. /\ Front(Append(o, M)) = o /\ Front(Append(o, V)) = o /\ Front(Append(o, X)) = o
      /\ Last(Append(o, M)) = M /\ Last(Append(o, V)) = V /\ Last(Append(o, X)) = X
  BY <1>1, <1>3, Tops
<1>5. /\ Destroying <=> \/ stack = Append(o, M) /\ ~listed /\ refs.values \in {2}
                        \/ stack = Append(o, V) /\ ~listed /\ refs.values \in {2}
                        \/ stack = Append(o, X) /\ ~listed /\ refs.values \in {1}
                        \/ stack = o /\ ~listed /\ refs.values \in {1, 2}
                        \/ stack = << >> /\ ~listed /\ refs.values \in {1, 2}
  BY DEF Destroying, o
<1>6. /\ Destroying' <=> \/ stack' = Append(o, M) /\ ~listed' /\ refs'.values \in {2}
                         \/ stack' = Append(o, V) /\ ~listed' /\ refs'.values \in {2}
                         \/ stack' = Append(o, X) /\ ~listed' /\ refs'.values \in {1}
                         \/ stack' = o /\ ~listed' /\ refs'.values \in {1, 2}
                         \/ stack' = << >> /\ ~listed' /\ refs'.values \in {1, 2}
  BY DEF Destroying, o
<1>7. CASE stack = Append(o, M) /\ ~listed /\ refs.values = 2
  <2>1. stack' = Append(o, V) /\ listed' = listed /\ refs'.values = 2
    BY <1>7, <1>4 DEF ManagerHears, ValuesHear, EmissionEnds, Destroyed, Returns
  <2> QED BY <2>1, <1>7, <1>6
<1>8. CASE stack = Append(o, V) /\ ~listed /\ refs.values = 2
  <2>1. stack' = Append(o, X) /\ listed' = listed /\ refs'.values = 1
    BY <1>8, <1>4 DEF ManagerHears, ValuesHear, EmissionEnds, Destroyed, Returns, DropValues
  <2> QED BY <2>1, <1>8, <1>6
<1>9. CASE stack = Append(o, X) /\ ~listed /\ refs.values = 1
  <2>1. stack' = o /\ listed' = listed /\ refs'.values = 1
    BY <1>9, <1>4 DEF ManagerHears, ValuesHear, EmissionEnds, Destroyed, Returns, DropConn
  <2> QED BY <2>1, <1>9, <1>6
<1>10. CASE stack = o /\ ~listed /\ refs.values \in {1, 2}
  <2>1. stack' = << >> /\ listed' = listed /\ refs'.values = refs.values
    BY <1>10, <1>3 DEF ManagerHears, ValuesHear, EmissionEnds, Destroyed, Returns, DropConn
  <2> QED BY <2>1, <1>10, <1>6
<1>11. stack # << >>
  BY DEF ManagerHears, ValuesHear, EmissionEnds, Destroyed, Returns
<1> QED BY <1>5, <1>7, <1>8, <1>9, <1>10, <1>11

\* What a call that returns leaves.
LEMMA UnwindsKeeps ==
  ASSUME LifeIInv, Unwinds
  PROVE  LifeIInv'
<1> DEFINE R == Append(<< >>, "receiving")
<1>1. Alive' /\ UNCHANGED vars /\ main' \in {"runs", "closing", "ends", "uses freed"}
  BY DEF Unwinds, LifeIInv, Alive, vars
<1>2. stack # << >> /\ refs \in [conn : Int, values : Nat]
  BY DEF Unwinds, ManagerHears, ValuesHear, EmissionEnds, Destroyed, Returns, LifeIInv, Held
<1>3. "receiving" \in Calls /\ << >> \in Seq(Calls)
  BY EmptySeq DEF Calls
<1>4. R \in Seq(Calls) /\ Front(R) = << >> /\ Last(R) = "receiving"
  BY <1>3, Pushed
<1>5. main \notin {"runs", "uses freed"}
  BY <1>2 DEF LifeIInv, Stacked
<1> HIDE DEF R
<1>6. CASE main = "closing" /\ (ManagerHears \/ ValuesHear \/ EmissionEnds \/ Destroyed)
  <2>1. Held'
    BY <1>6, UnwindsHeld DEF LifeIInv
  <2>2. Unwinding(<< >>, 0) \/ Unwinding(R, 1)
    BY <1>6 DEF LifeIInv, Stacked, R
  <2>3. Unwinding(<< >>, 0)' \/ Unwinding(R, 1)'
    <3>1. CASE Unwinding(<< >>, 0)
      BY <3>1, <1>2, <1>3, <1>6, UnwindingGoesOn
    <3>2. CASE Unwinding(R, 1)
      BY <3>2, <1>2, <1>4, <1>6, UnwindingGoesOn
    <3> QED BY <2>2, <3>1, <3>2
  <2>4. Stacked'
    BY <2>3, <1>1, <1>6 DEF Stacked, vars, R
  <2> QED BY <2>1, <2>4, <1>1 DEF LifeIInv
<1>7. CASE main = "closing" /\ Returns
  <2>1. Last(stack) = "receiving" /\ stack' = Front(stack) /\ listed' = listed
        /\ refs' = DropConn(DropValues(refs))
    BY <1>7 DEF Returns
  <2>2. stack = R /\ listed = FALSE /\ refs.values = 1
    <3>1. "manager" \in Calls /\ "values" \in Calls /\ "destroying" \in Calls /\ "done" \in Calls
      BY DEF Calls, Emissions
    <3>2. ASSUME NEW o \in Seq(Calls), NEW n \in Nat, Unwinding(o, n)
          PROVE  stack = o /\ listed = FALSE /\ refs.values = n + 0
      <4>1. /\ Last(Append(o, "manager")) = "manager" /\ Last(Append(o, "values")) = "values"
            /\ Last(Append(o, "done")) = "done"
        BY <3>1, Tops
      <4>2. Last(Push2(o, "values", "destroying")) = "destroying"
        BY <3>1, Tops
      <4>3. /\ Last(Push3(o, "values", "destroying", "manager")) = "manager"
            /\ Last(Push3(o, "values", "destroying", "values")) = "values"
            /\ Last(Push3(o, "values", "destroying", "done")) = "done"
        BY <3>1, Tops
      <4> QED BY <4>1, <4>2, <4>3, <3>2, <2>1 DEF Unwinding
    <3>3. Unwinding(<< >>, 0) \/ Unwinding(R, 1)
      BY <1>7 DEF LifeIInv, Stacked, R
    <3>4. ~Unwinding(<< >>, 0)
      BY <3>2, <1>2, <1>3
    <3>5. stack = R /\ listed = FALSE /\ refs.values = 1 + 0
      BY <3>2, <3>3, <3>4, <1>4
    <3> QED BY <3>5
  <2>3. Held'
    BY <2>2, <1>7, UnwindsHeld DEF LifeIInv
  <2>4. stack' = << >> /\ listed' = FALSE /\ refs'.values = 0 + 0
    BY <2>1, <2>2, <1>2, <1>4 DEF DropConn, DropValues
  <2>5. Unwinding(<< >>, 0)'
    BY <2>4 DEF Unwinding
  <2>6. Stacked'
    BY <2>5, <1>1, <1>7 DEF Stacked, vars
  <2> QED BY <2>3, <2>6, <1>1 DEF LifeIInv
<1>8. CASE main = "ends"
  <2>1. Destroying /\ (ManagerHears \/ ValuesHear \/ EmissionEnds \/ Destroyed \/ Returns)
    BY <1>8 DEF LifeIInv, Stacked, Unwinds
  <2>2. Destroying'
    BY <2>1, <1>2, DestroyingGoesOn
  <2>3. refs.values > 0
    BY <2>1 DEF Destroying
  <2>4. Held'
    BY <2>1, <2>3, UnwindsHeld DEF LifeIInv
  <2>5. Stacked'
    BY <2>2, <1>1, <1>8 DEF Stacked, vars
  <2> QED BY <2>4, <2>5, <1>1 DEF LifeIInv
<1>9. main \in {"closing", "ends"}
  BY <1>5 DEF LifeIInv
<1> QED BY <1>6, <1>7, <1>8, <1>9 DEF Unwinds

\* A step of the connection closes it, ends the program, lets it go on after
\* it was closed, or does none of these.
LEMMA StepKinds ==
  ASSUME Control, Alive, Next
  PROVE  /\ Alive' /\ main' \in {"runs", "closing", "ends", "uses freed"}
         /\ \/ main' \in {"closing", "ends"} /\ main = "runs" /\ conn # "closed" /\ conn' = "closed"
            \/ main' = main /\ main # "closing" /\ (conn' = "closed" <=> conn = "closed")
            \/ main \in {"runs", "closing"} /\ main' \in {"runs", "uses freed"}
               /\ conn = "closed" /\ conn' = "closed"
<1> USE DEF Control, Alive
<1>1. CASE \E t \in PacketTypes : Sends(t)
  BY <1>1 DEF Sends
<1>2. CASE Ends
  BY <1>2 DEF Ends
<1>3. CASE \E w \in BOOLEAN : Connects(w)
  BY <1>3 DEF Connects, Closing, Close
<1>4. CASE ConnectFails
  BY <1>4 DEF ConnectFails
<1>5. CASE ClosingEnds
  BY <1>5 DEF ClosingEnds
<1>6. CASE \E w \in BOOLEAN : Pings(w)
  BY <1>6 DEF Pings, SendRequest, Closing, Close
<1>7. CASE RequestFails
  BY <1>7 DEF RequestFails, SendRequest, Closing, Close
<1>8. CASE Shutdown
  BY <1>8 DEF Shutdown, Close
<1>9. CASE \E n \in 1 .. BufferSize : ReadSome(n)
  BY <1>9 DEF ReadSome, ReadCompletes
<1>10. CASE ReadNothing
  BY <1>10 DEF ReadNothing, ReadCompletes, Closing, Close
<1>11. CASE ReadFails
  BY <1>11 DEF ReadFails, ReadCompletes, Closing, Close
<1>12. CASE ReadClosed
  BY <1>12 DEF ReadClosed
<1>13. CASE \E w \in BOOLEAN : HandleReply(w)
  BY <1>13 DEF HandleReply, SendRequest, Closing, Close
<1>14. CASE ReadAgain
  BY <1>14 DEF ReadAgain
<1>15. CASE Finished
  BY <1>15 DEF Finished, vars
<1> QED
  BY <1>1, <1>2, <1>3, <1>4, <1>5, <1>6, <1>7, <1>8, <1>9, <1>10, <1>11, <1>12, <1>13,
     <1>14, <1>15 DEF Next

\* What the start of an emission, and of the manager's end, puts on the stack.
LEMMA Begun ==
  /\ <<"manager">> = Append(<< >>, "manager") /\ <<"destroying">> = Append(<< >>, "destroying")
  /\ <<"receiving", "manager">> = Append(Append(<< >>, "receiving"), "manager")
  /\ <<"destroying", "manager">> = Append(Append(<< >>, "destroying"), "manager")
  OBVIOUS

\* A step of the connection, with the closing it may begin.
LEMMA StepsKeeps ==
  ASSUME Control, LifeIInv, Steps(Next)
  PROVE  LifeIInv'
<1>1. stack = << >> /\ Next
  BY DEF Steps
<1>2. /\ Alive' /\ main' \in {"runs", "closing", "ends", "uses freed"}
      /\ \/ main' \in {"closing", "ends"} /\ main = "runs" /\ conn # "closed" /\ conn' = "closed"
         \/ main' = main /\ main # "closing" /\ (conn' = "closed" <=> conn = "closed")
         \/ main \in {"runs", "closing"} /\ main' \in {"runs", "uses freed"}
            /\ conn = "closed" /\ conn' = "closed"
  BY <1>1, StepKinds DEF LifeIInv
<1>3. << >> \in Seq(Calls) /\ {"manager", "receiving", "destroying"} \subseteq Calls
  BY EmptySeq DEF Calls, Emissions
<1>4. Count(<< >>, Calls) = 0
  <2>1. {i \in DOMAIN << >> : << >>[i] \in Calls} = {}
    OBVIOUS
  <2> QED BY <2>1, FS_EmptySet DEF Count
<1>5. ASSUME NEW a \in Calls
      PROVE  Append(<< >>, a) \in Seq(Calls) /\ Count(Append(<< >>, a), Calls) = 1
  <2>1. Append(<< >>, a) \in Seq(Calls) /\ Count(Append(<< >>, a), Calls) = Count(<< >>, Calls) + 1
    BY <1>3, PushedCount
  <2>2. Count(Append(<< >>, a), Calls) = 0 + 1
    BY <2>1, <1>4
  <2> QED BY <2>1, <2>2
<1>6. ASSUME NEW a \in Calls, NEW b \in Calls
      PROVE  /\ Append(Append(<< >>, a), b) \in Seq(Calls)
             /\ Count(Append(Append(<< >>, a), b), Calls) = 2
  <2> DEFINE s == Append(<< >>, a)
  <2>1. s \in Seq(Calls) /\ Count(s, Calls) = 1
    BY <1>5
  <2> HIDE DEF s
  <2>2. Append(s, b) \in Seq(Calls) /\ Count(Append(s, b), Calls) = 1 + 1
    BY <2>1, PushedCount
  <2> QED BY <2>2 DEF s
<1>7. Count(stack, Calls)' = Count(stack', Calls)
  BY DEF Count
<1>8. ASSUME main = "runs", conn # "closed"
      PROVE  listed = TRUE /\ refs.values = 2 /\ refs.conn = 2 /\ refs \in [conn : Int, values : Nat]
  BY <1>8, <1>1, <1>4 DEF LifeIInv, Held, Stacked
<1>9. CASE Begins
  <2>1. main' = "closing" /\ main = "runs" /\ conn # "closed" /\ listed' = listed
    BY <1>9, <1>2 DEF Begins
  <2>2. listed = TRUE /\ refs.values = 2 /\ refs.conn = 2 /\ refs \in [conn : Int, values : Nat]
    BY <2>1, <1>8
  <2>3. CASE stack' = <<"receiving", "manager">> /\ refs' = HoldConn(HoldBoth(refs))
    <3>1. stack' = Append(Append(<< >>, "receiving"), "manager")
      BY <2>3, Begun
    <3>2. refs' \in [conn : Int, values : Nat] /\ refs'.conn = 4 /\ refs'.values = 3
      BY <2>2, <2>3 DEF HoldConn, HoldBoth
    <3>3. stack' \in Seq(Calls) /\ Count(stack', Calls) = 2
      BY <3>1, <1>3, <1>6
    <3>4. Held'
      BY <3>2, <3>3, <2>1, <2>2, <1>7 DEF Held
    <3>5. Unwinding(Append(<< >>, "receiving"), 1)'
      BY <3>1, <3>2, <2>1, <2>2 DEF Unwinding
    <3> QED BY <3>4, <3>5, <2>1, <1>2 DEF LifeIInv, Stacked
  <2>4. CASE stack' = <<"manager">> /\ refs' = HoldConn(refs)
    <3>1. stack' = Append(<< >>, "manager")
      BY <2>4, Begun
    <3>2. refs' \in [conn : Int, values : Nat] /\ refs'.conn = 3 /\ refs'.values = 2
      BY <2>2, <2>4 DEF HoldConn
    <3>3. stack' \in Seq(Calls) /\ Count(stack', Calls) = 1
      BY <3>1, <1>3, <1>5
    <3>4. Held'
      BY <3>2, <3>3, <2>1, <2>2, <1>7 DEF Held
    <3>5. Unwinding(<< >>, 0)'
      BY <3>1, <3>2, <2>1, <2>2 DEF Unwinding
    <3> QED BY <3>4, <3>5, <2>1, <1>2 DEF LifeIInv, Stacked
  <2> QED BY <2>3, <2>4, <1>9 DEF Begins
<1>10. CASE BeginsAtEnd
  <2>1. main' = "ends" /\ main = "runs" /\ conn # "closed" /\ listed' = FALSE
    BY <1>10, <1>2 DEF BeginsAtEnd
  <2>2. refs.values = 2 /\ refs.conn = 2 /\ refs \in [conn : Int, values : Nat]
    BY <2>1, <1>8
  <2>3. CASE stack' = <<"destroying", "manager">> /\ refs' = HoldConn(refs)
    <3>1. stack' = Append(Append(<< >>, "destroying"), "manager")
      BY <2>3, Begun
    <3>2. refs' \in [conn : Int, values : Nat] /\ refs'.conn = 3 /\ refs'.values = 2
      BY <2>2, <2>3 DEF HoldConn
    <3>3. stack' \in Seq(Calls) /\ Count(stack', Calls) = 2
      BY <3>1, <1>3, <1>6
    <3>4. Held'
      <4>1. refs'.conn = 0 + 1 + Count(stack', Calls) /\ refs'.values > 0
        BY <3>2, <3>3
      <4> QED BY <4>1, <3>2, <3>3, <2>1, <1>7 DEF Held
    <3>5. Destroying'
      BY <3>1, <3>2, <2>1 DEF Destroying
    <3> QED BY <3>4, <3>5, <2>1, <1>2 DEF LifeIInv, Stacked
  <2>4. CASE stack' = <<"destroying">> /\ refs' = refs
    <3>1. stack' = Append(<< >>, "destroying")
      BY <2>4, Begun
    <3>2. stack' \in Seq(Calls) /\ Count(stack', Calls) = 1
      BY <3>1, <1>3, <1>5
    <3>3. Held'
      <4>1. refs'.conn = 0 + 1 + Count(stack', Calls) /\ refs'.values > 0
        BY <3>2, <2>2, <2>4
      <4> QED BY <4>1, <3>2, <2>1, <2>2, <2>4, <1>7 DEF Held
    <3>4. Destroying'
      BY <3>1, <2>1, <2>2, <2>4 DEF Destroying
    <3> QED BY <3>3, <3>4, <2>1, <1>2 DEF LifeIInv, Stacked
  <2> QED BY <2>3, <2>4, <1>10 DEF BeginsAtEnd
<1>11. CASE main' # "closing" /\ (main' = "ends" => main = "ends") /\ UNCHANGED lifeVars
  <2>1. stack' = stack /\ refs' = refs /\ listed' = listed
    BY <1>11 DEF lifeVars
  <2>2. Held'
    BY <2>1, <1>7 DEF LifeIInv, Held
  <2>3. Stacked'
    <3>1. CASE main' = main /\ main # "closing" /\ (conn' = "closed" <=> conn = "closed")
      <4>1. Destroying => Destroying'
        BY <2>1 DEF Destroying
      <4> QED BY <3>1, <4>1, <2>1 DEF LifeIInv, Stacked
    <3>2. CASE main \in {"runs", "closing"} /\ main' \in {"runs", "uses freed"}
               /\ conn = "closed" /\ conn' = "closed"
      <4>1. ASSUME main = "closing" PROVE listed = FALSE /\ refs.values = 0
        <5>1. Unwinding(<< >>, 0) \/ Unwinding(Append(<< >>, "receiving"), 1)
          BY <4>1 DEF LifeIInv, Stacked
        <5> DEFINE R == Append(<< >>, "receiving")
        <5>2. R \in Seq(Calls) /\ R # << >>
          BY <1>3, Pushed
        <5> HIDE DEF R
        <5>3. ~Unwinding(R, 1)
          BY <5>2, <1>1, NothingUnwinds
        <5>4. Unwinding(<< >>, 0) => listed = FALSE /\ refs.values = 0 + 0
          BY <1>1, <1>3, NothingUnwinds
        <5> QED BY <5>1, <5>3, <5>4 DEF R
      <4>2. ASSUME main = "runs" PROVE listed = FALSE /\ refs.values = 0
        BY <4>2, <3>2 DEF LifeIInv, Held, Stacked
      <4> QED BY <3>2, <4>1, <4>2, <2>1, <1>1 DEF Stacked
    <3> QED BY <3>1, <3>2, <1>2, <1>11
  <2> QED BY <2>2, <2>3, <1>2 DEF LifeIInv
<1> QED BY <1>9, <1>10, <1>11 DEF Steps

\* The manager and the values hold the new connection.
LEMMA LifeInitially == ASSUME LifecycleInit PROVE LifeIInv
<1>1. << >> \in Seq(Calls)
  BY EmptySeq
<1>2. Count(<< >>, Calls) = 0
  <2>1. {i \in DOMAIN << >> : << >>[i] \in Calls} = {}
    OBVIOUS
  <2> QED BY <2>1, FS_EmptySet DEF Count
<1>3. Held
  BY <1>1, <1>2 DEF LifecycleInit, Held
<1> QED BY <1>3 DEF LifecycleInit, Init, LifeIInv, Alive, Stacked

\* The references to the connection are those of the list, of the values and
\* of the calls in progress, of which two at most tell that it has closed.
LEMMA LifeIInvImplies == ASSUME LifeIInv PROVE Lifetimes
<1>1. << >> \in Seq(Calls) /\ Emissions \subseteq Calls /\ {"destroying", "receiving"} \subseteq Calls
  BY EmptySeq DEF Calls
<1>2. Count(<< >>, Calls) = 0 /\ Count(<< >>, Emissions) = 0
  <2>1. {i \in DOMAIN << >> : << >>[i] \in Calls} = {} /\ {i \in DOMAIN << >> : << >>[i] \in Emissions} = {}
    OBVIOUS
  <2> QED BY <2>1, FS_EmptySet DEF Count
<1>3. \A kinds : Frames(kinds) = Count(stack, kinds)
  BY DEF Frames, Count
<1>4. {"manager", "values", "done"} = Emissions /\ "destroying" \notin Emissions /\ "receiving" \notin Emissions
  BY DEF Emissions
<1>5. ASSUME NEW s \in Seq(Calls), NEW a \in Calls
      PROVE  /\ Told(Append(s, a)) = Told(s) + (IF a \in Emissions THEN 1 ELSE 0)
             /\ Told(s) \in Nat /\ Append(s, a) \in Seq(Calls)
  BY Pushed DEF Told
<1>6. Told(<< >>) = 0
  BY <1>2 DEF Told
<1>7. ASSUME NEW o \in Seq(Calls), Told(o) = 0, NEW a \in Emissions
      PROVE  /\ Told(o) <= 2 /\ Told(Append(o, a)) <= 2 /\ Told(Append(o, "destroying")) = 0
             /\ Told(Push2(o, "values", "destroying")) <= 2
             /\ Told(Push3(o, "values", "destroying", a)) <= 2
  <2>1. Told(Append(o, a)) = 1 /\ Told(Append(o, "destroying")) = 0
    <3>1. Told(Append(o, a)) = Told(o) + 1 /\ Told(Append(o, "destroying")) = Told(o) + 0
      BY <1>1, <1>4, <1>5
    <3> QED BY <3>1, <1>7
  <2> DEFINE one == Append(o, "values")
             two == Append(one, "destroying")
  <2>2. one \in Seq(Calls) /\ Told(one) = 1
    <3>1. one \in Seq(Calls) /\ Told(one) = Told(o) + 1
      BY <1>1, <1>4, <1>5
    <3> QED BY <3>1, <1>7
  <2> HIDE DEF one
  <2>3. two \in Seq(Calls) /\ Told(two) = 1
    <3>1. two \in Seq(Calls) /\ Told(two) = Told(one) + 0
      BY <2>2, <1>1, <1>4, <1>5
    <3> QED BY <3>1, <2>2
  <2> HIDE DEF two
  <2>4. Told(Append(two, a)) = 2
    <3>1. Told(Append(two, a)) = Told(two) + 1
      BY <2>3, <1>1, <1>5
    <3> QED BY <3>1, <2>3
  <2> QED BY <2>1, <2>3, <2>4, <1>7 DEF Push2, Push3, one, two
<1>8. ASSUME NEW o \in Seq(Calls), Told(o) = 0, NEW n, Unwinding(o, n)
      PROVE  Told(stack) <= 2
  BY <1>4, <1>7, <1>8 DEF Unwinding
<1>9. ASSUME NEW a \in {"destroying", "receiving"}
      PROVE  Append(<< >>, a) \in Seq(Calls) /\ Told(Append(<< >>, a)) = 0
  <2>1. Append(<< >>, a) \in Seq(Calls) /\ Told(Append(<< >>, a)) = Told(<< >>) + 0
    BY <1>1, <1>4, <1>5
  <2> QED BY <2>1, <1>6
<1>10. Told(stack) <= 2
  <2>1. CASE main \in {"runs", "uses freed"}
    <3>1. stack = << >>
      BY <2>1 DEF LifeIInv, Stacked
    <3>2. Told(stack) = 0
      BY <3>1, <1>6, Zenon
    <3> QED BY <3>2
  <2>2. CASE main = "closing"
    <3>1. Unwinding(<< >>, 0) \/ Unwinding(Append(<< >>, "receiving"), 1)
      BY <2>2 DEF LifeIInv, Stacked
    <3> QED BY <3>1, <1>1, <1>6, <1>8, <1>9
  <2>3. CASE main = "ends"
    <3>1. Destroying
      BY <2>3 DEF LifeIInv, Stacked
    <3> DEFINE o == Append(<< >>, "destroying")
    <3>2. o \in Seq(Calls) /\ Told(o) = 0
      BY <1>9
    <3>3. /\ stack = << >> \/ stack = o \/ stack = Append(o, "manager")
             \/ stack = Append(o, "values") \/ stack = Append(o, "done")
      BY <3>1 DEF Destroying
    <3> HIDE DEF o
    <3>4. \A a \in Emissions : Told(Append(o, a)) <= 2
      BY <3>2, <1>7
    <3>5. CASE stack = << >>
      <4>1. Told(stack) = 0
        BY <3>5, <1>6, Zenon
      <4> QED BY <4>1
    <3>6. CASE stack # << >>
      <4>1. "manager" \in Emissions /\ "values" \in Emissions /\ "done" \in Emissions
        BY <1>4
      <4>2. Told(o) <= 2
        BY <3>2
      <4>3. \/ stack = o
            \/ \E a \in Emissions : stack = Append(o, a)
        BY <3>3, <3>6, <4>1
      <4> QED BY <3>4, <4>2, <4>3, Zenon
    <3> QED BY <3>5, <3>6
  <2> QED BY <2>1, <2>2, <2>3 DEF LifeIInv
<1>11. ASSUME main \in {"runs", "uses freed"}, conn = "closed"
       PROVE  refs = [conn |-> 0, values |-> 0]
  <2>1. stack = << >> /\ ~listed /\ refs.values = 0
    BY <1>11 DEF LifeIInv, Stacked
  <2>2. Count(stack, Calls) = 0
    BY <2>1, <1>2, Zenon
  <2>3. /\ refs \in [conn : Int, values : Nat]
        /\ refs.conn = (IF listed THEN 1 ELSE 0) + (IF refs.values > 0 THEN 1 ELSE 0) + Count(stack, Calls)
    BY DEF LifeIInv, Held
  <2>4. ~listed /\ refs.values = 0
    BY <2>1
  <2> QED BY <2>2, <2>3, <2>4
<1>12. refs.values >= 0 /\ Calls = Emissions \cup {"destroying", "receiving"}
  <2>1. refs \in [conn : Int, values : Nat]
    BY DEF LifeIInv, Held
  <2> QED BY <2>1 DEF Calls
<1> QED BY <1>3, <1>10, <1>11, <1>12 DEF LifeIInv, Held, Lifetimes, Told

-----------------------------------------------------------------------------
(* What holds of every behaviour of Lifecycle.                             *)

\* The state of the connection and its timer and read go together, and its
\* buffer keeps its size.
THEOREM TypeCorrect == LifecycleSpec => []TypeOK
<1>1. IInv => TypeOK
  BY IInvImplies, ConnectionAssumption
<1> QED BY <1>1, ImplementsConnection, ConnectionInductive, PTL

\* handle_reply gets the packets the device has sent, whole and in order,
\* however the stream is cut into reads.
THEOREM PacketsFramed == LifecycleSpec => []Framed
<1>1. IInv => Framed
  BY IInvImplies, ConnectionAssumption
<1> QED BY <1>1, ImplementsConnection, ConnectionInductive, PTL

\* Every ping that was handled has been answered once.
THEOREM AllPingsAnswered == LifecycleSpec => []PingsAnswered
<1>1. IInv => PingsAnswered
  BY IInvImplies, ConnectionAssumption
<1> QED BY <1>1, ImplementsConnection, ConnectionInductive, PTL

\* The connection has a reference for each of its holders and no other, and
\* one that has closed leaves nothing behind.
THEOREM LifetimesKept == LifecycleSpec => []Lifetimes
<1>1. LifecycleInit => LifeIInv
  BY LifeInitially
<1>2. IInv /\ LifeIInv /\ [LifecycleNext]_allVars => LifeIInv'
  <2> SUFFICES ASSUME IInv, LifeIInv, [LifecycleNext]_allVars PROVE LifeIInv'
    OBVIOUS
  <2>1. CASE Steps(Next)
    BY <2>1, StepsKeeps DEF IInv
  <2>2. CASE Unwinds
    BY <2>2, UnwindsKeeps
  <2>3. CASE UNCHANGED allVars
    BY <2>3 DEF allVars, vars, lifeVars, LifeIInv, Alive, Held, Count, Stacked, Unwinding, Destroying
  <2> QED BY <2>1, <2>2, <2>3 DEF LifecycleNext
<1>3. LifeIInv => Lifetimes
  BY LifeIInvImplies
<1> QED BY <1>1, <1>2, <1>3, ImplementsConnection, ConnectionInductive, PTL DEF LifecycleSpec
=============================================================================
