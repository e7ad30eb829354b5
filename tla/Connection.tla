----------------------------- MODULE Connection -----------------------------
(***************************************************************************)
(* c2ip_connection.c: one TCP connection to a device, from the connect     *)
(* callback to its end.                                                    *)
(*                                                                         *)
(* The bytes of the device are read into reply_buffer after those that are *)
(* there.  Whenever a read has completed, the packets that are complete    *)
(* are handled one by one, each taken off the front of the buffer, and     *)
(* another read is started.  The header of a packet has its length.  A     *)
(* read that gets nothing closes the connection: the device has closed it, *)
(* or the buffer is full and nothing was asked for.                        *)
(*                                                                         *)
(* A byte is a packet's number and its place in the packet, so that a      *)
(* length read at the wrong place can be told from a right one.            *)
(*                                                                         *)
(* Requests of other components are written in the same thread, between    *)
(* two callbacks or by a handler of a packet.  A write that fails closes   *)
(* the connection, and the handlers of connection-closed give up the last  *)
(* references to it, as module Lifecycle has it: what close_connection and *)
(* the callers of it do after that is done to freed memory, and the        *)
(* program goes on if it is untouched.  When it happens while packets are  *)
(* being handled, the loop over them goes on in a buffer that has been     *)
(* freed.                                                                  *)
(***************************************************************************)
EXTENDS Naturals, Sequences, FiniteSets

CONSTANTS
  HeaderSize,    \* 4 in the code
  BufferSize,    \* 256 in the code
  PacketTypes,   \* packets the device sends: their kind and their length
  MaxPackets     \* bound: packets the device sends

Kinds == {"ping", "pong", "authenticated", "other"}

ASSUME ConnectionAssumption ==
  /\ HeaderSize \in Nat \ {0} /\ BufferSize \in Nat /\ BufferSize >= HeaderSize
  /\ MaxPackets \in Nat
  /\ PacketTypes \subseteq [kind : Kinds, len : Nat]
  /\ \A t \in PacketTypes : t.len >= HeaderSize

VARIABLES
  main,      \* the main thread runs, closes the connection, ends, or uses
             \* memory that was freed
  conn,      \* connecting, open, failed or closed
  timer,     \* the ping timer is set
  reading,   \* a read has been started
  handling,  \* handle_data is going over the packets it has
  packets,   \* what the device has sent
  net,       \* bytes sent and not read
  ended,     \* the device has closed its side
  buffer,    \* reply_buffer up to reply_pos
  handled,   \* what has been given to handle_reply
  replies    \* ping replies written

deviceVars == <<packets, ended>>
vars       == <<main, conn, timer, reading, handling, deviceVars, net, buffer, handled, replies>>

BytesOf(p) == [i \in 1 .. packets[p].len |-> <<p, i>>]

Init ==
  /\ main = "runs" /\ conn = "connecting"
  /\ timer = FALSE /\ reading = FALSE /\ handling = FALSE
  /\ packets = << >> /\ net = << >> /\ ended = FALSE
  /\ buffer = << >> /\ handled = << >> /\ replies = 0

-----------------------------------------------------------------------------
(* The device.                                                             *)

Sends(t) ==
  /\ conn = "open" /\ ~ended /\ Len(packets) < MaxPackets
  /\ packets' = Append(packets, t)
  /\ net' = net \o [i \in 1 .. t.len |-> <<Len(packets) + 1, i>>]
  /\ UNCHANGED <<main, conn, timer, reading, handling, ended, buffer, handled, replies>>

Ends ==
  /\ conn = "open" /\ ~ended
  /\ ended' = TRUE
  /\ UNCHANGED <<main, conn, timer, reading, handling, packets, net, buffer, handled, replies>>

-----------------------------------------------------------------------------
(* Opening, closing and writing.                                           *)

\* Mutant: the ping timer outlives the connection.
CloseKeepingTimer ==
  /\ conn' = "closed"
  /\ UNCHANGED timer

\* close_connection.
Close ==
  /\ conn' = "closed"
  /\ timer' = FALSE

\* It is called by the main loop or by a handler.
Closing == Close /\ main' = "closing"

\* The handlers of connection-closed have given up the last references, and
\* the object is used after that: freed memory is as it was, or is not.  The
\* loop of handle_data uses it for ever.
ClosingEnds ==
  /\ main = "closing"
  /\ main' \in {"runs", "uses freed"}
  /\ handling => main' = "uses freed"
  /\ UNCHANGED <<conn, timer, reading, handling, deviceVars, net, buffer, handled, replies>>

\* A request is written, or the connection is closed.
SendRequest(written) ==
  \/ /\ written
     /\ UNCHANGED <<main, conn, timer>>
  \/ /\ ~written
     /\ Closing

\* connect_callback: the authentication is written and the first read
\* started.
Connects(written) ==
  /\ conn = "connecting"
  /\ \/ /\ written
        /\ conn' = "open" /\ timer' = TRUE /\ reading' = TRUE
        /\ UNCHANGED main
     \/ /\ ~written
        /\ Closing
        /\ UNCHANGED reading
  /\ UNCHANGED <<handling, deviceVars, net, buffer, handled, replies>>

\* connect_callback: there is no connection, and nobody is told.
ConnectFails ==
  /\ conn = "connecting"
  /\ conn' = "failed"
  /\ UNCHANGED <<main, timer, reading, handling, deviceVars, net, buffer, handled, replies>>

\* ping_timeout_callback.
Pings(written) ==
  /\ main = "runs" /\ ~handling /\ timer
  /\ SendRequest(written)
  /\ UNCHANGED <<reading, handling, deviceVars, net, buffer, handled, replies>>

\* A request is made outside of a handler: a change of a value by the user
\* or by DMX, or the next request after a timeout.  Only one that fails
\* changes anything.
RequestFails ==
  /\ main = "runs" /\ ~handling /\ conn = "open"
  /\ SendRequest(FALSE)
  /\ UNCHANGED <<reading, handling, deviceVars, net, buffer, handled, replies>>

\* The manager is disposed of, after the main loop has ended, so that no
\* callback comes any more.
Shutdown ==
  /\ main = "runs" /\ ~handling /\ conn \in {"connecting", "failed", "open"}
  /\ Close
  /\ main' = "ends" /\ reading' = FALSE
  /\ UNCHANGED <<handling, deviceVars, net, buffer, handled, replies>>

-----------------------------------------------------------------------------
(* Reading: handle_data.                                                   *)

ReadCompletes == main = "runs" /\ reading /\ conn = "open"

\* Mutant: the bytes are stored where the last ones are.
StoreOver(n) == buffer' = SubSeq(net, 1, n)

\* The first n bytes of the stream come behind those in the buffer.
Store(n) == buffer' = buffer \o SubSeq(net, 1, n)

ReadSome(n) ==
  /\ ReadCompletes
  /\ n \in 1 .. Len(net) /\ n <= BufferSize - Len(buffer)
  /\ Store(n)
  /\ net' = SubSeq(net, n + 1, Len(net))
  /\ reading' = FALSE /\ handling' = TRUE
  /\ UNCHANGED <<main, conn, timer, deviceVars, handled, replies>>

\* The device has closed its side, or there was no room.
ReadNothing ==
  /\ ReadCompletes
  /\ (ended /\ net = << >>) \/ Len(buffer) = BufferSize
  /\ Closing
  /\ reading' = FALSE
  /\ UNCHANGED <<handling, deviceVars, net, buffer, handled, replies>>

ReadFails ==
  /\ ReadCompletes
  /\ Closing
  /\ reading' = FALSE
  /\ UNCHANGED <<handling, deviceVars, net, buffer, handled, replies>>

\* The read was pending when the connection was closed.  An object that is
\* still there gets G_IO_ERROR_CLOSED; one that is gone has cancelled the
\* read, and closes again.
ReadClosed ==
  /\ main = "runs" /\ reading /\ conn = "closed"
  /\ reading' = FALSE
  /\ main' \in {"runs", "uses freed"}
  /\ UNCHANGED <<conn, timer, handling, deviceVars, net, buffer, handled, replies>>

\* The length of a whole packet, from the field that ends the header.  Any
\* other byte there is taken for an empty packet's.
Length ==
  LET b == buffer[HeaderSize]
  IN IF b[2] = HeaderSize THEN packets[b[1]].len ELSE HeaderSize

\* Mutant: only what is longer than the packet is taken for complete.
CompleteIfMore == Len(buffer) >= HeaderSize /\ Len(buffer) > Length

Complete == Len(buffer) >= HeaderSize /\ Len(buffer) >= Length

\* Mutant: a pong has the type and the length of a ping, and is answered too.
AnswersBoth(kind) == kind \in {"ping", "pong"}

Answers(kind) == kind = "ping"

\* handle_reply, and the packet is taken off.  What the packet is follows
\* from its bytes.  A ping is answered; the other handlers may write as well,
\* except that a pong has none.
HandleReply(written) ==
  /\ main = "runs" /\ handling /\ Complete
  /\ handled' = Append(handled, SubSeq(buffer, 1, Length))
  /\ buffer' = SubSeq(buffer, Length + 1, Len(buffer))
  /\ LET kind == packets[buffer[1][1]].kind
     IN /\ kind = "pong" => written
        /\ replies' = IF Answers(kind) /\ written THEN replies + 1 ELSE replies
  /\ SendRequest(written)
  /\ UNCHANGED <<reading, handling, deviceVars, net>>

\* No packet is complete.
ReadAgain ==
  /\ main = "runs" /\ handling /\ ~Complete
  /\ handling' = FALSE /\ reading' = TRUE
  /\ UNCHANGED <<main, conn, timer, deviceVars, net, buffer, handled, replies>>

Finished ==
  /\ \/ main \in {"uses freed", "ends"}
     \/ main = "runs" /\ conn \in {"failed", "closed"} /\ ~reading
  /\ UNCHANGED vars

Next ==
  \/ \E t \in PacketTypes : Sends(t)
  \/ Ends
  \/ \E w \in BOOLEAN : Connects(w)
  \/ ConnectFails
  \/ ClosingEnds
  \/ \E w \in BOOLEAN : Pings(w)
  \/ RequestFails
  \/ Shutdown
  \/ \E n \in 1 .. BufferSize : ReadSome(n)
  \/ ReadNothing
  \/ ReadFails
  \/ ReadClosed
  \/ \E w \in BOOLEAN : HandleReply(w)
  \/ ReadAgain
  \/ Finished

Spec == Init /\ [][Next]_vars

(* What the device sends arrives, the main loop calls the callback of a    *)
(* read that has completed, and a callback goes on to its end.             *)
Fairness ==
  /\ WF_vars((\E n \in 1 .. BufferSize : ReadSome(n)) \/ ReadNothing)
  /\ WF_vars((\E w \in BOOLEAN : HandleReply(w)) \/ ReadAgain)

FairSpec == Spec /\ Fairness

-----------------------------------------------------------------------------
(* Properties.                                                             *)

\* Among the types: the buffer has its size, the ping timer is set exactly
\* while the connection is open, and a read is pending exactly while an open
\* connection is not handling what it has read.
TypeOK ==
  /\ main \in {"runs", "closing", "ends", "uses freed"}
  /\ conn \in {"connecting", "open", "failed", "closed"}
  /\ timer = (conn = "open")
  /\ conn = "open" => reading = ~handling
  /\ packets \in Seq(PacketTypes) /\ ended \in BOOLEAN
  /\ net \in Seq(Nat \X Nat) /\ buffer \in Seq(Nat \X Nat)
  /\ Len(buffer) <= BufferSize
  /\ handled \in Seq(Seq(Nat \X Nat)) /\ replies \in Nat

\* However the stream is cut into reads, handle_reply gets the packets the
\* device has sent, whole and in order, and what is buffered and on its way
\* begins with the next one and goes on to the last without a gap.
Framed ==
  LET rest == buffer \o net
      k    == Len(handled)
  IN /\ k <= Len(packets)
     /\ \A p \in 1 .. k : handled[p] = BytesOf(p)
     /\ rest = << >> => k = Len(packets)
     /\ rest # << >> => rest[1] = <<k + 1, 1>>
                        /\ rest[Len(rest)] = <<Len(packets), packets[Len(packets)].len>>
     /\ \A j \in 1 .. Len(rest) - 1 :
          rest[j + 1] = IF rest[j][2] < packets[rest[j][1]].len
                        THEN <<rest[j][1], rest[j][2] + 1>>
                        ELSE <<rest[j][1] + 1, 1>>

\* Every ping of the device that was handled is answered, once, as long as
\* the connection has not been closed.
PingsAnswered ==
  conn = "open" =>
    replies = Cardinality({p \in 1 .. Len(handled) : packets[handled[p][1][1]].kind = "ping"})

\* Whatever the device sends is handled without waiting for more, or the
\* connection is closed: no packet, too long a one neither, leaves it waiting
\* for ever.
AllHandled ==
  \A p \in 1 .. MaxPackets :
    Len(packets) >= p ~> Len(handled) >= p \/ conn = "closed"
=============================================================================
