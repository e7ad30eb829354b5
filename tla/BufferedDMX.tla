---------------------------- MODULE BufferedDMX ----------------------------
(***************************************************************************)
(* buffered_dmx_recv.c: DMX packets handed from the reader thread to the   *)
(* main thread through two buffers that are swapped under buffer_mutex.    *)
(*                                                                         *)
(* The reader thread copies a packet into the queue buffer byte by byte    *)
(* with the mutex held and makes an idle source if none is pending; it     *)
(* attaches the source after it has unlocked.  The idle callback, in the   *)
(* main thread, only tries the mutex, compares and swaps under it, and     *)
(* emits "new-packet" after it has unlocked: the consumer (dmx_packet of   *)
(* main.c) then reads the user buffer channel by channel while the reader  *)
(* may already be filling the other buffer again.                          *)
(*                                                                         *)
(* What the main thread does between trylock and unlock is one step: the   *)
(* reader touches none of that state without the mutex.  A trylock that    *)
(* fails changes nothing and leaves the idle source to be called again.    *)
(*                                                                         *)
(* The owner's shutdown is app_cleanup dropping its reference after the    *)
(* main loop has ended; the pending idle source holds another reference.   *)
(***************************************************************************)
EXTENDS Naturals

CONSTANTS
  MaxBuffer,   \* MAX_BUFFER, 512 in the code
  Bytes,       \* values of a DMX channel
  Unset        \* a channel the consumer was never told of

ASSUME BufferAssumption == MaxBuffer \in Nat \ {0} /\ Unset \notin Bytes

VARIABLES
  mem,         \* contents of the two buffers
  user,        \* which of them is user_buffer; the other is queue_buffer
  userLen,     \* user_length
  queueLen,    \* queue_length
  bits,        \* change_bits, as the set of channels whose bit is set
  idle,        \* idle_source: none, made (not attached yet) or attached
  refs,        \* reference count of the receiver
  rpc,         \* where the reader thread is
  rdata,       \* the packet it is queueing
  rpos,        \* bytes of it copied so far
  mpc,         \* where the main thread is
  mpos,        \* next channel dmx_packet looks at
  view         \* what the consumer was last told of every channel

bufVars    == <<mem, user, userLen, queueLen, bits>>
readerVars == <<rpc, rdata, rpos>>
mainVars   == <<mpc, mpos, view>>
vars       == <<bufVars, idle, refs, readerVars, mainVars>>

Channels == 0 .. MaxBuffer - 1

PacketsOf(n) == [0 .. n - 1 -> Bytes]

Packets == UNION {PacketsOf(n) : n \in 0 .. MaxBuffer}

queue == 1 - user

\* The reader is the only thread seen holding buffer_mutex.
Locked == rpc = "copy"

\* The buffers come from g_new: their first contents are whatever was there.
Init ==
  /\ mem \in [{0, 1} -> [Channels -> Bytes]]
  /\ user = 0
  /\ userLen = 0
  /\ queueLen = 0
  /\ bits = Channels
  /\ idle = "none"
  /\ refs = 1
  /\ rpc = "read" /\ rdata \in PacketsOf(0) /\ rpos = 0
  /\ mpc = "loop" /\ mpos = 0
  /\ view = [c \in Channels |-> Unset]

-----------------------------------------------------------------------------
(* The reader thread: buffered_dmx_recv_queue.                             *)

\* Called with a packet; g_mutex_lock.
Queue(p) ==
  /\ rpc = "read"
  /\ rpc' = "copy" /\ rdata' = p /\ rpos' = 0
  /\ UNCHANGED <<bufVars, idle, refs, mainVars>>

\* One byte of the memcpy.
CopyByte ==
  /\ rpc = "copy" /\ rpos \in DOMAIN rdata
  /\ mem' = [mem EXCEPT ![queue][rpos] = rdata[rpos]]
  /\ rpos' = rpos + 1
  /\ UNCHANGED <<user, userLen, queueLen, bits, idle, refs, rpc, rdata, mainVars>>

\* Set the length, make the idle source if there is none, unlock.
QueueDone ==
  /\ rpc = "copy" /\ rpos \notin DOMAIN rdata
  /\ queueLen' = rpos
  /\ \/ /\ idle = "none"
        /\ idle' = "made" /\ refs' = refs + 1 /\ rpc' = "attach"
     \/ /\ idle # "none"
        /\ rpc' = "read"
        /\ UNCHANGED <<idle, refs>>
  /\ UNCHANGED <<mem, user, userLen, bits, rdata, rpos, mainVars>>

\* g_source_set_callback and g_source_attach, without the mutex.
Attach ==
  /\ rpc = "attach"
  /\ idle' = "attached" /\ rpc' = "read"
  /\ UNCHANGED <<bufVars, refs, rdata, rpos, mainVars>>

\* The reader's own loop ends between two packets once it is told to quit.
ReaderStop ==
  /\ rpc = "read" /\ mpc = "joining"
  /\ rpc' = "stopped"
  /\ UNCHANGED <<bufVars, idle, refs, rdata, rpos, mainVars>>

-----------------------------------------------------------------------------
(* The main thread: send_packet_signal, its consumer, and shutdown.        *)

\* Mutant: the part of the packet beyond the last one is compared with
\* whatever the user buffer holds there.
DifferingIgnoresLength ==
  {c \in Channels : c < queueLen /\ mem[queue][c] # mem[user][c]}

\* The channels of the queued packet that are new or differ from the user
\* buffer.
Differing ==
  {c \in Channels : c < queueLen /\ (c >= userLen \/ mem[queue][c] # mem[user][c])}

\* Mutant: the result of g_mutex_trylock is not looked at.
DispatchUnlocked ==
  /\ mpc = "loop" /\ idle = "attached"
  /\ idle' = "none"

\* The idle callback runs and gets the mutex.
Dispatch ==
  /\ mpc = "loop" /\ idle = "attached" /\ ~Locked
  /\ idle' = "none"

\* No bit is set: the buffers stay as they are and the source's reference is
\* dropped.
NothingChanged ==
  /\ Dispatch
  /\ bits \cup Differing = {}
  /\ refs' = refs - 1
  /\ UNCHANGED <<bufVars, readerVars, mainVars>>

\* Some bit is set: swap, unlock, and start emitting new-packet.
SwapBuffers ==
  /\ Dispatch
  /\ bits \cup Differing # {}
  /\ bits' = bits \cup Differing
  /\ user' = queue /\ userLen' = queueLen /\ queueLen' = userLen
  /\ mpc' = "emit" /\ mpos' = 0
  /\ UNCHANGED <<mem, refs, readerVars, view>>

\* Mutant: the length of the packet is not looked at.
DeliverPastEnd ==
  /\ mpc = "emit"
  /\ view' = IF mpos \in bits THEN [view EXCEPT ![mpos] = mem[user][mpos]] ELSE view
  /\ mpos' = mpos + 1
  /\ UNCHANGED <<bufVars, idle, refs, readerVars, mpc>>

\* dmx_packet: the consumer is told of the channel if its bit is set.
Deliver ==
  /\ mpc = "emit" /\ mpos < userLen
  /\ view' = IF mpos \in bits THEN [view EXCEPT ![mpos] = mem[user][mpos]] ELSE view
  /\ mpos' = mpos + 1
  /\ UNCHANGED <<bufVars, idle, refs, readerVars, mpc>>

\* Mutant: the bits are not cleared.
EmitDoneKeepsBits ==
  /\ mpc = "emit" /\ mpos = userLen
  /\ refs' = refs - 1 /\ mpc' = "loop"
  /\ UNCHANGED <<bufVars, idle, readerVars, mpos, view>>

\* The emission returns: clear the bits; the finished source drops its
\* reference.
EmitDone ==
  /\ mpc = "emit" /\ mpos = userLen
  /\ bits' = {} /\ refs' = refs - 1 /\ mpc' = "loop"
  /\ UNCHANGED <<mem, user, userLen, queueLen, idle, readerVars, mpos, view>>

\* The main loop has ended and app_cleanup drops its reference.  It is the
\* last one unless an idle source is pending: then nothing is disposed of.
Quit ==
  /\ mpc = "loop"
  /\ \/ refs > 1 /\ refs' = refs - 1 /\ mpc' = "leaked"
     \/ refs = 1 /\ mpc' = "joining" /\ UNCHANGED refs
  /\ UNCHANGED <<bufVars, idle, readerVars, mpos, view>>

\* Mutant: the buffers are freed without waiting for the reader thread.
DisposeUnjoined ==
  /\ mpc = "joining"
  /\ idle' = "none" /\ refs' = 0 /\ mpc' = "freed"
  /\ UNCHANGED <<bufVars, readerVars, mpos, view>>

\* dispose: the reader thread is joined first, then a source it made in the
\* meantime is destroyed with its reference, and the buffers are freed.
Dispose ==
  /\ mpc = "joining" /\ rpc = "stopped"
  /\ idle' = "none" /\ refs' = 0 /\ mpc' = "freed"
  /\ UNCHANGED <<bufVars, readerVars, mpos, view>>

Ended ==
  /\ mpc = "freed"
  /\ UNCHANGED vars

Next ==
  \/ \E p \in Packets : Queue(p)
  \/ CopyByte
  \/ QueueDone
  \/ Attach
  \/ ReaderStop
  \/ NothingChanged
  \/ SwapBuffers
  \/ Deliver
  \/ EmitDone
  \/ Quit
  \/ Dispose
  \/ Ended

Spec == Init /\ [][Next]_vars

(* The reader never stops inside a call, the main thread goes on with its  *)
(* handler, and trylock, which the idle source retries without pause,      *)
(* succeeds some time: the reader holds the mutex for one copy per packet. *)
Fairness ==
  /\ WF_vars(CopyByte) /\ WF_vars(QueueDone) /\ WF_vars(Attach) /\ WF_vars(ReaderStop)
  /\ WF_vars(Deliver) /\ WF_vars(EmitDone) /\ WF_vars(Dispose)
  /\ SF_vars(NothingChanged \/ SwapBuffers)

FairSpec == Spec /\ Fairness

-----------------------------------------------------------------------------
(* Properties.                                                             *)

TypeOK ==
  /\ mem \in [{0, 1} -> [Channels -> Bytes]]
  /\ user \in {0, 1}
  /\ userLen \in 0 .. MaxBuffer /\ queueLen \in 0 .. MaxBuffer
  /\ bits \in SUBSET Channels
  /\ idle \in {"none", "made", "attached"}
  /\ refs \in Nat
  /\ rpc \in {"read", "copy", "attach", "stopped"}
  /\ rdata \in Packets
  /\ rpos \in 0 .. MaxBuffer
  /\ mpc \in {"loop", "emit", "leaked", "joining", "freed"}
  /\ mpos \in 0 .. MaxBuffer
  /\ view \in [Channels -> Bytes \cup {Unset}]

\* Whenever the main thread is not in the middle of an emission the consumer
\* knows the value of every channel of the packet in the user buffer, though
\* it was only told of the channels whose bit was set, from a buffer the
\* reader filled before and fills again.
ViewCurrent ==
  mpc # "emit" => \A c \in Channels : c < userLen => view[c] = mem[user][c]

\* The receiver is kept alive by exactly the owner, a source that is pending
\* and a source whose callback runs; and once its buffers are freed no
\* thread or source is left that could use them.
Lifetime ==
  /\ mpc # "freed" =>
       refs = (IF mpc \in {"loop", "emit", "joining"} THEN 1 ELSE 0)
              + (IF idle # "none" THEN 1 ELSE 0)
              + (IF mpc = "emit" THEN 1 ELSE 0)
  /\ mpc = "freed" => rpc = "stopped" /\ idle = "none"

\* When an emission starts, the bits set are exactly the channels the
\* consumer has to be told of: those the last packet did not cover and those
\* whose value is not the one it was last told.
NotifiesExactlyChanges ==
  [][mpc = "loop" /\ mpc' = "emit" =>
       \A c \in Channels : c < userLen' =>
         (c \in bits' <=> (c >= userLen \/ view[c] # mem'[user'][c]))]_vars

\* The hand-over implements the conflating channel: no packet is torn or
\* mixed with another, a newer one replaces the pending one, and a pending
\* packet is taken while the main loop runs.  A packet is published when the
\* reader gets the mutex and taken when the main thread swaps or finds
\* nothing changed.
Pending ==
  IF rpc = "copy" THEN {rdata}
  ELSE IF idle # "none" THEN {[c \in 0 .. queueLen - 1 |-> mem[queue][c]]}
  ELSE {}

Seen == [c \in Channels |-> IF c < userLen THEN mem[user][c] ELSE view[c]]

Open == mpc \in {"loop", "emit"}

Channel == INSTANCE ConflatingChannel WITH pending <- Pending, seen <- Seen, open <- Open

Conflates == Channel!FairChannelSpec
=============================================================================
