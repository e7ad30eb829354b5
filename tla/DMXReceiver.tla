------------------------------ MODULE DMXReceiver ------------------------------
(***************************************************************************)
(* A receiver of DMX as a whole: the thread of ReadThread, which in its    *)
(* serial kind runs the decoder of SerialDecoder from the dispatch of its  *)
(* loop.  What the line has sent waits in the port until it is read, and   *)
(* one dispatch handles as much of it as the read gave: any number of the  *)
(* decoder's steps.  The OLA kind gets whole packets from the library.     *)
(***************************************************************************)
EXTENDS SerialDecoder

VARIABLES kind, main, thread, mutex, cond, loop, running, error, port  \* of ReadThread

T == INSTANCE ReadThread

threadVars == <<kind, main, thread, mutex, cond, loop, running, error, port>>

allVars == <<threadVars, vars>>

ReceiverInit == T!Init /\ Init

\* handle_data, from dispatch.
HandleData ==
  /\ kind = "serial" /\ thread = "dispatch"
  /\ Next
  /\ UNCHANGED threadVars

ReceiverNext ==
  \/ T!Next /\ UNCHANGED vars
  \/ HandleData

ReceiverSpec == ReceiverInit /\ [][ReceiverNext]_allVars

(* That of ReadThread: what there is to handle at a time is finite.        *)
ReceiverFairness ==
  /\ SF_allVars(T!MainNext /\ UNCHANGED vars)
  /\ SF_allVars(T!ThreadNext /\ UNCHANGED vars)

FairReceiver == ReceiverSpec /\ ReceiverFairness

-----------------------------------------------------------------------------
(* Properties; FramesExact and the decoder's TypeOK are in SerialDecoder.  *)

\* The types of ReadThread, with who holds the mutex and when the loop exists.
ThreadTypeOK == T!TypeOK

\* While the thread has anything to do its mutex and port exist, the creator
\* waits on a live condition, and only a receiver whose loop was made is used.
UsesLive == T!UsesLive

\* Whoever starts a receiver gets an answer, but for an OLA server that goes
\* away before the creator looks.
Starts == T!Starts

\* A thread whose loop runs when it is to be stopped ends and is joined,
\* whatever it is still reading.
Stops == T!Stops
=============================================================================
