----------------------------- MODULE ReadThread -----------------------------
(***************************************************************************)
(* serial_dmx_recv.c and ola_dmx_recv.c: how the thread that receives DMX  *)
(* is started and stopped by the main thread.                              *)
(*                                                                         *)
(* Both do it the same way.  The thread makes the loop it is going to run  *)
(* under the mutex, and the creator waits for the loop (or an error) on a  *)
(* condition variable.  To stop it the main thread tells the loop to quit, *)
(* under the mutex and if there is one, and joins the thread.  They differ *)
(* in the loop: one of GLib, or the SelectServer of the OLA library, whose *)
(* set-up may fail and which also ends when the OLA server goes away.      *)
(*                                                                         *)
(* What the thread does while it dispatches is SerialDecoder, put together *)
(* with this in DMXReceiver, and how it hands over packets BufferedDMX.    *)
(***************************************************************************)
VARIABLES
  kind,      \* which receiver this is
  main,      \* where the main thread is
  thread,    \* where the thread is
  mutex,     \* read_mutex: unset, free, cleared, or who holds it
  cond,      \* read_start_cond: unset, ready or cleared
  loop,      \* read_main_loop or ola_wrapper is set
  running,   \* the loop has been told to run, and not to quit since
  error,     \* read_error is set
  port       \* serial_fd is open

objects == <<mutex, cond, port>>
vars    == <<kind, main, thread, objects, loop, running, error>>

\* The receivers that are built.
Kinds == {"serial", "ola"}

\* g_object_new: nothing is there.  A loop is made running.
Init ==
  /\ kind \in Kinds
  /\ main = "open" /\ thread = "none"
  /\ mutex = "unset" /\ cond = "unset" /\ port = FALSE
  /\ loop = FALSE /\ running = TRUE /\ error = FALSE

Lock(who)   == mutex = "free" /\ mutex' = who
Unlock(who) == mutex = who /\ mutex' = "free"

-----------------------------------------------------------------------------
(* The main thread: serial_dmx_recv_new, ola_dmx_recv_new,                 *)
(* start_read_thread.                                                      *)

\* The serial port is opened; without it there is no thread.
Open ==
  /\ main = "open"
  /\ \/ /\ port' = (kind = "serial")
        /\ main' = "create"
     \/ /\ kind = "serial"
        /\ main' = "disposed"
        /\ UNCHANGED port
  /\ UNCHANGED <<kind, thread, mutex, cond, loop, running, error>>

CreateThread ==
  /\ main = "create"
  /\ mutex' = "free" /\ cond' = "ready"
  /\ thread' = "begin" /\ main' = "lock"
  /\ UNCHANGED <<kind, port, loop, running, error>>

LockToStart ==
  /\ main = "lock" /\ Lock("main")
  /\ main' = "check"
  /\ UNCHANGED <<kind, thread, cond, port, loop, running, error>>

\* What is waited for.
Made == loop \/ error

\* g_cond_wait gives up the mutex and waits in one step.
CheckStarted ==
  /\ main = "check" /\ Unlock("main")
  /\ main' = IF Made THEN "clear" ELSE "waiting"
  /\ UNCHANGED <<kind, thread, cond, port, loop, running, error>>

\* g_cond_wait may return without a signal.
SpuriousWake ==
  /\ main = "waiting"
  /\ main' = "lock"
  /\ UNCHANGED <<kind, thread, objects, loop, running, error>>

\* With an error the new object is given up.
ClearCond ==
  /\ main = "clear"
  /\ cond' = "cleared"
  /\ main' = IF error THEN "stop" ELSE "runs"
  /\ error' = FALSE
  /\ UNCHANGED <<kind, thread, mutex, port, loop, running>>

(* stop_read_thread, dispose.                                              *)

Dispose ==
  /\ main = "runs"
  /\ main' = "stop"
  /\ UNCHANGED <<kind, thread, objects, loop, running, error>>

LockToStop ==
  /\ main = "stop" /\ Lock("main")
  /\ main' = "quit"
  /\ UNCHANGED <<kind, thread, cond, port, loop, running, error>>

\* Mutant: the thread is asked to quit only if it has not made its loop.
QuitsIfNone == running' = (running /\ loop)

Quits == running' = (running /\ ~loop)

Quit ==
  /\ main = "quit" /\ Unlock("main")
  /\ Quits
  /\ main' = "join"
  /\ UNCHANGED <<kind, thread, cond, port, loop, error>>

\* Mutant: the main thread does not wait for the end of the thread.
JoinedAnyway == TRUE

Joined == thread = "ended"

Join ==
  /\ main = "join" /\ Joined
  /\ mutex' = "cleared" /\ port' = FALSE
  /\ main' = "disposed"
  /\ UNCHANGED <<kind, thread, cond, loop, running, error>>

-----------------------------------------------------------------------------
(* The thread: read_thread.                                                *)

LockToMake ==
  /\ thread = "begin" /\ Lock("thread")
  /\ thread' = "make"
  /\ UNCHANGED <<kind, main, cond, port, loop, running, error>>

\* The mutex is unlocked before the condition is signalled.
MakeLoop ==
  /\ thread = "make" /\ Unlock("thread")
  /\ \/ loop' = TRUE /\ UNCHANGED error
     \/ kind = "ola" /\ error' = TRUE /\ UNCHANGED loop
  /\ thread' = "signal"
  /\ UNCHANGED <<kind, main, cond, port, running>>

\* Mutant: nobody is woken.
WakesNobody == UNCHANGED main

\* g_cond_signal.
Wakes == main' = IF main = "waiting" THEN "lock" ELSE main

\* By now the creator may have seen the loop and cleared the condition; on
\* Linux that leaves a word that can still be signalled.
Signal ==
  /\ thread = "signal"
  /\ Wakes
  /\ thread' = IF loop THEN "run" ELSE "ended"
  /\ UNCHANGED <<kind, objects, loop, running, error>>

\* g_main_loop_run and Run of SelectServer begin by setting their flag, so
\* that a quit that came before is lost.
Run ==
  /\ thread = "run"
  /\ running' = TRUE
  /\ thread' = "loop"
  /\ UNCHANGED <<kind, main, objects, loop, error>>

\* There is something to read.
Poll ==
  /\ thread = "loop" /\ running
  /\ thread' = "dispatch"
  /\ UNCHANGED <<kind, main, objects, loop, running, error>>

\* It is read and handled to the end, also when the loop is to quit.
Dispatch ==
  /\ thread = "dispatch"
  /\ thread' = "loop"
  /\ UNCHANGED <<kind, main, objects, loop, running, error>>

\* The OLA server has gone, and the library terminates the loop.
ServerGone ==
  /\ thread = "loop" /\ kind = "ola" /\ running
  /\ running' = FALSE
  /\ UNCHANGED <<kind, main, thread, objects, loop, error>>

\* Mutant: the mutex is left to the main thread.
LocksNothing == UNCHANGED mutex

LocksToFree == Lock("thread")

LockToFree ==
  /\ thread = "loop" /\ ~running /\ LocksToFree
  /\ thread' = "free"
  /\ UNCHANGED <<kind, main, cond, port, loop, running, error>>

FreeLoop ==
  /\ thread = "free" /\ Unlock("thread")
  /\ loop' = FALSE
  /\ thread' = "ended"
  /\ UNCHANGED <<kind, main, cond, port, running, error>>

Finished == main = "disposed" /\ UNCHANGED vars

MainNext ==
  \/ Open \/ CreateThread \/ LockToStart \/ CheckStarted \/ ClearCond
  \/ LockToStop \/ Quit \/ Join

ThreadNext ==
  LockToMake \/ MakeLoop \/ Signal \/ Run \/ Dispatch \/ LockToFree \/ FreeLoop

Next ==
  MainNext \/ SpuriousWake \/ Dispose \/ ThreadNext \/ Poll \/ ServerGone \/ Finished

Spec == Init /\ [][Next]_vars

(* Both threads are scheduled, and each gets the mutex though the other    *)
(* takes it again and again.  There need not be anything to read, nobody   *)
(* has to stop the receiver, the OLA server need not go away, and a wait   *)
(* need not end without a signal.                                          *)
Fairness == SF_vars(MainNext) /\ SF_vars(ThreadNext)

FairSpec == Spec /\ Fairness

-----------------------------------------------------------------------------
(* Properties.                                                             *)

\* Among the types: the mutex is held exactly in the parts that are written
\* to hold it, and the loop is there from MakeLoop to FreeLoop unless there
\* was an error.
TypeOK ==
  /\ kind \in Kinds
  /\ main \in {"open", "create", "lock", "check", "waiting", "clear", "runs",
               "stop", "quit", "join", "disposed"}
  /\ thread \in {"none", "begin", "make", "signal", "run", "loop", "dispatch", "free",
                 "ended"}
  /\ mutex \in {"unset", "free", "cleared", "main", "thread"}
  /\ mutex = "main" <=> main \in {"check", "quit"}
  /\ mutex = "thread" <=> thread \in {"make", "free"}
  /\ cond \in {"unset", "ready", "cleared"}
  /\ running \in BOOLEAN /\ error \in BOOLEAN /\ port \in BOOLEAN
  /\ loop \in BOOLEAN
  /\ thread \in {"run", "loop", "dispatch", "free"} => loop
  /\ thread \in {"none", "begin", "make", "ended"} => ~loop

\* As long as the thread has anything left to do its mutex and its port are
\* there, the creator waits on a condition that has not been cleared, and a
\* receiver is given to the program only if its loop was made.
UsesLive ==
  /\ thread \notin {"none", "ended"} =>
       mutex # "cleared" /\ main # "disposed" /\ (kind = "serial" => port)
  /\ main \in {"lock", "check", "waiting"} => cond = "ready"
  /\ main = "runs" => ~error /\ (loop \/ thread = "ended")

\* Whoever starts a receiver gets an answer: no signal is missed.  The
\* exception is an OLA server that goes away so soon that the loop has been
\* freed before the creator looks.
Starts ==
  main = "lock" ~> main \in {"runs", "stop"} \/ (kind = "ola" /\ thread = "ended" /\ ~error)

\* A thread whose loop runs when it is to be stopped ends and is joined.  A
\* quit that comes before the loop runs is lost, and the join waits for ever.
Stops ==
  main = "stop" /\ thread \in {"loop", "dispatch", "free", "ended"} ~> main = "disposed"
=============================================================================
