------------------------------ MODULE Lifecycle ------------------------------
(***************************************************************************)
(* Who holds a connection and its values, and how they are given up when   *)
(* the connection is closed.                                               *)
(*                                                                         *)
(* The manager's device list holds the connection and so do the values;    *)
(* new_connection of main.c takes a second reference to the values, and    *)
(* its handler of their connection-closed gives up one.  That is enough    *)
(* because the signal comes twice: close_connection emits it while the     *)
(* connection is still set, and the manager's handler, which comes first,  *)
(* takes the device off the list and closes the connection again, inside   *)
(* the emission.                                                           *)
(*                                                                         *)
(* An emission holds its object until it is over.  The calls in progress   *)
(* are a stack; Connection goes on when it is empty.                       *)
(***************************************************************************)
EXTENDS Connection, SequencesExt

VARIABLES
  refs,    \* references to the connection (conn) and to its values (values)
  listed,  \* the manager's device list has the connection
  stack    \* calls in progress: an emission and whose handler is next, or a
           \* function that waits for such a call

lifeVars == <<refs, listed, stack>>
allVars  == <<vars, lifeVars>>

Emissions == {"manager", "values", "done"}

\* handle_data of the manager makes the connection, new_connection the values.
LifecycleInit ==
  /\ Init
  /\ refs = [conn |-> 2, values |-> 2]
  /\ listed = TRUE
  /\ stack = << >>

-----------------------------------------------------------------------------
(* References.                                                             *)

HoldConn(r) == [r EXCEPT !.conn = @ + 1]

DropConn(r) == [r EXCEPT !.conn = @ - 1]

HoldBoth(r) == [conn |-> r.conn + 1, values |-> r.values + 1]

\* The last reference to the values gives up theirs to the connection: dispose.
DropValues(r) ==
  [conn   |-> IF r.values = 1 THEN r.conn - 1 ELSE r.conn,
   values |-> r.values - 1]

-----------------------------------------------------------------------------
(* Closing.                                                                *)

\* A request fails inside a handler of connected or received-packet, whose
\* emission holds the connection and the values while the handler runs.
InHandler == handling /\ packets[buffer[1][1]].kind # "ping"

\* close_connection emits connection-closed.
Begins ==
  /\ main' = "closing"
  /\ \/ /\ InHandler
        /\ stack' = <<"receiving", "manager">>
        /\ refs' = HoldConn(HoldBoth(refs))
     \/ /\ ~InHandler
        /\ stack' = <<"manager">>
        /\ refs' = HoldConn(refs)
  /\ UNCHANGED listed

\* dispose of the manager destroys the device; only a connection that was made
\* emits anything.
BeginsAtEnd ==
  /\ main' = "ends" /\ main # "ends"
  /\ listed' = FALSE
  /\ \/ /\ conn = "open"
        /\ stack' = <<"destroying", "manager">>
        /\ refs' = HoldConn(refs)
     \/ /\ conn # "open"
        /\ stack' = <<"destroying">>
        /\ UNCHANGED refs

\* Mutant: a device whose connection has been closed is only dropped.
DropsDevice ==
  /\ listed' = FALSE
  /\ stack' = Append(Front(stack), "values")
  /\ refs' = DropConn(refs)

\* destroy_device: the device leaves the list before its connection is closed
\* again, and nothing has cleared that yet.
DestroysDevice ==
  /\ listed' = FALSE
  /\ stack' = Front(stack) \o <<"values", "destroying", "manager">>
  /\ refs' = HoldConn(refs)

\* connection_closed of the manager.
ManagerHears ==
  /\ stack # << >> /\ Last(stack) = "manager"
  /\ \/ /\ listed
        /\ DestroysDevice
     \/ /\ ~listed
        /\ stack' = Append(Front(stack), "values")
        /\ UNCHANGED <<refs, listed>>

\* connection_closed of the values and of main.c; values that are gone are no
\* longer called.
ValuesHear ==
  /\ stack # << >> /\ Last(stack) = "values"
  /\ stack' = Append(Front(stack), "done")
  /\ refs' = IF refs.values > 0 THEN DropValues(refs) ELSE refs
  /\ UNCHANGED listed

\* The emission is over; close_connection clears the connection and returns.
EmissionEnds ==
  /\ stack # << >> /\ Last(stack) = "done"
  /\ stack' = Front(stack)
  /\ refs' = DropConn(refs)
  /\ UNCHANGED listed

\* destroy_device goes on, after the call to close the connection.
Destroyed ==
  /\ stack # << >> /\ Last(stack) = "destroying"
  /\ stack' = Front(stack)
  /\ refs' = DropConn(refs)
  /\ UNCHANGED listed

\* The handler in which the request failed returns.
Returns ==
  /\ stack # << >> /\ Last(stack) = "receiving"
  /\ stack' = Front(stack)
  /\ refs' = DropConn(DropValues(refs))
  /\ UNCHANGED listed

Unwinds ==
  /\ ManagerHears \/ ValuesHear \/ EmissionEnds \/ Destroyed \/ Returns
  /\ UNCHANGED vars

\* A step of the connection, with what it begins.
Steps(A) ==
  /\ stack = << >> /\ A
  /\ \/ Begins
     \/ BeginsAtEnd
     \/ /\ main' # "closing" /\ (main' = "ends" => main = "ends")
        /\ UNCHANGED lifeVars

LifecycleNext == Steps(Next) \/ Unwinds

LifecycleSpec == LifecycleInit /\ [][LifecycleNext]_allVars

(* That of Connection; the main thread goes on with what it has begun.     *)
LifecycleFairness ==
  /\ WF_allVars(Steps((\E n \in 1 .. BufferSize : ReadSome(n)) \/ ReadNothing))
  /\ WF_allVars(Steps((\E w \in BOOLEAN : HandleReply(w)) \/ ReadAgain))
  /\ WF_allVars(Unwinds)
  /\ WF_allVars(Steps(ClosingEnds))

FairLifecycle == LifecycleSpec /\ LifecycleFairness

-----------------------------------------------------------------------------
(* Properties.                                                             *)

Frames(kinds) == Cardinality({i \in DOMAIN stack : stack[i] \in kinds})

\* The connection has a reference for each of its holders and no other; it is
\* there while anything is being told of it, at most twice at once; and a
\* connection that has closed while the program runs leaves nothing behind: the
\* nested emission makes up for the second reference of main.c, wherever the
\* closing began.
Lifetimes ==
  /\ refs.values >= 0
  /\ refs.conn = (IF listed THEN 1 ELSE 0) + (IF refs.values > 0 THEN 1 ELSE 0)
                 + Frames(Emissions \cup {"destroying", "receiving"})
  /\ Frames(Emissions) <= 2
  /\ main \in {"runs", "uses freed"} /\ conn = "closed" =>
       refs = [conn |-> 0, values |-> 0]
=============================================================================
