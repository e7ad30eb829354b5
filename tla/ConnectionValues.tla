-------------------------- MODULE ConnectionValues --------------------------
(***************************************************************************)
(* c2ip_connection_values.c: what is learnt of a device once it has        *)
(* accepted a connection, up to the moment its functions are announced.    *)
(*                                                                         *)
(* All values are requested at once.  The replies create the functions, an *)
(* ALL_DONE ends them, and then the functions that have more to tell are   *)
(* asked one at a time for their options or their unit.  A reply to the    *)
(* function at the head of the list, or five seconds without one, leads to *)
(* the next request; an empty list to "values-ready", when main.c exports  *)
(* every function and binds it to its mapping.                             *)
(*                                                                         *)
(* The device lists whatever functions it has, may indicate any function,  *)
(* a new one too, at any time, and answers a request for information late, *)
(* twice, or never.  No packet is refused because of setup_state: each     *)
(* ALL_DONE puts every function in front of those that wait already, and   *)
(* each reply to an authentication has all values requested again.         *)
(*                                                                         *)
(* A request that cannot be written closes the connection.  The loop of    *)
(* request_next_info then tries the same function again.  Called from the  *)
(* handler of a packet, whose emission keeps the object alive, the loop    *)
(* has no end.  Called from the timeout, which holds no reference, it goes *)
(* on with an object that the closing has disposed of.                     *)
(***************************************************************************)
EXTENDS Naturals, Sequences, FiniteSets, SequencesExt

CONSTANTS
  Functions,    \* functions of the device, as numbers
  Options,      \* those of type BOOL or ENUM
  HasInfo,      \* the values the flag HAS_INFO of each function may have
  SendOutcomes, \* whether a request may be written, may fail to be
  MaxDones      \* bound: ALL_DONEs a device sends

ASSUME ValuesAssumption ==
  /\ Functions \subseteq Nat /\ IsFiniteSet(Functions)
  /\ Options \subseteq Functions
  /\ HasInfo \in [Functions -> SUBSET BOOLEAN]
  /\ SendOutcomes \subseteq BOOLEAN /\ MaxDones \in Nat

VARIABLES
  main,      \* runs, spins in request_next_info, uses an object that is gone
  conn,      \* the connection: authenticating, open or closed
  setup,     \* setup_state
  values,    \* the functions in values, each with its flag HAS_INFO
  pending,   \* functions that wait for information
  timer,     \* request_timeout: none, armed, or the id of a timer that fired
  waiting,   \* functions whose request is neither answered nor given up
  told,      \* functions told of since the last ALL_DONE
  gaveUp,    \* functions whose request has timed out since then
  dones,     \* ALL_DONEs that have come
  listed,    \* functions known at the last of them
  bound,     \* functions bind_function was called with
  ready      \* the last step emitted values-ready

infoVars == <<waiting, told, gaveUp>>
listVars == <<dones, listed>>
vars     == <<main, conn, setup, values, pending, timer, infoVars, listVars, bound, ready>>

Known == DOMAIN values

Wants(v, f) == f \in Options \/ v[f]

Init ==
  /\ main = "runs" /\ conn = "authenticating" /\ setup = "NONE"
  /\ values = << >> /\ pending = << >> /\ timer = "none"
  /\ waiting = {} /\ told = {} /\ gaveUp = {}
  /\ dones = 0 /\ listed = {} /\ bound = {} /\ ready = FALSE

-----------------------------------------------------------------------------
(* request_next_info, of a list of functions; out are those whose request  *)
(* is out when it is called.                                               *)

\* The functions that have nothing more to tell are dropped from the list up
\* to its first one that has: f, which becomes the head.
HeadOf(list, f) ==
  \E i \in DOMAIN list :
    /\ f = list[i] /\ Wants(values, f)
    /\ \A j \in 1 .. i - 1 : ~Wants(values, list[j])
    /\ pending' = SubSeq(list, i, Len(list))

\* Mutant: a request does not arm the timer again.
RequestUntimed(list, out, s) ==
  /\ \E f \in Functions : HeadOf(list, f) /\ waiting' = out \cup {f}
  /\ setup' = s /\ timer' = "none" /\ ready' = FALSE
  /\ UNCHANGED <<main, conn, bound>>

\* The request for the new head is written.
Request(list, out, s) ==
  /\ \E f \in Functions : HeadOf(list, f) /\ waiting' = out \cup {f}
  /\ setup' = s /\ timer' = "armed" /\ ready' = FALSE
  /\ UNCHANGED <<main, conn, bound>>

\* It cannot be written: the connection is closed and the loop goes on.
RequestFails(list, out, s, failed) ==
  /\ \E f \in Functions : HeadOf(list, f)
  /\ waiting' = out
  /\ main' = failed /\ conn' = "closed"
  /\ setup' = s /\ timer' = "armed" /\ ready' = FALSE
  /\ UNCHANGED bound

\* No function of the list has more to tell.
Finished(list, out) ==
  /\ \A i \in DOMAIN list : ~Wants(values, list[i])
  /\ pending' = << >> /\ waiting' = out
  /\ setup' = "DONE" /\ timer' = "armed"
  /\ ready' = TRUE /\ bound' = Known
  /\ UNCHANGED <<main, conn>>

NextInfo(list, out, s, written, failed) ==
  \/ written /\ Request(list, out, s)
  \/ ~written /\ RequestFails(list, out, s, failed)
  \/ Finished(list, out)

-----------------------------------------------------------------------------
(* The connection.                                                         *)

\* The connection is there and nothing keeps the main thread.
Serving == main = "runs" /\ conn # "closed"

\* connected, for each reply to the authentication: all values are requested.
\* If that fails the values are given up as by Closes.
Connected(written) ==
  /\ Serving
  /\ setup' = "VALUES" /\ ready' = FALSE
  /\ \/ /\ written
        /\ conn' = "open"
        /\ UNCHANGED <<values, pending, timer>>
     \/ /\ ~written
        /\ conn' = "closed"
        /\ values' = << >> /\ pending' = << >> /\ timer' = "none"
  /\ UNCHANGED <<main, infoVars, listVars, bound>>

\* Mutant: the list of waiting functions outlives them.
ClosesKeepingPending ==
  /\ Serving
  /\ conn' = "closed"
  /\ values' = << >> /\ timer' = "none" /\ ready' = FALSE
  /\ UNCHANGED <<main, setup, pending, infoVars, listVars, bound>>

\* The connection is closed and the last reference to the values given up:
\* dispose.
Closes ==
  /\ Serving
  /\ conn' = "closed"
  /\ values' = << >> /\ pending' = << >> /\ timer' = "none" /\ ready' = FALSE
  /\ UNCHANGED <<main, setup, infoVars, listVars, bound>>

-----------------------------------------------------------------------------
(* Packets: received_packet.                                               *)

\* handle_value_reply, for a reply or an indication.
ValueReply(f, h) ==
  /\ Serving
  /\ h \in HasInfo[f]
  /\ values' = [g \in Known \cup {f} |-> IF g = f THEN h ELSE values[g]]
  /\ ready' = FALSE
  /\ UNCHANGED <<main, conn, setup, pending, timer, infoVars, listVars, bound>>

\* The functions in values, which is sorted, as g_slist_prepend leaves them.
Descending(s) ==
  {s[i] : i \in DOMAIN s} = Known /\ \A i, j \in DOMAIN s : i < j => s[i] > s[j]

\* REPLY_VALUE_ALL_DONE.
AllDone(list, written) ==
  /\ Serving /\ dones < MaxDones
  /\ Descending(list)
  /\ dones' = dones + 1 /\ listed' = Known
  /\ told' = {} /\ gaveUp' = {}
  /\ NextInfo(list \o pending, waiting, "INFO", written, "spins")
  /\ UNCHANGED values

\* Mutant: got_info takes any information for that of the head.
GotAnyInfo(f, written) ==
  \/ /\ setup = "INFO"
     /\ NextInfo(Tail(pending), waiting \ {f}, setup, written, "spins")
  \/ /\ setup # "INFO"
     /\ waiting' = waiting \ {f} /\ ready' = FALSE
     /\ UNCHANGED <<main, conn, setup, pending, timer, bound>>

\* got_info.
GotInfo(f, written) ==
  \/ /\ setup = "INFO" /\ Head(pending) = f
     /\ NextInfo(Tail(pending), waiting \ {f}, setup, written, "spins")
  \/ /\ setup = "INFO" => Head(pending) # f
     /\ waiting' = waiting \ {f} /\ ready' = FALSE
     /\ UNCHANGED <<main, conn, setup, pending, timer, bound>>

\* handle_info_reply, for a function that is known; whether it was asked for
\* is not looked at.
InfoReply(f, written) ==
  /\ Serving
  /\ f \in Known
  /\ told' = told \cup {f}
  /\ GotInfo(f, written)
  /\ UNCHANGED <<values, gaveUp, listVars>>

-----------------------------------------------------------------------------
(* The timer: request_timed_out.                                           *)

\* Mutant: the list is not looked at.
TimesOutAnyway(written) ==
  /\ Serving /\ timer = "armed"
  /\ LET head == IF pending = << >> THEN {} ELSE {Head(pending)} IN
     /\ gaveUp' = gaveUp \cup head
     /\ NextInfo(IF pending = << >> THEN << >> ELSE Tail(pending), waiting \ head, setup,
                 written, "uses freed")
  /\ UNCHANGED <<values, told, listVars>>

\* The head is given up.  With an empty list only the id of the timer, which
\* is gone, stays behind.
TimesOut(written) ==
  /\ Serving /\ timer = "armed"
  /\ \/ /\ pending # << >>
        /\ gaveUp' = gaveUp \cup {Head(pending)}
        /\ NextInfo(Tail(pending), waiting \ {Head(pending)}, setup, written, "uses freed")
     \/ /\ pending = << >>
        /\ timer' = "stale" /\ ready' = FALSE
        /\ UNCHANGED <<main, conn, setup, pending, waiting, gaveUp, bound>>
  /\ UNCHANGED <<values, told, listVars>>

Ended ==
  /\ conn = "closed"
  /\ UNCHANGED vars

Next ==
  \/ \E w \in SendOutcomes : Connected(w)
  \/ Closes
  \/ \E f \in Functions, h \in BOOLEAN : ValueReply(f, h)
  \/ \E w \in SendOutcomes, s \in SetToAllKPermutations(Functions) : AllDone(s, w)
  \/ \E f \in Functions, w \in SendOutcomes : InfoReply(f, w)
  \/ \E w \in SendOutcomes : TimesOut(w)
  \/ Ended

Spec == Init /\ [][Next]_vars

(* The main loop runs a timer that is due.  Nothing is asked of the device. *)
FairSpec == Spec /\ WF_vars(\E w \in SendOutcomes : TimesOut(w))

-----------------------------------------------------------------------------
(* Properties.                                                             *)

\* Among the types: the functions that wait, and those the connection's
\* mappings are bound to, are held by values, which owns them.
TypeOK ==
  /\ main \in {"runs", "spins", "uses freed"}
  /\ conn \in {"authenticating", "open", "closed"}
  /\ setup \in {"NONE", "VALUES", "INFO", "DONE"}
  /\ Known \subseteq Functions /\ values \in [Known -> BOOLEAN]
  /\ pending \in Seq(Known)
  /\ timer \in {"none", "armed", "stale"}
  /\ waiting \subseteq Functions /\ told \subseteq Functions /\ gaveUp \subseteq Functions
  /\ dones \in 0 .. MaxDones
  /\ listed \subseteq Functions /\ bound \subseteq Functions
  /\ ready \in BOOLEAN

\* While information is gathered some function waits for it (the assertion of
\* got_info), it has been asked, and its timer runs.  Requests that are neither
\* answered nor given up are no more than there were ALL_DONEs: after the one of
\* a device that sends it once, that of the head of the list alone, whatever
\* arrives late, twice or unasked.
OneRequest ==
  conn # "closed" =>
    /\ setup = "INFO" => pending # << >> /\ timer = "armed" /\ Head(pending) \in waiting
    /\ Cardinality(waiting) <= dones

\* values-ready is emitted once for the functions an ALL_DONE, or several, put
\* on the list, and not before every one of them that is of type BOOL or ENUM,
\* or always has the flag HAS_INFO, has told its options or its unit since, or
\* has been given up.
ReadyComplete ==
  [][ready' =>
       /\ pending # << >> \/ dones' > dones
       /\ \A f \in listed' : f \in Options \/ HasInfo[f] = {TRUE} => f \in told' \cup gaveUp']_vars

\* Information is gathered for a limited time, even from a device that never
\* answers: the functions are announced unless the connection closes.
GetsReady == setup = "INFO" ~> setup = "DONE" \/ conn = "closed"

\* dmx_c2ip_mapper_bind_function is to be used "when a new connection is made
\* and functions become available": a function that is available is bound.
AvailableBound == setup = "DONE" /\ conn = "open" => Known \subseteq bound
=============================================================================
