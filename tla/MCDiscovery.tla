----------------------------- MODULE MCDiscovery -----------------------------
(* Two addresses.  One device answers at both, one at the last only; a      *)
(* third, whose name is too long for its reply to be read, at the first.   *)
EXTENDS Discovery, TLC

CONSTANTS d1, d2, d3, a1, a2

MCDevices == {d1, d2, d3}

MCAddresses == <<a1, a2>>

MCDevicesAt == (a1 :> {d1, d3}) @@ (a2 :> {d1, d2})

Answer(kind, status, high, low) ==
  (4 :> kind) @@ (5 :> status) @@ (6 :> high) @@ (7 :> low)

MCAnswers == {Answer(3, 0, 0, 0), Answer(2, 0, 0, 0), Answer(2, 1, 6, 1)}
=============================================================================
