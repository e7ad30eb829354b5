---------------------------- MODULE MCMappingPage ----------------------------
(* Two functions on two channels.  The first has two objects, as after two *)
(* connections to its device, and a row from its first connection on; the  *)
(* second has no limits to begin with, so that it gets its row only when   *)
(* it is mapped, is one a float cannot be transformed to the value of, and *)
(* goes with an object of the first.                                       *)
EXTENDS MappingPage, TLC

CONSTANTS o1, o2, o3, k1, k2

MCFunctions == {1, 2}

MCObjects == {o1, o2, o3}

MCKeyOf == (o1 :> 1) @@ (o2 :> 1) @@ (o3 :> 2)

MCConnections == {k1, k2}

MCConnectionOf == (o1 :> k1) @@ (o2 :> k2) @@ (o3 :> k2)

MCConvertible == {1}

MCLevels == {0, 255}

MCDefaultOf == (1 :> <<0, 1>>)
=============================================================================
