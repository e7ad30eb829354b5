------------------------------ MODULE MCMapper ------------------------------
(* For the run about failures: three functions with an object each, the    *)
(* first and the third on one connection, so that they go together when it *)
(* is closed.  The run about a killed process needs only two.              *)
EXTENDS Mapper

CONSTANTS o1, o2, o3, k1, k2

MCFunctions == {1, 2, 3}

MCObjects == {o1, o2, o3}

MCConnections == {k1, k2}

MCKeyOf == [o \in MCObjects |-> CASE o = o1 -> 1 [] o = o2 -> 2 [] o = o3 -> 3]

MCConnectionOf == [o \in MCObjects |-> IF o = o2 THEN k2 ELSE k1]

MCLevels == {0, 255}

FewFunctions == {1, 2}

FewObjects == {o1, o2}

FewKeyOf == [o \in FewObjects |-> IF o = o1 THEN 1 ELSE 2]

FewConnectionOf == [o \in FewObjects |-> IF o = o1 THEN k1 ELSE k2]
=============================================================================
