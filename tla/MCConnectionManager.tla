------------------------ MODULE MCConnectionManager ------------------------
(* Two devices.  An answer is something else than a reply, off-line, or    *)
(* on-line with one of two ports that differ in both bytes.                *)
EXTENDS ConnectionManager, TLC

CONSTANTS d1, d2

MCDevices == {d1, d2}

Answer(kind, status, high, low) ==
  (4 :> kind) @@ (5 :> status) @@ (6 :> high) @@ (7 :> low)

MCAnswers ==
  {Answer(3, 0, 0, 0), Answer(2, 0, 0, 0), Answer(2, 1, 6, 1), Answer(2, 1, 7, 2)}
=============================================================================
