------------------------- MODULE MCConnectionValues -------------------------
(* Four functions: one with options; one with options that may also have   *)
(* the flag HAS_INFO; one that always has it; one that may have it or not. *)
EXTENDS ConnectionValues

MCFunctions == 1 .. 4

MCHasInfo == <<{FALSE}, BOOLEAN, {TRUE}, BOOLEAN>>
=============================================================================
