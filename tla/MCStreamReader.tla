--------------------------- MODULE MCStreamReader ---------------------------
(***************************************************************************)
(* StreamReader for TLC: two tasks share the object.  The other bounds are *)
(* in the cfg file; no symmetry, because the run checks liveness.          *)
(***************************************************************************)
EXTENDS StreamReader

CONSTANTS t1, t2

MCTask == {t1, t2}

=============================================================================
