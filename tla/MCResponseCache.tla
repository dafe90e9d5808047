--------------------------- MODULE MCResponseCache ---------------------------
(* Small instances of ResponseCache for TLC.                               *)
EXTENDS ResponseCache

CONSTANTS k1, k2, e1, e2, r1, r2
=============================================================================
