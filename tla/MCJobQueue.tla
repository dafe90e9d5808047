----------------------------- MODULE MCJobQueue -----------------------------
(* Small instances of JobQueue for TLC.                                    *)
EXTENDS JobQueue, TLC

CONSTANTS a, b, w1, w2

Symmetry == Permutations(Workers) \cup Permutations(Ids)
=============================================================================
