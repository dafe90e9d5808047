--------------------------- MODULE MCTrainingRun ---------------------------
(* Small instances of TrainingRun for TLC.                                 *)
EXTENDS TrainingRun, TLC

Symmetry == Permutations(Requests) \cup Permutations(Jobs) \cup Permutations(External)
=============================================================================
