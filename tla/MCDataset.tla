----------------------------- MODULE MCDataset -----------------------------
(* Small instances of Dataset for TLC.                                     *)
EXTENDS Dataset, TLC

Symmetry == Permutations(Datasets) \cup Permutations(Examples) \cup Permutations(Contents)
            \cup Permutations(Attempts) \cup Permutations(Requests)

\* Bound: edits, approvals, crashes and deliveries to a second worker, together.
TwoEvents == requests + crashes + redelivered <= 2
=============================================================================
