---------------------------- MODULE MCAgentLoop ----------------------------
(* AgentLoop for TLC: values of its constants.                             *)
EXTENDS AgentLoop, TLC

\* Every benchmark is of the one profile of the instance.
MCProfileOf == [b \in Benchmarks |-> CHOOSE p \in Profiles : TRUE]

Symmetry == Permutations(Calls)
=============================================================================
