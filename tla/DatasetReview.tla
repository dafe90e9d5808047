--------------------------- MODULE DatasetReview ---------------------------
(***************************************************************************)
(* What the datasets promise to who trains on them, without examples that  *)
(* are edited, transactions, or jobs that are delivered twice.             *)
(*                                                                         *)
(* A version is drafted, by an import or a generation, and reviewed.  Its  *)
(* approval releases some of its examples, and says which; from then on it *)
(* is a constant.  A version that failed stays so, and no version is       *)
(* drafted twice.  Nothing is promised of a version that was crossed: that *)
(* somebody changed who knew an earlier state of it.                       *)
(***************************************************************************)
CONSTANTS Datasets, Texts

VARIABLES
    stage,       \* how far each version got
    used,        \* the examples an export or a training run takes of it
    manifest,    \* the examples its manifest is about
    crossed      \* the versions that were crossed

vars == <<stage, used, manifest, crossed>>

Init == /\ stage = [d \in Datasets |-> "absent"]
        /\ used = [d \in Datasets |-> {}]
        /\ manifest = [d \in Datasets |-> {}]
        /\ crossed = {}

Begin(d) == /\ stage[d] = "absent"
            /\ stage' = [stage EXCEPT ![d] = "generating"]
            /\ UNCHANGED <<used, manifest>>

Draft(d) == /\ stage[d] \in {"absent", "generating"}
            /\ stage' = [stage EXCEPT ![d] = "review_required"]
            /\ UNCHANGED <<used, manifest>>

Approve(d) == /\ stage[d] = "review_required"
              /\ stage' = [stage EXCEPT ![d] = "approved"]
              /\ \E some \in (SUBSET Texts) \ {{}} :
                    /\ used' = [used EXCEPT ![d] = some]
                    /\ manifest' = [manifest EXCEPT ![d] = some]

Fail(d) == /\ stage[d] \in {"generating", "review_required"}
           /\ stage' = [stage EXCEPT ![d] = "failed"]
           /\ UNCHANGED <<used, manifest>>

Moves(d) == /\ d \notin crossed
            /\ Begin(d) \/ Draft(d) \/ Approve(d) \/ Fail(d)
            /\ UNCHANGED crossed

\* The others keep what they have.
Cross(d) == /\ crossed' = crossed \cup {d}
            /\ \A e \in Datasets \ {d} :
                  /\ stage'[e] = stage[e]
                  /\ used'[e] = used[e]
                  /\ manifest'[e] = manifest[e]

Next == \E d \in Datasets : Moves(d) \/ Cross(d)

Spec == Init /\ [][Next]_vars
=============================================================================
