-------------------------- MODULE TrainingContract --------------------------
(***************************************************************************)
(* What a training run promises to who pays for it and to who is served by *)
(* it, without requests, jobs or statuses.                                 *)
(*                                                                         *)
(* Nothing is started that was not quoted and confirmed.  What was started *)
(* ends once, and reports nothing after its end.  A profile is served what *)
(* was trained to its end, and as ready only if a report passed the gates; *)
(* an imported run is deployed on the word of who imports it.              *)
(***************************************************************************)
CONSTANTS External, Reports

VARIABLES
    imported,    \* the run was trained elsewhere
    quoted,      \* somebody knows what it costs,
    confirmed,   \* and has agreed
    runs,        \* how far each start got
    said,        \* what it was ever reported to be worth
    serving      \* what the profile is served as

vars == <<imported, quoted, confirmed, runs, said, serving>>

Trained(x) == runs[x] = "completed"

Init ==
    /\ quoted = FALSE /\ confirmed = FALSE
    /\ \/ /\ imported = FALSE
          /\ runs = [x \in External |-> "unused"]
          /\ said = [x \in External |-> {}]
          /\ serving = "none"
       \/ /\ imported = TRUE
          /\ \E x \in External, ms \in SUBSET Reports :
                /\ runs = [y \in External |-> IF y = x THEN "completed" ELSE "unused"]
                /\ said = [y \in External |-> IF y = x THEN ms ELSE {}]
          /\ serving \in {"none", "ready", "experimental"}

Quote ==
    /\ ~imported
    /\ quoted' = TRUE
    /\ UNCHANGED <<imported, confirmed, runs, said, serving>>

Confirm ==
    /\ quoted
    /\ confirmed' = TRUE
    /\ UNCHANGED <<imported, quoted, runs, said, serving>>

Begin(x) ==
    /\ quoted /\ confirmed
    /\ runs[x] = "unused"
    /\ runs' = [runs EXCEPT ![x] = "running"]
    /\ UNCHANGED <<imported, quoted, confirmed, said, serving>>

Report(x, m) ==
    /\ runs[x] = "running"
    /\ said' = [said EXCEPT ![x] = @ \cup {m}]
    /\ runs' \in {runs, [runs EXCEPT ![x] = "completed"]}
    /\ UNCHANGED <<imported, quoted, confirmed, serving>>

Finish(x) ==
    /\ runs[x] = "running"
    /\ \E how \in {"completed", "failed", "cancelled"} : runs' = [runs EXCEPT ![x] = how]
    /\ UNCHANGED <<imported, quoted, confirmed, said, serving>>

Serve(how) ==
    /\ \E x \in External : Trained(x)
    /\ how = "ready" => imported \/ \E x \in External : "pass" \in said[x]
    /\ serving' = how
    /\ UNCHANGED <<imported, quoted, confirmed, runs, said>>

Next ==
    \/ Quote \/ Confirm
    \/ \E x \in External : Begin(x) \/ Finish(x) \/ \E m \in Reports : Report(x, m)
    \/ \E how \in {"ready", "experimental"} : Serve(how)

Spec == Init /\ [][Next]_vars
=============================================================================
