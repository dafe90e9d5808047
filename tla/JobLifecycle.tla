---------------------------- MODULE JobLifecycle ----------------------------
(***************************************************************************)
(* What the job queue promises, without streams, locks or clocks.          *)
(*                                                                         *)
(* A job is started only while it is queued or running, by a worker that   *)
(* runs nothing else; its status then changes only through a worker that   *)
(* runs it, or through a cancellation that found it unsettled.  Delivery   *)
(* is at least once: several workers may run a job at the same time, and   *)
(* each of them may record an outcome, the last one winning.  A settled    *)
(* job that nobody runs or cancels is final.                               *)
(***************************************************************************)
CONSTANTS Jobs, Cancellable, Workers

VARIABLES
    status,      \* the status of each job's row
    runners,     \* the workers that run each job
    cancelling   \* the jobs under cancellation

vars == <<status, runners, cancelling>>

Init == /\ status = [j \in Jobs |-> "absent"]
        /\ runners = [j \in Jobs |-> {}]
        /\ cancelling = {}

Submit(j) == /\ status[j] = "absent"
             /\ status' = [status EXCEPT ![j] = "queued"]
             /\ UNCHANGED <<runners, cancelling>>

RequestCancel(j) == /\ j \in Cancellable
                    /\ status[j] \in {"queued", "running"}
                    /\ cancelling' = cancelling \cup {j}
                    /\ UNCHANGED <<status, runners>>

Cancel(j) == /\ j \in cancelling
             /\ cancelling' = cancelling \ {j}
             /\ status' = [status EXCEPT ![j] = "cancelled"]
             /\ UNCHANGED runners

Start(w, j) == /\ status[j] \in {"queued", "running"}
               /\ \A k \in Jobs : w \notin runners[k]
               /\ status' = [status EXCEPT ![j] = "running"]
               /\ runners' = [runners EXCEPT ![j] = @ \cup {w}]
               /\ UNCHANGED cancelling

\* A runner records how its execution ended, and may still be at work after.
Record(w, j) == /\ w \in runners[j]
                /\ \E s \in {"queued", "completed", "failed"} :
                      status' = [status EXCEPT ![j] = s]
                /\ \/ UNCHANGED runners
                   \/ runners' = [runners EXCEPT ![j] = @ \ {w}]
                /\ UNCHANGED cancelling

\* A runner is through, or dies.
Leave(w, j) == /\ w \in runners[j]
               /\ runners' = [runners EXCEPT ![j] = @ \ {w}]
               /\ UNCHANGED <<status, cancelling>>

Next == \E j \in Jobs : \/ Submit(j) \/ RequestCancel(j) \/ Cancel(j)
                        \/ \E w \in Workers : Start(w, j) \/ Record(w, j) \/ Leave(w, j)

Spec == Init /\ [][Next]_vars
=============================================================================
