-------------------------- MODULE BenchmarkContract --------------------------
(***************************************************************************)
(* What a benchmark of a host promises to who reads its comparison,        *)
(* without calls, heartbeats, files of originals or jobs.                  *)
(*                                                                         *)
(* A benchmark goes from one status to the next by decisions, each taken   *)
(* while its status allowed it, and written later.  It is completed on the *)
(* word of an attempt that has measured both phases, each with the host    *)
(* where it belongs, unless somebody spoiled it.  Who ends a benchmark     *)
(* takes its profile back in the same step, under a version nobody has     *)
(* seen, unless two took one version.  A simulated host promises nothing   *)
(* of its own statuses but that they are the worker's.                     *)
(***************************************************************************)
EXTENDS Naturals

CONSTANTS Benchmarks, Profiles, ProfileOf

VARIABLES
    status,
    decided,    \* what was decided of benchmarks, and is still to be written
    attempt,    \* the benchmark that is being measured,
    sampling,   \* a sample of it was sent and may be answered
    measured,   \* which phases of it were,
    spoiled,    \* and whether the host was changed under it, or not restored
    host,       \* where the host stands, whoever changes it,
    wanted,     \* and where it should
    collided,   \* two requests took one version
    simulated

progress == <<attempt, sampling, measured, spoiled>>
vars == <<status, decided, progress, host, wanted, collided, simulated>>

Settings == Profiles \cup {"observe"}
Phases == {"baseline", "optimized"}
UnderWay == {"assigned", "running"}
Over == {"completed", "failed", "cancelled"}
Outcomes == {"assigned", "running"} \cup Over

Init ==
    /\ status = [b \in Benchmarks |-> "absent"]
    /\ decided = {}
    /\ attempt = "none" /\ sampling = FALSE /\ measured = {} /\ spoiled = FALSE
    /\ host = "observe"
    /\ wanted \in [profile : Settings, version : Nat]
    /\ collided = FALSE
    /\ simulated \in BOOLEAN

\* The attempt.  A sample that is answered is the only evidence of its phase.
Stay == UNCHANGED progress

Take(b) ==
    /\ attempt = "none"
    /\ attempt' = b /\ sampling' = FALSE /\ measured' = {} /\ spoiled' = FALSE

Send ==
    /\ attempt # "none" /\ sampling = FALSE
    /\ sampling' = TRUE /\ UNCHANGED <<attempt, measured, spoiled>>

Measure(phase) ==
    /\ sampling = TRUE
    /\ phase = "optimized" => "baseline" \in measured
    /\ spoiled = TRUE \/ host = IF phase = "baseline" THEN "observe" ELSE ProfileOf[attempt]
    /\ sampling' = FALSE /\ measured' = measured \cup {phase}
    /\ UNCHANGED <<attempt, spoiled>>

Miss == sampling' = FALSE /\ UNCHANGED <<attempt, measured, spoiled>>

Spoil == attempt # "none" /\ spoiled' = TRUE /\ UNCHANGED <<attempt, sampling, measured>>

GiveUp == attempt # "none" /\ sampling' = FALSE /\ measured' = {} /\ UNCHANGED <<attempt, spoiled>>

Leave == attempt' = "none" /\ sampling' = FALSE /\ measured' = {} /\ spoiled' = FALSE

\* What may be decided of a benchmark, and by whom.
Permits(b, outcome) ==
    \/ outcome = "assigned" /\ status[b] = "queued"
    \/ outcome = "running" /\ status[b] = "assigned" /\ attempt = b
    \/ outcome = "completed" /\ status[b] \in UnderWay /\ attempt = b /\ measured = Phases
    \/ outcome = "failed" /\ status[b] \in UnderWay /\ attempt = b
    \/ outcome = "cancelled" /\ status[b] \in UnderWay \cup {"queued"}

Decide(b, outcome) ==
    /\ Permits(b, outcome)
    /\ decided' = decided \cup {<<b, outcome>>}
    /\ IF outcome = "running" THEN Send ELSE Stay
    /\ UNCHANGED <<status, wanted, collided>>

Want(profile) ==
    /\ collided' \in BOOLEAN /\ (collided => collided')
    /\ wanted' \in [profile : Settings, version : Nat]
    /\ collided' \/ wanted' = [profile |-> profile, version |-> wanted.version + 1]

\* What is written is decided no longer, unless another has decided the same.
Write(b, outcome) ==
    /\ <<b, outcome>> \in decided
    /\ decided' \in {decided, decided \ {<<b, outcome>>}}
    /\ status' = [status EXCEPT ![b] = outcome]
    /\ IF outcome \in Over THEN Want("observe") ELSE UNCHANGED <<wanted, collided>>
    /\ \/ Stay
       \/ outcome = "running" /\ attempt = b /\ \E phase \in Phases : Measure(phase)
       \/ outcome = "completed" /\ Leave

\* The attempt goes on, and a decision may come to nothing.
Go ==
    /\ decided' \in {decided} \cup {decided \ {d} : d \in decided}
    /\ \/ Stay \/ (\E b \in Benchmarks : Take(b)) \/ Send \/ Miss
       \/ (\E phase \in Phases : Measure(phase)) \/ Spoil \/ GiveUp \/ Leave
    /\ UNCHANGED <<status, wanted, collided>>

Submit(b) ==
    /\ status[b] = "absent"
    /\ status' = [status EXCEPT ![b] = "queued"]
    /\ Stay /\ UNCHANGED <<decided, wanted, collided>>

Ask == /\ \E profile \in Settings : Want(profile)
       /\ Stay /\ UNCHANGED <<status, decided>>

Simulate(b) ==
    /\ simulated
    /\ \E how \in {"running", "completed", status[b]} : status' = [status EXCEPT ![b] = how]
    /\ Want("observe") \/ UNCHANGED <<wanted, collided>>
    /\ Stay /\ UNCHANGED decided

Next ==
    /\ \/ Go \/ Ask
       \/ \E b \in Benchmarks : Submit(b) \/ Simulate(b)
       \/ \E b \in Benchmarks, outcome \in Outcomes :
             Decide(b, outcome) \/ Write(b, outcome)
    /\ host' \in Settings
    /\ UNCHANGED simulated

Spec == Init /\ [][Next]_vars
=============================================================================
