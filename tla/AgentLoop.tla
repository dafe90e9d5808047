------------------------------ MODULE AgentLoop ------------------------------
(***************************************************************************)
(* A node agent, the requests with which it and the operators meet at the  *)
(* gateway, and the worker's job that hands it a benchmark                 *)
(* (services/node-agent/ecoroute_agent/real_main.py and main.py,           *)
(* services/gateway/ecoroute/api/control.py, handle_demo_load in           *)
(* services/worker/ecoroute_worker/jobs/handlers.py).                      *)
(*                                                                         *)
(* The agent asks every few seconds which profile it should apply, and     *)
(* applies one of a newer version.  A benchmark assigned to it runs in a   *)
(* task beside that loop.  The handlers of the gateway and of the worker   *)
(* read rows, decide, and commit later without a lock; a call the agent    *)
(* has given up waiting for is handled all the same.                       *)
(*                                                                         *)
(* How a profile is applied and restored is the module ControlTransaction. *)
(* Here a restore or an application passes or fails as a whole, and its    *)
(* events, which all have the same effect at the gateway, are one event.   *)
(* "off" is "observe" under another name.  Telemetry is left out.          *)
(***************************************************************************)
EXTENDS Naturals, Sequences

CONSTANTS
    Profiles,       \* the profiles that are applied: balanced, eco
    Benchmarks,     \* ids of benchmarks
    ProfileOf,      \* the profile of each benchmark
    Calls,          \* bound: handlers at work at one time
    Strikes,        \* heartbeats outside the guardrails before a rollback (3)
    MaxPending,     \* events the agent keeps (100)
    MaxAsked,       \* bound: profiles asked for
    MaxCancels,     \* bound: cancellations of benchmarks
    MaxMishaps      \* bound: calls lost or given up, applications and restores that
                    \* fail, rollbacks of the agent's own, deaths and stops of processes

ASSUME ProfileAssumption == ProfileOf \in [Benchmarks -> Profiles] /\ "observe" \notin Profiles
ASSUME BoundsAssumption ==
    /\ Strikes \in Nat \ {0} /\ MaxPending \in Nat \ {0}
    /\ MaxAsked \in Nat /\ MaxCancels \in Nat /\ MaxMishaps \in Nat

VARIABLES
    desired,        \* the profile the agent should have, and its version
    limit,          \* the profile the endpoint's concurrency target stands at
    bench,          \* statuses of the benchmarks
    job,            \* their jobs
    call,           \* the handlers at work
    agent,          \* the agent's process and its host
    reply,          \* the heartbeat's answer, on its way to the agent
    task,           \* the agent's benchmark task
    collided,       \* two profiles got the same version
    asked, cancels, mishaps

server == <<desired, limit, bench, job>>
counters == <<asked, cancels, mishaps>>
vars == <<server, call, agent, reply, task, collided, counters>>

Settings == Profiles \cup {"observe"}
Statuses == {"absent", "queued", "assigned", "running", "completed", "failed", "cancelled"}
Terminal == {"completed", "failed", "cancelled"}
Accepting == {"assigned", "running"}
Desired == [profile : Settings, version : Nat]
NoDesired == [profile |-> "observe", version |-> 0]

Ops == {"none", "profile", "cancel", "assign", "simulate", "computing", "finish",
        "sample", "complete", "fail", "event"}
Call == [op : Ops, b : Benchmarks \cup {"none"},
         read : Statuses, desired : Desired, limit : Settings,   \* what it read
         profile : Settings \cup {"none"},                       \* what it was asked for
         for : {"nobody", "loop", "task"}]                       \* who waits for it
NoCall == [op |-> "none", b |-> "none", read |-> "absent", desired |-> NoDesired,
           limit |-> "observe", profile |-> "none", for |-> "nobody"]

\* A simulator runs main.py, a real agent real_main.py.
Agent == [at : {"down", "ready", "replied", "posting"}, simulator : BOOLEAN,
          setting : Settings, file : BOOLEAN,                    \* of its host
          active : Settings, applied : Nat, strikes : Nat,
          pending : Seq(Settings \cup {"none"}),
          rolled : Nat,      \* the version it has rolled back by itself
          broken : BOOLEAN]  \* a restore has failed
Reply == [profile : Settings, version : Nat, b : Benchmarks \cup {"none"}]
NoReply == [profile |-> "observe", version |-> 0, b |-> "none"]
Task == [at : {"none", "starting", "first", "baseline", "cooling", "cooled", "applying",
               "optimized", "failing", "undoing", "undone", "completing", "done"},
         b : Benchmarks \cup {"none"},
         effect : Settings \cup {"none"},    \* of the event it has to report
         sampled : BOOLEAN,                  \* a sample of this phase was answered
         ok : BOOLEAN,                       \* no exception so far
         disturbed : BOOLEAN]                \* the host was restored under it, or was not
NoTask == [at |-> "none", b |-> "none", effect |-> "none", sampled |-> FALSE, ok |-> FALSE,
           disturbed |-> FALSE]

TypeOK ==
    /\ desired \in Desired
    /\ limit \in Settings
    /\ bench \in [Benchmarks -> Statuses]
    /\ job \in [Benchmarks -> {"none", "owed", "queued", "running", "cancelled", "completed", "lost"}]
    /\ call \in [Calls -> Call]
    /\ agent \in Agent
    /\ Len(agent.pending) <= MaxPending
    /\ agent.strikes < Strikes
    /\ reply \in Reply
    /\ task \in Task
    /\ collided \in BOOLEAN
    /\ asked \in 0..MaxAsked
    /\ cancels \in 0..MaxCancels
    /\ mishaps \in 0..MaxMishaps

\* The agent was there before, and has been told a profile while it was down.
Init ==
    /\ \E p \in Profiles : desired = [profile |-> p, version |-> 2]
    /\ limit = "observe"
    /\ bench = [b \in Benchmarks |-> "absent"]
    /\ job = [b \in Benchmarks |-> "none"]
    /\ call = [c \in Calls |-> NoCall]
    /\ \E simulator \in BOOLEAN :
          agent = [at |-> "down", simulator |-> simulator, setting |-> "observe", file |-> FALSE,
                   active |-> "observe", applied |-> 0, strikes |-> 0, pending |-> <<>>,
                   rolled |-> 0, broken |-> FALSE]
    /\ reply = NoReply
    /\ task = NoTask
    /\ collided = FALSE
    /\ asked = 0 /\ cancels = 0 /\ mishaps = 0

\* A flush writes a column only when its new value differs from the one read.
Written(now, read, new) == IF new = read THEN now ELSE new

\* The handlers that will ask for another profile.
Desiring == {"profile", "cancel", "complete", "fail"}

\* A handler starts: it reads what it needs; "wanted" is the rest of the call.
Start(c, op, b, wanted, for) ==
    /\ call[c].op = "none"
    /\ call' = [call EXCEPT ![c] = [op |-> op, b |-> b,
                    read |-> IF b = "none" THEN "absent" ELSE bench[b],
                    desired |-> IF op \in Desiring THEN desired ELSE NoDesired,
                    limit |-> IF op = "event" THEN limit ELSE "observe",
                    profile |-> wanted, for |-> for]]

\* It ends, its answer sent.
End(c) == call' = [call EXCEPT ![c] = NoCall]

\* One of the things that go wrong.
Mishap == mishaps < MaxMishaps /\ mishaps' = mishaps + 1

\* Every handler that wants another profile adds one to the version it read.
Desire(c, profile) ==
    LET read == call[c].desired IN
    /\ desired' = [profile |-> Written(desired.profile, read.profile, profile),
                   version |-> read.version + 1]
    /\ collided' = (collided \/ read.version # desired.version)
-----------------------------------------------------------------------------
(* Operators and the control plane.                                        *)

\* desired_profile
AskProfile(c, p) ==
    /\ asked < MaxAsked
    /\ asked' = asked + 1
    /\ Start(c, "profile", "none", p, "nobody")
    /\ UNCHANGED <<server, agent, reply, task, collided, cancels, mishaps>>

CommitProfile(c) ==
    /\ call[c].op = "profile"
    /\ Desire(c, call[c].profile)
    /\ End(c)
    /\ UNCHANGED <<limit, bench, job, agent, reply, task, counters>>

\* create_benchmark commits the benchmark before it inserts its job, ...
Create(b) ==
    /\ bench[b] = "absent"
    /\ bench' = [bench EXCEPT ![b] = "queued"]
    /\ job' = [job EXCEPT ![b] = "owed"]
    /\ UNCHANGED <<desired, limit, call, agent, reply, task, collided, counters>>

EnqueueJob(b) ==
    /\ job[b] = "owed"
    /\ job' = [job EXCEPT ![b] = "queued"]
    /\ UNCHANGED <<desired, limit, bench, call, agent, reply, task, collided, counters>>

\* ... and may die in between, or be refused the key.
DropJob(b) ==
    /\ job[b] = "owed"
    /\ Mishap
    /\ job' = [job EXCEPT ![b] = "lost"]
    /\ UNCHANGED <<desired, limit, bench, call, agent, reply, task, collided, asked, cancels>>

\* cancel_benchmark
AskCancel(c, b) ==
    /\ bench[b] \notin Terminal \cup {"absent"}
    /\ cancels < MaxCancels
    /\ cancels' = cancels + 1
    /\ Start(c, "cancel", b, "none", "nobody")
    /\ UNCHANGED <<server, agent, reply, task, collided, asked, mishaps>>

\* Mutant: the agent is not told to go back.
CommitCancelOnly(c) ==
    LET b == call[c].b IN
    /\ call[c].op = "cancel"
    /\ bench' = [bench EXCEPT ![b] = "cancelled"]
    /\ job' = [job EXCEPT ![b] = IF @ \in {"queued", "running"} THEN "cancelled" ELSE @]
    /\ desired' = [desired EXCEPT !.profile = "observe"]
    /\ End(c)
    /\ UNCHANGED <<limit, agent, reply, task, collided, counters>>

CommitCancel(c) ==
    LET b == call[c].b IN
    /\ call[c].op = "cancel"
    /\ bench' = [bench EXCEPT ![b] = "cancelled"]
    /\ job' = [job EXCEPT ![b] = IF @ \in {"queued", "running"} THEN "cancelled" ELSE @]
    /\ Desire(c, "observe")
    /\ End(c)
    /\ UNCHANGED <<limit, agent, reply, task, counters>>
-----------------------------------------------------------------------------
(* The worker: handle_demo_load.  Its job is delivered as in JobQueue, here *)
(* to one worker at a time, and again when that worker dies.               *)

TakeJob(c, b) ==
    /\ job[b] \in {"queued", "running"}
    /\ \A d \in Calls : ~(call[d].op \in {"assign", "simulate", "computing", "finish"} /\ call[d].b = b)
    /\ job' = [job EXCEPT ![b] = "running"]
    /\ Start(c, IF agent.simulator THEN "simulate" ELSE "assign", b, "none", "nobody")
    /\ UNCHANGED <<desired, limit, bench, agent, reply, task, collided, counters>>

\* A real agent's benchmark is assigned, and looked at again in five seconds
\* until it is over; the job's status is overwritten, whatever it is.
CommitAssign(c) ==
    LET b == call[c].b IN
    /\ call[c].op = "assign"
    /\ bench' = [bench EXCEPT ![b] = IF call[c].read = "queued" THEN "assigned" ELSE @]
    /\ job' = [job EXCEPT ![b] = IF call[c].read \in Terminal THEN "completed" ELSE "queued"]
    /\ End(c)
    /\ UNCHANGED <<desired, limit, agent, reply, task, collided, counters>>

\* A simulator's benchmark is run by the worker: first it is set to running, ...
CommitSimulate(c) ==
    LET b == call[c].b IN
    /\ call[c].op = "simulate"
    /\ bench' = [bench EXCEPT ![b] = Written(@, call[c].read, "running")]
    /\ call' = [call EXCEPT ![c].op = "computing"]
    /\ UNCHANGED <<desired, limit, job, agent, reply, task, collided, counters>>

\* ... then its status is read again, ...
ReadResult(c) ==
    LET b == call[c].b IN
    /\ call[c].op = "computing"
    /\ call' = [call EXCEPT ![c].op = "finish", ![c].read = bench[b], ![c].desired = desired]
    /\ UNCHANGED <<server, agent, reply, task, collided, counters>>

\* ... and unless it is cancelled by now, it is completed.
CommitResult(c) ==
    LET b == call[c].b IN
    /\ call[c].op = "finish"
    /\ IF call[c].read = "cancelled" THEN UNCHANGED <<bench, desired, collided>>
       ELSE /\ bench' = [bench EXCEPT ![b] = Written(@, call[c].read, "completed")]
            /\ Desire(c, "observe")
    /\ job' = [job EXCEPT ![b] = "completed"]
    /\ End(c)
    /\ UNCHANGED <<limit, agent, reply, task, counters>>

\* The worker dies: its job is delivered again.
WorkerDies(c) ==
    /\ call[c].op \in {"assign", "simulate", "computing", "finish"}
    /\ Mishap
    /\ End(c)
    /\ UNCHANGED <<server, agent, reply, task, collided, asked, cancels>>
-----------------------------------------------------------------------------
(* The agent's host, and the transaction that changes it.  "a" is a state  *)
(* of the agent.                                                           *)

\* One event for the gateway; the oldest goes when there are too many.
Queued(a, effect) ==
    LET all == Append(a.pending, effect) IN
    [a EXCEPT !.pending = IF Len(all) > MaxPending THEN Tail(all) ELSE all]

\* restore(), of which there is nothing to say when there is no file.  A rollback
\* that raises leaves its control as it is, and the file.
Restored(a, passed) ==
    IF ~a.file THEN a
    ELSE IF passed THEN [a EXCEPT !.setting = "observe", !.file = FALSE]
    ELSE [a EXCEPT !.broken = TRUE]

\* apply(): a failed one rolls back to what it found.
ApplySetting(a, p, passed) ==
    [a EXCEPT !.file = TRUE, !.setting = IF passed THEN p ELSE @]

\* A rollback the agent decides on by itself reports that it was rolled back,
\* which changes nothing at the gateway, and takes it for done.
RolledBack(a, passed) ==
    LET b == Restored(a, passed) IN
    [(IF a.file THEN Queued(b, "none") ELSE b) EXCEPT
        !.active = "observe",
        !.rolled = IF a.active = "observe" THEN @ ELSE a.applied]

\* The effect of an event about p at the gateway: only gateway_concurrency has
\* one, which a simulator does not control.
Effect(a, p) == IF a.simulator THEN "none" ELSE p

\* The answer to a heartbeat, of a version not yet applied.
Obeyed(a, r, passed) ==
    LET b == IF r.profile = "observe" THEN Restored(a, passed)
             ELSE ApplySetting(a, r.profile, passed)
        silent == r.profile = "observe" /\ ~a.file
        told == IF silent THEN b ELSE Queued(b, IF passed THEN Effect(a, r.profile) ELSE "none")
    IN IF passed \/ silent THEN [told EXCEPT !.active = r.profile, !.applied = r.version]
       ELSE told
-----------------------------------------------------------------------------
(* The agent's loop.                                                       *)

Busy == task.at # "none"

\* A simulator's transactions do not fail.
MayFail(passed) == passed \/ ~agent.simulator
Fault(passed) == MayFail(passed) /\ IF passed THEN UNCHANGED mishaps ELSE Mishap

\* The agent starts, registers, and restores what a crash left; its events are
\* not reported.
Register(passed) ==
    /\ agent.at = "down"
    /\ Fault(passed)
    /\ agent' = Restored([agent EXCEPT !.at = "ready", !.active = "observe", !.applied = 0,
                                      !.strikes = 0, !.pending = <<>>, !.rolled = 0,
                                      !.broken = FALSE], passed)
    /\ UNCHANGED <<server, call, reply, task, collided, asked, cancels>>

\* A finished task is forgotten.
Reap ==
    /\ agent.at = "ready" /\ task.at = "done"
    /\ task' = NoTask
    /\ UNCHANGED <<server, call, agent, reply, collided, counters>>

\* Mutant: a benchmark that is running already is not offered again.
OfferedOnce == {b \in Benchmarks : bench[b] = "assigned" /\ ~agent.simulator}

\* agent_heartbeat offers one benchmark that is assigned or running.
Offered == {b \in Benchmarks : bench[b] \in Accepting /\ ~agent.simulator}

Heartbeat ==
    /\ agent.at = "ready" /\ task.at # "done"
    /\ \E b \in IF Offered = {} THEN {"none"} ELSE Offered :
          reply' = [profile |-> desired.profile, version |-> desired.version, b |-> b]
    /\ agent' = [agent EXCEPT !.at = "replied"]
    /\ UNCHANGED <<server, call, task, collided, counters>>

\* Mutant: a profile is applied while a benchmark runs.
MayObeyAlways(a, r) == r.version > a.applied

\* Mutant: the version it has is applied again.
MayObeyAgain(a, r) == r.version >= a.applied /\ ~Busy

MayObey(a, r) == r.version > a.applied /\ ~Busy

\* _outside_guardrail compares latency, errors and throughput with those of the
\* last completed benchmark: it may find either.
Verdicts == BOOLEAN

\* Mutant: the guardrail's rollback does not start the count again.
StrikesKept(n) == n

StrikesAfter(n) == IF n < Strikes THEN n ELSE 0

\* The loop handles the answer: it applies the profile, starts the benchmark,
\* and watches the guardrails of a profile that no benchmark is about.
Handle(passed, outside, undone) ==
    LET a == IF MayObey(agent, reply) THEN Obeyed(agent, reply, passed) ELSE agent
        begins == ~Busy /\ reply.b # "none"
        watched == ~Busy /\ ~begins /\ ~a.simulator /\ a.active # "observe" /\ outside
        strikes == IF watched THEN a.strikes + 1 ELSE 0
    IN
    /\ agent.at = "replied"
    /\ ~passed => MayObey(agent, reply)
    /\ ~undone => strikes = Strikes
    /\ Fault(passed /\ strikes < Strikes)
    /\ agent' = [(IF strikes < Strikes THEN a ELSE RolledBack(a, undone))
                 EXCEPT !.strikes = StrikesAfter(strikes), !.at = "posting"]
    /\ task' = IF begins THEN [NoTask EXCEPT !.at = "starting", !.b = reply.b] ELSE task
    /\ reply' = NoReply
    /\ UNCHANGED <<server, call, collided, asked, cancels>>

\* The heartbeat is lost, or its answer; when none came for 30 seconds the
\* profile is rolled back.
LoseHeartbeat(late, passed) ==
    /\ agent.at \in {"ready", "replied"} /\ (agent.at = "ready" => task.at # "done")
    /\ Mishap
    /\ agent' = [(IF late /\ agent.active # "observe" THEN RolledBack(agent, passed) ELSE agent)
                 EXCEPT !.at = "ready"]
    /\ reply' = NoReply
    /\ task' = IF late /\ agent.active # "observe" /\ Busy
               THEN [task EXCEPT !.disturbed = TRUE] ELSE task
    /\ UNCHANGED <<server, call, collided, asked, cancels>>

\* The events are posted one after the other, each kept until it is answered.
PostEvent(c) ==
    /\ agent.at = "posting" /\ agent.pending # <<>>
    /\ \A d \in Calls : call[d].for # "loop"
    /\ Start(c, "event", "none", Head(agent.pending), "loop")
    /\ UNCHANGED <<server, agent, reply, task, collided, counters>>

AllPosted ==
    /\ agent.at = "posting" /\ agent.pending = <<>>
    /\ agent' = [agent EXCEPT !.at = "ready"]
    /\ UNCHANGED <<server, call, reply, task, collided, counters>>

\* The GPU is too hot: every second the loop looks, whatever the task does.
HealthRollback(passed) ==
    /\ agent.at = "ready"
    /\ ~agent.simulator
    /\ agent.file \/ agent.active # "observe"
    /\ Mishap
    /\ MayFail(passed)
    /\ agent' = RolledBack(agent, passed)
    /\ task' = IF Busy THEN [task EXCEPT !.disturbed = TRUE] ELSE task
    /\ UNCHANGED <<server, call, reply, collided, asked, cancels>>

\* Whom nobody waits for any more is handled all the same.
Forsaken(cs) == [c \in Calls |-> IF c \in cs THEN [call[c] EXCEPT !.for = "nobody"] ELSE call[c]]

\* The process dies, or is told to stop and restores before it goes.
Crash(restores, passed) ==
    /\ agent.at # "down"
    /\ Mishap
    /\ restores \/ passed
    /\ MayFail(passed)
    /\ agent' = [(IF restores THEN Restored(agent, passed) ELSE agent) EXCEPT !.at = "down"]
    /\ call' = Forsaken({c \in Calls : call[c].for # "nobody"})
    /\ reply' = NoReply
    /\ task' = NoTask
    /\ UNCHANGED <<server, collided, asked, cancels>>
-----------------------------------------------------------------------------
(* The benchmark task.  It waits for one report at a time.                 *)

Waiting == {c \in Calls : call[c].for = "task"}

\* Where an exception takes it: the first report is outside of the try, the
\* later ones lead to a "failed" event, and that one's to the final restore.
Raised(t) ==
    CASE t.at \in {"baseline", "cooling", "cooled", "applying", "optimized"} ->
             [t EXCEPT !.at = "failing", !.ok = FALSE]
      [] t.at = "failing" -> [t EXCEPT !.at = "undoing", !.ok = FALSE]
      [] OTHER -> [t EXCEPT !.at = "done"]

\* Where it goes after its report was answered, or when there is none to make.
Reported(t) ==
    CASE t.at = "first" -> [t EXCEPT !.at = "baseline", !.sampled = FALSE]
      [] t.at = "cooling" -> [t EXCEPT !.at = "cooled"]
      [] t.at = "applying" /\ t.ok -> [t EXCEPT !.at = "optimized", !.sampled = FALSE]
      [] t.at = "applying" /\ ~t.ok -> Raised(t)
      [] t.at = "failing" -> [t EXCEPT !.at = "undoing", !.ok = FALSE]
      [] t.at = "undone" /\ t.ok -> [t EXCEPT !.at = "completing"]
      [] OTHER -> [t EXCEPT !.at = "done"]

\* profile_changed
Announced(a, t) ==
    CASE t.at = "first" -> [a EXCEPT !.active = "observe"]
      [] t.at = "applying" /\ t.ok -> [a EXCEPT !.active = ProfileOf[t.b]]
      [] OTHER -> a

\* A step that leaves an event to report goes to "at" and waits; without one
\* it goes on.
Reports(t, a, silent) ==
    IF silent
    THEN task' = Reported(t) /\ agent' = Announced(a, t)
    ELSE task' = t /\ agent' = a

\* The restores around the baseline, whose outcome nobody looks at.
Restores(from, to, passed) ==
    /\ task.at = from /\ Waiting = {}
    /\ Fault(passed)
    /\ Reports([task EXCEPT !.at = to, !.effect = "none", !.ok = TRUE,
                           !.disturbed = @ \/ ~(passed \/ ~agent.file)],
               Restored(agent, passed), ~agent.file)
    /\ UNCHANGED <<server, call, reply, collided, asked, cancels>>

Begin(passed) == Restores("starting", "first", passed)

\* Mutant: a phase ends when its time is up, without a sample.
PhaseMayEndEmpty == Waiting = {}

\* _benchmark_phase: batches of samples until its time is up, at least one.
PhaseMayEnd == task.sampled /\ Waiting = {}

EndBaseline(passed) == PhaseMayEnd /\ Restores("baseline", "cooling", passed)

\* After the cooldown the profile is applied.
ApplyProfile(passed) ==
    /\ task.at = "cooled"
    /\ Fault(passed)
    /\ Reports([task EXCEPT !.at = "applying", !.ok = passed,
                           !.effect = IF passed THEN ProfileOf[task.b] ELSE "none"],
               ApplySetting(agent, ProfileOf[task.b], passed), FALSE)
    /\ UNCHANGED <<server, call, reply, collided, asked, cancels>>

EndOptimized ==
    /\ task.at = "optimized" /\ PhaseMayEnd
    /\ task' = [task EXCEPT !.at = "undoing"]
    /\ UNCHANGED <<server, call, agent, reply, collided, counters>>

\* finally: the host is restored, whatever happened.
Undo(passed) ==
    /\ task.at = "undoing"
    /\ Fault(passed)
    /\ Reports([task EXCEPT !.at = "undone", !.effect = "none"],
               [Restored(agent, passed) EXCEPT !.active = "observe"], ~agent.file)
    /\ UNCHANGED <<server, call, reply, collided, asked, cancels>>

\* A report of what a transaction did.
Report(c) ==
    /\ task.at \in {"first", "cooling", "applying", "undone"} /\ Waiting = {}
    /\ Start(c, "event", "none", task.effect, "task")
    /\ UNCHANGED <<server, agent, reply, task, collided, counters>>

\* agent_benchmark_sample and agent_event take calls for a benchmark that is
\* under way, and refuse others.
Accepts(status) == status \in Accepting

\* Samples, and the events that end the benchmark.  The samples of a batch are
\* here taken one by one; one still running when its batch has raised is like
\* one that was given up.
Post(c) ==
    /\ task.at \in {"baseline", "optimized", "failing", "completing"} /\ Waiting = {}
    /\ Accepts(bench[task.b])
    /\ Start(c, CASE task.at = "failing" -> "fail"
                  [] task.at = "completing" -> "complete"
                  [] OTHER -> "sample", task.b, "none", "task")
    /\ UNCHANGED <<server, agent, reply, task, collided, counters>>

Refused ==
    /\ task.at \in {"baseline", "optimized", "failing", "completing"} /\ Waiting = {}
    /\ ~Accepts(bench[task.b])
    /\ task' = Raised(task)
    /\ UNCHANGED <<server, call, agent, reply, collided, counters>>
-----------------------------------------------------------------------------
(* The gateway handles the agent's calls.                                  *)

\* The caller, when it still waits, gets its answer.
Answer(c) ==
    /\ End(c)
    /\ CASE call[c].for = "loop" ->
              /\ agent' = [agent EXCEPT !.pending = Tail(@)]
              /\ UNCHANGED task
         [] call[c].for = "task" /\ call[c].op = "sample" ->
              /\ task' = [task EXCEPT !.sampled = TRUE]
              /\ UNCHANGED agent
         [] call[c].for = "task" /\ call[c].op # "sample" ->
              /\ task' = Reported(task)
              /\ agent' = Announced(agent, task)
         [] OTHER -> UNCHANGED <<agent, task>>

\* agent_event: the endpoint's concurrency follows the agent's.
CommitEvent(c) ==
    /\ call[c].op = "event"
    /\ limit' = IF call[c].profile = "none" THEN limit
                ELSE Written(limit, call[c].limit, call[c].profile)
    /\ Answer(c)
    /\ UNCHANGED <<desired, bench, job, reply, collided, counters>>

\* A sample is answered, with the model's words or an error; the words of the
\* first one set the benchmark to running.
CommitSample(c, success) ==
    LET b == call[c].b IN
    /\ call[c].op = "sample"
    /\ bench' = IF success /\ call[c].read = "assigned" THEN [bench EXCEPT ![b] = "running"]
                ELSE bench
    /\ Answer(c)
    /\ UNCHANGED <<desired, limit, job, reply, collided, counters>>

\* agent_event: the benchmark is completed, or failed, and its profile undone.
CommitOutcome(c) ==
    LET b == call[c].b IN
    /\ call[c].op \in {"complete", "fail"}
    /\ bench' = [bench EXCEPT ![b] = IF call[c].op = "fail" THEN "failed" ELSE "completed"]
    /\ Desire(c, "observe")
    /\ Answer(c)
    /\ UNCHANGED <<limit, job, reply, counters>>

\* The call gets lost on its way, or its answer: the agent's client gives up
\* after ten seconds.  A sample is tried again; all else raises.
Abandon(c, lost, retries) ==
    /\ call[c].for # "nobody"
    /\ Mishap
    /\ retries => call[c].op = "sample"
    /\ call' = IF lost THEN [call EXCEPT ![c] = NoCall] ELSE Forsaken({c})
    /\ IF call[c].for = "loop"
       THEN agent' = [agent EXCEPT !.at = "ready"] /\ UNCHANGED task
       ELSE /\ task' = IF retries THEN task ELSE Raised(task)
            /\ UNCHANGED agent
    /\ UNCHANGED <<server, reply, collided, asked, cancels>>
-----------------------------------------------------------------------------
Requested(c) ==
    \/ \E p \in Settings : AskProfile(c, p)
    \/ \E b \in Benchmarks : AskCancel(c, b)

Handled(c) ==
    \/ CommitProfile(c) \/ CommitCancel(c)
    \/ CommitAssign(c) \/ CommitSimulate(c) \/ ReadResult(c) \/ CommitResult(c)
    \/ CommitEvent(c) \/ (\E success \in BOOLEAN : CommitSample(c, success)) \/ CommitOutcome(c)

Loop ==
    \/ (\E passed \in BOOLEAN : Register(passed))
    \/ Reap \/ Heartbeat \/ AllPosted
    \/ \E passed, undone \in BOOLEAN, outside \in Verdicts : Handle(passed, outside, undone)

Benchmarking ==
    \/ \E passed \in BOOLEAN : \/ Begin(passed) \/ EndBaseline(passed) \/ ApplyProfile(passed)
                              \/ Undo(passed)
    \/ EndOptimized \/ Refused

Faulty ==
    \/ \E late, passed \in BOOLEAN : LoseHeartbeat(late, passed) \/ Crash(late, passed)
    \/ \E passed \in BOOLEAN : HealthRollback(passed)
    \/ \E c \in Calls : \/ WorkerDies(c)
                       \/ \E lost, retries \in BOOLEAN : Abandon(c, lost, retries)
    \/ \E b \in Benchmarks : DropJob(b)

Next ==
    \/ \E b \in Benchmarks : Create(b) \/ EnqueueJob(b)
    \/ \E c \in Calls : \/ Requested(c) \/ Handled(c)
                       \/ \E b \in Benchmarks : TakeJob(c, b)
                       \/ PostEvent(c) \/ Report(c) \/ Post(c)
    \/ Loop \/ Benchmarking \/ Faulty

Spec == Init /\ [][Next]_vars

\* The loop, its task, the handlers and the worker go on.  A phase of samples
\* ends when its time is up, between two samples; that a handler finds no place
\* among Calls is of the model's making, and does not last.
Fairness ==
    /\ WF_vars(Loop) /\ SF_vars(Benchmarking)
    /\ \A c \in Calls : WF_vars(Handled(c))
    /\ \A b \in Benchmarks : /\ WF_vars(EnqueueJob(b))
                           /\ SF_vars(\E c \in Calls : TakeJob(c, b))
    /\ SF_vars(\E c \in Calls : PostEvent(c))
    /\ SF_vars(\E c \in Calls : Report(c) \/ Post(c))

LiveSpec == Spec /\ Fairness
-----------------------------------------------------------------------------
(* Properties.                                                             *)

\* What a benchmark compares is what it says: its baseline is measured on the
\* host as it was, its other phase under the profile, which the agent reports.
\* An exception is a rollback for the GPU or the gateway's silence, or a failed
\* restore, under the task.
ComparisonIsFair ==
    task.disturbed \/
    /\ task.at = "baseline" => agent.setting = "observe"
    /\ task.at = "optimized" => agent.setting = ProfileOf[task.b] /\ agent.active = agent.setting

\* A version of a profile that the agent has rolled back by itself is not
\* applied again, as long as the agent is not restarted.
RolledBackStaysOff ==
    agent.at # "down" /\ task.at = "none" /\ agent.active # "observe" =>
        agent.applied > agent.rolled

\* An agent that has the latest version has the profile that is desired, and
\* its host stands at it, when no benchmark is under way, it has not rolled the
\* version back, no restore has failed, and no two requests took one version.
AppliedIsDesired ==
    /\ agent.at = "ready" /\ task.at = "none"
    /\ \A b \in Benchmarks : bench[b] \notin Accepting
    /\ agent.applied = desired.version /\ agent.applied # agent.rolled
    /\ ~collided /\ ~agent.broken
    => agent.active = desired.profile /\ agent.setting = desired.profile

\* Nothing is changed of a real agent's benchmark that is over, unless by a
\* handler that read its status before it was.
TerminalIsFinal ==
    [][\A b \in Benchmarks : bench[b] \in Terminal /\ bench'[b] # bench[b] /\ ~agent.simulator =>
          \E c \in Calls : call[c].b = b /\ call[c].read \notin Terminal /\ call' # call]_vars

\* What a handler has decided of its benchmark's status, if anything.
Outcome(x) ==
    CASE x.op = "assign" /\ x.read = "queued" -> "assigned"
      [] x.op = "sample" /\ x.read = "assigned" -> "running"
      [] x.op = "complete" -> "completed"
      [] x.op = "fail" -> "failed"
      [] x.op = "cancel" -> "cancelled"
      [] OTHER -> "none"

Deciding == {c \in Calls : Outcome(call[c]) # "none"}
Decisions == {<<call[c].b, Outcome(call[c])>> : c \in Deciding}

\* Where a phase has been measured, as long as nothing has raised.
After(phase) == {"undoing", "undone", "completing"} \cup
    IF phase = "baseline" THEN {"cooling", "cooled", "applying", "optimized"} ELSE {}

MeasuredPhases(t) ==
    {phase \in {"baseline", "optimized"} :
        t.ok /\ ((t.at = phase /\ t.sampled) \/ t.at \in After(phase))}

Measuring == task.at \notin {"none", "done"}
Attempt == IF Measuring THEN task.b ELSE "none"
Sampling == \E c \in Waiting : call[c].op = "sample"
Spoiled == Measuring /\ task.disturbed

Contract == INSTANCE BenchmarkContract WITH
    status <- bench,
    decided <- Decisions,
    attempt <- Attempt,
    sampling <- Sampling,
    measured <- MeasuredPhases(task),
    spoiled <- Spoiled,
    host <- agent.setting,
    wanted <- desired,
    simulated <- agent.simulator

\* A comparison is completed only when an attempt has measured both of its phases
\* on the host where each belongs; statuses follow decisions that were allowed
\* when they were taken; and who ends a benchmark takes its profile back.
ImplementsContract == Contract!Spec

\* When the agent is at rest with its host restored, and it has reported all it
\* did, the endpoint's concurrency is restored as well.
ConcurrencyIsRestored ==
    /\ agent.at = "ready" /\ agent.pending = <<>> /\ task.at = "none"
    /\ \A c \in Calls : call[c] = NoCall
    /\ agent.setting = "observe"
    => limit = "observe"

\* A benchmark whose job is there comes to an end, and so does one that a real
\* agent has under way, if only because a late sample brought it back.
BenchmarkSettles ==
    \A b \in Benchmarks :
        (job[b] = "queued" \/ (bench[b] \in Accepting /\ ~agent.simulator))
            ~> bench[b] \in Terminal
=============================================================================
