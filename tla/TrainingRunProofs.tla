------------------------- MODULE TrainingRunProofs -------------------------
(***************************************************************************)
(* Proofs about TrainingRun, for any requests, jobs, runs at FreeSOLO and  *)
(* bounds: the types, that a waiting run is not forgotten, that the run    *)
(* keeps its contract (any number of workers), and that a cancelled run is *)
(* stopped (one worker).                                                   *)
(***************************************************************************)
EXTENDS TrainingRun, FiniteSetTheorems, TLAPS

AllJobs == [Jobs -> Job \cup {NoJob}]

\* What a step that works on job j leaves alone: the other jobs.
Replaced(j) ==
    /\ job \in AllJobs
    /\ job' \in AllJobs
    /\ job[j] \in Job
    /\ \A k \in Jobs \ {j} : job'[k] = job[k]

HasRun(j) == job[j].at \in {"launched", "stored"}

\* A launch that was answered has a run of its own, which nobody polls yet; a
\* poll that has started knows which run it is about; a request that has
\* committed knows what it wants.
RunsFit ==
    /\ \A j \in Jobs : HasRun(j) =>
         /\ job[j].kind = "launch"
         /\ job[j].ext \in External
         /\ ext[job[j].ext] # "unused"
         /\ job[j].ext \notin polled
    /\ \A j, k \in Jobs : HasRun(j) /\ HasRun(k) /\ job[j].ext = job[k].ext => j = k
    /\ \A x \in polled : ext[x] # "unused"
    /\ \A j \in Jobs : At(j, {"poll"}, "started") => job[j].ext \in External
    /\ \A r \in committed : asked[r] # "none"

\* A poll that a cancellation has settled in the middle does not count as work.
WorksOn(j, kinds) == job[j].kind \in kinds /\ job[j].at # "done" /\ job[j].row = "live"

Owes(r, kinds) == r \in committed /\ KindOf(asked[r]) \in kinds

LiveWork(kinds) == (\E r \in Requests : Owes(r, kinds)) \/ (\E j \in Jobs : WorksOn(j, kinds))

Awaits(s, kinds) ==
    \/ s = "validating" /\ kinds = {"validate"}
    \/ s = "training" /\ kinds = {"launch", "poll"}
    \/ s = "evaluating" /\ kinds = {"evaluate"}
    \/ s = "deploying" /\ kinds = {"deploy", "deploy_experimental"}
    \/ s = "cancelling" /\ kinds = {"cancel"}

StatusHasLiveWork == \A kinds \in SUBSET Kinds : Awaits(status, kinds) => LiveWork(kinds)

LiveInv == lost \/ StatusHasLiveWork
-----------------------------------------------------------------------------
(* Jobs.                                                                   *)


LEMMA NoJobIs == NoJob.kind = "none" /\ NoJob.at = "none" /\ NoJob.row = "live"
  BY DEF NoJob

LEMMA JobIsNot ==
    ASSUME NEW q \in Job
    PROVE  q # NoJob /\ q.kind # "none" /\ q.at # "none"
<1>1. q.kind # "none" /\ q.at # "none"
  BY DEF Job, Kinds, Stages
<1>2. QED
  BY <1>1, NoJobIs

LEMMA NotNoJob ==
    ASSUME NEW q \in Job \cup {NoJob}, q.at # "none"
    PROVE  q \in Job
  BY NoJobIs

LEMMA QueuedIs ==
    ASSUME NEW kind \in Kinds, NEW tries \in 0..MaxTries
    PROVE  /\ Queued(kind, tries) \in Job
           /\ Queued(kind, tries).kind = kind
           /\ Queued(kind, tries).at = "queued"
           /\ Queued(kind, tries).row = "live"
  BY DEF Queued, Job, Stages

LEMMA MovedIs ==
    ASSUME NEW q \in Job, NEW stage \in Stages
    PROVE  LET m == [q EXCEPT !.at = stage]
           IN  m \in Job /\ m.at = stage /\ m.kind = q.kind /\ m.row = q.row /\ m.ext = q.ext
  BY DEF Job

LEMMA NotedIs ==
    ASSUME NEW q \in Job, NEW stage \in Stages, NEW x \in External \cup {None}
    PROVE  LET m == Noted(q, stage, x)
           IN  m \in Job /\ m.at = stage /\ m.kind = q.kind /\ m.row = q.row /\ m.ext = x
  BY DEF Noted, Job

\* A move changes the stage of its job and nothing else.
LEMMA MoveFacts ==
    ASSUME job \in AllJobs, NEW j \in Jobs, job[j].at # "none", NEW stage \in Stages,
           Move(j, stage)
    PROVE  /\ Replaced(j)
           /\ job'[j] \in Job
           /\ job'[j].at = stage
           /\ job'[j].kind = job[j].kind
           /\ job'[j].row = job[j].row
           /\ job'[j].ext = job[j].ext
<1>1. job[j] \in Job
  BY NotNoJob DEF AllJobs
<1> DEFINE m == [job[j] EXCEPT !.at = stage]
<1>2. m \in Job /\ m.at = stage /\ m.kind = job[j].kind /\ m.row = job[j].row
        /\ m.ext = job[j].ext
  BY <1>1, MovedIs
<1>3. job' = [job EXCEPT ![j] = m]
  BY DEF Move
<1> HIDE DEF m
<1>4. job' \in AllJobs /\ job'[j] = m /\ \A k \in Jobs \ {j} : job'[k] = job[k]
  BY <1>2, <1>3 DEF AllJobs
<1>5. QED
  BY <1>1, <1>2, <1>4 DEF Replaced

\* A retry puts the job back in the queue, or fails it.
LEMMA RetriedFacts ==
    ASSUME job \in AllJobs, NEW j \in Jobs, job[j].at # "none", Retried(j)
    PROVE  /\ Replaced(j)
           /\ job'[j] \in Job
           /\ job'[j].at \in {"queued", "failing"}
           /\ job'[j].kind = job[j].kind
           /\ job[j].row = "live" => job'[j].row = "live"
<1>1. job[j] \in Job
  BY NotNoJob DEF AllJobs
<1>2. job[j].tries \in 0..MaxTries /\ job[j].kind \in Kinds
  BY <1>1 DEF Job
<1> DEFINE q == Queued(job[j].kind, job[j].tries + 1)
<1>3. CASE job[j].tries < MaxTries
  <2>1. job[j].tries + 1 \in 0..MaxTries
    BY <1>2, <1>3, BoundsAssumption
  <2>2. q \in Job /\ q.kind = job[j].kind /\ q.at = "queued" /\ q.row = "live"
    BY <1>2, <2>1, QueuedIs
  <2>3. job' = [job EXCEPT ![j] = q]
    BY <1>3 DEF Retried
  <2> HIDE DEF q
  <2>4. job' \in AllJobs /\ job'[j] = q /\ \A k \in Jobs \ {j} : job'[k] = job[k]
    BY <2>2, <2>3 DEF AllJobs
  <2>5. QED
    BY <1>1, <2>2, <2>4 DEF Replaced
<1>4. CASE ~(job[j].tries < MaxTries)
  <2>1. Move(j, "failing")
    BY <1>4 DEF Retried, Move
  <2>2. QED
    BY <2>1, MoveFacts DEF Stages
<1>5. QED
  BY <1>3, <1>4

\* A handler that starts, and a launch that is answered, note a run.
LEMMA NotedFacts ==
    ASSUME job \in AllJobs, NEW j \in Jobs, job[j].at # "none", NEW stage \in Stages,
           NEW x \in External \cup {None}, Note(j, stage, x)
    PROVE  /\ Replaced(j)
           /\ job'[j] \in Job
           /\ job'[j].at = stage
           /\ job'[j].kind = job[j].kind
           /\ job'[j].row = job[j].row
           /\ job'[j].ext = x
<1>1. job[j] \in Job
  BY NotNoJob DEF AllJobs
<1> DEFINE m == Noted(job[j], stage, x)
<1>2. m \in Job /\ m.at = stage /\ m.kind = job[j].kind /\ m.row = job[j].row /\ m.ext = x
  BY <1>1, NotedIs
<1>3. job' = [job EXCEPT ![j] = m]
  BY DEF Note
<1> HIDE DEF m
<1>4. job' \in AllJobs /\ job'[j] = m /\ \A k \in Jobs \ {j} : job'[k] = job[k]
  BY <1>2, <1>3 DEF AllJobs
<1>5. QED
  BY <1>1, <1>2, <1>4 DEF Replaced

\* A job that ends leaves its place free.
LEMMA EndFacts ==
    ASSUME job \in AllJobs, NEW j \in Jobs, job[j].at # "none",
           job' = [job EXCEPT ![j] = NoJob]
    PROVE  Replaced(j) /\ job'[j] = NoJob
<1>1. job[j] \in Job
  BY NotNoJob DEF AllJobs
<1>2. job' \in AllJobs
  BY DEF AllJobs
<1>3. job'[j] = NoJob /\ \A k \in Jobs \ {j} : job'[k] = job[k]
  BY DEF AllJobs
<1>4. QED
  BY <1>1, <1>2, <1>3 DEF Replaced

\* A new job takes a free place.
LEMMA EnqueuedFacts ==
    ASSUME job \in AllJobs, NEW j \in Jobs, NEW kind \in Kinds, Enqueued(j, kind)
    PROVE  /\ job' \in AllJobs
           /\ job[j] = NoJob
           /\ job'[j] = Queued(kind, 0)
           /\ \A k \in Jobs \ {j} : job'[k] = job[k]
<1>1. Queued(kind, 0) \in Job
  BY QueuedIs, BoundsAssumption
<1>2. QED
  BY <1>1 DEF Enqueued, AllJobs

LEMMA KindOfIs ==
    ASSUME NEW act \in Actions
    PROVE  KindOf(act) \in Kinds /\ (act # "revalidate" => KindOf(act) = act)
  BY DEF KindOf, Actions, Kinds

\* Where a request takes the run.
LEMMA TargetIs ==
    ASSUME NEW act \in Actions
    PROVE  /\ act \in {"revalidate", "export"} => Target(act) = status
           /\ status \in Statuses => Target(act) \in Statuses
           /\ act = "validate" => Target(act) = "validating"
           /\ act = "launch" => Target(act) = "training"
           /\ act = "cancel" => Target(act) = "cancelling"
           /\ act = "evaluate" => Target(act) = "evaluating"
           /\ act \in {"deploy", "deploy_experimental"} => Target(act) = "deploying"
<1>1. /\ act \in {"revalidate", "export"} => Target(act) = status
      /\ act = "validate" => Target(act) = "validating"
      /\ act = "launch" => Target(act) = "training"
      /\ act = "cancel" => Target(act) = "cancelling"
      /\ act = "evaluate" => Target(act) = "evaluating"
      /\ act \in {"deploy", "deploy_experimental"} => Target(act) = "deploying"
  BY Zenon DEF Target, Actions
<1>2. QED
  BY <1>1 DEF Actions, Statuses

\* The poll of a launch that was answered.
LEMMA EnqueuePollFacts ==
    ASSUME job \in AllJobs, NEW j \in Jobs, EnqueuePoll(j)
    PROVE  /\ job' \in AllJobs
           /\ job'[j].at = "done"
           /\ \A k \in Jobs \ {j} :
                 \/ job'[k] = job[k]
                 \/ job[k] = NoJob /\ job'[k] = Queued("poll", 0)
           /\ job[j].ext \in polled \/ \E k \in Jobs \ {j} : job'[k] = Queued("poll", 0)
<1>1. job[j].at = "stored"
  BY DEF EnqueuePoll, At
<1>2. CASE job[j].ext \in polled
  <2>1. Move(j, "done")
    BY <1>2 DEF EnqueuePoll
  <2>2. Replaced(j) /\ job'[j].at = "done"
    BY <1>1, <2>1, MoveFacts DEF Stages
  <2>3. QED
    BY <1>2, <2>2 DEF Replaced
<1>3. CASE job[j].ext \notin polled
  <2>0. Queued("poll", 0) \in Job
    <3>1. "poll" \in Kinds /\ 0 \in 0..MaxTries
      BY BoundsAssumption DEF Kinds
    <3>2. QED
      BY <3>1, QueuedIs
  <2>1. PICK k \in Jobs :
            /\ job[k] = NoJob
            /\ job' = [job EXCEPT ![j].at = "done", ![k] = Queued("poll", 0)]
    BY <1>3 DEF EnqueuePoll
  <2>2. k # j
    BY <1>1, <2>1, NoJobIs
  <2> DEFINE m == [job[j] EXCEPT !.at = "done"]
  <2>3. job[j] \in Job
    BY <1>1, NotNoJob DEF AllJobs
  <2>4. m \in Job /\ m.at = "done"
    BY <2>3, MovedIs DEF Stages
  <2>5. job' = [[job EXCEPT ![j] = m] EXCEPT ![k] = Queued("poll", 0)]
    BY <2>1
  <2>6. job[k] = NoJob
    BY <2>1
  <2> HIDE DEF m
  <2>7. job' \in AllJobs /\ job'[j] = m /\ job'[k] = Queued("poll", 0)
    BY <2>0, <2>2, <2>4, <2>5 DEF AllJobs
  <2>8. \A l \in Jobs \ {j, k} : job'[l] = job[l]
    BY <2>5 DEF AllJobs
  <2>9. QED
    BY <2>2, <2>4, <2>6, <2>7, <2>8
<1>4. QED
  BY <1>2, <1>3

\* The launch that enqueues it goes on.
LEMMA EnqueuePollKeeps ==
    ASSUME job \in AllJobs, NEW j \in Jobs, EnqueuePoll(j)
    PROVE  job'[j].kind = job[j].kind
<1>1. job[j].at = "stored"
  BY DEF EnqueuePoll, At
<1>2. job[j] \in Job
  BY <1>1, NotNoJob DEF AllJobs
<1>3. CASE job[j].ext \in polled
  BY <1>1, <1>3, MoveFacts DEF EnqueuePoll, Stages
<1>4. CASE job[j].ext \notin polled
  <2>1. PICK k \in Jobs :
            /\ job[k] = NoJob
            /\ job' = [job EXCEPT ![j].at = "done", ![k] = Queued("poll", 0)]
    BY <1>4 DEF EnqueuePoll
  <2>2. k # j
    BY <1>1, <2>1, NoJobIs
  <2> DEFINE m == [job[j] EXCEPT !.at = "done"]
  <2>3. m.kind = job[j].kind
    BY <1>2, MovedIs DEF Stages
  <2>4. job' = [[job EXCEPT ![j] = m] EXCEPT ![k] = Queued("poll", 0)]
    BY <2>1
  <2> HIDE DEF m
  <2>5. job'[j] = m
    BY <2>2, <2>4 DEF AllJobs
  <2>6. QED
    BY <2>3, <2>5
<1>5. QED
  BY <1>3, <1>4

\* A cancellation settles the polls, whatever they are doing.
LEMMA FinishCancelFacts ==
    ASSUME job \in AllJobs, NEW j \in Jobs, FinishCancel(j)
    PROVE  /\ job' \in AllJobs
           /\ job'[j].at = "done" /\ job'[j].kind = job[j].kind
           /\ \A k \in Jobs \ {j} :
                 \/ job'[k] = NoJob /\ job[k].at = "queued"
                 \/ job'[k].at = job[k].at /\ job'[k].kind = job[k].kind
                      /\ job'[k].ext = job[k].ext /\ job'[k].heard = job[k].heard
<1> DEFINE new(k) ==
      IF k = j THEN [job[k] EXCEPT !.at = "done"]
      ELSE IF At(k, {"poll"}, "queued") THEN NoJob
      ELSE IF job[k].kind = "poll" /\ job[k].at \in {"started", "done"}
           THEN [job[k] EXCEPT !.row = "cancelled"]
      ELSE job[k]
<1>1. ASSUME NEW k \in Jobs
      PROVE  /\ new(k) \in Job \cup {NoJob}
             /\ k = j => new(k).at = "done" /\ new(k).kind = job[k].kind
             /\ \/ k = j
                \/ new(k) = NoJob /\ job[k].at = "queued"
                \/ new(k).at = job[k].at /\ new(k).kind = job[k].kind
                     /\ new(k).ext = job[k].ext /\ new(k).heard = job[k].heard
  <2>1. CASE k = j
    <3>1. job[k].at # "none"
      BY <2>1 DEF FinishCancel, At
    <3>2. job[k] \in Job
      BY <3>1, NotNoJob DEF AllJobs
    <3> DEFINE m == [job[k] EXCEPT !.at = "done"]
    <3>3. m \in Job /\ m.at = "done" /\ m.kind = job[k].kind
      BY <3>2, MovedIs DEF Stages
    <3>4. new(k) = m
      BY <2>1
    <3> HIDE DEF m
    <3>5. QED
      BY <2>1, <3>3, <3>4
  <2>2. CASE k # j /\ At(k, {"poll"}, "queued")
    BY <2>2 DEF At
  <2>3. CASE k # j /\ ~At(k, {"poll"}, "queued") /\ job[k].kind = "poll"
                  /\ job[k].at \in {"started", "done"}
    <3>1. job[k] \in Job
      BY <2>3, NotNoJob DEF AllJobs
    <3> DEFINE m == [job[k] EXCEPT !.row = "cancelled"]
    <3>2. m \in Job /\ m.at = job[k].at /\ m.kind = job[k].kind /\ m.ext = job[k].ext
      BY <3>1 DEF Job
    <3>3. new(k) = m
      BY <2>3
    <3> HIDE DEF m
    <3>4. QED
      BY <2>3, <3>2, <3>3
  <2>4. CASE k # j /\ ~At(k, {"poll"}, "queued")
                  /\ ~(job[k].kind = "poll" /\ job[k].at \in {"started", "done"})
    BY <2>4 DEF AllJobs
  <2>5. QED
    BY <2>1, <2>2, <2>3, <2>4
<1>2. job' = [k \in Jobs |-> new(k)]
  BY DEF FinishCancel
<1> HIDE DEF new
<1>3. QED
  BY <1>1, <1>2 DEF AllJobs
-----------------------------------------------------------------------------
(* What each step does to the job it works on.                             *)

\* Job j goes on to one of the stages; whether it counts as work is kept.
Goes(j, stages) ==
    /\ Replaced(j)
    /\ job'[j] \in Job
    /\ job'[j].at \in stages
    /\ job'[j].kind = job[j].kind
    /\ job[j].row = "live" => job'[j].row = "live"

LEMMA MoveGoes ==
    ASSUME job \in AllJobs, NEW j \in Jobs, job[j].at # "none", NEW stage \in Stages,
           Move(j, stage)
    PROVE  Goes(j, {stage}) /\ job'[j].ext = job[j].ext
  BY MoveFacts DEF Goes

LEMMA RetriedGoes ==
    ASSUME job \in AllJobs, NEW j \in Jobs, job[j].at # "none", Retried(j)
    PROVE  Goes(j, {"queued", "failing"})
  BY RetriedFacts DEF Goes

LEMMA StartGoes ==
    ASSUME job \in AllJobs, externalId \in External \cup {None}, NEW j \in Jobs, Start(j)
    PROVE  /\ Goes(j, {"started", "failing"})
           /\ job'[j].ext = externalId
           /\ job'[j].at = "started" => Runnable(job[j].kind)
<1> DEFINE stage == IF Runnable(job[j].kind) THEN "started" ELSE "failing"
<1>1. stage \in {"started", "failing"} /\ (stage = "started" => Runnable(job[j].kind))
  OBVIOUS
<1>2. Note(j, stage, externalId) /\ job[j].at # "none"
  BY DEF Start
<1> HIDE DEF stage
<1>3. stage \in Stages
  BY <1>1 DEF Stages
<1>4. /\ Replaced(j)
      /\ job'[j] \in Job
      /\ job'[j].at = stage
      /\ job'[j].kind = job[j].kind
      /\ job'[j].row = job[j].row
      /\ job'[j].ext = externalId
  BY <1>2, <1>3, NotedFacts
<1>5. QED
  BY <1>1, <1>4 DEF Goes

LEMMA FailJobGoes ==
    ASSUME job \in AllJobs, NEW j \in Jobs, NEW permanent \in BOOLEAN, FailJob(j, permanent)
    PROVE  Goes(j, {"queued", "failing"})
<1>1. job[j].at # "none"
  BY DEF FailJob, InHandler
<1>2. CASE permanent
  <2>1. Goes(j, {"failing"})
    BY <1>1, <1>2, MoveGoes DEF FailJob, Stages
  <2>2. QED
    BY <2>1 DEF Goes
<1>3. CASE ~permanent
  BY <1>1, <1>3, RetriedGoes DEF FailJob
<1>4. QED
  BY <1>2, <1>3

LEMMA LaunchGoes ==
    ASSUME job \in AllJobs, NEW j \in Jobs, NEW x \in External, Launch(j, x)
    PROVE  Goes(j, {"launched"}) /\ job'[j].ext = x
<1>1. job[j].at # "none" /\ Note(j, "launched", x) /\ "launched" \in Stages
  BY DEF Launch, At, Stages
<1>2. QED
  BY <1>1, NotedFacts DEF Goes

LEMMA LaunchUnheardGoes ==
    ASSUME job \in AllJobs, NEW j \in Jobs, NEW x \in External, NEW permanent \in BOOLEAN,
           LaunchUnheard(j, x, permanent)
    PROVE  Goes(j, {"queued", "failing"})
<1>1. job[j].at # "none"
  BY DEF LaunchUnheard, At
<1>2. CASE permanent
  <2>1. Goes(j, {"failing"})
    BY <1>1, <1>2, MoveGoes DEF LaunchUnheard, Stages
  <2>2. QED
    BY <2>1 DEF Goes
<1>3. CASE ~permanent
  BY <1>1, <1>3, RetriedGoes DEF LaunchUnheard
<1>4. QED
  BY <1>2, <1>3

LEMMA RequeuedGoes ==
    ASSUME job \in AllJobs, NEW j \in Jobs, job[j].at # "none",
           job' = [job EXCEPT ![j] = Queued(job[j].kind, job[j].tries)]
    PROVE  Goes(j, {"queued"})
<1>1. job[j] \in Job
  BY NotNoJob DEF AllJobs
<1>2. job[j].kind \in Kinds /\ job[j].tries \in 0..MaxTries
  BY <1>1 DEF Job
<1> DEFINE q == Queued(job[j].kind, job[j].tries)
<1>3. q \in Job /\ q.kind = job[j].kind /\ q.at = "queued" /\ q.row = "live"
  BY <1>2, QueuedIs
<1>4. job' = [job EXCEPT ![j] = q]
  OBVIOUS
<1> HIDE DEF q
<1>5. job' \in AllJobs /\ job'[j] = q /\ \A k \in Jobs \ {j} : job'[k] = job[k]
  BY <1>3, <1>4 DEF AllJobs
<1>6. QED
  BY <1>1, <1>3, <1>5 DEF Goes, Replaced

LEMMA PollRunningGoes ==
    ASSUME job \in AllJobs, NEW j \in Jobs, PollRunning(j)
    PROVE  Goes(j, {"queued"})
  BY RequeuedGoes DEF PollRunning, At

\* The handlers that end, or fail, with a write or a call.
LEMMA HandlerGoes ==
    ASSUME job \in AllJobs, NEW j \in Jobs
    PROVE  /\ PollFailed(j) => Goes(j, {"failing"})
           /\ FinishValidate(j) \/ PollCancelled(j) \/ PollCompleted(j) \/ FinishEvaluate(j)
                \/ FinishDeploy(j) \/ FinishExport(j) => Goes(j, {"done"})
           /\ StoreLaunch(j) => Goes(j, {"stored"}) /\ job'[j].ext = job[j].ext
           /\ CallCancel(j) => Goes(j, {"called"}) /\ job'[j].ext = job[j].ext
<1>1. ASSUME job[j].at # "none", NEW stage \in {"failing", "done", "stored", "called"},
             Move(j, stage)
      PROVE  Goes(j, {stage}) /\ job'[j].ext = job[j].ext /\ job'[j].at = stage
  <2>1. Goes(j, {stage}) /\ job'[j].ext = job[j].ext
    BY <1>1, MoveGoes DEF Stages
  <2>2. QED
    BY <2>1 DEF Goes
<1>2. PollFailed(j) => Goes(j, {"failing"})
  BY <1>1 DEF PollFailed, At
<1>3. FinishValidate(j) \/ PollCancelled(j) \/ PollCompleted(j) \/ FinishEvaluate(j)
          \/ FinishDeploy(j) \/ FinishExport(j) => Goes(j, {"done"})
  BY <1>1
  DEF FinishValidate, PollCancelled, PollCompleted, FinishEvaluate, FinishDeploy, FinishExport,
      At
<1>4. StoreLaunch(j) => Goes(j, {"stored"}) /\ job'[j].ext = job[j].ext
  BY <1>1 DEF StoreLaunch, At
<1>5. CallCancel(j) => Goes(j, {"called"}) /\ job'[j].ext = job[j].ext
  BY <1>1 DEF CallCancel, At
<1>6. QED
  BY <1>2, <1>3, <1>4, <1>5

\* A report is heard, or the evaluation fails.
LEMMA HearReportGoes ==
    ASSUME job \in AllJobs, NEW j \in Jobs, HearReport(j)
    PROVE  /\ Goes(j, {"heard", "failing"})
           /\ job'[j].ext = job[j].ext
           /\ job'[j].at = "heard" => job'[j].heard = report[job[j].ext]
<1> DEFINE m == report[job[j].ext]
<1>1. job[j].at # "none" /\ job[j] \in Job
  BY NotNoJob DEF HearReport, At, AllJobs
<1>2. CASE m \in {"pass", "fail"}
  <2> DEFINE q == [[job[j] EXCEPT !.at = "heard"] EXCEPT !.heard = m]
  <2>1. /\ q \in Job /\ q.at = "heard" /\ q.heard = m /\ q.kind = job[j].kind
        /\ q.row = job[j].row /\ q.ext = job[j].ext
    BY <1>1, <1>2 DEF Job, Stages
  <2>2. job' = [job EXCEPT ![j] = q]
    BY <1>2 DEF HearReport
  <2> HIDE DEF q
  <2>3. job' \in AllJobs /\ job'[j] = q /\ \A k \in Jobs \ {j} : job'[k] = job[k]
    BY <2>1, <2>2 DEF AllJobs
  <2>4. QED
    BY <1>1, <2>1, <2>3 DEF Goes, Replaced
<1>3. CASE m \notin {"pass", "fail"}
  <2>1. Move(j, "failing")
    BY <1>3 DEF HearReport
  <2>2. Goes(j, {"failing"}) /\ job'[j].ext = job[j].ext
    BY <1>1, <2>1, MoveGoes DEF Stages
  <2>3. QED
    BY <2>2 DEF Goes
<1>4. QED
  BY <1>2, <1>3

LEMMA EndGoes ==
    ASSUME job \in AllJobs, NEW j \in Jobs, SetDomainFailure(j) \/ Finish(j)
    PROVE  Replaced(j) /\ job'[j] = NoJob
  BY EndFacts DEF SetDomainFailure, Finish

LEMMA CrashGoes ==
    ASSUME job \in AllJobs, Crash
    PROVE  \E j \in Jobs :
             /\ job[j].at \notin {"none", "queued"}
             /\ lost' = (lost \/ job[j].at = "failing")
             /\ forgotten' = forgotten \cup Unstored({j})
             /\ \/ /\ job[j].row = "cancelled" \/ job[j].at = "failing"
                   /\ Replaced(j) /\ job'[j] = NoJob
                \/ Goes(j, {"queued"})
<1>1. PICK j \in Busy :
         /\ job' = [job EXCEPT
                      ![j] = IF @.row = "cancelled" \/ @.at = "failing" THEN NoJob
                             ELSE Queued(@.kind, @.tries)]
         /\ lost' = (lost \/ job[j].at = "failing")
         /\ forgotten' = forgotten \cup Unstored({j})
  BY DEF Crash
<1>2. j \in Jobs /\ job[j].at \notin {"none", "queued"}
  BY DEF Busy
<1>3. CASE job[j].row = "cancelled" \/ job[j].at = "failing"
  <2>1. job' = [job EXCEPT ![j] = NoJob]
    BY <1>1, <1>3
  <2>2. QED
    BY <1>1, <1>2, <1>3, <2>1, EndFacts
<1>4. CASE ~(job[j].row = "cancelled" \/ job[j].at = "failing")
  <2>1. job' = [job EXCEPT ![j] = Queued(job[j].kind, job[j].tries)]
    BY <1>1, <1>4
  <2>2. Goes(j, {"queued"})
    BY <1>2, <2>1, RequeuedGoes
  <2>3. QED
    BY <1>1, <1>2, <2>2
<1>5. QED
  BY <1>3, <1>4
-----------------------------------------------------------------------------
(* Type correctness.                                                       *)

\* Every step keeps the types.
LEMMA TypeStep ==
    ASSUME TypeOK, RunsFit, [Next]_vars
    PROVE  TypeOK'
<1>0. job \in AllJobs /\ externalId \in External \cup {None}
  BY DEF TypeOK, AllJobs
<1>27. ASSUME job' \in AllJobs,
             UNCHANGED <<rowVars, requestVars, polled, extVars, boundVars>>
      PROVE  TypeOK'
  BY <1>27 DEF AllJobs, TypeOK, rowVars, requestVars, extVars, boundVars
<1>28. ASSUME job' \in AllJobs, forgotten' \in SUBSET External,
              UNCHANGED <<rowVars, requestVars, polled, extVars, confirmations, lost, said,
                          requests, crashes, dropped>>
       PROVE  TypeOK'
  BY <1>28 DEF AllJobs, TypeOK, rowVars, requestVars, extVars
<1>29. ASSUME NEW j \in Jobs PROVE forgotten \cup Unstored({j}) \in SUBSET External
  BY DEF Unstored, RunsFit, HasRun, TypeOK
<1>1. ASSUME NEW r \in Requests, NEW act \in Actions, Ask(r, act) PROVE TypeOK'
  <2>1. requests' \in 0..MaxRequests
    BY <1>1, BoundsAssumption DEF Ask, TypeOK
  <2>2. asked' \in [Requests -> Actions \cup {"none"}]
    BY <1>1 DEF Ask, TypeOK
  <2>3. QED
    BY <1>1, <2>1, <2>2 DEF Ask, TypeOK, rowVars, jobVars, extVars
<1>2. ASSUME NEW r \in Requests, Commit(r) PROVE TypeOK'
  <2>1. asked[r] \in Actions
    BY <1>2 DEF Commit, TypeOK
  <2>2. Target(asked[r]) \in Statuses
    BY <2>1, TargetIs DEF TypeOK
  <2>3. QED
    BY <1>2, <2>2 DEF Commit, TypeOK, jobVars, extVars
<1>3. ASSUME NEW r \in Requests, EnqueueJob(r) PROVE TypeOK'
  <2>1. asked[r] \in Actions
    <3>1. r \in committed
      BY <1>3 DEF EnqueueJob
    <3>2. asked[r] # "none"
      BY <3>1 DEF RunsFit
    <3>3. QED
      BY <3>2 DEF TypeOK
  <2>2. job' \in AllJobs
    <3>1. PICK j \in Jobs : Enqueued(j, KindOf(asked[r]))
      BY <1>3 DEF EnqueueJob
    <3>2. KindOf(asked[r]) \in Kinds
      BY <2>1, KindOfIs
    <3>3. QED
      BY <1>0, <3>1, <3>2, EnqueuedFacts
  <2>3. QED
    BY <1>3, <2>2 DEF AllJobs, EnqueueJob, EndRequest, TypeOK, rowVars, extVars, boundVars
<1>4. ASSUME NEW r \in Requests, DropRequest(r) PROVE TypeOK'
  BY <1>4, BoundsAssumption DEF DropRequest, EndRequest, TypeOK, rowVars, jobVars, extVars
<1>5. ASSUME NEW j \in Jobs, Start(j) PROVE TypeOK'
  BY <1>0, <1>5, <1>27, StartGoes DEF Start, Goes, Replaced
<1>6. ASSUME NEW j \in Jobs, NEW permanent \in BOOLEAN, FailJob(j, permanent) PROVE TypeOK'
  BY <1>0, <1>6, <1>28, <1>29, FailJobGoes DEF FailJob, Goes, Replaced
<1>7. ASSUME NEW j \in Jobs, SetDomainFailure(j) PROVE TypeOK'
  <2>1. job' \in AllJobs
    BY <1>0, <1>7, EndGoes DEF Replaced
  <2>2. QED
    BY <1>7, <2>1
    DEF AllJobs, SetDomainFailure, Statuses, TypeOK, requestVars, extVars, boundVars
<1>8. ASSUME NEW j \in Jobs, Finish(j) PROVE TypeOK'
  BY <1>0, <1>8, <1>27, EndGoes DEF Finish, Replaced
<1>9. ASSUME NEW j \in Jobs, FinishValidate(j) PROVE TypeOK'
  <2>1. job' \in AllJobs
    BY <1>0, <1>9, HandlerGoes DEF Goes, Replaced
  <2>2. QED
    BY <1>9, <2>1 DEF AllJobs, FinishValidate, Statuses, TypeOK, requestVars, extVars, boundVars
<1>10. ASSUME NEW j \in Jobs, NEW x \in External, Launch(j, x) PROVE TypeOK'
  <2>1. job' \in AllJobs
    BY <1>0, <1>10, LaunchGoes DEF Goes, Replaced
  <2>2. QED
    BY <1>10, <2>1 DEF AllJobs, Launch, TypeOK, rowVars, requestVars, boundVars
<1>11. ASSUME NEW j \in Jobs, NEW x \in External, NEW permanent \in BOOLEAN,
              LaunchUnheard(j, x, permanent)
       PROVE  TypeOK'
  <2>1. job' \in AllJobs
    BY <1>0, <1>11, LaunchUnheardGoes DEF Goes, Replaced
  <2>2. QED
    BY <1>11, <2>1 DEF AllJobs, LaunchUnheard, TypeOK, rowVars, requestVars
<1>12. ASSUME NEW j \in Jobs, StoreLaunch(j) PROVE TypeOK'
  <2>1. job' \in AllJobs
    BY <1>0, <1>12, HandlerGoes DEF Goes, Replaced
  <2>2. job[j].ext \in External \cup {None}
    BY <1>0, <1>12, NotNoJob DEF AllJobs, StoreLaunch, At, Job
  <2>3. QED
    BY <1>12, <2>1, <2>2 DEF AllJobs, StoreLaunch, TypeOK, requestVars, extVars
<1>13. ASSUME NEW j \in Jobs, EnqueuePoll(j) PROVE TypeOK'
  <2>1. job' \in AllJobs
    BY <1>0, <1>13, EnqueuePollFacts
  <2>2. job[j].ext \in External
    BY <1>13 DEF EnqueuePoll, At, RunsFit, HasRun
  <2>3. QED
    BY <1>13, <2>1, <2>2 DEF AllJobs, EnqueuePoll, TypeOK, rowVars, requestVars, extVars,
       boundVars
<1>14. ASSUME NEW j \in Jobs, PollRunning(j) PROVE TypeOK'
  BY <1>0, <1>14, <1>27, PollRunningGoes DEF PollRunning, Goes, Replaced
<1>15. ASSUME NEW j \in Jobs, PollFailed(j) PROVE TypeOK'
  BY <1>0, <1>15, <1>27, HandlerGoes DEF PollFailed, Goes, Replaced
<1>16. ASSUME NEW j \in Jobs, PollCancelled(j) PROVE TypeOK'
  <2>1. job' \in AllJobs
    BY <1>0, <1>16, HandlerGoes DEF Goes, Replaced
  <2>2. QED
    BY <1>16, <2>1 DEF AllJobs, PollCancelled, Statuses, TypeOK, requestVars, extVars, boundVars
<1>17. ASSUME NEW j \in Jobs, PollCompleted(j) PROVE TypeOK'
  <2>1. job' \in AllJobs
    BY <1>0, <1>17, HandlerGoes DEF Goes, Replaced
  <2>2. QED
    BY <1>17, <2>1 DEF AllJobs, PollCompleted, Statuses, TypeOK, requestVars, extVars, boundVars
<1>18. ASSUME NEW j \in Jobs, FinishEvaluate(j) PROVE TypeOK'
  <2>1. job' \in AllJobs
    BY <1>0, <1>18, HandlerGoes DEF Goes, Replaced
  <2>2. job[j].heard \in {"none", "pass", "fail"}
    BY <1>0, <1>18, NotNoJob DEF AllJobs, FinishEvaluate, At, Job
  <2>3. QED
    BY <1>18, <2>1, <2>2
    DEF AllJobs, FinishEvaluate, Statuses, TypeOK, requestVars, extVars, boundVars
<1>19. ASSUME NEW j \in Jobs, FinishDeploy(j) PROVE TypeOK'
  <2>1. job' \in AllJobs
    BY <1>0, <1>19, HandlerGoes DEF Goes, Replaced
  <2>2. QED
    BY <1>19, <2>1 DEF AllJobs, FinishDeploy, Statuses, TypeOK, requestVars, extVars, boundVars
<1>20. ASSUME NEW j \in Jobs, FinishExport(j) PROVE TypeOK'
  <2>1. job' \in AllJobs
    BY <1>0, <1>20, HandlerGoes DEF Goes, Replaced
  <2>2. QED
    BY <1>20, <2>1 DEF AllJobs, FinishExport, Statuses, TypeOK, requestVars, extVars, boundVars
<1>21. ASSUME NEW j \in Jobs, CallCancel(j) PROVE TypeOK'
  <2>1. job' \in AllJobs
    BY <1>0, <1>21, HandlerGoes DEF Goes, Replaced
  <2>2. QED
    BY <1>21, <2>1 DEF AllJobs, CallCancel, TypeOK, rowVars, requestVars, boundVars
<1>22. ASSUME NEW j \in Jobs, FinishCancel(j) PROVE TypeOK'
  <2>1. job' \in AllJobs
    BY <1>0, <1>22, FinishCancelFacts
  <2>2. QED
    BY <1>22, <2>1 DEF AllJobs, FinishCancel, Statuses, TypeOK, requestVars, extVars, boundVars
<1>23. CASE Crash
  <2>1. job' \in AllJobs
    BY <1>0, <1>23, CrashGoes DEF Goes, Replaced
  <2>2. crashes' \in 0..MaxCrashes
    BY <1>23, BoundsAssumption DEF Crash, TypeOK
  <2>3. lost' \in BOOLEAN
    BY <1>23 DEF Crash, TypeOK
  <2>4. forgotten' \in SUBSET External
    BY <1>23, <1>29 DEF Crash, Busy
  <2>5. QED
    BY <1>23, <2>1, <2>2, <2>3, <2>4
    DEF AllJobs, Crash, TypeOK, rowVars, requestVars, extVars
<1>24. ASSUME NEW x \in External,
              ExternalEnds(x) \/ \E m \in Reports : ExternalReports(x, m)
       PROVE  TypeOK'
  <2>1. ASSUME NEW m \in Reports, Report(x, m)
        PROVE  /\ report' \in [External -> Reports \cup {"none"}]
               /\ said' \in [External -> SUBSET Reports]
    <3>1. said[x] \cup {m} \in SUBSET Reports
      BY DEF TypeOK
    <3>2. QED
      BY <2>1, <3>1 DEF Report, TypeOK
  <2>2. /\ report' \in [External -> Reports \cup {"none"}]
        /\ said' \in [External -> SUBSET Reports]
    BY <1>24, <2>1 DEF ExternalEnds, ExternalReports, TypeOK
  <2>3. QED
    BY <1>24, <2>2
    DEF ExternalEnds, ExternalReports, TypeOK, rowVars, requestVars, jobVars
<1>25. CASE UNCHANGED vars
  BY <1>25 DEF vars, TypeOK, rowVars, requestVars, jobVars, extVars, boundVars
<1>30. ASSUME NEW j \in Jobs, HearReport(j) PROVE TypeOK'
  BY <1>0, <1>27, <1>30, HearReportGoes DEF HearReport, Goes, Replaced
<1>26. QED
  BY <1>1, <1>2, <1>3, <1>4, <1>5, <1>6, <1>7, <1>8, <1>9, <1>10, <1>11, <1>12, <1>13,
     <1>14, <1>15, <1>16, <1>17, <1>18, <1>19, <1>20, <1>21, <1>22, <1>23, <1>24, <1>25,
     <1>30
  DEF Next, Request, Handle

\* Every step keeps the launched runs apart.
LEMMA FitStep ==
    ASSUME TypeOK, RunsFit, [Next]_vars
    PROVE  RunsFit'
<1>0. job \in AllJobs /\ externalId \in External \cup {None} /\ polled \subseteq External
  BY DEF TypeOK, AllJobs
<1>1. ASSUME job' = job, polled' = polled,
             \A x \in External : ext[x] # "unused" => ext'[x] # "unused",
             \A r \in committed' : asked'[r] # "none"
      PROVE  RunsFit'
  BY <1>0, <1>1 DEF RunsFit, HasRun, At
<1>60. ASSUME NEW j \in Jobs, Replaced(j), ~HasRun(j)', polled' = polled,
              At(j, {"poll"}, "started")' => job'[j].ext \in External,
              \A x \in External : ext[x] # "unused" => ext'[x] # "unused",
              \A r \in committed' : asked'[r] # "none"
       PROVE  RunsFit'
  <2>1. ASSUME NEW k \in Jobs, HasRun(k)'
        PROVE  k # j /\ HasRun(k) /\ job'[k] = job[k]
    BY <1>60, <2>1 DEF Replaced, HasRun
  <2>2. ASSUME NEW k \in Jobs, At(k, {"poll"}, "started")'
        PROVE  job'[k].ext \in External
    BY <1>60, <2>2 DEF Replaced, At, RunsFit
  <2>3. ASSUME NEW k \in Jobs, HasRun(k)'
        PROVE  /\ job'[k].kind = "launch"
               /\ job'[k].ext \in External
               /\ ext'[job'[k].ext] # "unused"
               /\ job'[k].ext \notin polled'
    BY <1>60, <2>1, <2>3 DEF RunsFit
  <2>4. ASSUME NEW k \in Jobs, NEW l \in Jobs, HasRun(k)', HasRun(l)',
               job'[k].ext = job'[l].ext
        PROVE  k = l
    BY <2>1, <2>4 DEF RunsFit
  <2>5. \A x \in polled' : ext'[x] # "unused"
    BY <1>0, <1>60 DEF RunsFit
  <2>6. QED
    BY <1>60, <2>2, <2>3, <2>4, <2>5 DEF RunsFit
<1>61. ASSUME NEW j \in Jobs, Goes(j, {"queued", "done", "failing", "called", "heard"}),
              polled' = polled, asked' = asked, committed' = committed,
              \A x \in External : ext[x] # "unused" => ext'[x] # "unused"
       PROVE  RunsFit'
  <2>1. ~HasRun(j)' /\ ~At(j, {"poll"}, "started")' /\ Replaced(j)
    BY <1>61 DEF Goes, HasRun, At
  <2>2. \A r \in committed' : asked'[r] # "none"
    BY <1>61 DEF RunsFit
  <2>3. QED
    BY <1>60, <1>61, <2>1, <2>2
<1>2. ASSUME NEW r \in Requests, NEW act \in Actions, Ask(r, act) PROVE RunsFit'
  <2>1. \A q \in committed' : asked'[q] # "none"
    BY <1>2 DEF Ask, RunsFit, TypeOK, Actions
  <2>2. QED
    BY <1>1, <1>2, <2>1 DEF Ask, rowVars, jobVars, extVars
<1>3. ASSUME NEW r \in Requests, Commit(r) PROVE RunsFit'
  <2>1. \A q \in committed' : asked'[q] # "none"
    BY <1>3 DEF Commit, RunsFit
  <2>2. QED
    BY <1>1, <1>3, <2>1 DEF Commit, jobVars, extVars
<1>4. ASSUME NEW r \in Requests, EnqueueJob(r) PROVE RunsFit'
  <2>1. \A q \in committed' : asked'[q] # "none"
    BY <1>4 DEF EnqueueJob, EndRequest, RunsFit, TypeOK
  <2>2. PICK j \in Jobs : Enqueued(j, KindOf(asked[r]))
    BY <1>4 DEF EnqueueJob
  <2>3. KindOf(asked[r]) \in Kinds
    <3>1. r \in committed
      BY <1>4 DEF EnqueueJob
    <3>2. asked[r] # "none"
      BY <3>1 DEF RunsFit
    <3>3. asked[r] \in Actions
      BY <3>2 DEF TypeOK
    <3>4. QED
      BY <3>3, KindOfIs
  <2>4. /\ job' \in AllJobs
        /\ job'[j] = Queued(KindOf(asked[r]), 0)
        /\ \A k \in Jobs \ {j} : job'[k] = job[k]
    BY <1>0, <2>2, <2>3, EnqueuedFacts
  <2>5. job'[j].at = "queued"
    BY <2>3, <2>4, QueuedIs, BoundsAssumption
  <2>6. polled' = polled /\ ext' = ext
    BY <1>4 DEF EnqueueJob, extVars
  <2>7. QED
    BY <1>0, <2>1, <2>4, <2>5, <2>6 DEF RunsFit, HasRun, At
<1>5. ASSUME NEW r \in Requests, DropRequest(r) PROVE RunsFit'
  <2>1. \A q \in committed' : asked'[q] # "none"
    BY <1>5 DEF DropRequest, EndRequest, RunsFit, TypeOK
  <2>2. QED
    BY <1>1, <1>5, <2>1 DEF DropRequest, rowVars, jobVars, extVars
<1>6. ASSUME NEW j \in Jobs, Start(j) PROVE RunsFit'
  <2>1. /\ Goes(j, {"started", "failing"})
        /\ job'[j].ext = externalId
        /\ job'[j].at = "started" => Runnable(job[j].kind)
    BY <1>0, <1>6, StartGoes
  <2>2. At(j, {"poll"}, "started")' => job'[j].ext \in External
    BY <1>0, <2>1 DEF At, Goes, Runnable
  <2>3. ~HasRun(j)' /\ Replaced(j)
    BY <2>1 DEF Goes, HasRun
  <2>4. polled' = polled /\ ext' = ext /\ committed' = committed /\ asked' = asked
    BY <1>6 DEF Start, extVars, requestVars
  <2>5. \A q \in committed' : asked'[q] # "none"
    BY <2>4 DEF RunsFit
  <2>6. QED
    BY <1>60, <2>2, <2>3, <2>4, <2>5
<1>7. ASSUME NEW j \in Jobs, NEW permanent \in BOOLEAN, FailJob(j, permanent) PROVE RunsFit'
  <2>1. Goes(j, {"queued", "done", "failing", "called", "heard"})
    BY <1>0, <1>7, FailJobGoes DEF Goes
  <2>2. QED
    BY <1>7, <1>61, <2>1 DEF FailJob, rowVars, requestVars, extVars, boundVars
<1>8. ASSUME NEW j \in Jobs, SetDomainFailure(j) \/ Finish(j) PROVE RunsFit'
  <2>1. Replaced(j) /\ ~HasRun(j)' /\ ~At(j, {"poll"}, "started")'
    BY <1>0, <1>8, EndGoes, NoJobIs DEF HasRun, At
  <2>2. polled' = polled /\ ext' = ext /\ committed' = committed /\ asked' = asked
    BY <1>8 DEF SetDomainFailure, Finish, extVars, requestVars
  <2>3. \A q \in committed' : asked'[q] # "none"
    BY <2>2 DEF RunsFit
  <2>4. QED
    BY <1>60, <2>1, <2>2, <2>3
<1>9. ASSUME NEW j \in Jobs, FinishValidate(j) PROVE RunsFit'
  <2>1. Goes(j, {"queued", "done", "failing", "called", "heard"})
    BY <1>0, <1>9, HandlerGoes DEF Goes
  <2>2. QED
    BY <1>9, <1>61, <2>1 DEF FinishValidate, rowVars, requestVars, extVars, boundVars
<1>10. ASSUME NEW j \in Jobs, NEW x \in External, Launch(j, x) PROVE RunsFit'
  <2>1. Goes(j, {"launched"}) /\ job'[j].ext = x
    BY <1>0, <1>10, LaunchGoes
  <2>2. /\ job[j].kind = "launch" /\ ext[x] = "unused"
        /\ ext' = [ext EXCEPT ![x] = "running"]
        /\ polled' = polled /\ committed' = committed /\ asked' = asked
    BY <1>10 DEF Launch, At, requestVars
  <2>3. ASSUME NEW k \in Jobs, HasRun(k), k # j
        PROVE  job'[k] = job[k] /\ job[k].ext # x /\ ext'[job[k].ext] = ext[job[k].ext]
    BY <2>1, <2>2, <2>3 DEF Goes, Replaced, RunsFit, TypeOK
  <2>4. x \notin polled /\ ext'[x] # "unused"
    BY <2>2 DEF RunsFit, TypeOK
  <2>5. \A y \in polled : ext'[y] # "unused"
    BY <1>0, <2>2 DEF RunsFit, TypeOK
  <2>6. ASSUME NEW k \in Jobs, HasRun(k)' PROVE k = j \/ HasRun(k)
    BY <2>1, <2>6 DEF Goes, Replaced, HasRun
  <2>7. ASSUME NEW k \in Jobs, HasRun(k)'
        PROVE  /\ job'[k].kind = "launch"
               /\ job'[k].ext \in External
               /\ ext'[job'[k].ext] # "unused"
               /\ job'[k].ext \notin polled'
    BY <2>1, <2>2, <2>3, <2>4, <2>6, <2>7 DEF Goes, RunsFit
  <2>8. ASSUME NEW k \in Jobs, NEW l \in Jobs, HasRun(k)', HasRun(l)',
               job'[k].ext = job'[l].ext
        PROVE  k = l
    BY <2>1, <2>3, <2>6, <2>8 DEF RunsFit
  <2>9. \A k \in Jobs : At(k, {"poll"}, "started")' => job'[k].ext \in External
    BY <2>1 DEF Goes, Replaced, At, RunsFit
  <2>10. QED
    BY <2>2, <2>5, <2>7, <2>8, <2>9 DEF RunsFit
<1>11. ASSUME NEW j \in Jobs, NEW x \in External, NEW permanent \in BOOLEAN,
              LaunchUnheard(j, x, permanent)
       PROVE  RunsFit'
  <2>1. Goes(j, {"queued", "done", "failing", "called", "heard"})
    BY <1>0, <1>11, LaunchUnheardGoes DEF Goes
  <2>2. ext' = [ext EXCEPT ![x] = "running"] /\ polled' = polled /\ committed' = committed
          /\ asked' = asked
    BY <1>11 DEF LaunchUnheard, requestVars
  <2>3. \A y \in External : ext[y] # "unused" => ext'[y] # "unused"
    BY <2>2 DEF TypeOK
  <2>4. QED
    BY <1>61, <2>1, <2>2, <2>3
<1>12. ASSUME NEW j \in Jobs, StoreLaunch(j) PROVE RunsFit'
  <2>1. Goes(j, {"stored"}) /\ job'[j].ext = job[j].ext /\ HasRun(j)
    BY <1>0, <1>12, HandlerGoes DEF StoreLaunch, At, HasRun
  <2>2. polled' = polled /\ ext' = ext /\ committed' = committed /\ asked' = asked
    BY <1>12 DEF StoreLaunch, extVars, requestVars
  <2>3. ASSUME NEW k \in Jobs, HasRun(k)'
        PROVE  HasRun(k) /\ job'[k].ext = job[k].ext /\ job'[k].kind = job[k].kind
    BY <2>1, <2>3 DEF Goes, Replaced, HasRun
  <2>4. \A k \in Jobs : At(k, {"poll"}, "started")' => job'[k].ext \in External
    BY <2>1 DEF Goes, Replaced, At, RunsFit
  <2>5. QED
    BY <2>2, <2>3, <2>4 DEF RunsFit
<1>13. ASSUME NEW j \in Jobs, EnqueuePoll(j) PROVE RunsFit'
  <2>1. /\ job'[j].at = "done"
        /\ \A k \in Jobs \ {j} :
              \/ job'[k] = job[k]
              \/ job[k] = NoJob /\ job'[k] = Queued("poll", 0)
    BY <1>0, <1>13, EnqueuePollFacts
  <2>2. /\ HasRun(j) /\ polled' = polled \cup {job[j].ext}
        /\ ext' = ext /\ committed' = committed /\ asked' = asked
    BY <1>13 DEF EnqueuePoll, At, HasRun, extVars, requestVars
  <2>3. Queued("poll", 0).at = "queued"
    BY DEF Queued
  <2>4. ASSUME NEW k \in Jobs, HasRun(k)' PROVE k # j /\ HasRun(k) /\ job'[k] = job[k]
    BY <2>1, <2>3, <2>4 DEF HasRun
  <2>5. ASSUME NEW k \in Jobs, At(k, {"poll"}, "started")'
        PROVE  job'[k].ext \in External
    <3>1. job'[k] = job[k]
      BY <2>1, <2>3, <2>5 DEF At
    <3>2. QED
      BY <2>5, <3>1 DEF At, RunsFit
  <2>6. \A x \in polled' : ext'[x] # "unused"
    BY <2>2 DEF RunsFit
  <2>7. ASSUME NEW k \in Jobs, HasRun(k)' PROVE job'[k].ext \notin polled'
    BY <2>2, <2>4, <2>7 DEF RunsFit
  <2>8. QED
    BY <2>2, <2>4, <2>5, <2>6, <2>7 DEF RunsFit
<1>14. ASSUME NEW j \in Jobs, PollRunning(j) PROVE RunsFit'
  <2>1. Goes(j, {"queued", "done", "failing", "called", "heard"})
    BY <1>0, <1>14, PollRunningGoes DEF Goes
  <2>2. QED
    BY <1>14, <1>61, <2>1 DEF PollRunning, rowVars, requestVars, extVars, boundVars
<1>15. ASSUME NEW j \in Jobs, PollFailed(j) PROVE RunsFit'
  <2>1. Goes(j, {"queued", "done", "failing", "called", "heard"})
    BY <1>0, <1>15, HandlerGoes DEF Goes
  <2>2. QED
    BY <1>15, <1>61, <2>1 DEF PollFailed, rowVars, requestVars, extVars, boundVars
<1>16. ASSUME NEW j \in Jobs, PollCancelled(j) PROVE RunsFit'
  <2>1. Goes(j, {"queued", "done", "failing", "called", "heard"})
    BY <1>0, <1>16, HandlerGoes DEF Goes
  <2>2. QED
    BY <1>16, <1>61, <2>1 DEF PollCancelled, rowVars, requestVars, extVars, boundVars
<1>17. ASSUME NEW j \in Jobs, PollCompleted(j) PROVE RunsFit'
  <2>1. Goes(j, {"queued", "done", "failing", "called", "heard"})
    BY <1>0, <1>17, HandlerGoes DEF Goes
  <2>2. QED
    BY <1>17, <1>61, <2>1 DEF PollCompleted, rowVars, requestVars, extVars, boundVars
<1>18. ASSUME NEW j \in Jobs, FinishEvaluate(j) PROVE RunsFit'
  <2>1. Goes(j, {"queued", "done", "failing", "called", "heard"})
    BY <1>0, <1>18, HandlerGoes DEF Goes
  <2>2. QED
    BY <1>18, <1>61, <2>1 DEF FinishEvaluate, rowVars, requestVars, extVars, boundVars
<1>19. ASSUME NEW j \in Jobs, FinishDeploy(j) PROVE RunsFit'
  <2>1. Goes(j, {"queued", "done", "failing", "called", "heard"})
    BY <1>0, <1>19, HandlerGoes DEF Goes
  <2>2. QED
    BY <1>19, <1>61, <2>1 DEF FinishDeploy, rowVars, requestVars, extVars, boundVars
<1>20. ASSUME NEW j \in Jobs, FinishExport(j) PROVE RunsFit'
  <2>1. Goes(j, {"queued", "done", "failing", "called", "heard"})
    BY <1>0, <1>20, HandlerGoes DEF Goes
  <2>2. QED
    BY <1>20, <1>61, <2>1 DEF FinishExport, rowVars, requestVars, extVars, boundVars
<1>21. ASSUME NEW j \in Jobs, CallCancel(j) PROVE RunsFit'
  <2>1. Goes(j, {"queued", "done", "failing", "called", "heard"})
    BY <1>0, <1>21, HandlerGoes DEF Goes
  <2>2. polled' = polled /\ committed' = committed /\ asked' = asked
    BY <1>21 DEF CallCancel, requestVars
  <2>3. \A x \in External : ext[x] # "unused" => ext'[x] # "unused"
    BY <1>21 DEF CallCancel
  <2>4. QED
    BY <1>61, <2>1, <2>2, <2>3
<1>22. ASSUME NEW j \in Jobs, FinishCancel(j) PROVE RunsFit'
  <2>1. /\ job'[j].at = "done"
        /\ \A k \in Jobs \ {j} :
              \/ job'[k] = NoJob
              \/ job'[k].at = job[k].at /\ job'[k].kind = job[k].kind
                   /\ job'[k].ext = job[k].ext
    BY <1>0, <1>22, FinishCancelFacts
  <2>2. polled' = polled /\ ext' = ext /\ committed' = committed /\ asked' = asked
    BY <1>22 DEF FinishCancel, extVars, requestVars
  <2>3. ASSUME NEW k \in Jobs, HasRun(k)'
        PROVE  HasRun(k) /\ job'[k].ext = job[k].ext /\ job'[k].kind = job[k].kind
    BY <2>1, <2>3, NoJobIs DEF HasRun
  <2>4. \A k \in Jobs : At(k, {"poll"}, "started")' => job'[k].ext \in External
    BY <2>1, NoJobIs DEF At, RunsFit
  <2>5. QED
    BY <2>2, <2>3, <2>4 DEF RunsFit
<1>23. CASE Crash
  <2>1. PICK j \in Jobs : \/ Replaced(j) /\ job'[j] = NoJob
                         \/ Goes(j, {"queued"})
    BY <1>0, <1>23, CrashGoes
  <2>2. Replaced(j) /\ ~HasRun(j)' /\ ~At(j, {"poll"}, "started")'
    BY <2>1, NoJobIs DEF Goes, HasRun, At
  <2>3. polled' = polled /\ ext' = ext /\ committed' = committed /\ asked' = asked
    BY <1>23 DEF Crash, extVars, requestVars
  <2>4. \A q \in committed' : asked'[q] # "none"
    BY <2>3 DEF RunsFit
  <2>5. QED
    BY <1>60, <2>2, <2>3, <2>4
<1>24. ASSUME NEW x \in External,
              ExternalEnds(x) \/ \E m \in Reports : ExternalReports(x, m)
       PROVE  RunsFit'
  <2>1. \A y \in External : ext[y] # "unused" => ext'[y] # "unused"
    BY <1>24 DEF ExternalEnds, ExternalReports, TypeOK
  <2>2. \A q \in committed' : asked'[q] # "none"
    BY <1>24 DEF ExternalEnds, ExternalReports, requestVars, RunsFit
  <2>3. QED
    BY <1>1, <1>24, <2>1, <2>2 DEF ExternalEnds, ExternalReports, jobVars
<1>25. CASE UNCHANGED vars
  BY <1>1, <1>25 DEF vars, jobVars, extVars, requestVars, RunsFit
<1>27. ASSUME NEW j \in Jobs, HearReport(j) PROVE RunsFit'
  <2>1. Goes(j, {"queued", "done", "failing", "called", "heard"})
    BY <1>0, <1>27, HearReportGoes DEF Goes
  <2>2. QED
    BY <1>27, <1>61, <2>1 DEF HearReport, rowVars, requestVars, extVars, boundVars
<1>26. QED
  BY <1>27, <1>2, <1>3, <1>4, <1>5, <1>6, <1>7, <1>8, <1>9, <1>10, <1>11, <1>12, <1>13,
     <1>14, <1>15, <1>16, <1>17, <1>18, <1>19, <1>20, <1>21, <1>22, <1>23, <1>24, <1>25
  DEF Next, Request, Handle
-----------------------------------------------------------------------------
(* Nobody forgets a run that waits.                                        *)

WorkingStages == Stages \ {"done"}

\* Every step keeps the work a waiting run needs, as long as metrics are
\* objects.
LEMMA LiveStep ==
    ASSUME "malformed" \notin Reports, TypeOK, RunsFit, LiveInv, [Next]_vars
    PROVE  LiveInv'
<1>0. job \in AllJobs /\ externalId \in External \cup {None} /\ lost \in BOOLEAN
  BY DEF TypeOK, AllJobs
<1>60. ASSUME status' \in {"queued", "completed", "deployed", "exported", "cancelled", "failed"}
       PROVE  LiveInv'
  BY <1>60 DEF LiveInv, StatusHasLiveWork, Awaits
<1>61. ASSUME NEW j \in Jobs, Goes(j, WorkingStages),
              status' = status, lost' = lost, committed' = committed, asked' = asked
       PROVE  LiveInv'
  <2>1. ASSUME NEW kinds \in SUBSET Kinds, NEW k \in Jobs, WorksOn(k, kinds)
        PROVE  WorksOn(k, kinds)'
    BY <1>61, <2>1 DEF Goes, Replaced, WorksOn, WorkingStages
  <2>2. ASSUME NEW kinds \in SUBSET Kinds, LiveWork(kinds) PROVE LiveWork(kinds)'
    BY <1>61, <2>1, <2>2 DEF LiveWork, Owes
  <2>3. QED
    BY <1>61, <2>2 DEF LiveInv, StatusHasLiveWork
<1>62. ASSUME job' = job, status' = status, lost' = lost,
              \A r \in committed : r \in committed' /\ asked'[r] = asked[r]
       PROVE  LiveInv'
  <2>1. ASSUME NEW kinds \in SUBSET Kinds, LiveWork(kinds) PROVE LiveWork(kinds)'
    BY <1>62, <2>1 DEF LiveWork, Owes, WorksOn
  <2>2. QED
    BY <1>62, <2>1 DEF LiveInv, StatusHasLiveWork
<1>1. ASSUME NEW r \in Requests, NEW act \in Actions, Ask(r, act) PROVE LiveInv'
  <2>1. r \notin committed
    BY <1>1 DEF Ask, RunsFit
  <2>2. \A q \in committed : q \in committed' /\ asked'[q] = asked[q]
    BY <1>1, <2>1 DEF Ask, TypeOK
  <2>3. QED
    BY <1>1, <1>62, <2>2 DEF Ask, rowVars, jobVars
<1>2. ASSUME NEW r \in Requests, Commit(r) PROVE LiveInv'
  <2> DEFINE act == asked[r]
  <2>1. act \in Actions /\ job' = job /\ lost' = lost /\ asked' = asked
    BY <1>2 DEF Commit, TypeOK, jobVars
  <2>2. status' = Target(act) /\ committed' = committed \cup {r}
    BY <1>2 DEF Commit
  <2>3. CASE act \in {"revalidate", "export"}
    BY <1>62, <2>1, <2>2, <2>3, TargetIs
  <2>4. CASE act \notin {"revalidate", "export"}
    <3>1. KindOf(act) = act
      BY <2>1, <2>4, KindOfIs
    <3>2. /\ act = "validate" => status' = "validating"
          /\ act = "launch" => status' = "training"
          /\ act = "cancel" => status' = "cancelling"
          /\ act = "evaluate" => status' = "evaluating"
          /\ act \in {"deploy", "deploy_experimental"} => status' = "deploying"
      BY <2>1, <2>2, TargetIs
    <3>3. ASSUME NEW kinds \in SUBSET Kinds, Awaits(status', kinds)
          PROVE  LiveWork(kinds)'
      <4>1. act \in kinds
        BY <2>1, <2>4, <3>2, <3>3 DEF Awaits, Actions
      <4>2. Owes(r, kinds)'
        BY <2>1, <2>2, <3>1, <4>1 DEF Owes, KindOf
      <4>3. QED
        BY <4>2 DEF LiveWork
    <3>4. QED
      BY <3>3 DEF LiveInv, StatusHasLiveWork, Awaits
  <2>5. QED
    BY <2>3, <2>4
<1>3. ASSUME NEW r \in Requests, EnqueueJob(r) PROVE LiveInv'
  <2>1. PICK j \in Jobs : Enqueued(j, KindOf(asked[r]))
    BY <1>3 DEF EnqueueJob
  <2>2. KindOf(asked[r]) \in Kinds
    <3>1. r \in committed
      BY <1>3 DEF EnqueueJob
    <3>2. asked[r] # "none"
      BY <3>1 DEF RunsFit
    <3>3. asked[r] \in Actions
      BY <3>2 DEF TypeOK
    <3>4. QED
      BY <3>3, KindOfIs
  <2>3. /\ job[j] = NoJob
        /\ job'[j] = Queued(KindOf(asked[r]), 0)
        /\ \A k \in Jobs \ {j} : job'[k] = job[k]
    BY <1>0, <2>1, <2>2, EnqueuedFacts
  <2>4. job'[j].kind = KindOf(asked[r]) /\ job'[j].at = "queued" /\ job'[j].row = "live"
    BY <2>2, <2>3, QueuedIs, BoundsAssumption
  <2>5. /\ status' = status /\ lost' = lost
        /\ \A q \in committed \ {r} : q \in committed' /\ asked'[q] = asked[q]
    BY <1>3 DEF EnqueueJob, EndRequest, rowVars, boundVars, TypeOK
  <2>6. ASSUME NEW kinds \in SUBSET Kinds, LiveWork(kinds) PROVE LiveWork(kinds)'
    <3>1. CASE \E q \in Requests : Owes(q, kinds)
      <4>1. PICK q \in Requests : Owes(q, kinds)
        BY <3>1
      <4>2. CASE q = r
        BY <2>4, <4>1, <4>2 DEF Owes, WorksOn, LiveWork
      <4>3. CASE q # r
        BY <2>5, <4>1, <4>3 DEF Owes, LiveWork
      <4>4. QED
        BY <4>2, <4>3
    <3>2. CASE \E k \in Jobs : WorksOn(k, kinds)
      <4>1. PICK k \in Jobs : WorksOn(k, kinds)
        BY <3>2
      <4>2. k # j
        BY <2>3, <4>1, NoJobIs DEF WorksOn, Kinds
      <4>3. QED
        BY <2>3, <4>1, <4>2 DEF WorksOn, LiveWork
    <3>3. QED
      BY <2>6, <3>1, <3>2 DEF LiveWork
  <2>7. QED
    BY <2>5, <2>6 DEF LiveInv, StatusHasLiveWork
<1>4. ASSUME NEW r \in Requests, DropRequest(r) PROVE LiveInv'
  BY <1>4 DEF DropRequest, LiveInv
<1>5. ASSUME NEW j \in Jobs, Start(j) PROVE LiveInv'
  <2>1. Goes(j, WorkingStages)
    BY <1>0, <1>5, StartGoes DEF Goes, WorkingStages, Stages
  <2>2. status' = status /\ lost' = lost /\ committed' = committed /\ asked' = asked
    BY <1>5 DEF Start, rowVars, requestVars, boundVars
  <2>3. QED
    BY <1>61, <2>1, <2>2
<1>6. ASSUME NEW j \in Jobs, NEW permanent \in BOOLEAN, FailJob(j, permanent) PROVE LiveInv'
  <2>1. Goes(j, WorkingStages)
    BY <1>0, <1>6, FailJobGoes DEF Goes, WorkingStages, Stages
  <2>2. status' = status /\ lost' = lost /\ committed' = committed /\ asked' = asked
    BY <1>6 DEF FailJob, rowVars, requestVars, boundVars
  <2>3. QED
    BY <1>61, <2>1, <2>2
<1>7. ASSUME NEW j \in Jobs, SetDomainFailure(j) PROVE LiveInv'
  <2>1. status' \in {"cancelled", "deployed", "exported", "failed"}
    BY <1>7 DEF SetDomainFailure
  <2>2. QED
    BY <1>60, <2>1
<1>8. ASSUME NEW j \in Jobs, Finish(j) PROVE LiveInv'
  <2>1. \A k \in Jobs \ {j} : job'[k] = job[k]
    BY <1>0, <1>8, EndGoes DEF Replaced
  <2>2. /\ job[j].at = "done" /\ status' = status /\ lost' = lost
        /\ committed' = committed /\ asked' = asked
    BY <1>8 DEF Finish, rowVars, requestVars, boundVars
  <2>3. ASSUME NEW kinds \in SUBSET Kinds, LiveWork(kinds) PROVE LiveWork(kinds)'
    <3>1. ASSUME NEW k \in Jobs, WorksOn(k, kinds) PROVE WorksOn(k, kinds)'
      BY <2>1, <2>2, <3>1 DEF WorksOn
    <3>2. QED
      BY <2>2, <2>3, <3>1 DEF LiveWork, Owes
  <2>4. QED
    BY <2>2, <2>3 DEF LiveInv, StatusHasLiveWork
<1>9. ASSUME NEW j \in Jobs, FinishValidate(j) PROVE LiveInv'
  <2>1. status' = "queued"
    BY <1>9 DEF FinishValidate
  <2>2. QED
    BY <1>60, <2>1
<1>10. ASSUME NEW j \in Jobs, NEW x \in External, Launch(j, x) PROVE LiveInv'
  <2>1. Goes(j, WorkingStages)
    BY <1>0, <1>10, LaunchGoes DEF Goes, WorkingStages, Stages
  <2>2. status' = status /\ lost' = lost /\ committed' = committed /\ asked' = asked
    BY <1>10 DEF Launch, rowVars, requestVars, boundVars
  <2>3. QED
    BY <1>61, <2>1, <2>2
<1>11. ASSUME NEW j \in Jobs, NEW x \in External, NEW permanent \in BOOLEAN,
              LaunchUnheard(j, x, permanent)
       PROVE  LiveInv'
  <2>1. Goes(j, WorkingStages)
    BY <1>0, <1>11, LaunchUnheardGoes DEF Goes, WorkingStages, Stages
  <2>2. status' = status /\ lost' = lost /\ committed' = committed /\ asked' = asked
    BY <1>11 DEF LaunchUnheard, rowVars, requestVars, boundVars
  <2>3. QED
    BY <1>61, <2>1, <2>2
<1>12. ASSUME NEW j \in Jobs, StoreLaunch(j) PROVE LiveInv'
  <2>1. Goes(j, WorkingStages)
    BY <1>0, <1>12, HandlerGoes DEF Goes, WorkingStages, Stages
  <2>2. status' = status /\ lost' = lost /\ committed' = committed /\ asked' = asked
    BY <1>12 DEF StoreLaunch, rowVars, requestVars, boundVars
  <2>3. QED
    BY <1>61, <2>1, <2>2
<1>13. ASSUME NEW j \in Jobs, EnqueuePoll(j) PROVE LiveInv'
  <2>1. /\ HasRun(j) /\ job[j].kind = "launch" /\ status' = status /\ lost' = lost
        /\ committed' = committed /\ asked' = asked
    BY <1>13 DEF EnqueuePoll, At, HasRun, rowVars, requestVars, boundVars
  <2>2. job[j].ext \notin polled
    BY <2>1 DEF RunsFit
  <2>3. /\ \A k \in Jobs \ {j} :
              \/ job'[k] = job[k]
              \/ job[k] = NoJob /\ job'[k] = Queued("poll", 0)
        /\ \E k \in Jobs \ {j} : job'[k] = Queued("poll", 0)
    BY <1>0, <1>13, <2>2, EnqueuePollFacts
  <2>4. /\ Queued("poll", 0).kind = "poll" /\ Queued("poll", 0).at = "queued"
        /\ Queued("poll", 0).row = "live"
    BY DEF Queued
  <2>5. ASSUME NEW kinds \in SUBSET Kinds, Awaits(status, kinds), LiveWork(kinds)
        PROVE  LiveWork(kinds)'
    <3>1. CASE "launch" \in kinds
      <4>1. "poll" \in kinds
        BY <2>5, <3>1 DEF Awaits
      <4>2. PICK k \in Jobs : job'[k] = Queued("poll", 0)
        BY <2>3
      <4>3. WorksOn(k, kinds)'
        BY <2>4, <4>1, <4>2 DEF WorksOn
      <4>4. QED
        BY <4>3 DEF LiveWork
    <3>2. CASE "launch" \notin kinds
      <4>1. ASSUME NEW k \in Jobs, WorksOn(k, kinds) PROVE WorksOn(k, kinds)'
        <5>1. k # j /\ job[k] # NoJob
          BY <2>1, <3>2, <4>1, NoJobIs DEF WorksOn, Kinds
        <5>2. QED
          BY <2>3, <4>1, <5>1 DEF WorksOn
      <4>2. QED
        BY <2>1, <2>5, <4>1 DEF LiveWork, Owes
    <3>3. QED
      BY <3>1, <3>2
  <2>6. QED
    BY <2>1, <2>5 DEF LiveInv, StatusHasLiveWork
<1>14. ASSUME NEW j \in Jobs, PollRunning(j) PROVE LiveInv'
  <2>1. Goes(j, WorkingStages)
    BY <1>0, <1>14, PollRunningGoes DEF Goes, WorkingStages, Stages
  <2>2. status' = status /\ lost' = lost /\ committed' = committed /\ asked' = asked
    BY <1>14 DEF PollRunning, rowVars, requestVars, boundVars
  <2>3. QED
    BY <1>61, <2>1, <2>2
<1>15. ASSUME NEW j \in Jobs, PollFailed(j) PROVE LiveInv'
  <2>1. Goes(j, WorkingStages)
    BY <1>0, <1>15, HandlerGoes DEF Goes, WorkingStages, Stages
  <2>2. status' = status /\ lost' = lost /\ committed' = committed /\ asked' = asked
    BY <1>15 DEF PollFailed, rowVars, requestVars, boundVars
  <2>3. QED
    BY <1>61, <2>1, <2>2
<1>16. ASSUME NEW j \in Jobs, PollCancelled(j) PROVE LiveInv'
  <2>1. status' = "cancelled"
    BY <1>16 DEF PollCancelled
  <2>2. QED
    BY <1>60, <2>1
<1>17. ASSUME NEW j \in Jobs, PollCompleted(j) PROVE LiveInv'
  <2>1. job[j].ext \in External
    BY <1>17 DEF PollCompleted, At, RunsFit
  <2>2. report[job[j].ext] # "malformed"
    BY <2>1 DEF TypeOK
  <2>3. status' = "completed"
    BY <1>17, <2>2 DEF PollCompleted
  <2>4. QED
    BY <1>60, <2>3
<1>18. ASSUME NEW j \in Jobs, FinishEvaluate(j) PROVE LiveInv'
  <2>1. status' = "completed"
    BY <1>18 DEF FinishEvaluate
  <2>2. QED
    BY <1>60, <2>1
<1>27. ASSUME NEW j \in Jobs, HearReport(j) PROVE LiveInv'
  <2>1. Goes(j, WorkingStages)
    BY <1>0, <1>27, HearReportGoes DEF Goes, WorkingStages, Stages
  <2>2. status' = status /\ lost' = lost /\ committed' = committed /\ asked' = asked
    BY <1>27 DEF HearReport, rowVars, requestVars, boundVars
  <2>3. QED
    BY <1>61, <2>1, <2>2
<1>19. ASSUME NEW j \in Jobs, FinishDeploy(j) PROVE LiveInv'
  <2>1. status' = "deployed"
    BY <1>19 DEF FinishDeploy
  <2>2. QED
    BY <1>60, <2>1
<1>20. ASSUME NEW j \in Jobs, FinishExport(j) PROVE LiveInv'
  <2>1. status' = "exported"
    BY <1>20 DEF FinishExport
  <2>2. QED
    BY <1>60, <2>1
<1>21. ASSUME NEW j \in Jobs, CallCancel(j) PROVE LiveInv'
  <2>1. Goes(j, WorkingStages)
    BY <1>0, <1>21, HandlerGoes DEF Goes, WorkingStages, Stages
  <2>2. status' = status /\ lost' = lost /\ committed' = committed /\ asked' = asked
    BY <1>21 DEF CallCancel, rowVars, requestVars, boundVars
  <2>3. QED
    BY <1>61, <2>1, <2>2
<1>22. ASSUME NEW j \in Jobs, FinishCancel(j) PROVE LiveInv'
  <2>1. status' = "cancelled"
    BY <1>22 DEF FinishCancel
  <2>2. QED
    BY <1>60, <2>1
<1>23. CASE Crash
  <2>1. PICK j \in Jobs :
          /\ lost' = (lost \/ job[j].at = "failing")
          /\ \/ /\ job[j].row = "cancelled" \/ job[j].at = "failing"
                /\ Replaced(j) /\ job'[j] = NoJob
             \/ Goes(j, {"queued"})
    BY <1>0, <1>23, CrashGoes
  <2>2. status' = status /\ committed' = committed /\ asked' = asked
    BY <1>23 DEF Crash, rowVars, requestVars
  <2>3. CASE lost'
    BY <2>3 DEF LiveInv
  <2>4. CASE ~lost'
    <3>1. ~lost /\ job[j].at # "failing" /\ lost' = lost
      BY <1>0, <2>1, <2>4
    <3>2. ASSUME NEW kinds \in SUBSET Kinds, NEW k \in Jobs, WorksOn(k, kinds)
          PROVE  WorksOn(k, kinds)'
      BY <2>1, <3>1, <3>2 DEF WorksOn, Goes, Replaced
    <3>3. ASSUME NEW kinds \in SUBSET Kinds, LiveWork(kinds) PROVE LiveWork(kinds)'
      BY <2>2, <3>2, <3>3 DEF LiveWork, Owes
    <3>4. QED
      BY <2>2, <3>1, <3>3 DEF LiveInv, StatusHasLiveWork
  <2>5. QED
    BY <2>3, <2>4
<1>24. ASSUME NEW x \in External,
              ExternalEnds(x) \/ \E m \in Reports : ExternalReports(x, m)
       PROVE  LiveInv'
  BY <1>24, <1>62 DEF ExternalEnds, ExternalReports, rowVars, requestVars, jobVars
<1>25. CASE UNCHANGED vars
  BY <1>25, <1>62 DEF vars, rowVars, requestVars, jobVars, boundVars
<1>26. QED
  BY <1>27, <1>1, <1>2, <1>3, <1>4, <1>5, <1>6, <1>7, <1>8, <1>9, <1>10, <1>11, <1>12, <1>13,
     <1>14, <1>15, <1>16, <1>17, <1>18, <1>19, <1>20, <1>21, <1>22, <1>23, <1>24, <1>25
  DEF Next, Request, Handle
-----------------------------------------------------------------------------
(* A cancelled run is stopped, with one worker.                            *)

OneHandler == \A j, k \in Busy : j = k

\* A handler is about the run the row names, and nobody cancels a run while
\* a handler launches it.
HandlerFits ==
    \A j \in Jobs :
        /\ job[j].at \in {"started", "called"} => job[j].ext = externalId
        /\ job[j].kind = "launch" /\ job[j].at \in {"started", "launched"} =>
               status # "cancelled"
        /\ job[j].at = "called" /\ externalId # None => ext[externalId] # "running"

RunIsStarted == externalId # None => ext[externalId] # "unused"

StoredIsStopped ==
    status = "cancelled" /\ externalId # None => ext[externalId] # "running"

StopInv == OneHandler /\ HandlerFits /\ RunIsStarted /\ StoredIsStopped

LEMMA NobodyIsBusy ==
    ASSUME IsFiniteSet(Jobs), Workers = 1, Cardinality(Busy) < Workers
    PROVE  Busy = {}
<1>1. IsFiniteSet(Busy)
  BY FS_Subset DEF Busy
<1>2. Cardinality(Busy) \in Nat
  BY <1>1, FS_CardinalityType
<1>3. Cardinality(Busy) = 0
  BY <1>2
<1>4. QED
  BY <1>1, <1>3, FS_EmptySet

\* Every step keeps the handler and the row in agreement.
LEMMA StopStep ==
    ASSUME IsFiniteSet(Jobs), Workers = 1, TypeOK, RunsFit, StopInv, [Next]_vars
    PROVE  StopInv'
<1>0. /\ job \in AllJobs /\ externalId \in External \cup {None}
      /\ \A j \in Jobs : job[j].at \in Stages \cup {"none"}
  BY NoJobIs DEF TypeOK, AllJobs, Job
<1>60. ASSUME NEW j \in Jobs,
              \A k \in Jobs \ {j} : job'[k].at \in {"none", "queued"},
              job'[j].at \in {"none", "queued", "done", "failing", "stored", "heard"},
              RunIsStarted', StoredIsStopped'
       PROVE  StopInv'
  BY <1>60 DEF StopInv, OneHandler, HandlerFits, Busy
<1>61. ASSUME NEW j \in Busy
       PROVE  \A k \in Jobs \ {j} : job[k].at \in {"none", "queued"}
  BY DEF StopInv, OneHandler, Busy
<1>62. ASSUME NEW j \in Busy, Goes(j, {"queued", "done", "failing", "heard"}),
              ext' = ext, externalId' = externalId, status' = status \/ status' # "cancelled"
       PROVE  StopInv'
  <2>1. /\ \A k \in Jobs \ {j} : job'[k].at \in {"none", "queued"}
        /\ job'[j].at \in {"queued", "done", "failing", "heard"}
    BY <1>61, <1>62 DEF Goes, Replaced
  <2>2. RunIsStarted' /\ StoredIsStopped'
    BY <1>62 DEF StopInv, RunIsStarted, StoredIsStopped
  <2>3. QED
    BY <1>60, <2>1, <2>2 DEF Busy
<1>63. ASSUME job' = job, ext' = ext, externalId' = externalId,
              status' = status \/ status' # "cancelled"
       PROVE  StopInv'
  BY <1>63 DEF StopInv, OneHandler, HandlerFits, RunIsStarted, StoredIsStopped, Busy
<1>1. ASSUME NEW r \in Requests, NEW act \in Actions, Ask(r, act) PROVE StopInv'
  BY <1>1, <1>63 DEF Ask, rowVars, jobVars, extVars
<1>2. ASSUME NEW r \in Requests, Commit(r) PROVE StopInv'
  <2>1. asked[r] \in Actions
    BY <1>2 DEF Commit, TypeOK
  <2>2. status' = status \/ status' # "cancelled"
    BY <1>2, <2>1, TargetIs DEF Commit, Actions
  <2>3. QED
    BY <1>2, <1>63, <2>2 DEF Commit, jobVars, extVars
<1>3. ASSUME NEW r \in Requests, EnqueueJob(r) PROVE StopInv'
  <2>1. PICK j \in Jobs : Enqueued(j, KindOf(asked[r]))
    BY <1>3 DEF EnqueueJob
  <2>2. job[j] = NoJob /\ job' = [job EXCEPT ![j] = Queued(KindOf(asked[r]), 0)]
    BY <2>1 DEF Enqueued
  <2>3. Queued(KindOf(asked[r]), 0).at = "queued"
    BY DEF Queued
  <2>4. job'[j].at = "queued" /\ \A k \in Jobs \ {j} : job'[k] = job[k]
    BY <1>0, <2>2, <2>3 DEF AllJobs
  <2>5. ext' = ext /\ externalId' = externalId /\ status' = status
    BY <1>3 DEF EnqueueJob, rowVars, extVars
  <2>6. QED
    BY <2>4, <2>5 DEF StopInv, OneHandler, HandlerFits, RunIsStarted, StoredIsStopped, Busy
<1>4. ASSUME NEW r \in Requests, DropRequest(r) PROVE StopInv'
  BY <1>4, <1>63 DEF DropRequest, rowVars, jobVars, extVars
<1>5. ASSUME NEW j \in Jobs, Start(j) PROVE StopInv'
  <2>1. /\ Goes(j, {"started", "failing"})
        /\ job'[j].ext = externalId
        /\ job'[j].at = "started" => Runnable(job[j].kind)
    BY <1>0, <1>5, StartGoes
  <2>2. ext' = ext /\ externalId' = externalId /\ status' = status
    BY <1>5 DEF Start, rowVars, extVars
  <2>3. Busy = {}
    BY <1>5, NobodyIsBusy DEF Start
  <2>4. \A k \in Jobs \ {j} : job'[k].at \in {"none", "queued"}
    BY <2>1, <2>3 DEF Goes, Replaced, Busy
  <2>5. job'[j].kind = "launch" /\ job'[j].at = "started" => status = "training"
    BY <2>1 DEF Goes, Runnable
  <2>6. OneHandler'
    BY <2>4 DEF OneHandler, Busy
  <2>7. HandlerFits'
    BY <2>1, <2>2, <2>4, <2>5 DEF HandlerFits, Goes
  <2>8. QED
    BY <2>2, <2>6, <2>7 DEF StopInv, RunIsStarted, StoredIsStopped
<1>6. ASSUME NEW j \in Jobs, NEW permanent \in BOOLEAN, FailJob(j, permanent) PROVE StopInv'
  <2>1. Goes(j, {"queued", "done", "failing", "heard"}) /\ j \in Busy
    BY <1>0, <1>6, FailJobGoes DEF Goes, Busy, FailJob, InHandler
  <2>2. ext' = ext /\ externalId' = externalId /\ (status' = status \/ status' # "cancelled")
    BY <1>6 DEF FailJob, rowVars, extVars
  <2>3. QED
    BY <1>62, <2>1, <2>2
<1>7. ASSUME NEW j \in Jobs, SetDomainFailure(j) \/ Finish(j) PROVE StopInv'
  <2>1. Replaced(j) /\ job'[j].at = "none" /\ j \in Busy
    BY <1>0, <1>7, EndGoes, NoJobIs DEF Busy, SetDomainFailure, Finish
  <2>2. /\ ext' = ext /\ externalId' = externalId
        /\ status' = status \/ status' # "cancelled"
    BY <1>7 DEF SetDomainFailure, Finish, rowVars, extVars
  <2>3. \A k \in Jobs \ {j} : job'[k].at \in {"none", "queued"}
    BY <1>61, <2>1 DEF Replaced
  <2>4. RunIsStarted' /\ StoredIsStopped'
    BY <2>2 DEF StopInv, RunIsStarted, StoredIsStopped
  <2>5. QED
    BY <1>60, <2>1, <2>3, <2>4
<1>9. ASSUME NEW j \in Jobs, FinishValidate(j) PROVE StopInv'
  <2>1. Goes(j, {"queued", "done", "failing", "heard"}) /\ j \in Busy
    BY <1>0, <1>9, HandlerGoes DEF Goes, Busy, FinishValidate, At
  <2>2. ext' = ext /\ externalId' = externalId /\ (status' = status \/ status' # "cancelled")
    BY <1>9 DEF FinishValidate, rowVars, extVars
  <2>3. QED
    BY <1>62, <2>1, <2>2
<1>10. ASSUME NEW j \in Jobs, NEW x \in External, Launch(j, x) PROVE StopInv'
  <2>1. Goes(j, {"launched"}) /\ job'[j].ext = x
    BY <1>0, <1>10, LaunchGoes
  <2>2. /\ job[j].kind = "launch" /\ job[j].at = "started" /\ j \in Busy
        /\ ext[x] = "unused" /\ ext' = [ext EXCEPT ![x] = "running"]
        /\ status' = status /\ externalId' = externalId
    BY <1>10 DEF Launch, At, Busy, rowVars
  <2>3. status # "cancelled"
    BY <2>2 DEF StopInv, HandlerFits
  <2>4. \A k \in Jobs \ {j} : job'[k].at \in {"none", "queued"}
    BY <1>61, <2>1, <2>2 DEF Goes, Replaced
  <2>5. RunIsStarted'
    BY <1>0, <2>2 DEF StopInv, RunIsStarted, TypeOK
  <2>6. OneHandler'
    BY <2>4 DEF OneHandler, Busy
  <2>7. HandlerFits'
    BY <2>1, <2>2, <2>3, <2>4 DEF HandlerFits, Goes
  <2>8. QED
    BY <2>2, <2>3, <2>5, <2>6, <2>7 DEF StopInv, StoredIsStopped
<1>11. ASSUME NEW j \in Jobs, NEW x \in External, NEW permanent \in BOOLEAN,
              LaunchUnheard(j, x, permanent)
       PROVE  StopInv'
  <2>1. Goes(j, {"queued", "failing"})
    BY <1>0, <1>11, LaunchUnheardGoes
  <2>2. /\ j \in Busy /\ ext[x] = "unused" /\ ext' = [ext EXCEPT ![x] = "running"]
        /\ status' = status /\ externalId' = externalId
    BY <1>11 DEF LaunchUnheard, At, Busy, rowVars
  <2>3. /\ \A k \in Jobs \ {j} : job'[k].at \in {"none", "queued"}
        /\ job'[j].at \in {"queued", "failing"}
    BY <1>61, <2>1, <2>2 DEF Goes, Replaced
  <2>4. externalId # None => externalId # x /\ ext'[externalId] = ext[externalId]
    BY <1>0, <2>2 DEF StopInv, RunIsStarted, TypeOK
  <2>5. RunIsStarted' /\ StoredIsStopped'
    BY <2>2, <2>4 DEF StopInv, RunIsStarted, StoredIsStopped
  <2>6. QED
    BY <1>60, <2>3, <2>5
<1>12. ASSUME NEW j \in Jobs, StoreLaunch(j) PROVE StopInv'
  <2>1. Goes(j, {"stored"})
    BY <1>0, <1>12, HandlerGoes
  <2>2. /\ HasRun(j) /\ j \in Busy /\ job[j].kind = "launch" /\ job[j].at = "launched"
        /\ externalId' = job[j].ext /\ status' = status /\ ext' = ext
    BY <1>12 DEF StoreLaunch, At, HasRun, Busy, extVars
  <2>3. \A k \in Jobs \ {j} : job'[k].at \in {"none", "queued"}
    BY <1>61, <2>1, <2>2 DEF Goes, Replaced
  <2>4. RunIsStarted'
    BY <2>2 DEF RunsFit, RunIsStarted
  <2>5. StoredIsStopped'
    BY <2>2 DEF StopInv, HandlerFits, StoredIsStopped
  <2>6. QED
    BY <1>60, <2>1, <2>3, <2>4, <2>5 DEF Goes
<1>13. ASSUME NEW j \in Jobs, EnqueuePoll(j) PROVE StopInv'
  <2>1. /\ job'[j].at = "done"
        /\ \A k \in Jobs \ {j} :
              \/ job'[k] = job[k]
              \/ job[k] = NoJob /\ job'[k] = Queued("poll", 0)
    BY <1>0, <1>13, EnqueuePollFacts
  <2>2. j \in Busy /\ status' = status /\ externalId' = externalId /\ ext' = ext
    BY <1>13 DEF EnqueuePoll, At, Busy, rowVars, extVars
  <2>3. Queued("poll", 0).at = "queued"
    BY DEF Queued
  <2>4. \A k \in Jobs \ {j} : job'[k].at \in {"none", "queued"}
    BY <1>61, <2>1, <2>2, <2>3
  <2>5. RunIsStarted' /\ StoredIsStopped'
    BY <2>2 DEF StopInv, RunIsStarted, StoredIsStopped
  <2>6. QED
    BY <1>60, <2>1, <2>4, <2>5
<1>14. ASSUME NEW j \in Jobs, PollRunning(j) PROVE StopInv'
  <2>1. Goes(j, {"queued", "done", "failing", "heard"}) /\ j \in Busy
    BY <1>0, <1>14, PollRunningGoes DEF Goes, Busy, PollRunning, At
  <2>2. ext' = ext /\ externalId' = externalId /\ (status' = status \/ status' # "cancelled")
    BY <1>14 DEF PollRunning, rowVars, extVars
  <2>3. QED
    BY <1>62, <2>1, <2>2
<1>15. ASSUME NEW j \in Jobs, PollFailed(j) PROVE StopInv'
  <2>1. Goes(j, {"queued", "done", "failing", "heard"}) /\ j \in Busy
    BY <1>0, <1>15, HandlerGoes DEF Goes, Busy, PollFailed, At
  <2>2. ext' = ext /\ externalId' = externalId /\ (status' = status \/ status' # "cancelled")
    BY <1>15 DEF PollFailed, rowVars, extVars
  <2>3. QED
    BY <1>62, <2>1, <2>2
<1>16. ASSUME NEW j \in Jobs, PollCancelled(j) PROVE StopInv'
  <2>1. Goes(j, {"done"})
    BY <1>0, <1>16, HandlerGoes
  <2>2. /\ j \in Busy /\ job[j].at = "started" /\ ext[job[j].ext] = "cancelled"
        /\ externalId' = externalId /\ ext' = ext
    BY <1>16 DEF PollCancelled, At, Busy, extVars
  <2>3. job[j].ext = externalId
    BY <2>2 DEF StopInv, HandlerFits
  <2>4. \A k \in Jobs \ {j} : job'[k].at \in {"none", "queued"}
    BY <1>61, <2>1, <2>2 DEF Goes, Replaced
  <2>5. RunIsStarted' /\ StoredIsStopped'
    BY <2>2, <2>3 DEF StopInv, RunIsStarted, StoredIsStopped
  <2>6. QED
    BY <1>60, <2>1, <2>4, <2>5 DEF Goes
<1>17. ASSUME NEW j \in Jobs, PollCompleted(j) PROVE StopInv'
  <2>1. Goes(j, {"queued", "done", "failing", "heard"}) /\ j \in Busy
    BY <1>0, <1>17, HandlerGoes DEF Goes, Busy, PollCompleted, At
  <2>2. ext' = ext /\ externalId' = externalId /\ (status' = status \/ status' # "cancelled")
    BY <1>17 DEF PollCompleted, rowVars, extVars
  <2>3. QED
    BY <1>62, <2>1, <2>2
<1>18. ASSUME NEW j \in Jobs, FinishEvaluate(j) PROVE StopInv'
  <2>1. Goes(j, {"queued", "done", "failing", "heard"}) /\ j \in Busy
    BY <1>0, <1>18, HandlerGoes DEF Goes, Busy, FinishEvaluate, At
  <2>2. ext' = ext /\ externalId' = externalId /\ (status' = status \/ status' # "cancelled")
    BY <1>18 DEF FinishEvaluate, rowVars, extVars
  <2>3. QED
    BY <1>62, <2>1, <2>2
<1>19. ASSUME NEW j \in Jobs, FinishDeploy(j) PROVE StopInv'
  <2>1. Goes(j, {"queued", "done", "failing", "heard"}) /\ j \in Busy
    BY <1>0, <1>19, HandlerGoes DEF Goes, Busy, FinishDeploy, At
  <2>2. ext' = ext /\ externalId' = externalId /\ (status' = status \/ status' # "cancelled")
    BY <1>19 DEF FinishDeploy, rowVars, extVars
  <2>3. QED
    BY <1>62, <2>1, <2>2
<1>20. ASSUME NEW j \in Jobs, FinishExport(j) PROVE StopInv'
  <2>1. Goes(j, {"queued", "done", "failing", "heard"}) /\ j \in Busy
    BY <1>0, <1>20, HandlerGoes DEF Goes, Busy, FinishExport, At
  <2>2. ext' = ext /\ externalId' = externalId /\ (status' = status \/ status' # "cancelled")
    BY <1>20 DEF FinishExport, rowVars, extVars
  <2>3. QED
    BY <1>62, <2>1, <2>2
<1>21. ASSUME NEW j \in Jobs, CallCancel(j) PROVE StopInv'
  <2>1. Goes(j, {"called"}) /\ job'[j].ext = job[j].ext
    BY <1>0, <1>21, HandlerGoes
  <2>2. /\ j \in Busy /\ job[j].kind = "cancel" /\ job[j].at = "started"
        /\ status' = status /\ externalId' = externalId
        /\ ext' = [x \in External |-> IF x = job[j].ext /\ ext[x] = "running"
                                      THEN "cancelled" ELSE ext[x]]
    BY <1>21 DEF CallCancel, At, Busy, rowVars
  <2>3. job[j].ext = externalId
    BY <2>2 DEF StopInv, HandlerFits
  <2>4. externalId # None => ext'[externalId] \notin {"running", "unused"}
    BY <1>0, <2>2, <2>3 DEF StopInv, RunIsStarted
  <2>5. \A k \in Jobs \ {j} : job'[k].at \in {"none", "queued"}
    BY <1>61, <2>1, <2>2 DEF Goes, Replaced
  <2>6. OneHandler'
    BY <2>5 DEF OneHandler, Busy
  <2>7. HandlerFits'
    BY <2>1, <2>2, <2>3, <2>4, <2>5 DEF HandlerFits, Goes
  <2>8. QED
    BY <2>2, <2>4, <2>6, <2>7 DEF StopInv, RunIsStarted, StoredIsStopped
<1>22. ASSUME NEW j \in Jobs, FinishCancel(j) PROVE StopInv'
  <2>1. /\ job'[j].at = "done"
        /\ \A k \in Jobs \ {j} :
              \/ job'[k] = NoJob
              \/ job'[k].at = job[k].at /\ job'[k].kind = job[k].kind
                   /\ job'[k].ext = job[k].ext
    BY <1>0, <1>22, FinishCancelFacts
  <2>2. j \in Busy /\ job[j].at = "called" /\ externalId' = externalId /\ ext' = ext
    BY <1>22 DEF FinishCancel, At, Busy, extVars
  <2>3. \A k \in Jobs \ {j} : job'[k].at \in {"none", "queued"}
    BY <1>61, <2>1, <2>2, NoJobIs
  <2>4. RunIsStarted' /\ StoredIsStopped'
    BY <2>2 DEF StopInv, HandlerFits, RunIsStarted, StoredIsStopped
  <2>5. QED
    BY <1>60, <2>1, <2>3, <2>4
<1>23. CASE Crash
  <2>1. PICK j \in Jobs : /\ job[j].at \notin {"none", "queued"}
                         /\ \/ Replaced(j) /\ job'[j] = NoJob
                            \/ Goes(j, {"queued"})
    BY <1>0, <1>23, CrashGoes
  <2>2. Replaced(j) /\ job'[j].at \in {"none", "queued"} /\ j \in Busy
    BY <2>1, NoJobIs DEF Goes, Busy
  <2>3. \A k \in Jobs \ {j} : job'[k].at \in {"none", "queued"}
    BY <1>61, <2>2 DEF Replaced
  <2>4. status' = status /\ externalId' = externalId /\ ext' = ext
    BY <1>23 DEF Crash, rowVars, extVars
  <2>5. RunIsStarted' /\ StoredIsStopped'
    BY <2>4 DEF StopInv, RunIsStarted, StoredIsStopped
  <2>6. QED
    BY <1>60, <2>2, <2>3, <2>5
<1>24. ASSUME NEW x \in External,
              ExternalEnds(x) \/ \E m \in Reports : ExternalReports(x, m)
       PROVE  StopInv'
  <2>1. /\ job' = job /\ status' = status /\ externalId' = externalId
        /\ ext[x] = "running"
        /\ \/ ext' = [ext EXCEPT ![x] = "completed"] \/ ext' = [ext EXCEPT ![x] = "failed"]
           \/ ext' = ext
    BY <1>24 DEF ExternalEnds, ExternalReports, rowVars, jobVars
  <2>2. \A y \in External :
          /\ ext'[y] = "unused" => ext[y] = "unused"
          /\ ext'[y] = "running" => ext[y] = "running"
    BY <2>1 DEF TypeOK
  <2>3. QED
    BY <1>0, <2>1, <2>2 DEF StopInv, OneHandler, HandlerFits, RunIsStarted,
       StoredIsStopped, Busy
<1>25. CASE UNCHANGED vars
  BY <1>25, <1>63 DEF vars, rowVars, jobVars, extVars
<1>27. ASSUME NEW j \in Jobs, HearReport(j) PROVE StopInv'
  <2>1. Goes(j, {"queued", "done", "failing", "heard"}) /\ j \in Busy
    BY <1>0, <1>27, HearReportGoes DEF Goes, Busy, HearReport, At
  <2>2. ext' = ext /\ externalId' = externalId /\ status' = status
    BY <1>27 DEF HearReport, rowVars, extVars
  <2>3. QED
    BY <1>62, <2>1, <2>2
<1>26. QED
  BY <1>27, <1>1, <1>2, <1>3, <1>4, <1>5, <1>6, <1>7, <1>9, <1>10, <1>11, <1>12, <1>13,
     <1>14, <1>15, <1>16, <1>17, <1>18, <1>19, <1>20, <1>21, <1>22, <1>23, <1>24, <1>25
  DEF Next, Request, Handle

\* What runs at FreeSOLO is what the row names, or a launch is about to store,
\* or nobody knows of any more.
RunsAreKnown ==
    \A x \in External :
        ext[x] = "running" =>
            \/ x \in forgotten
            \/ x = externalId
            \/ \E j \in Jobs : job[j].at = "launched" /\ job[j].ext = x

LEMMA KnownStep ==
    ASSUME TypeOK, RunsFit, OneHandler, RunsAreKnown, [Next]_vars
    PROVE  RunsAreKnown'
<1>0. job \in AllJobs /\ externalId \in External \cup {None}
  BY DEF TypeOK, AllJobs
<1>60. ASSUME \A x \in External : ext'[x] = "running" => ext[x] = "running",
              externalId' = externalId, forgotten \subseteq forgotten',
              \A k \in Jobs : job[k].at = "launched" =>
                 \/ job'[k].at = "launched" /\ job'[k].ext = job[k].ext
                 \/ job[k].ext \in forgotten'
       PROVE  RunsAreKnown'
  BY <1>60 DEF RunsAreKnown
<1>61. ASSUME NEW j \in Jobs, Replaced(j), job[j].at # "launched",
              \A x \in External : ext'[x] = "running" => ext[x] = "running",
              externalId' = externalId, forgotten' = forgotten
       PROVE  RunsAreKnown'
  <2>1. \A k \in Jobs : job[k].at = "launched" => job'[k] = job[k]
    BY <1>61 DEF Replaced
  <2>2. QED
    BY <1>60, <1>61, <2>1
<1>1. ASSUME NEW r \in Requests,
             (\E act \in Actions : Ask(r, act)) \/ Commit(r) \/ DropRequest(r)
      PROVE  RunsAreKnown'
  <2>1. job' = job /\ ext' = ext /\ externalId' = externalId /\ forgotten' = forgotten
    BY <1>1 DEF Ask, Commit, DropRequest, rowVars, jobVars, extVars
  <2>2. QED
    BY <1>60, <2>1
<1>2. ASSUME NEW r \in Requests, EnqueueJob(r) PROVE RunsAreKnown'
  <2>1. PICK j \in Jobs : Enqueued(j, KindOf(asked[r]))
    BY <1>2 DEF EnqueueJob
  <2>2. job[j] = NoJob /\ \A k \in Jobs \ {j} : job'[k] = job[k]
    BY <1>0, <2>1 DEF Enqueued, AllJobs
  <2>3. ext' = ext /\ externalId' = externalId /\ forgotten' = forgotten
    BY <1>2 DEF EnqueueJob, rowVars, extVars, boundVars
  <2>4. QED
    BY <1>60, <2>2, <2>3, NoJobIs
<1>3. ASSUME NEW j \in Jobs, Start(j) \/ SetDomainFailure(j) \/ Finish(j) PROVE RunsAreKnown'
  <2>1. Replaced(j)
    BY <1>0, <1>3, StartGoes, EndGoes DEF Goes
  <2>2. job[j].at # "launched" /\ externalId' = externalId
    BY <1>3 DEF Start, SetDomainFailure, Finish, rowVars
  <2>3. ext' = ext /\ forgotten' = forgotten
    BY <1>3 DEF Start, SetDomainFailure, Finish, extVars, boundVars
  <2>4. QED
    BY <1>61, <2>1, <2>2, <2>3
<1>4. ASSUME NEW j \in Jobs, NEW permanent \in BOOLEAN, FailJob(j, permanent)
      PROVE  RunsAreKnown'
  <2>1. Replaced(j)
    BY <1>0, <1>4, FailJobGoes DEF Goes
  <2>2. ext' = ext /\ externalId' = externalId /\ forgotten' = forgotten \cup Unstored({j})
    BY <1>4 DEF FailJob, rowVars, extVars
  <2>3. \A k \in Jobs : job[k].at = "launched" => job'[k] = job[k] \/ job[k].ext \in forgotten'
    BY <2>1, <2>2 DEF Replaced, Unstored
  <2>4. QED
    BY <1>60, <2>2, <2>3
<1>5. ASSUME NEW j \in Jobs, NEW x \in External, Launch(j, x) PROVE RunsAreKnown'
  <2>1. Goes(j, {"launched"}) /\ job'[j].ext = x
    BY <1>0, <1>5, LaunchGoes
  <2>2. /\ j \in Busy /\ job[j].at = "started" /\ ext' = [ext EXCEPT ![x] = "running"]
        /\ externalId' = externalId /\ forgotten' = forgotten
    BY <1>5 DEF Launch, At, Busy, rowVars, boundVars
  <2>3. \A k \in Jobs : job[k].at # "launched"
    BY <2>2 DEF OneHandler, Busy
  <2>4. \A y \in External \ {x} : ext'[y] = ext[y]
    BY <2>2 DEF TypeOK
  <2>5. QED
    BY <2>1, <2>2, <2>3, <2>4 DEF Goes, RunsAreKnown
<1>6. ASSUME NEW j \in Jobs, NEW x \in External, NEW permanent \in BOOLEAN,
             LaunchUnheard(j, x, permanent)
      PROVE  RunsAreKnown'
  <2>1. Replaced(j)
    BY <1>0, <1>6, LaunchUnheardGoes DEF Goes
  <2>2. /\ job[j].at = "started" /\ ext' = [ext EXCEPT ![x] = "running"]
        /\ externalId' = externalId /\ forgotten' = forgotten \cup {x}
    BY <1>6 DEF LaunchUnheard, At, rowVars
  <2>3. \A y \in External \ {x} : ext'[y] = ext[y]
    BY <2>2 DEF TypeOK
  <2>4. \A k \in Jobs : job[k].at = "launched" => job'[k] = job[k]
    BY <2>1, <2>2 DEF Replaced
  <2>5. QED
    BY <2>2, <2>3, <2>4 DEF RunsAreKnown
<1>7. ASSUME NEW j \in Jobs, StoreLaunch(j) PROVE RunsAreKnown'
  <2>1. /\ j \in Busy /\ externalId' = job[j].ext /\ ext' = ext
        /\ forgotten' = forgotten \cup ({externalId} \ {None})
    BY <1>7 DEF StoreLaunch, At, Busy, extVars
  <2>2. \A k \in Jobs : job[k].at = "launched" => k = j
    BY <2>1 DEF OneHandler, Busy
  <2>3. QED
    BY <2>1, <2>2, NoneAssumption DEF RunsAreKnown
<1>8. ASSUME NEW j \in Jobs, EnqueuePoll(j) PROVE RunsAreKnown'
  <2>1. \A k \in Jobs \ {j} : job'[k] = job[k] \/ job[k] = NoJob
    BY <1>0, <1>8, EnqueuePollFacts
  <2>2. job[j].at = "stored" /\ ext' = ext /\ externalId' = externalId /\ forgotten' = forgotten
    BY <1>8 DEF EnqueuePoll, At, rowVars, extVars, boundVars
  <2>3. QED
    BY <1>60, <2>1, <2>2, NoJobIs
<1>9. ASSUME NEW j \in Jobs,
             \/ PollRunning(j) \/ PollFailed(j) \/ PollCancelled(j) \/ PollCompleted(j)
             \/ FinishValidate(j) \/ HearReport(j) \/ FinishEvaluate(j)
             \/ FinishDeploy(j) \/ FinishExport(j)
      PROVE  RunsAreKnown'
  <2>1. Replaced(j)
    BY <1>0, <1>9, PollRunningGoes, HearReportGoes, HandlerGoes DEF Goes
  <2>2. job[j].at \in {"started", "heard"} /\ ext' = ext /\ forgotten' = forgotten
    BY <1>9
    DEF PollRunning, PollFailed, PollCancelled, PollCompleted, FinishValidate, HearReport,
        FinishEvaluate, FinishDeploy, FinishExport, At, extVars, boundVars
  <2>3. externalId' = externalId
    BY <1>9
    DEF PollRunning, PollFailed, PollCancelled, PollCompleted, FinishValidate, HearReport,
        FinishEvaluate, FinishDeploy, FinishExport, rowVars
  <2>4. QED
    BY <1>61, <2>1, <2>2, <2>3
<1>10. ASSUME NEW j \in Jobs, CallCancel(j) PROVE RunsAreKnown'
  <2>1. Replaced(j)
    BY <1>0, <1>10, HandlerGoes DEF Goes
  <2>2. /\ job[j].at = "started" /\ externalId' = externalId /\ forgotten' = forgotten
        /\ \A x \in External : ext'[x] = "running" => ext[x] = "running"
    BY <1>10 DEF CallCancel, At, rowVars, boundVars
  <2>3. QED
    BY <1>61, <2>1, <2>2
<1>11. ASSUME NEW j \in Jobs, FinishCancel(j) PROVE RunsAreKnown'
  <2>1. \A k \in Jobs \ {j} :
           job[k].at = "launched" => job'[k].at = "launched" /\ job'[k].ext = job[k].ext
    BY <1>0, <1>11, FinishCancelFacts
  <2>2. job[j].at = "called" /\ ext' = ext /\ externalId' = externalId /\ forgotten' = forgotten
    BY <1>11 DEF FinishCancel, At, extVars, boundVars
  <2>3. QED
    BY <1>60, <2>1, <2>2
<1>12. CASE Crash
  <2>1. PICK j \in Jobs :
           forgotten' = forgotten \cup Unstored({j}) /\ (Replaced(j) \/ Goes(j, {"queued"}))
    BY <1>0, <1>12, CrashGoes
  <2>2. ext' = ext /\ externalId' = externalId
    BY <1>12 DEF Crash, rowVars, extVars
  <2>3. \A k \in Jobs : job[k].at = "launched" => job'[k] = job[k] \/ job[k].ext \in forgotten'
    BY <2>1 DEF Goes, Replaced, Unstored
  <2>4. QED
    BY <1>60, <2>1, <2>2, <2>3
<1>13. ASSUME NEW x \in External,
              ExternalEnds(x) \/ \E m \in Reports : ExternalReports(x, m)
       PROVE  RunsAreKnown'
  <2>1. job' = job /\ externalId' = externalId /\ forgotten' = forgotten
    BY <1>13 DEF ExternalEnds, ExternalReports, rowVars, jobVars
  <2>2. \A y \in External : ext'[y] = "running" => ext[y] = "running"
    BY <1>13 DEF ExternalEnds, ExternalReports, TypeOK
  <2>3. QED
    BY <1>60, <2>1, <2>2
<1>14. CASE UNCHANGED vars
  BY <1>14, <1>60 DEF vars, rowVars, jobVars, extVars, boundVars
<1>15. QED
  BY <1>1, <1>2, <1>3, <1>4, <1>5, <1>6, <1>7, <1>8, <1>9, <1>10, <1>11, <1>12, <1>13, <1>14
  DEF Next, Request, Handle
-----------------------------------------------------------------------------
(* Nothing starts that was not quoted and confirmed.                       *)

Confirmed ==
    /\ \A r \in Requests : asked[r] = "launch" => quoted
    /\ \A r \in committed : asked[r] = "launch" => confirmations > 0
    /\ \A j \in Jobs : job[j].kind = "launch" => quoted /\ confirmations > 0

\* What the handlers leave to the requests.
Settled == asked' = asked /\ committed' = committed /\ confirmations' = confirmations

\* Every step keeps the quotes and confirmations of the launches under way.
LEMMA ConfirmStep ==
    ASSUME TypeOK, RunsFit, Confirmed, [Next]_vars
    PROVE  Confirmed'
<1>0. job \in AllJobs /\ externalId \in External \cup {None}
  BY DEF TypeOK, AllJobs
<1>60. ASSUME quoted => quoted',
              \A j \in Jobs : job'[j].kind = "launch" => job[j].kind = "launch",
              Settled
       PROVE  Confirmed'
  BY <1>60 DEF Confirmed, Settled
<1>61. ASSUME NEW j \in Jobs, Replaced(j), job'[j].kind \in {"none", job[j].kind},
              quoted' \in {quoted, TRUE}, Settled
       PROVE  Confirmed'
  <2>1. \A k \in Jobs : job'[k].kind = "launch" => job[k].kind = "launch"
    BY <1>61 DEF Replaced
  <2>2. quoted => quoted'
    BY <1>61
  <2>3. QED
    BY <1>60, <1>61, <2>1, <2>2
<1>1. ASSUME NEW r \in Requests, NEW act \in Actions, Ask(r, act) PROVE Confirmed'
  <2>1. act = "launch" => quoted
    BY <1>1, Zenon DEF Ask, MayAsk
  <2>2. /\ job' = job /\ committed' = committed /\ confirmations' = confirmations
        /\ quoted' = quoted /\ asked' = [asked EXCEPT ![r] = act] /\ asked[r] = "none"
    BY <1>1 DEF Ask, rowVars, jobVars
  <2>3. QED
    BY <2>1, <2>2 DEF Confirmed, RunsFit, TypeOK
<1>2. ASSUME NEW r \in Requests, Commit(r) PROVE Confirmed'
  <2>1. /\ job' = job /\ asked' = asked /\ quoted' = quoted
        /\ committed' = committed \cup {r}
        /\ confirmations' = IF asked[r] = "launch" THEN confirmations + 1 ELSE confirmations
    BY <1>2 DEF Commit, jobVars
  <2>2. QED
    BY <2>1 DEF Confirmed, TypeOK
<1>3. ASSUME NEW r \in Requests, EnqueueJob(r) PROVE Confirmed'
  <2>1. PICK j \in Jobs : Enqueued(j, KindOf(asked[r]))
    BY <1>3 DEF EnqueueJob
  <2>2. /\ r \in committed /\ quoted' = quoted /\ confirmations' = confirmations
        /\ asked' = [asked EXCEPT ![r] = "none"] /\ committed' = committed \ {r}
    BY <1>3 DEF EnqueueJob, EndRequest, rowVars, boundVars
  <2>3. KindOf(asked[r]) = "launch" => asked[r] = "launch"
    BY DEF KindOf
  <2>4. /\ job'[j].kind = KindOf(asked[r])
        /\ \A k \in Jobs \ {j} : job'[k] = job[k]
    BY <1>0, <2>1 DEF Enqueued, Queued, AllJobs
  <2>5. QED
    BY <2>2, <2>3, <2>4 DEF Confirmed, TypeOK
<1>4. ASSUME NEW r \in Requests, DropRequest(r) PROVE Confirmed'
  <2>1. /\ job' = job /\ quoted' = quoted /\ confirmations' = confirmations
        /\ asked' = [asked EXCEPT ![r] = "none"] /\ committed' = committed \ {r}
    BY <1>4 DEF DropRequest, EndRequest, rowVars, jobVars
  <2>2. QED
    BY <2>1 DEF Confirmed, TypeOK
<1>5. ASSUME NEW j \in Jobs, Start(j) PROVE Confirmed'
  <2>1. Replaced(j) /\ job'[j].kind = job[j].kind
    BY <1>0, <1>5, StartGoes DEF Goes
  <2>2. quoted' \in {quoted, TRUE} /\ Settled
    BY <1>5 DEF Start, Settled, rowVars, requestVars, boundVars
  <2>3. QED
    BY <1>61, <2>1, <2>2
<1>6. ASSUME NEW j \in Jobs, NEW permanent \in BOOLEAN, FailJob(j, permanent) PROVE Confirmed'
  <2>1. Replaced(j) /\ job'[j].kind = job[j].kind
    BY <1>0, <1>6, FailJobGoes DEF Goes
  <2>2. quoted' \in {quoted, TRUE} /\ Settled
    BY <1>6 DEF FailJob, Settled, rowVars, requestVars, boundVars
  <2>3. QED
    BY <1>61, <2>1, <2>2
<1>7. ASSUME NEW j \in Jobs, SetDomainFailure(j) \/ Finish(j) PROVE Confirmed'
  <2>1. Replaced(j) /\ job'[j].kind = "none"
    BY <1>0, <1>7, EndGoes, NoJobIs
  <2>2. quoted' = quoted /\ Settled
    BY <1>7 DEF SetDomainFailure, Finish, Settled, rowVars, requestVars, boundVars
  <2>3. QED
    BY <1>61, <2>1, <2>2
<1>9. ASSUME NEW j \in Jobs, FinishValidate(j) PROVE Confirmed'
  <2>1. Replaced(j) /\ job'[j].kind = job[j].kind
    BY <1>0, <1>9, HandlerGoes DEF Goes
  <2>2. quoted' \in {quoted, TRUE} /\ Settled
    BY <1>9 DEF FinishValidate, Settled, rowVars, requestVars, boundVars
  <2>3. QED
    BY <1>61, <2>1, <2>2
<1>10. ASSUME NEW j \in Jobs, NEW x \in External, Launch(j, x) PROVE Confirmed'
  <2>1. Replaced(j) /\ job'[j].kind = job[j].kind
    BY <1>0, <1>10, LaunchGoes DEF Goes
  <2>2. quoted' \in {quoted, TRUE} /\ Settled
    BY <1>10 DEF Launch, Settled, rowVars, requestVars, boundVars
  <2>3. QED
    BY <1>61, <2>1, <2>2
<1>11. ASSUME NEW j \in Jobs, NEW x \in External, NEW permanent \in BOOLEAN,
              LaunchUnheard(j, x, permanent)
       PROVE  Confirmed'
  <2>1. Replaced(j) /\ job'[j].kind = job[j].kind
    BY <1>0, <1>11, LaunchUnheardGoes DEF Goes
  <2>2. quoted' = quoted /\ Settled
    BY <1>11 DEF LaunchUnheard, Settled, rowVars, requestVars, boundVars
  <2>3. QED
    BY <1>61, <2>1, <2>2
<1>12. ASSUME NEW j \in Jobs, StoreLaunch(j) PROVE Confirmed'
  <2>1. Replaced(j) /\ job'[j].kind = job[j].kind
    BY <1>0, <1>12, HandlerGoes DEF Goes
  <2>2. quoted' \in {quoted, TRUE} /\ Settled
    BY <1>12 DEF StoreLaunch, Settled, rowVars, requestVars, boundVars
  <2>3. QED
    BY <1>61, <2>1, <2>2
<1>13. ASSUME NEW j \in Jobs, EnqueuePoll(j) PROVE Confirmed'
  <2>1. /\ job[j].kind = "launch"
        /\ \A k \in Jobs \ {j} :
              \/ job'[k] = job[k]
              \/ job[k] = NoJob /\ job'[k] = Queued("poll", 0)
    BY <1>0, <1>13, EnqueuePollFacts DEF EnqueuePoll, At
  <2>2. Queued("poll", 0).kind = "poll"
    BY DEF Queued
  <2>3. quoted' = quoted /\ Settled
    BY <1>13 DEF EnqueuePoll, Settled, rowVars, requestVars, boundVars
  <2>4. QED
    BY <1>60, <2>1, <2>2, <2>3
<1>14. ASSUME NEW j \in Jobs, PollRunning(j) PROVE Confirmed'
  <2>1. Replaced(j) /\ job'[j].kind = job[j].kind
    BY <1>0, <1>14, PollRunningGoes DEF Goes
  <2>2. quoted' \in {quoted, TRUE} /\ Settled
    BY <1>14 DEF PollRunning, Settled, rowVars, requestVars, boundVars
  <2>3. QED
    BY <1>61, <2>1, <2>2
<1>15. ASSUME NEW j \in Jobs, PollFailed(j) PROVE Confirmed'
  <2>1. Replaced(j) /\ job'[j].kind = job[j].kind
    BY <1>0, <1>15, HandlerGoes DEF Goes
  <2>2. quoted' \in {quoted, TRUE} /\ Settled
    BY <1>15 DEF PollFailed, Settled, rowVars, requestVars, boundVars
  <2>3. QED
    BY <1>61, <2>1, <2>2
<1>16. ASSUME NEW j \in Jobs, PollCancelled(j) PROVE Confirmed'
  <2>1. Replaced(j) /\ job'[j].kind = job[j].kind
    BY <1>0, <1>16, HandlerGoes DEF Goes
  <2>2. quoted' \in {quoted, TRUE} /\ Settled
    BY <1>16 DEF PollCancelled, Settled, rowVars, requestVars, boundVars
  <2>3. QED
    BY <1>61, <2>1, <2>2
<1>17. ASSUME NEW j \in Jobs, PollCompleted(j) PROVE Confirmed'
  <2>1. Replaced(j) /\ job'[j].kind = job[j].kind
    BY <1>0, <1>17, HandlerGoes DEF Goes
  <2>2. quoted' \in {quoted, TRUE} /\ Settled
    BY <1>17 DEF PollCompleted, Settled, rowVars, requestVars, boundVars
  <2>3. QED
    BY <1>61, <2>1, <2>2
<1>18. ASSUME NEW j \in Jobs, FinishEvaluate(j) PROVE Confirmed'
  <2>1. Replaced(j) /\ job'[j].kind = job[j].kind
    BY <1>0, <1>18, HandlerGoes DEF Goes
  <2>2. quoted' \in {quoted, TRUE} /\ Settled
    BY <1>18 DEF FinishEvaluate, Settled, rowVars, requestVars, boundVars
  <2>3. QED
    BY <1>61, <2>1, <2>2
<1>27. ASSUME NEW j \in Jobs, HearReport(j) PROVE Confirmed'
  <2>1. Replaced(j) /\ job'[j].kind = job[j].kind
    BY <1>0, <1>27, HearReportGoes DEF Goes
  <2>2. quoted' \in {quoted, TRUE} /\ Settled
    BY <1>27 DEF HearReport, Settled, rowVars, requestVars, boundVars
  <2>3. QED
    BY <1>61, <2>1, <2>2
<1>19. ASSUME NEW j \in Jobs, FinishDeploy(j) PROVE Confirmed'
  <2>1. Replaced(j) /\ job'[j].kind = job[j].kind
    BY <1>0, <1>19, HandlerGoes DEF Goes
  <2>2. quoted' \in {quoted, TRUE} /\ Settled
    BY <1>19 DEF FinishDeploy, Settled, rowVars, requestVars, boundVars
  <2>3. QED
    BY <1>61, <2>1, <2>2
<1>20. ASSUME NEW j \in Jobs, FinishExport(j) PROVE Confirmed'
  <2>1. Replaced(j) /\ job'[j].kind = job[j].kind
    BY <1>0, <1>20, HandlerGoes DEF Goes
  <2>2. quoted' \in {quoted, TRUE} /\ Settled
    BY <1>20 DEF FinishExport, Settled, rowVars, requestVars, boundVars
  <2>3. QED
    BY <1>61, <2>1, <2>2
<1>21. ASSUME NEW j \in Jobs, CallCancel(j) PROVE Confirmed'
  <2>1. Replaced(j) /\ job'[j].kind = job[j].kind
    BY <1>0, <1>21, HandlerGoes DEF Goes
  <2>2. quoted' \in {quoted, TRUE} /\ Settled
    BY <1>21 DEF CallCancel, Settled, rowVars, requestVars, boundVars
  <2>3. QED
    BY <1>61, <2>1, <2>2
<1>22. ASSUME NEW j \in Jobs, FinishCancel(j) PROVE Confirmed'
  <2>1. /\ job[j].kind = "cancel" /\ job'[j].kind = job[j].kind
        /\ \A k \in Jobs \ {j} : job'[k] = NoJob \/ job'[k].kind = job[k].kind
    BY <1>0, <1>22, FinishCancelFacts DEF FinishCancel, At
  <2>2. quoted' = quoted /\ Settled
    BY <1>22 DEF FinishCancel, Settled, requestVars, boundVars
  <2>3. QED
    BY <1>60, <2>1, <2>2, NoJobIs
<1>23. CASE Crash
  <2>1. PICK j \in Jobs : \/ Replaced(j) /\ job'[j] = NoJob
                         \/ Goes(j, {"queued"})
    BY <1>0, <1>23, CrashGoes
  <2>2. Replaced(j) /\ job'[j].kind \in {"none", job[j].kind}
    BY <2>1, NoJobIs DEF Goes
  <2>3. quoted' = quoted /\ Settled
    BY <1>23 DEF Crash, Settled, rowVars, requestVars
  <2>4. QED
    BY <1>61, <2>2, <2>3
<1>24. ASSUME NEW x \in External,
              ExternalEnds(x) \/ \E m \in Reports : ExternalReports(x, m)
       PROVE  Confirmed'
  BY <1>24, <1>60 DEF ExternalEnds, ExternalReports, Settled, rowVars, requestVars, jobVars
<1>25. CASE UNCHANGED vars
  BY <1>25, <1>60 DEF vars, Settled, rowVars, requestVars, jobVars, boundVars
<1>26. QED
  BY <1>1, <1>2, <1>3, <1>4, <1>5, <1>6, <1>7, <1>9, <1>10, <1>11, <1>12, <1>13,
     <1>14, <1>15, <1>16, <1>17, <1>18, <1>19, <1>20, <1>21, <1>22, <1>23, <1>24, <1>25,
     <1>27
  DEF Next, Request, Handle
-----------------------------------------------------------------------------
(* The run keeps its contract.                                             *)

SomePassed == \E x \in External : "pass" \in said[x]
ReportsSaid == \A x \in External : report[x] # "none" => report[x] \in said[x]

\* What a handler that asks FreeSOLO about a run has noted, and has heard.
Reads == {"poll", "evaluate", "deploy", "deploy_experimental", "export"}
ReadersKnow ==
    \A j \in Jobs :
        /\ At(j, Reads, "started") => job[j].ext \in External
        /\ job[j].at = "heard" /\ job[j].heard = "pass" => SomePassed

\* A run that was imported is past its validation and never returns to it.
Before == {"approved", "validating", "queued"}
ImportedIsTrained ==
    IsImported =>
      /\ status \notin Before
      /\ \A r \in Requests : asked[r] \notin {"validate", "revalidate"}
      /\ \A j \in Jobs : job[j].kind # "validate"

\* Passing metrics, and deployments that relied on them, go back to a report.
NothingPassed ==
    /\ metrics # "pass"
    /\ \A r \in Requests : asked[r] # "deploy"
    /\ \A j \in Jobs : job[j].kind # "deploy"

GatesHold == IsImported \/ SomePassed \/ NothingPassed

ContractInv == ReportsSaid /\ ReadersKnow /\ ImportedIsTrained /\ GatesHold

\* What was reported once stays reported.
LEMMA SaidGrows ==
    ASSUME TypeOK, ReportsSaid, [Next]_vars
    PROVE  ReportsSaid' /\ (SomePassed => SomePassed')
<1>1. ASSUME report' = report, said' = said
      PROVE  ReportsSaid' /\ (SomePassed => SomePassed')
  BY <1>1 DEF ReportsSaid, SomePassed
<1>2. ASSUME NEW x \in External, NEW m \in Reports, Report(x, m)
      PROVE  ReportsSaid' /\ (SomePassed => SomePassed')
  <2>1. said'[x] = said[x] \cup {m} /\ \A y \in External \ {x} : said'[y] = said[y]
    BY <1>2 DEF Report, TypeOK
  <2>2. report'[x] = m /\ \A y \in External \ {x} : report'[y] = report[y]
    BY <1>2 DEF Report, TypeOK
  <2>3. QED
    BY <2>1, <2>2 DEF ReportsSaid, SomePassed
<1>3. ASSUME NEW r \in Requests, Request(r) PROVE report' = report /\ said' = said
  BY <1>3 DEF Request, Ask, Commit, EnqueueJob, DropRequest, extVars, boundVars
<1>4. ASSUME NEW j \in Jobs,
             \/ Start(j) \/ SetDomainFailure(j) \/ Finish(j) \/ FinishValidate(j)
             \/ \E permanent \in BOOLEAN : FailJob(j, permanent)
      PROVE  report' = report /\ said' = said
  BY <1>4 DEF Start, SetDomainFailure, Finish, FinishValidate, FailJob, extVars, boundVars
<1>5. ASSUME NEW j \in Jobs,
             \/ \E x \in External : Launch(j, x) \/ \E permanent \in BOOLEAN :
                                                     LaunchUnheard(j, x, permanent)
             \/ StoreLaunch(j) \/ EnqueuePoll(j)
      PROVE  report' = report /\ said' = said
  BY <1>5 DEF Launch, LaunchUnheard, StoreLaunch, EnqueuePoll, extVars, boundVars
<1>6. ASSUME NEW j \in Jobs,
             PollRunning(j) \/ PollFailed(j) \/ PollCancelled(j) \/ PollCompleted(j)
      PROVE  report' = report /\ said' = said
  BY <1>6 DEF PollRunning, PollFailed, PollCancelled, PollCompleted, extVars, boundVars
<1>7. ASSUME NEW j \in Jobs,
             \/ HearReport(j) \/ FinishEvaluate(j) \/ FinishDeploy(j) \/ FinishExport(j)
             \/ CallCancel(j) \/ FinishCancel(j)
      PROVE  report' = report /\ said' = said
  BY <1>7
  DEF HearReport, FinishEvaluate, FinishDeploy, FinishExport, CallCancel, FinishCancel,
      extVars, boundVars
<1>8. ASSUME Crash \/ UNCHANGED vars PROVE report' = report /\ said' = said
  BY <1>8 DEF Crash, vars, extVars, boundVars
<1>9. ASSUME NEW x \in External,
             ExternalEnds(x) \/ \E m \in Reports : ExternalReports(x, m)
      PROVE  \/ report' = report /\ said' = said
             \/ \E m \in Reports : Report(x, m)
  BY <1>9 DEF ExternalEnds, ExternalReports
<1>10. ASSUME NEW j \in Jobs, Start(j) \/ Handle(j) PROVE report' = report /\ said' = said
  BY <1>4, <1>5, <1>6, <1>7, <1>10 DEF Handle
<1>11. QED
  BY <1>1, <1>2, <1>3, <1>8, <1>9, <1>10 DEF Next

\* Every step keeps what the contract rests on.
LEMMA ContractInvStep ==
    ASSUME TypeOK, RunsFit, Confirmed, ContractInv, [Next]_vars
    PROVE  ContractInv'
<1>0. job \in AllJobs /\ externalId \in External \cup {None}
  BY DEF TypeOK, AllJobs
<1>63. ReportsSaid' /\ (SomePassed => SomePassed')
  BY SaidGrows DEF ContractInv
<1>60. ASSUME ReadersKnow',
              \A k \in Jobs :
                 job'[k].kind \in {"validate", "deploy"} => job'[k].kind = job[k].kind,
              \A r \in Requests : asked'[r] \in {"none", asked[r]},
              quoted' = quoted, externalId' = externalId,
              status' = status \/ status' \notin Before,
              metrics' = "pass" => metrics = "pass" \/ SomePassed
       PROVE  ContractInv'
  <2>1. IsImported' = IsImported
    BY <1>60 DEF IsImported
  <2>2. ImportedIsTrained'
    BY <1>60, <2>1 DEF ContractInv, ImportedIsTrained
  <2>3. NothingPassed => SomePassed \/ NothingPassed'
    BY <1>60 DEF NothingPassed
  <2>4. GatesHold'
    BY <1>60, <1>63, <2>1, <2>3 DEF ContractInv, GatesHold
  <2>5. QED
    BY <1>60, <1>63, <2>2, <2>4 DEF ContractInv
<1>61. ASSUME NEW j \in Jobs, Replaced(j),
              At(j, Reads, "started")' => job'[j].ext \in External,
              job'[j].at = "heard" /\ job'[j].heard = "pass" => SomePassed
       PROVE  ReadersKnow'
  BY <1>61, <1>63 DEF Replaced, ContractInv, ReadersKnow, At
<1>62. ASSUME NEW j \in Jobs, NEW stages \in SUBSET (Stages \ {"started", "heard"}),
              Goes(j, stages)
       PROVE  /\ ReadersKnow'
              /\ \A k \in Jobs : job'[k].kind = job[k].kind
  <2>1. Replaced(j) /\ job'[j].at \notin {"started", "heard"} /\ job'[j].kind = job[j].kind
    BY <1>62 DEF Goes
  <2>2. ReadersKnow'
    BY <1>61, <2>1 DEF At
  <2>3. QED
    BY <2>1, <2>2 DEF Replaced
<1>64. ASSUME job' = job PROVE ReadersKnow'
  BY <1>63, <1>64 DEF ContractInv, ReadersKnow, At
<1>1. ASSUME NEW r \in Requests, NEW act \in Actions, Ask(r, act) PROVE ContractInv'
  <2>1. /\ asked' = [asked EXCEPT ![r] = act]
        /\ job' = job /\ UNCHANGED rowVars
    BY <1>1 DEF Ask, jobVars, extVars
  <2>2. asked'[r] = act /\ \A s \in Requests \ {r} : asked'[s] = asked[s]
    BY <2>1 DEF TypeOK
  <2>3. /\ act \in {"validate", "revalidate"} => status \in Before
        /\ act = "deploy" => metrics = "pass"
    <3>1. /\ act = "validate" => status = "approved"
          /\ act = "revalidate" => status \in {"validating", "queued"}
          /\ act = "deploy" => metrics = "pass"
      BY <1>1, Zenon DEF Ask, MayAsk
    <3>2. QED
      BY <3>1 DEF Before
  <2>4. IsImported' = IsImported /\ status' = status /\ metrics' = metrics
    BY <2>1 DEF IsImported, rowVars
  <2>5. ImportedIsTrained'
    BY <2>1, <2>2, <2>3, <2>4 DEF ContractInv, ImportedIsTrained
  <2>6. GatesHold'
    BY <1>63, <2>1, <2>2, <2>3, <2>4 DEF ContractInv, GatesHold, NothingPassed
  <2>7. QED
    BY <1>63, <1>64, <2>1, <2>5, <2>6 DEF ContractInv
<1>2. ASSUME NEW r \in Requests, Commit(r) PROVE ContractInv'
  <2>1. /\ asked[r] \in Actions /\ status' = Target(asked[r]) /\ asked' = asked
        /\ job' = job
        /\ quoted' = quoted /\ externalId' = externalId /\ metrics' = metrics
    BY <1>2 DEF Commit, TypeOK, jobVars, extVars
  <2>2. asked[r] \in {"validate", "revalidate"} \/ status' = status \/ status' \notin Before
    <3>1. CASE asked[r] \in {"export"}
      BY <2>1, <3>1, TargetIs
    <3>2. CASE asked[r] \in {"launch", "cancel", "evaluate", "deploy", "deploy_experimental"}
      BY <2>1, <3>2, TargetIs DEF Before
    <3>3. QED
      BY <2>1, <3>1, <3>2 DEF Actions
  <2>3. IsImported' = IsImported
    BY <2>1 DEF IsImported
  <2>4. ImportedIsTrained'
    BY <2>1, <2>2, <2>3 DEF ContractInv, ImportedIsTrained
  <2>5. GatesHold'
    BY <1>63, <2>1, <2>3 DEF ContractInv, GatesHold, NothingPassed
  <2>6. QED
    BY <1>63, <1>64, <2>1, <2>4, <2>5 DEF ContractInv
<1>3. ASSUME NEW r \in Requests, EnqueueJob(r) PROVE ContractInv'
  <2>1. PICK j \in Jobs : Enqueued(j, KindOf(asked[r]))
    BY <1>3 DEF EnqueueJob
  <2>2. /\ r \in committed /\ asked' = [asked EXCEPT ![r] = "none"]
        /\ UNCHANGED rowVars
    BY <1>3 DEF EnqueueJob, EndRequest, extVars
  <2>3. asked[r] \in Actions
    BY <2>2 DEF TypeOK, RunsFit
  <2>4. /\ KindOf(asked[r]) = "validate" => asked[r] \in {"validate", "revalidate"}
        /\ KindOf(asked[r]) = "deploy" => asked[r] = "deploy"
    BY DEF KindOf
  <2>5. /\ job'[j].kind = KindOf(asked[r]) /\ job'[j].at = "queued"
        /\ \A k \in Jobs \ {j} : job'[k] = job[k]
    BY <1>0, <2>1 DEF Enqueued, Queued, AllJobs
  <2>6. \A s \in Requests : asked'[s] \in {"none", asked[s]}
    BY <2>2 DEF TypeOK
  <2>7. IsImported' = IsImported /\ status' = status /\ metrics' = metrics
    BY <2>2 DEF IsImported, rowVars
  <2>8. ReadersKnow'
    BY <1>63, <2>5 DEF ContractInv, ReadersKnow, At
  <2>9. ImportedIsTrained'
    BY <2>2, <2>4, <2>5, <2>6, <2>7 DEF ContractInv, ImportedIsTrained, TypeOK
  <2>10. GatesHold'
    BY <1>63, <2>2, <2>4, <2>5, <2>6, <2>7 DEF ContractInv, GatesHold, NothingPassed, TypeOK
  <2>11. QED
    BY <1>63, <2>8, <2>9, <2>10 DEF ContractInv
<1>4. ASSUME NEW r \in Requests, DropRequest(r) PROVE ContractInv'
  <2>1. /\ job' = job /\ asked' = [asked EXCEPT ![r] = "none"]
        /\ UNCHANGED rowVars
    BY <1>4 DEF DropRequest, EndRequest, jobVars, extVars
  <2>2. \A s \in Requests : asked'[s] \in {"none", asked[s]}
    BY <2>1 DEF TypeOK
  <2>3. QED
    BY <1>60, <1>63, <1>64, <2>1, <2>2 DEF rowVars
<1>5. ASSUME NEW j \in Jobs, Start(j) PROVE ContractInv'
  <2>1. /\ Replaced(j) /\ job'[j].kind = job[j].kind /\ job'[j].ext = externalId
        /\ job'[j].at = "started" => Runnable(job[j].kind)
        /\ job'[j].at # "heard"
    BY <1>0, <1>5, StartGoes DEF Goes
  <2>2. job[j].kind \in Reads /\ Runnable(job[j].kind) => externalId # None
    BY DEF Reads, Runnable
  <2>3. ReadersKnow'
    BY <1>0, <1>61, <2>1, <2>2 DEF At
  <2>4. \A k \in Jobs : job'[k].kind = job[k].kind
    BY <2>1 DEF Replaced
  <2>5. asked' = asked /\ UNCHANGED rowVars
    BY <1>5 DEF Start, requestVars, extVars
  <2>6. QED
    BY <1>60, <1>63, <2>3, <2>4, <2>5 DEF rowVars
<1>65. ASSUME NEW j \in Jobs, NEW stages \in SUBSET (Stages \ {"started", "heard"}),
              Goes(j, stages), asked' = asked, quoted' = quoted, externalId' = externalId,
              status' = status \/ status' \notin Before,
              metrics' = "pass" => metrics = "pass" \/ SomePassed
       PROVE  ContractInv'
  BY <1>60, <1>62, <1>65
<1>6. ASSUME NEW j \in Jobs, NEW permanent \in BOOLEAN, FailJob(j, permanent)
      PROVE  ContractInv'
  <2>1. Goes(j, {"queued", "failing"})
    BY <1>0, <1>6, FailJobGoes
  <2>2. asked' = asked /\ UNCHANGED rowVars
    BY <1>6 DEF FailJob, requestVars, extVars
  <2>3. QED
    BY <1>63, <1>65, <2>1, <2>2 DEF rowVars, Stages
<1>7. ASSUME NEW j \in Jobs, SetDomainFailure(j) \/ Finish(j) PROVE ContractInv'
  <2>1. Replaced(j) /\ job'[j].kind = "none"
    BY <1>0, <1>7, EndGoes, NoJobIs
  <2>2. /\ asked' = asked
        /\ quoted' = quoted /\ externalId' = externalId /\ metrics' = metrics
        /\ status' = status \/ status' = "failed"
    BY <1>7 DEF SetDomainFailure, Finish, rowVars, requestVars, extVars
  <2>3. ReadersKnow'
    BY <1>0, <1>7, <1>61, <2>1, EndGoes, NoJobIs DEF At, Reads
  <2>4. \A k \in Jobs :
           job'[k].kind \in {"validate", "deploy"} => job'[k].kind = job[k].kind
    BY <2>1 DEF Replaced
  <2>5. QED
    BY <1>60, <1>63, <2>2, <2>3, <2>4 DEF Before
<1>9. ASSUME NEW j \in Jobs, FinishValidate(j) PROVE ContractInv'
  <2>1. Goes(j, {"done"}) /\ job[j].kind = "validate"
    BY <1>0, <1>9, HandlerGoes DEF FinishValidate, At
  <2>2. ~IsImported /\ ~IsImported'
    BY <1>9, <2>1 DEF ContractInv, ImportedIsTrained, IsImported, FinishValidate
  <2>3. /\ asked' = asked /\ metrics' = metrics
    BY <1>9 DEF FinishValidate, requestVars, extVars
  <2>4. ReadersKnow' /\ \A k \in Jobs : job'[k].kind = job[k].kind
    BY <1>62, <2>1 DEF Stages
  <2>5. GatesHold'
    BY <1>63, <2>2, <2>3, <2>4 DEF ContractInv, GatesHold, NothingPassed
  <2>6. QED
    BY <1>63, <2>2, <2>4, <2>5 DEF ContractInv, ImportedIsTrained
<1>11. ASSUME NEW j \in Jobs, NEW x \in External, Launch(j, x) PROVE ContractInv'
  <2>1. Goes(j, {"launched"})
    BY <1>0, <1>11, LaunchGoes
  <2>2. asked' = asked /\ UNCHANGED rowVars
    BY <1>11 DEF Launch, requestVars
  <2>3. QED
    BY <1>65, <2>1, <2>2 DEF rowVars, Stages
<1>12. ASSUME NEW j \in Jobs, NEW x \in External, NEW permanent \in BOOLEAN,
              LaunchUnheard(j, x, permanent)
       PROVE  ContractInv'
  <2>1. Goes(j, {"queued", "failing"})
    BY <1>0, <1>12, LaunchUnheardGoes
  <2>2. asked' = asked /\ UNCHANGED rowVars
    BY <1>12 DEF LaunchUnheard, requestVars
  <2>3. QED
    BY <1>65, <2>1, <2>2 DEF rowVars, Stages
<1>13. ASSUME NEW j \in Jobs, StoreLaunch(j) PROVE ContractInv'
  <2>1. Goes(j, {"stored"}) /\ job[j].kind = "launch"
    BY <1>0, <1>13, HandlerGoes DEF StoreLaunch, At
  <2>2. /\ asked' = asked /\ metrics' = metrics /\ quoted' = quoted
       
    BY <1>13 DEF StoreLaunch, requestVars, extVars
  <2>3. ~IsImported /\ ~IsImported'
    BY <2>1, <2>2 DEF Confirmed, IsImported
  <2>4. ReadersKnow' /\ \A k \in Jobs : job'[k].kind = job[k].kind
    BY <1>62, <2>1 DEF Stages
  <2>5. GatesHold'
    BY <1>63, <2>2, <2>3, <2>4 DEF ContractInv, GatesHold, NothingPassed
  <2>6. QED
    BY <1>63, <2>3, <2>4, <2>5 DEF ContractInv, ImportedIsTrained
<1>14. ASSUME NEW j \in Jobs, EnqueuePoll(j) PROVE ContractInv'
  <2>1. /\ job'[j].at = "done"
        /\ \A k \in Jobs \ {j} :
              \/ job'[k] = job[k]
              \/ job[k] = NoJob /\ job'[k] = Queued("poll", 0)
    BY <1>0, <1>14, EnqueuePollFacts
  <2>2. job'[j].kind = job[j].kind
    BY <1>0, <1>14, EnqueuePollKeeps
  <2>3. Queued("poll", 0).kind = "poll" /\ Queued("poll", 0).at = "queued"
    BY DEF Queued
  <2>4. \A k \in Jobs :
           job'[k].kind \in {"validate", "deploy"} => job'[k].kind = job[k].kind
    BY <2>1, <2>2, <2>3
  <2>5. ReadersKnow'
    BY <1>63, <2>1, <2>3 DEF ContractInv, ReadersKnow, At
  <2>6. asked' = asked /\ UNCHANGED rowVars
    BY <1>14 DEF EnqueuePoll, requestVars, extVars
  <2>7. QED
    BY <1>60, <1>63, <2>4, <2>5, <2>6 DEF rowVars
<1>15. ASSUME NEW j \in Jobs, PollRunning(j) \/ PollFailed(j) PROVE ContractInv'
  <2>1. Goes(j, {"queued"}) \/ Goes(j, {"failing"})
    BY <1>0, <1>15, PollRunningGoes, HandlerGoes
  <2>2. asked' = asked /\ UNCHANGED rowVars
    BY <1>15 DEF PollRunning, PollFailed, requestVars, extVars
  <2>3. QED
    BY <1>63, <1>65, <2>1, <2>2 DEF rowVars, Stages
<1>16. ASSUME NEW j \in Jobs, PollCancelled(j) \/ FinishDeploy(j) \/ FinishExport(j)
       PROVE  ContractInv'
  <2>1. Goes(j, {"done"})
    BY <1>0, <1>16, HandlerGoes
  <2>2. /\ asked' = asked
        /\ quoted' = quoted /\ externalId' = externalId /\ metrics' = metrics
        /\ status' \in {"cancelled", "deployed", "exported"}
    BY <1>16 DEF PollCancelled, FinishDeploy, FinishExport, requestVars, extVars
  <2>3. status' \notin Before
    BY <2>2 DEF Before
  <2>4. QED
    BY <1>63, <1>65, <2>1, <2>2, <2>3 DEF Stages
<1>17. ASSUME NEW j \in Jobs, PollCompleted(j) PROVE ContractInv'
  <2>1. Goes(j, {"done"}) /\ job[j].ext \in External
    BY <1>0, <1>17, HandlerGoes DEF PollCompleted, At, ContractInv, ReadersKnow, Reads
  <2>2. /\ asked' = asked
        /\ quoted' = quoted /\ externalId' = externalId
        /\ status' \in {"evaluating", "completed"}
        /\ metrics' = "pass" => metrics = "pass" \/ report[job[j].ext] = "pass"
    BY <1>17 DEF PollCompleted, requestVars
  <2>3. status' \notin Before
    BY <2>2 DEF Before
  <2>4. metrics' = "pass" => metrics = "pass" \/ SomePassed
    BY <2>1, <2>2 DEF ContractInv, ReportsSaid, SomePassed
  <2>5. QED
    BY <1>63, <1>65, <2>1, <2>2, <2>3, <2>4 DEF Stages
<1>25. ASSUME NEW j \in Jobs, HearReport(j) PROVE ContractInv'
  <2>1. /\ Goes(j, {"heard", "failing"})
        /\ job'[j].at = "heard" => job'[j].heard = report[job[j].ext]
    BY <1>0, <1>25, HearReportGoes
  <2>2. job[j].ext \in External
    BY <1>25 DEF HearReport, At, ContractInv, ReadersKnow, Reads
  <2>3. job'[j].at = "heard" /\ job'[j].heard = "pass" => SomePassed
    BY <2>1, <2>2 DEF ContractInv, ReportsSaid, SomePassed
  <2>4. Replaced(j) /\ job'[j].at # "started" /\ \A k \in Jobs : job'[k].kind = job[k].kind
    BY <2>1 DEF Goes, Replaced
  <2>5. ReadersKnow'
    BY <1>61, <2>3, <2>4 DEF At
  <2>6. asked' = asked /\ UNCHANGED rowVars
    BY <1>25 DEF HearReport, requestVars
  <2>7. QED
    BY <1>60, <2>4, <2>5, <2>6 DEF rowVars
<1>18. ASSUME NEW j \in Jobs, FinishEvaluate(j) PROVE ContractInv'
  <2>1. Goes(j, {"done"})
    BY <1>0, <1>18, HandlerGoes
  <2>2. /\ asked' = asked /\ quoted' = quoted /\ externalId' = externalId
        /\ job[j].at = "heard" /\ status' = "completed" /\ metrics' = job[j].heard
    BY <1>18 DEF FinishEvaluate, At, requestVars
  <2>3. status' \notin Before
    BY <2>2 DEF Before
  <2>4. metrics' = "pass" => SomePassed
    BY <2>2 DEF ContractInv, ReadersKnow
  <2>5. QED
    BY <1>65, <2>1, <2>2, <2>3, <2>4 DEF Stages
<1>19. ASSUME NEW j \in Jobs, CallCancel(j) PROVE ContractInv'
  <2>1. Goes(j, {"called"})
    BY <1>0, <1>19, HandlerGoes
  <2>2. asked' = asked /\ UNCHANGED rowVars
    BY <1>19 DEF CallCancel, requestVars
  <2>3. QED
    BY <1>65, <2>1, <2>2 DEF rowVars, Stages
<1>20. ASSUME NEW j \in Jobs, FinishCancel(j) PROVE ContractInv'
  <2>1. /\ job'[j].at = "done" /\ job'[j].kind = job[j].kind
        /\ \A k \in Jobs \ {j} :
              \/ job'[k] = NoJob
              \/ job'[k].at = job[k].at /\ job'[k].kind = job[k].kind
                   /\ job'[k].ext = job[k].ext /\ job'[k].heard = job[k].heard
    BY <1>0, <1>20, FinishCancelFacts
  <2>2. ReadersKnow'
    BY <1>63, <2>1, NoJobIs DEF ContractInv, ReadersKnow, At
  <2>3. \A k \in Jobs :
           job'[k].kind \in {"validate", "deploy"} => job'[k].kind = job[k].kind
    BY <2>1, NoJobIs
  <2>4. /\ asked' = asked
        /\ quoted' = quoted /\ externalId' = externalId /\ metrics' = metrics
        /\ status' = "cancelled"
    BY <1>20 DEF FinishCancel, requestVars, extVars
  <2>5. QED
    BY <1>60, <1>63, <2>2, <2>3, <2>4 DEF Before
<1>21. CASE Crash
  <2>1. PICK j \in Jobs : (Replaced(j) /\ job'[j] = NoJob) \/ Goes(j, {"queued"})
    BY <1>0, <1>21, CrashGoes
  <2>2. /\ Replaced(j) /\ job'[j].kind \in {"none", job[j].kind}
        /\ job'[j].at \notin {"started", "heard"}
    BY <2>1, NoJobIs DEF Goes
  <2>3. ReadersKnow'
    BY <1>61, <2>2 DEF At
  <2>4. \A k \in Jobs :
           job'[k].kind \in {"validate", "deploy"} => job'[k].kind = job[k].kind
    BY <2>2 DEF Replaced
  <2>5. asked' = asked /\ UNCHANGED rowVars
    BY <1>21 DEF Crash, requestVars, extVars
  <2>6. QED
    BY <1>60, <1>63, <2>3, <2>4, <2>5 DEF rowVars
<1>22. ASSUME NEW x \in External,
              ExternalEnds(x) \/ \E m \in Reports : ExternalReports(x, m)
       PROVE  ContractInv'
  <2>1. job' = job /\ asked' = asked /\ UNCHANGED rowVars
    BY <1>22 DEF ExternalEnds, ExternalReports, requestVars, jobVars
  <2>2. QED
    BY <1>60, <1>64, <2>1 DEF rowVars
<1>23. CASE UNCHANGED vars
  <2>1. job' = job /\ asked' = asked /\ UNCHANGED rowVars
    BY <1>23 DEF vars, requestVars, jobVars, extVars
  <2>2. QED
    BY <1>60, <1>63, <1>64, <2>1 DEF rowVars
<1>24. QED
  BY <1>1, <1>2, <1>3, <1>4, <1>5, <1>6, <1>7, <1>9, <1>11, <1>12, <1>13,
     <1>14, <1>15, <1>16, <1>17, <1>18, <1>19, <1>20, <1>21, <1>22, <1>23,
     <1>25
  DEF Next, Request, Handle

\* Every step is a step of the contract, or none.
LEMMA ContractStep ==
    ASSUME TypeOK, Confirmed, ContractInv, [Next]_vars
    PROVE  [Contract!Next]_(Contract!vars)
<1> DEFINE Goal == [Contract!Next]_(Contract!vars)
<1> HIDE DEF Goal
<1>0. job \in AllJobs /\ externalId \in External \cup {None} /\ confirmations \in Nat
  BY DEF TypeOK, AllJobs
<1>60. ASSUME quoted' = quoted, externalId' = externalId, UNCHANGED <<profile, ext, said>>,
              (confirmations' > 0) = (confirmations > 0)
       PROVE  Goal
  BY <1>60 DEF Goal, Contract!vars, IsImported
<1>61. ASSUME UNCHANGED <<quoted, externalId, confirmations, profile, ext, said>>
       PROVE  Goal
  BY <1>60, <1>61
<1>62. ASSUME NEW x \in External, ext[x] = "unused", ext' = [ext EXCEPT ![x] = "running"],
              quoted, confirmations > 0,
              UNCHANGED <<quoted, externalId, confirmations, profile, said>>
       PROVE  Goal
  <2>1. Contract!Begin(x)
    BY <1>62 DEF Contract!Begin, IsImported
  <2>2. QED
    BY <2>1 DEF Goal, Contract!Next
<1>1. ASSUME NEW r \in Requests, NEW act \in Actions, Ask(r, act) PROVE Goal
  BY <1>1, <1>61 DEF Ask, rowVars, extVars
<1>2. ASSUME NEW r \in Requests, Commit(r) PROVE Goal
  <2>1. UNCHANGED <<quoted, externalId, profile, ext, said>>
    BY <1>2 DEF Commit, extVars
  <2>2. CASE asked[r] = "launch"
    <3>1. quoted /\ confirmations' > 0
      BY <1>0, <1>2, <2>2 DEF Commit, Confirmed
    <3>2. Contract!Confirm
      BY <2>1, <3>1 DEF Contract!Confirm, IsImported
    <3>3. QED
      BY <3>2 DEF Goal, Contract!Next
  <2>3. CASE asked[r] # "launch"
    BY <1>2, <1>61, <2>1, <2>3 DEF Commit
  <2>4. QED
    BY <2>2, <2>3
<1>3. ASSUME NEW r \in Requests, EnqueueJob(r) \/ DropRequest(r) PROVE Goal
  BY <1>3, <1>61 DEF EnqueueJob, DropRequest, rowVars, extVars, boundVars
<1>5. ASSUME NEW j \in Jobs, Start(j) \/ Finish(j) \/ EnqueuePoll(j) PROVE Goal
  BY <1>5, <1>61 DEF Start, Finish, EnqueuePoll, rowVars, extVars, boundVars
<1>6. ASSUME NEW j \in Jobs, NEW permanent \in BOOLEAN, FailJob(j, permanent) PROVE Goal
  BY <1>6, <1>61 DEF FailJob, rowVars, extVars, boundVars
<1>7. ASSUME NEW j \in Jobs, SetDomainFailure(j) \/ FinishCancel(j) PROVE Goal
  BY <1>7, <1>61 DEF SetDomainFailure, FinishCancel, extVars, boundVars
<1>9. ASSUME NEW j \in Jobs, FinishValidate(j) PROVE Goal
  <2>1. IsImported = FALSE /\ IsImported' = FALSE
    BY <1>9 DEF FinishValidate, At, ContractInv, ImportedIsTrained, IsImported
  <2>2. UNCHANGED <<confirmations, profile, ext, said>>
    BY <1>9 DEF FinishValidate, extVars, boundVars
  <2>3. Contract!Quote
    BY <1>9, <2>1, <2>2 DEF FinishValidate, Contract!Quote
  <2>4. QED
    BY <2>3 DEF Goal, Contract!Next
<1>10. ASSUME NEW j \in Jobs, NEW x \in External, Launch(j, x) PROVE Goal
  <2>1. quoted /\ confirmations > 0
    BY <1>10 DEF Launch, At, Confirmed
  <2>2. QED
    BY <1>10, <1>62, <2>1 DEF Launch, rowVars, boundVars
<1>11. ASSUME NEW j \in Jobs, NEW x \in External, NEW permanent \in BOOLEAN,
              LaunchUnheard(j, x, permanent)
       PROVE  Goal
  <2>1. quoted /\ confirmations > 0
    BY <1>11 DEF LaunchUnheard, At, Confirmed
  <2>2. QED
    BY <1>11, <1>62, <2>1 DEF LaunchUnheard, rowVars, boundVars
<1>12. ASSUME NEW j \in Jobs, StoreLaunch(j) PROVE Goal
  <2>1. quoted /\ quoted'
    BY <1>12 DEF StoreLaunch, At, Confirmed
  <2>2. IsImported' = IsImported
    BY <2>1 DEF IsImported
  <2>3. UNCHANGED <<quoted, confirmations, profile, ext, said>>
    BY <1>12 DEF StoreLaunch, extVars, boundVars
  <2>4. QED
    BY <2>2, <2>3 DEF Goal, Contract!vars
<1>13. ASSUME NEW j \in Jobs, PollRunning(j) \/ PollFailed(j) \/ PollCancelled(j) PROVE Goal
  BY <1>13, <1>61 DEF PollRunning, PollFailed, PollCancelled, rowVars, extVars, boundVars
<1>14. ASSUME NEW j \in Jobs,
              PollCompleted(j) \/ HearReport(j) \/ FinishEvaluate(j) \/ FinishExport(j)
       PROVE  Goal
  BY <1>14, <1>61
  DEF PollCompleted, HearReport, FinishEvaluate, FinishExport, rowVars, extVars, boundVars
<1>15. ASSUME NEW j \in Jobs, FinishDeploy(j) PROVE Goal
  <2>1. job[j].ext \in External /\ Contract!Trained(job[j].ext)
    BY <1>15 DEF FinishDeploy, At, ContractInv, ReadersKnow, Reads, Contract!Trained
  <2>2. /\ profile' = IF job[j].kind = "deploy" THEN "ready" ELSE "experimental"
        /\ UNCHANGED <<quoted, externalId, confirmations, ext, said>>
    BY <1>15 DEF FinishDeploy, extVars, boundVars
  <2>3. profile' \in {"ready", "experimental"}
    BY <2>2
  <2>4. ASSUME profile' = "ready"
        PROVE  IsImported \/ \E x \in External : "pass" \in said[x]
    <3>1. job[j].kind = "deploy"
      BY <2>2, <2>4
    <3>2. QED
      BY <3>1 DEF ContractInv, GatesHold, NothingPassed, SomePassed
  <2>5. IsImported' = IsImported
    BY <2>2 DEF IsImported
  <2>6. PICK how \in {"ready", "experimental"} : profile' = how
    BY <2>3
  <2>7. Contract!Serve(how)
    BY <2>1, <2>2, <2>4, <2>5, <2>6 DEF Contract!Serve
  <2>8. QED
    BY <2>7 DEF Goal, Contract!Next
<1>16. ASSUME NEW j \in Jobs, CallCancel(j) PROVE Goal
  <2>1. UNCHANGED <<quoted, externalId, confirmations, profile, said>>
    BY <1>16 DEF CallCancel, rowVars, boundVars
  <2>2. IsImported' = IsImported
    BY <2>1 DEF IsImported
  <2>3. PICK y : y = job[j].ext
    OBVIOUS
  <2>4. ext' = [x \in External |-> IF x = y /\ ext[x] = "running" THEN "cancelled" ELSE ext[x]]
    BY <1>16, <2>3 DEF CallCancel
  <2>5. CASE y \in External /\ ext[y] = "running"
    <3>1. ext' = [ext EXCEPT ![y] = "cancelled"]
      BY <2>4, <2>5 DEF TypeOK
    <3>2. Contract!Finish(y)
      BY <2>1, <2>2, <2>5, <3>1 DEF Contract!Finish
    <3>3. QED
      BY <2>5, <3>2 DEF Goal, Contract!Next
  <2>6. CASE ~(y \in External /\ ext[y] = "running")
    <3>1. ext' = ext
      BY <2>4, <2>6 DEF TypeOK
    <3>2. QED
      BY <1>61, <2>1, <3>1
  <2>7. QED
    BY <2>5, <2>6
<1>17. ASSUME Crash PROVE Goal
  <2>1. UNCHANGED <<rowVars, extVars, confirmations, said>>
    BY <1>17 DEF Crash
  <2>2. QED
    BY <1>61, <2>1 DEF rowVars, extVars
<1>18. ASSUME NEW x \in External,
              ExternalEnds(x) \/ \E m \in Reports : ExternalReports(x, m)
       PROVE  Goal
  <2>1. ext[x] = "running" /\ UNCHANGED <<quoted, externalId, confirmations, profile>>
    BY <1>18 DEF ExternalEnds, ExternalReports, rowVars
  <2>2. IsImported' = IsImported
    BY <2>1 DEF IsImported
  <2>3. CASE \E m \in Reports : Report(x, m)
    <3>1. PICK m \in Reports : Report(x, m)
      BY <2>3
    <3>2. ext' \in {ext, [ext EXCEPT ![x] = "completed"], [ext EXCEPT ![x] = "failed"]}
      BY <1>18 DEF ExternalEnds, ExternalReports
    <3>3. CASE ext' \in {ext, [ext EXCEPT ![x] = "completed"]}
      <4>1. Contract!Report(x, m)
        BY <2>1, <2>2, <3>1, <3>3 DEF Contract!Report, Report
      <4>2. QED
        BY <4>1 DEF Goal, Contract!Next
    <3>4. CASE ext' = [ext EXCEPT ![x] = "failed"]
      <4>1. /\ ext' # ext /\ ext' # [ext EXCEPT ![x] = "completed"]
        BY <2>1, <3>4 DEF TypeOK
      <4>2. said' = said
        BY <1>18, <4>1 DEF ExternalEnds, ExternalReports
      <4>3. Contract!Finish(x)
        BY <2>1, <2>2, <3>4, <4>2 DEF Contract!Finish
      <4>4. QED
        BY <4>3 DEF Goal, Contract!Next
    <3>5. QED
      BY <3>2, <3>3, <3>4
  <2>4. CASE ~\E m \in Reports : Report(x, m)
    <3>1. /\ said' = said
          /\ ext' \in {[ext EXCEPT ![x] = "completed"], [ext EXCEPT ![x] = "failed"]}
      BY <1>18, <2>4 DEF ExternalEnds, ExternalReports
    <3>2. Contract!Finish(x)
      BY <2>1, <2>2, <3>1 DEF Contract!Finish
    <3>3. QED
      BY <3>2 DEF Goal, Contract!Next
  <2>5. QED
    BY <2>3, <2>4
<1>19. ASSUME UNCHANGED vars PROVE Goal
  <2>1. UNCHANGED <<rowVars, extVars, boundVars>>
    BY <1>19 DEF vars
  <2>2. QED
    BY <1>61, <2>1 DEF rowVars, extVars, boundVars
<1>20. ASSUME NEW r \in Requests, Request(r) PROVE Goal
  BY <1>1, <1>2, <1>3, <1>20 DEF Request
<1>21. ASSUME NEW j \in Jobs, Handle(j) PROVE Goal
  BY <1>5, <1>6, <1>7, <1>9, <1>10, <1>11, <1>12, <1>13, <1>14, <1>15, <1>16, <1>21
  DEF Handle
<1>22. Goal
  BY <1>5, <1>17, <1>18, <1>19, <1>20, <1>21 DEF Next
<1>23. QED
  BY <1>22 DEF Goal
-----------------------------------------------------------------------------
LEMMA Inits ==
    ASSUME Init
    PROVE  TypeOK /\ RunsFit /\ LiveInv /\ StopInv /\ RunsAreKnown /\ Confirmed
<1>1. NoJob \in Job \cup {NoJob}
  OBVIOUS
<1>2. TypeOK
  <2>1. /\ asked \in [Requests -> Actions \cup {"none"}]
        /\ committed \in SUBSET Requests
        /\ job \in [Jobs -> Job \cup {NoJob}]
        /\ polled \in SUBSET External
    BY <1>1 DEF Init, Idle
  <2>2. /\ confirmations \in Nat /\ requests \in 0..MaxRequests
        /\ crashes \in 0..MaxCrashes /\ dropped \in 0..MaxDropped
    BY BoundsAssumption DEF Init, Idle
  <2>3. /\ status \in Statuses
        /\ externalId \in External \cup {None}
        /\ profile \in {"none", "ready", "experimental"}
        /\ ext \in [External -> {"unused", "running", "completed", "failed", "cancelled"}]
    BY DEF Init, Created, Imported, Statuses
  <2>4. metrics \in {"none", "pass", "fail"} /\ report \in [External -> Reports \cup {"none"}]
    BY ReportsAssumption DEF Init, Created, Imported
  <2>5. lost = FALSE /\ quoted = FALSE /\ forgotten = {}
    BY DEF Init, Idle, Created, Imported
  <2>6. said \in [External -> SUBSET Reports]
    BY <2>4 DEF Init, Idle
  <2>7. QED
    BY <2>1, <2>2, <2>3, <2>4, <2>5, <2>6 DEF TypeOK
<1>3. \A j \in Jobs : job[j].at = "none"
  BY NoJobIs DEF Init, Idle
<1>4. RunsFit
  BY <1>3 DEF Init, Idle, RunsFit, HasRun, At
<1>5. /\ status \in {"approved", "completed", "deployed"}
      /\ externalId # None => externalId \in External /\ ext[externalId] = "completed"
      /\ \A x \in External : ext[x] # "running"
  BY DEF Init, Created, Imported
<1>6. LiveInv
  BY <1>5 DEF LiveInv, StatusHasLiveWork, Awaits
<1>7. StopInv
  BY <1>3, <1>5 DEF StopInv, OneHandler, HandlerFits, RunIsStarted, StoredIsStopped, Busy
<1>8. Confirmed
  BY <1>3, NoJobIs DEF Init, Idle, Confirmed
<1>9. RunsAreKnown
  BY <1>5 DEF RunsAreKnown
<1>10. QED
  BY <1>2, <1>4, <1>6, <1>7, <1>8, <1>9

\* The row of the run, the jobs, the runs at FreeSOLO and the bounds keep
\* their types.
THEOREM TypeCorrect == Spec => []TypeOK
<1>1. Init => TypeOK /\ RunsFit
  BY Inits
<1>2. TypeOK /\ RunsFit /\ [Next]_vars => (TypeOK /\ RunsFit)'
  BY TypeStep, FitStep
<1>3. QED
  BY <1>1, <1>2, PTL DEF Spec

\* As long as the metrics FreeSOLO reports are objects, a run that waits for
\* validation, training, evaluation, deployment or cancellation has a job, or
\* a request about to insert it, that will move it on, for any number of
\* workers, requests and jobs, unless one was lost between two transactions.
THEOREM WaitingRunsAreNotForgotten ==
    ASSUME "malformed" \notin Reports
    PROVE  Spec => []WaitingHasWork
<1> DEFINE IInv == TypeOK /\ RunsFit /\ LiveInv
<1>1. Init => IInv
  BY Inits
<1>2. IInv /\ [Next]_vars => IInv'
  BY TypeStep, FitStep, LiveStep
<1>3. IInv => WaitingHasWork
  <2> SUFFICES ASSUME IInv, ~lost, NEW s \in DOMAIN Awaited, status = s
               PROVE  Owed(Awaited[s])
    BY DEF WaitingHasWork, StatusHasWork, TypeOK
  <2>1. Awaits(s, Awaited[s]) /\ Awaited[s] \in SUBSET Kinds
    BY DEF Awaited, Awaits, Kinds
  <2>2. LiveWork(Awaited[s])
    BY <2>1 DEF LiveInv, StatusHasLiveWork
  <2>3. QED
    BY <2>2 DEF LiveWork, Owes, WorksOn, Owed
<1> HIDE DEF IInv
<1>4. QED
  BY <1>1, <1>2, <1>3, PTL DEF Spec

\* With one worker, what goes on at FreeSOLO after a run was cancelled is only
\* what the program does not know of, because the launch was answered too late
\* or failed before its id was stored, or because a later launch replaced the
\* id; whatever requests, launches, polls, retries and crashes overlapped with
\* the cancellation, every other run of it is stopped.
THEOREM CancelledRunsAreStopped ==
    ASSUME IsFiniteSet(Jobs), Workers = 1
    PROVE  Spec => []CancelledIsStopped
<1> DEFINE IInv == TypeOK /\ RunsFit /\ StopInv /\ RunsAreKnown
<1>1. Init => IInv
  BY Inits
<1>2. IInv /\ [Next]_vars => IInv'
  BY TypeStep, FitStep, StopStep, KnownStep DEF StopInv
<1>3. IInv => CancelledIsStopped
  <2> SUFFICES ASSUME IInv, status = "cancelled", NEW x \in External, ext[x] = "running"
               PROVE  x \in forgotten
    BY DEF CancelledIsStopped
  <2>1. x # externalId
    BY NoneAssumption DEF StopInv, StoredIsStopped
  <2>2. \A j \in Jobs : job[j].at = "launched" => job[j].kind = "launch"
    BY DEF RunsFit, HasRun
  <2>3. \A j \in Jobs : job[j].at # "launched"
    BY <2>2 DEF StopInv, HandlerFits
  <2>4. QED
    BY <2>1, <2>3 DEF RunsAreKnown
<1> HIDE DEF IInv
<1>4. QED
  BY <1>1, <1>2, <1>3, PTL DEF Spec

\* Nothing is started at FreeSOLO, with or without an answer, for a run that
\* was not quoted and confirmed.
THEOREM RunsAreConfirmed == Spec => StartsAreConfirmed
<1> DEFINE IInv == TypeOK /\ RunsFit /\ Confirmed
<1>1. Init => IInv
  BY Inits
<1>2. IInv /\ [Next]_vars => IInv'
  BY TypeStep, FitStep, ConfirmStep
<1>3. IInv /\ [Next]_vars =>
        [\A x \in External :
           ext[x] = "unused" /\ ext'[x] = "running" => quoted /\ confirmations > 0]_vars
  <2> SUFFICES ASSUME IInv, Next, NEW x \in External, ext[x] = "unused", ext'[x] = "running"
               PROVE  quoted /\ confirmations > 0
    OBVIOUS
  <2>1. ASSUME NEW j \in Jobs, job[j].kind = "launch" PROVE quoted /\ confirmations > 0
    BY <2>1 DEF Confirmed
  <2>2. ASSUME NEW r \in Requests, Request(r) PROVE FALSE
    BY <2>2 DEF Request, Ask, Commit, EnqueueJob, DropRequest, extVars
  <2>3. ASSUME NEW j \in Jobs, NEW y \in External, Launch(j, y)
        PROVE  quoted /\ confirmations > 0
    BY <2>1, <2>3 DEF Launch, At
  <2>4. ASSUME NEW j \in Jobs, NEW y \in External, NEW permanent \in BOOLEAN,
               LaunchUnheard(j, y, permanent)
        PROVE  quoted /\ confirmations > 0
    BY <2>1, <2>4 DEF LaunchUnheard, At
  <2>5. ASSUME NEW j \in Jobs, NEW permanent \in BOOLEAN, Start(j) \/ FailJob(j, permanent)
        PROVE  FALSE
    BY <2>5 DEF Start, FailJob, extVars
  <2>6. ASSUME NEW j \in Jobs, SetDomainFailure(j) \/ Finish(j) \/ FinishValidate(j)
                 \/ StoreLaunch(j) \/ EnqueuePoll(j)
        PROVE  FALSE
    BY <2>6 DEF SetDomainFailure, Finish, FinishValidate, StoreLaunch, EnqueuePoll, extVars
  <2>7. ASSUME NEW j \in Jobs, PollRunning(j) \/ PollFailed(j) \/ PollCancelled(j)
                 \/ PollCompleted(j) \/ HearReport(j) \/ FinishEvaluate(j)
        PROVE  FALSE
    BY <2>7
    DEF PollRunning, PollFailed, PollCancelled, PollCompleted, HearReport, FinishEvaluate,
        extVars
  <2>8. ASSUME NEW j \in Jobs, FinishDeploy(j) \/ FinishExport(j) \/ FinishCancel(j)
        PROVE  FALSE
    BY <2>8 DEF FinishDeploy, FinishExport, FinishCancel, extVars
  <2>9. ASSUME NEW j \in Jobs, CallCancel(j) PROVE FALSE
    BY <2>9 DEF CallCancel
  <2>10. ~Crash
    BY DEF Crash, extVars
  <2>11. ASSUME NEW y \in External,
                ExternalEnds(y) \/ \E m \in Reports : ExternalReports(y, m)
         PROVE  FALSE
    BY <2>11 DEF ExternalEnds, ExternalReports, TypeOK
  <2> HIDE DEF IInv
  <2>12. QED
    BY <2>2, <2>3, <2>4, <2>5, <2>6, <2>7, <2>8, <2>9, <2>10, <2>11 DEF Next, Handle
<1> HIDE DEF IInv
<1>4. QED
  BY <1>1, <1>2, <1>3, PTL DEF Spec, StartsAreConfirmed

\* To who pays for the run and to who is served by it, the run keeps its
\* contract, for any number of workers, requests, jobs, retries and crashes:
\* only what was quoted and confirmed is started, what was started ends once
\* and reports nothing afterwards, and a profile becomes ready only when some
\* start was trained to its end and some start was reported to pass.
THEOREM RunsKeepTheContract == Spec => ImplementsContract
<1> DEFINE IInv == TypeOK /\ RunsFit /\ Confirmed /\ ContractInv
<1>1. Init => IInv
  <2> SUFFICES ASSUME Init PROVE ContractInv
    BY Inits
  <2>1. \A j \in Jobs : job[j].at = "none" /\ job[j].kind = "none"
    BY NoJobIs DEF Init, Idle
  <2>2. \A r \in Requests : asked[r] = "none"
    BY DEF Init, Idle
  <2>3. ReportsSaid /\ ReadersKnow
    BY <2>1 DEF ReportsSaid, ReadersKnow, At, Init, Idle
  <2>4. CASE Created
    <3>1. ~IsImported
      BY <2>4 DEF Created, IsImported
    <3>2. NothingPassed
      BY <2>1, <2>2, <2>4 DEF Created, NothingPassed
    <3>3. QED
      BY <2>3, <3>1, <3>2 DEF ContractInv, ImportedIsTrained, GatesHold
  <2>5. CASE Imported
    <3>1. IsImported /\ status \in {"completed", "deployed"}
      BY <2>5, NoneAssumption DEF Imported, IsImported
    <3>2. QED
      BY <2>1, <2>2, <2>3, <3>1 DEF ContractInv, ImportedIsTrained, GatesHold, Before
  <2>6. QED
    BY <2>4, <2>5 DEF Init
<1>2. IInv /\ [Next]_vars => IInv'
  BY TypeStep, FitStep, ConfirmStep, ContractInvStep
<1>3. Init => Contract!Init
  <2> SUFFICES ASSUME Init PROVE Contract!Init
    OBVIOUS
  <2>1. quoted = FALSE /\ (confirmations > 0) = FALSE
    BY DEF Init, Idle, Created, Imported
  <2>2. CASE Created
    <3>1. said = [x \in External |-> {}]
      BY <2>2 DEF Init, Idle, Created
    <3>2. QED
      BY <2>1, <2>2, <3>1 DEF Created, IsImported, Contract!Init
  <2>3. CASE Imported
    <3>1. PICK x \in External, m \in Reports \cup {"none"} :
              /\ externalId = x
              /\ ext = [y \in External |-> IF y = x THEN "completed" ELSE "unused"]
              /\ report = [y \in External |-> IF y = x THEN m ELSE "none"]
      BY <2>3 DEF Imported
    <3>2. IsImported = TRUE /\ profile \in {"none", "ready", "experimental"}
      BY <2>1, <2>3, <3>1, NoneAssumption DEF Imported, IsImported
    <3>3. said = [y \in External |-> {report[y]} \ {"none"}]
      BY DEF Init, Idle
    <3>4. said = [y \in External |-> IF y = x THEN {m} \ {"none"} ELSE {}]
      BY <3>1, <3>3
    <3>5. {m} \ {"none"} \in SUBSET Reports
      OBVIOUS
    <3>6. QED
      BY <2>1, <3>1, <3>2, <3>4, <3>5 DEF Contract!Init
  <2>4. QED
    BY <2>2, <2>3 DEF Init
<1>4. IInv /\ [Next]_vars => [Contract!Next]_(Contract!vars)
  BY ContractStep
<1> HIDE DEF IInv
<1>5. QED
  BY <1>1, <1>2, <1>3, <1>4, PTL DEF Spec, ImplementsContract, Contract!Spec
=============================================================================
