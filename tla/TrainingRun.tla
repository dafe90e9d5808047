---------------------------- MODULE TrainingRun ----------------------------
(***************************************************************************)
(* The life of one training run: the requests of the control plane         *)
(* (services/gateway/ecoroute/api/control.py) and the handlers of the      *)
(* worker (services/worker/ecoroute_worker/jobs/handlers.py) that move its *)
(* status, and the runs that exist, and cost money, at FreeSOLO.           *)
(*                                                                         *)
(* A request checks the status it read, commits a new one and enqueues a   *)
(* job, in three steps.  A handler checks the status when it starts, calls *)
(* FreeSOLO, and writes the outcome without looking at the status again.   *)
(* Jobs are delivered as in JobQueue: at least once, retried when they     *)
(* fail with a transient error, redelivered when their worker dies.        *)
(***************************************************************************)
EXTENDS Naturals, FiniteSets

CONSTANTS
    Requests,       \* bound: requests handled at one time
    Jobs,           \* bound: jobs of the run alive at one time
    External,       \* bound: runs FreeSOLO may start for this run
    None,
    Workers,        \* number of worker processes
    Reports,        \* what a run at FreeSOLO may report as its metrics
    MaxRequests,    \* bound: requests accepted
    MaxTries,       \* transient errors a job may meet before it fails
    MaxCrashes,     \* bound: crashes of workers
    MaxDropped      \* bound: requests that end between commit and job

ASSUME NoneAssumption == None \notin External
ASSUME ReportsAssumption == Reports \subseteq {"pass", "fail", "malformed"}
ASSUME BoundsAssumption ==
    /\ Workers \in Nat /\ MaxRequests \in Nat /\ MaxTries \in Nat
    /\ MaxCrashes \in Nat /\ MaxDropped \in Nat

VARIABLES
    (* the training run's row, and the SLM profile it serves *)
    status, quoted, externalId, metrics, profile,
    (* the control plane *)
    asked,          \* what each request wants, once its checks have passed
    committed,      \* requests that have committed and still owe a job
    (* the jobs of the run *)
    job,
    polled,         \* runs at FreeSOLO that have a training.poll row
    (* FreeSOLO *)
    ext,            \* the state of each run there
    report,         \* the metrics it reports for now, or in the end
    (* history and bounds *)
    confirmations,  \* launches confirmed by somebody
    lost,           \* a job or the failure of a job was lost for good
    said,           \* all that each run at FreeSOLO has ever reported
    forgotten,      \* runs at FreeSOLO whose id was never stored, or was replaced
    requests, crashes, dropped

rowVars == <<status, quoted, externalId, metrics, profile>>
requestVars == <<asked, committed>>
jobVars == <<job, polled>>
extVars == <<ext, report>>
boundVars == <<confirmations, lost, said, forgotten, requests, crashes, dropped>>
vars == <<rowVars, requestVars, jobVars, extVars, boundVars>>

Statuses == {"approved", "validating", "queued", "training", "evaluating", "completed",
             "deploying", "deployed", "exported", "cancelling", "cancelled", "failed"}
Actions == {"validate", "revalidate", "launch", "cancel", "evaluate", "deploy",
            "deploy_experimental", "export"}
Kinds == {"validate", "launch", "poll", "cancel", "evaluate", "deploy",
          "deploy_experimental", "export"}
Stages == {"queued", "started", "launched", "stored", "heard", "called", "done", "failing"}
Job == [kind : Kinds, at : Stages, ext : External \cup {None}, row : {"live", "cancelled"},
        tries : 0..MaxTries, heard : {"none", "pass", "fail"}]
NoJob == [kind |-> "none", at |-> "none", ext |-> None, row |-> "live", tries |-> 0,
          heard |-> "none"]

TypeOK ==
    /\ status \in Statuses
    /\ quoted \in BOOLEAN
    /\ externalId \in External \cup {None}
    /\ metrics \in {"none", "pass", "fail"}
    /\ profile \in {"none", "ready", "experimental"}
    /\ asked \in [Requests -> Actions \cup {"none"}]
    /\ committed \in SUBSET Requests
    /\ job \in [Jobs -> Job \cup {NoJob}]
    /\ polled \in SUBSET External
    /\ ext \in [External -> {"unused", "running", "completed", "failed", "cancelled"}]
    /\ report \in [External -> Reports \cup {"none"}]
    /\ confirmations \in Nat
    /\ lost \in BOOLEAN
    /\ said \in [External -> SUBSET Reports]
    /\ forgotten \in SUBSET External
    /\ requests \in 0..MaxRequests
    /\ crashes \in 0..MaxCrashes
    /\ dropped \in 0..MaxDropped

Idle ==
    /\ asked = [r \in Requests |-> "none"]
    /\ committed = {}
    /\ job = [j \in Jobs |-> NoJob]
    /\ polled = {}
    /\ confirmations = 0
    /\ lost = FALSE
    /\ said = [x \in External |-> {report[x]} \ {"none"}]
    /\ forgotten = {}
    /\ requests = 0 /\ crashes = 0 /\ dropped = 0

\* create_training_run: an approved dataset is all it takes.
Created ==
    /\ status = "approved"
    /\ quoted = FALSE
    /\ externalId = None
    /\ metrics = "none"
    /\ profile = "none"
    /\ ext = [x \in External |-> "unused"]
    /\ report = [x \in External |-> "none"]

\* import_training_run: a run that was completed, or deployed, elsewhere; to be
\* deployed it must have passed the gates or be flagged as experimental.  The
\* metrics are the caller's, FreeSOLO may report others.
Imported ==
    \E x \in External, m \in (Reports \cup {"none"}) \ {"malformed"},
       reported \in Reports \cup {"none"} :
        /\ externalId = x
        /\ ext = [y \in External |-> IF y = x THEN "completed" ELSE "unused"]
        /\ report = [y \in External |-> IF y = x THEN reported ELSE "none"]
        /\ metrics = m
        /\ quoted = FALSE
        /\ \/ status = "completed" /\ profile = "none"
           \/ status = "deployed" /\ profile = "ready" /\ m = "pass"
           \/ status = "deployed" /\ profile = "experimental"

Init == (Created \/ Imported) /\ Idle
-----------------------------------------------------------------------------
(* Requests.                                                               *)

\* Mutant: deploying does not look at the gates.
MayAskUngated(act) ==
    CASE act = "validate" -> status = "approved"
      [] act = "revalidate" -> status \in {"validating", "queued"}
      [] act = "launch" -> status = "queued" /\ quoted
      [] act = "cancel" -> status \in {"training", "evaluating", "deploying"}
      [] act = "evaluate" -> status \in {"training", "completed", "deployed"}
      [] act = "deploy" -> status = "completed"
      [] act = "deploy_experimental" -> status = "completed"
      [] act = "export" -> status \in {"completed", "deployed"}

\* The checks of launch_training_run (validation and, with confirm=true, the
\* launch itself), cancel_, evaluate_, deploy_ and export_training_run.
MayAsk(act) ==
    CASE act = "validate" -> status = "approved"
      [] act = "revalidate" -> status \in {"validating", "queued"}
      [] act = "launch" -> status = "queued" /\ quoted
      [] act = "cancel" -> status \in {"training", "evaluating", "deploying"}
      [] act = "evaluate" -> status \in {"training", "completed", "deployed"}
      [] act = "deploy" -> status = "completed" /\ metrics = "pass"
      [] act = "deploy_experimental" -> status = "completed"
      [] act = "export" -> status \in {"completed", "deployed"}

\* The status a request commits; validating a run that is being or has been
\* validated, and exporting, leave it alone.
Target(act) ==
    CASE act = "validate" -> "validating"
      [] act = "launch" -> "training"
      [] act = "cancel" -> "cancelling"
      [] act = "evaluate" -> "evaluating"
      [] act \in {"deploy", "deploy_experimental"} -> "deploying"
      [] act \in {"revalidate", "export"} -> status

KindOf(act) == IF act = "revalidate" THEN "validate" ELSE act

\* The request reads the run and its checks pass.
Ask(r, act) ==
    /\ asked[r] = "none"
    /\ requests < MaxRequests
    /\ MayAsk(act)
    /\ requests' = requests + 1
    /\ asked' = [asked EXCEPT ![r] = act]
    /\ UNCHANGED <<rowVars, committed, jobVars, extVars, confirmations, lost, said,
                   forgotten, crashes, dropped>>

\* It commits the new status, whatever the row says by now.
Commit(r) ==
    /\ asked[r] # "none"
    /\ r \notin committed
    /\ status' = Target(asked[r])
    /\ committed' = committed \cup {r}
    /\ confirmations' = IF asked[r] = "launch" THEN confirmations + 1 ELSE confirmations
    /\ UNCHANGED <<quoted, externalId, metrics, profile, asked, jobVars, extVars, lost,
                   said, forgotten, requests, crashes, dropped>>

\* A job in the queue: nothing it did before is left but the retries.
Queued(kind, tries) ==
    [kind |-> kind, at |-> "queued", ext |-> None, row |-> "live", tries |-> tries,
     heard |-> "none"]

Enqueued(j, kind) ==
    /\ job[j] = NoJob
    /\ job' = [job EXCEPT ![j] = Queued(kind, 0)]

EndRequest(r) ==
    /\ asked' = [asked EXCEPT ![r] = "none"]
    /\ committed' = committed \ {r}

\* Its job is inserted.
EnqueueJob(r) ==
    /\ r \in committed
    /\ \E j \in Jobs : Enqueued(j, KindOf(asked[r]))
    /\ EndRequest(r)
    /\ UNCHANGED <<rowVars, polled, extVars, boundVars>>

\* The gateway dies before it inserts the job, or _enqueue_job refuses the
\* Idempotency-Key (409) or finds the job of an earlier request under it.
DropRequest(r) ==
    /\ r \in committed
    /\ dropped < MaxDropped
    /\ dropped' = dropped + 1
    /\ lost' = TRUE
    /\ EndRequest(r)
    /\ UNCHANGED <<rowVars, jobVars, extVars, confirmations, said, forgotten, requests,
                   crashes>>
-----------------------------------------------------------------------------
(* Jobs.                                                                   *)

At(j, kinds, stage) == job[j].kind \in kinds /\ job[j].at = stage
Move(j, stage) == job' = [job EXCEPT ![j].at = stage]

\* The handler goes on to a stage with the run at FreeSOLO it is about.
Noted(q, stage, x) == [q EXCEPT !.at = stage, !.ext = x]
Note(j, stage, x) == job' = [job EXCEPT ![j] = Noted(@, stage, x)]

Busy == {j \in Jobs : job[j].at \notin {"none", "queued"}}

\* What a handler demands of the run when it starts.
Runnable(kind) ==
    /\ kind = "validate" => status \in {"validating", "queued"}
    /\ kind = "launch" => status = "training"
    /\ kind \in {"poll", "evaluate", "export", "deploy", "deploy_experimental"} =>
           externalId # None
    /\ kind \in {"deploy", "deploy_experimental"} => status = "deploying"

\* The handler reads the run; without what it demands the job fails for good.
Start(j) ==
    /\ job[j].at = "queued"
    /\ Cardinality(Busy) < Workers
    /\ Note(j, IF Runnable(job[j].kind) THEN "started" ELSE "failing", externalId)
    /\ UNCHANGED <<rowVars, requestVars, polled, extVars, boundVars>>

\* Mutant: the errors are not counted against the retries.
RetriedForEver(j) ==
    job' = [job EXCEPT ![j] = Queued(@.kind, @.tries + 1)]

\* _fail_or_retry: back in the queue, or failed; either way a cancellation
\* that was written to the row in the meantime is forgotten.
Retried(j) ==
    job' = [job EXCEPT ![j] =
              IF @.tries < MaxTries
              THEN Queued(@.kind, @.tries + 1)
              ELSE [@ EXCEPT !.at = "failing"]]

InHandler(j) == job[j].at \in {"started", "launched", "stored", "heard", "called"}

\* The runs that only the launches among some jobs know of.
Unstored(js) == {job[j].ext : j \in {k \in js : job[k].at = "launched"}}

\* A command fails, or its output makes no sense; or an event cannot be
\* written or published once the handler's work is committed.
FailJob(j, permanent) ==
    /\ InHandler(j) \/ (job[j].at = "done" /\ ~permanent)
    /\ IF permanent THEN Move(j, "failing") ELSE Retried(j)
    /\ forgotten' = forgotten \cup Unstored({j})
    /\ UNCHANGED <<rowVars, requestVars, polled, extVars, confirmations, lost, said,
                   requests, crashes, dropped>>

\* _set_domain_failure.
SetDomainFailure(j) ==
    /\ job[j].at = "failing"
    /\ status' = IF status \in {"cancelled", "deployed", "exported"} THEN status ELSE "failed"
    /\ job' = [job EXCEPT ![j] = NoJob]
    /\ UNCHANGED <<quoted, externalId, metrics, profile, requestVars, polled, extVars,
                   boundVars>>

\* The handler is through and _finish_job completes the row.
Finish(j) ==
    /\ job[j].at = "done"
    /\ job' = [job EXCEPT ![j] = NoJob]
    /\ UNCHANGED <<rowVars, requestVars, polled, extVars, boundVars>>

\* The worker dies: the job it runs is redelivered, unless its row is settled.
Crash ==
    /\ crashes < MaxCrashes
    /\ crashes' = crashes + 1
    /\ \E j \in Busy :
         /\ job' = [job EXCEPT
                      ![j] = IF @.row = "cancelled" \/ @.at = "failing" THEN NoJob
                             ELSE Queued(@.kind, @.tries)]
         /\ lost' = (lost \/ job[j].at = "failing")
         /\ forgotten' = forgotten \cup Unstored({j})
    /\ UNCHANGED <<rowVars, requestVars, polled, extVars, confirmations, said, requests,
                   dropped>>
-----------------------------------------------------------------------------
(* Handlers.                                                               *)

\* handle_training_validate: dry-run and quote succeeded.
FinishValidate(j) ==
    /\ At(j, {"validate"}, "started")
    /\ quoted' = TRUE
    /\ status' = "queued"
    /\ Move(j, "done")
    /\ UNCHANGED <<externalId, metrics, profile, requestVars, polled, extVars, boundVars>>

\* handle_training_launch: FreeSOLO starts a run and answers with its id, ...
Launch(j, x) ==
    /\ At(j, {"launch"}, "started")
    /\ ext[x] = "unused"
    /\ ext' = [ext EXCEPT ![x] = "running"]
    /\ Note(j, "launched", x)
    /\ UNCHANGED <<rowVars, requestVars, polled, report, boundVars>>

\* ... or it starts one and the answer is late (the command is not stopped by
\* its timeout) or has no id in it.
LaunchUnheard(j, x, permanent) ==
    /\ At(j, {"launch"}, "started")
    /\ ext[x] = "unused"
    /\ ext' = [ext EXCEPT ![x] = "running"]
    /\ IF permanent THEN Move(j, "failing") ELSE Retried(j)
    /\ forgotten' = forgotten \cup {x}
    /\ UNCHANGED <<rowVars, requestVars, polled, report, confirmations, lost, said,
                   requests, crashes, dropped>>

StoreLaunch(j) ==
    /\ At(j, {"launch"}, "launched")
    /\ externalId' = job[j].ext
    /\ forgotten' = forgotten \cup ({externalId} \ {None})
    /\ Move(j, "stored")
    /\ UNCHANGED <<status, quoted, metrics, profile, requestVars, polled, extVars,
                   confirmations, lost, said, requests, crashes, dropped>>

\* Mutant: the launch ends without a poll.
EnqueuePollNever(j) ==
    /\ At(j, {"launch"}, "stored")
    /\ Move(j, "done")
    /\ UNCHANGED <<rowVars, requestVars, polled, extVars, boundVars>>

\* _enqueue_poll: one poll per run at FreeSOLO.
EnqueuePoll(j) ==
    /\ At(j, {"launch"}, "stored")
    /\ polled' = polled \cup {job[j].ext}
    /\ IF job[j].ext \in polled
       THEN Move(j, "done")
       ELSE \E k \in Jobs :
              /\ job[k] = NoJob
              /\ job' = [job EXCEPT ![j].at = "done",
                                    ![k] = Queued("poll", 0)]
    /\ UNCHANGED <<rowVars, requestVars, extVars, boundVars>>

\* handle_training_poll, by what FreeSOLO says of the run.
PollRunning(j) ==
    /\ At(j, {"poll"}, "started")
    /\ ext[job[j].ext] = "running"
    /\ job' = [job EXCEPT ![j] = Queued("poll", @.tries)]
    /\ UNCHANGED <<rowVars, requestVars, polled, extVars, boundVars>>

PollFailed(j) ==
    /\ At(j, {"poll"}, "started")
    /\ ext[job[j].ext] = "failed"
    /\ Move(j, "failing")
    /\ UNCHANGED <<rowVars, requestVars, polled, extVars, boundVars>>

PollCancelled(j) ==
    /\ At(j, {"poll"}, "started")
    /\ ext[job[j].ext] = "cancelled"
    /\ status' = "cancelled"
    /\ Move(j, "done")
    /\ UNCHANGED <<quoted, externalId, metrics, profile, requestVars, polled, extVars,
                   boundVars>>

\* Metrics that are not an object leave the run "evaluating".
PollCompleted(j) ==
    /\ At(j, {"poll"}, "started")
    /\ ext[job[j].ext] = "completed"
    /\ LET m == report[job[j].ext]
       IN /\ status' = IF m = "malformed" THEN "evaluating" ELSE "completed"
          /\ metrics' = IF m \in {"pass", "fail"} THEN m ELSE metrics
    /\ Move(j, "done")
    /\ UNCHANGED <<quoted, externalId, profile, requestVars, polled, extVars, boundVars>>

\* handle_training_evaluate: what FreeSOLO reports by now, of a run in whatever
\* state, is heard, ...
HearReport(j) ==
    /\ At(j, {"evaluate"}, "started")
    /\ LET m == report[job[j].ext]
       IN IF m \in {"pass", "fail"}
          THEN job' = [job EXCEPT ![j].at = "heard", ![j].heard = m]
          ELSE Move(j, "failing")
    /\ UNCHANGED <<rowVars, requestVars, polled, extVars, boundVars>>

\* ... and written, whatever is reported then.
FinishEvaluate(j) ==
    /\ At(j, {"evaluate"}, "heard")
    /\ status' = "completed"
    /\ metrics' = job[j].heard
    /\ Move(j, "done")
    /\ UNCHANGED <<quoted, externalId, profile, requestVars, polled, extVars, boundVars>>

\* handle_training_deploy: the endpoint is registered for the profile.  It is
\* FreeSOLO that deploys, and exports, only what was trained to its end.
FinishDeploy(j) ==
    /\ At(j, {"deploy", "deploy_experimental"}, "started")
    /\ ext[job[j].ext] = "completed"
    /\ status' = "deployed"
    /\ profile' = IF job[j].kind = "deploy" THEN "ready" ELSE "experimental"
    /\ Move(j, "done")
    /\ UNCHANGED <<quoted, externalId, metrics, requestVars, polled, extVars, boundVars>>

\* handle_training_export.
FinishExport(j) ==
    /\ At(j, {"export"}, "started")
    /\ ext[job[j].ext] = "completed"
    /\ status' = "exported"
    /\ Move(j, "done")
    /\ UNCHANGED <<quoted, externalId, metrics, profile, requestVars, polled, extVars,
                   boundVars>>

\* Mutant: the row is written before the run at FreeSOLO is stopped.
CallCancelLater(j) ==
    /\ At(j, {"cancel"}, "started")
    /\ Move(j, "called")
    /\ UNCHANGED <<rowVars, requestVars, polled, extVars, boundVars>>

\* handle_training_cancel: the run at FreeSOLO is cancelled, if there is one, ...
CallCancel(j) ==
    /\ At(j, {"cancel"}, "started")
    /\ ext' = [x \in External |-> IF x = job[j].ext /\ ext[x] = "running"
                                  THEN "cancelled" ELSE ext[x]]
    /\ Move(j, "called")
    /\ UNCHANGED <<rowVars, requestVars, polled, report, boundVars>>

\* ... then the row, and with it the polls that are not settled.
FinishCancel(j) ==
    /\ At(j, {"cancel"}, "called")
    /\ status' = "cancelled"
    /\ job' = [k \in Jobs |->
                 IF k = j THEN [job[k] EXCEPT !.at = "done"]
                 ELSE IF At(k, {"poll"}, "queued") THEN NoJob
                 ELSE IF job[k].kind = "poll" /\ job[k].at \in {"started", "done"}
                      THEN [job[k] EXCEPT !.row = "cancelled"]
                 ELSE job[k]]
    /\ UNCHANGED <<quoted, externalId, metrics, profile, requestVars, polled, extVars,
                   boundVars>>

\* A run at FreeSOLO reports something.
Report(x, m) ==
    /\ report' = [report EXCEPT ![x] = m]
    /\ said' = [said EXCEPT ![x] = @ \cup {m}]

\* FreeSOLO gets on with a run: it reports metrics while it is going, ...
ExternalReports(x, m) ==
    /\ ext[x] = "running"
    /\ Report(x, m)
    /\ UNCHANGED <<rowVars, requestVars, jobVars, ext, confirmations, lost, forgotten,
                   requests, crashes, dropped>>

\* ... and what it reports at its end is final.
ExternalEnds(x) ==
    /\ ext[x] = "running"
    /\ \/ /\ ext' = [ext EXCEPT ![x] = "completed"]
          /\ UNCHANGED <<report, said>> \/ \E m \in Reports : Report(x, m)
       \/ /\ ext' = [ext EXCEPT ![x] = "failed"]
          /\ UNCHANGED <<report, said>>
    /\ UNCHANGED <<rowVars, requestVars, jobVars, confirmations, lost, forgotten, requests,
                   crashes, dropped>>
-----------------------------------------------------------------------------
Request(r) == (\E act \in Actions : Ask(r, act)) \/ Commit(r) \/ EnqueueJob(r) \/ DropRequest(r)

Handle(j) ==
    \/ \E permanent \in BOOLEAN : FailJob(j, permanent)
    \/ SetDomainFailure(j) \/ Finish(j)
    \/ FinishValidate(j)
    \/ \E x \in External : Launch(j, x)
    \/ \E x \in External, permanent \in BOOLEAN : LaunchUnheard(j, x, permanent)
    \/ StoreLaunch(j) \/ EnqueuePoll(j)
    \/ PollRunning(j) \/ PollFailed(j) \/ PollCancelled(j) \/ PollCompleted(j)
    \/ HearReport(j) \/ FinishEvaluate(j) \/ FinishDeploy(j) \/ FinishExport(j)
    \/ CallCancel(j) \/ FinishCancel(j)

Next ==
    \/ \E r \in Requests : Request(r)
    \/ \E j \in Jobs : Start(j) \/ Handle(j)
    \/ Crash
    \/ \E x \in External : ExternalEnds(x) \/ \E m \in Reports : ExternalReports(x, m)

Spec == Init /\ [][Next]_vars

\* Requests end, every delivered job is taken by a worker sooner or later and
\* its handler returns, and a run at FreeSOLO does not go on for ever.
Fairness ==
    /\ \A r \in Requests : WF_vars(Commit(r)) /\ WF_vars(EnqueueJob(r) \/ DropRequest(r))
    /\ \A j \in Jobs : SF_vars(Start(j)) /\ WF_vars(Handle(j))
    /\ \A x \in External : WF_vars(ExternalEnds(x))

FairSpec == Spec /\ Fairness
-----------------------------------------------------------------------------
(* Properties.                                                             *)

\* "A launch requires ... a current quote ... and an explicit confirmation":
\* whatever requests, retries and late writes overlap, nothing is started at
\* FreeSOLO for a run that was not quoted and confirmed.
StartsAreConfirmed ==
    [][\A x \in External :
         ext[x] = "unused" /\ ext'[x] = "running" => quoted /\ confirmations > 0]_vars

\* Deploying "still enforces evaluation gates": to who pays and to who is served,
\* whatever overlaps, is retried or delivered twice, the run keeps its contract:
\* only what was quoted and confirmed is started, what was started ends once,
\* and a profile becomes ready only when a start was trained to its end and a
\* start was reported to pass (handlers.py:550-558 takes a report at any time).
IsImported == ~quoted /\ externalId # None

Contract == INSTANCE TrainingContract
    WITH imported <- IsImported, confirmed <- confirmations > 0, runs <- ext,
         serving <- profile

ImplementsContract == Contract!Spec

\* The gates hold when the profile becomes ready, not only when the request
\* checked them.
ReadyHasPassed == [][profile' = "ready" /\ profile # "ready" => metrics = "pass"]_vars

\* The kinds of job a run in each passing status waits for.
Awaited == [validating |-> {"validate"}, training |-> {"launch", "poll"},
            evaluating |-> {"evaluate"},
            deploying |-> {"deploy", "deploy_experimental"},
            cancelling |-> {"cancel"}]

Owed(kinds) == \/ \E r \in committed : KindOf(asked[r]) \in kinds
               \/ \E j \in Jobs : job[j].kind \in kinds /\ job[j].at # "done"

StatusHasWork == \A s \in DOMAIN Awaited : status = s => Owed(Awaited[s])

\* A run in a passing status is never left there by everybody: the job that
\* will move it on exists, or is about to, unless one was lost between two
\* transactions.  The handlers' blind writes do not strand a run.
WaitingHasWork == lost \/ StatusHasWork

\* What goes on at FreeSOLO after a run was cancelled is only what the program
\* does not know of: a launch that was answered too late, or not stored before
\* its worker failed, or whose id a later launch replaced.  Whatever launches,
\* polls and retries overlap with the cancellation, nothing else goes on.
CancelledIsStopped ==
    status = "cancelled" => \A x \in External : ext[x] = "running" => x \in forgotten

\* A run does not stay for ever in a passing status.
Passing == status \in DOMAIN Awaited
RunSettles == Passing ~> ~Passing

\* "An explicit confirmation" for every run that is started and paid for.
OneStartPerConfirmation ==
    quoted => Cardinality({x \in External : ext[x] # "unused"}) <= confirmations
=============================================================================
