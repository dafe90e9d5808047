# EcoRoute: models, checks and proofs

EcoRoute is a gateway for OpenAI-compatible chat completions that routes each request by carbon,
cost, latency and quality, answers from a cache where it may, generates datasets for and trains
small specialized models through an external service (FreeSOLO), and tunes the hosts that serve
models through a node agent. Its own code is a FastAPI service (`services/gateway/ecoroute`), a
worker (`services/worker/ecoroute_worker`), an agent (`services/node-agent/ecoroute_agent`), and
PostgreSQL and Redis between them.

This directory holds TLA+ modules translated from that code, TLC configurations that check small
instances, and proofs checked by TLAPS. Paths below are relative to `src/`; `gateway/`, `worker/`
and `node-agent/` stand for `services/gateway/ecoroute/`, `services/worker/ecoroute_worker/` and
`services/node-agent/ecoroute_agent/`.

Run `tlc -config X.cfg M` for a configuration `X.cfg` and its module `M` (table under
[Runs](#runs)), and `tlapm M.tla` for a module that ends in `Proofs`. `PROJECT.json` lists
components, runs, the code behind every definition, findings, hazards and theorems.

## Inventory

### Components, their state and their operations

| component | state | operations | what is hard about it |
|---|---|---|---|
| **Job queue** `worker/main.py`, `_enqueue_job` in `gateway/api/control.py` | rows of `jobs` (status, attempts, available_at, locked_at); Redis stream `ecoroute:jobs` with a consumer group and its pending list; per worker a batch and a current entry | insert a row and announce its id; scan for due rows, publish them, claim idle entries, read new ones; execute, finish, defer, retry, fail, acknowledge; cancel | rows and stream are two stores without a common transaction; workers overlap, crash, and claim each other's entries; retries meet older entries of the same job |
| **Training runs** `gateway/api/control.py` 2880-3190, `worker/jobs/handlers.py` 257-742 | one row per run with a declared state machine, quote, external id, metrics; the SLM profile it serves; runs that exist at FreeSOLO | create, import, validate, launch (with confirmation), poll, evaluate, deploy, export, cancel | a request checks a status and commits another one later; handlers call a service that costs money, time out, are retried, and write without looking again |
| **Node agent transactions** `node-agent/controls/transaction.py`, `controls/host.py` | settings of the host; a snapshot file; the profile the agent reports | apply a profile control by control, roll back on failure, restore on request, guardrail, shutdown or restart | the agent may die between any two writes; rollbacks may fail; approvals change between starts |
| **Response cache** `gateway/cache/service.py`, invalidation in `control.py` 1918-2030, cleanup in `handlers.py` 864-947 | rows of `cache_entries` and the Redis value of each fingerprint | look up, store, re-set, replace an expired row, invalidate one or many, clean up and evict | each operation writes both stores, Redis in the middle of its transaction |
| **Gateway requests** `gateway/api/gateway.py`, `routing/engine.py`, `providers/openai_compatible.py` | audit row, attempts, impact; slots per endpoint; permits for streams | classify, select, call, fall back once, verify, commit, stream | providers fail or stay silent, clients leave, streams end in a dozen ways after their row was committed, slots and permits must come back |
| **Datasets** `control.py` 2179-2751, `handlers.py` 118-254, `gemini/generator.py` | datasets with status, count, manifest; their examples | generate, import, edit in place or in a clone, approve, fail | edits and approvals overlap; generations are redelivered and overlap with themselves; approved datasets are to be immutable |
| **Agent loop and benchmarks** `real_main.py` 395-778, `node-agent/main.py`, `control.py` 3641-4120 and 4578-5002, `handle_demo_load` | desired profile and version, applied version, pending events; benchmarks and their jobs; the endpoint's concurrency target | register, heartbeat, apply, guardrail, roll back, benchmark, sample, complete, fail, cancel | rollbacks in the middle of a measured phase; versions incremented without a lock; calls given up by the agent and handled all the same |
| **Routing catalogue** `control.py` 953-1445 and 2024-2175, `_load_context` in `gateway.py` | endpoints, logical models with pools and roles, policies with `namespace_version` in their JSON, SLM profiles | create, edit, delete, clone, activate | references between rows are checked in one transaction and relied on in another; a read-modify-write decides which cached answers stay reachable |
| Endpoint health `handlers.py` 745-800 | success and failure streaks in Redis, state of the endpoint | probe | several commands per streak |
| Classification, safety, verification; scores and impact; carbon readings; provider adapters; event stream; the rest of the control API; reports and retention; collectors and simulator; start-up and schema; kernel lab; user interfaces; scripts, infrastructure and training material | little or none that others decide on | | pure functions of text or floating-point numbers, input and output, or single transactions |

### How they interact

* The **control API** writes rows of datasets, training runs and benchmarks and enqueues jobs for
  them; the **worker** executes the jobs and writes the same rows. They share PostgreSQL, not memory:
  every interaction is a pair of transactions of two processes.
* A **request** reads endpoints, policy and carbon readings, asks the **cache**, calls an endpoint
  through a **provider adapter** and stores the answer in the cache inside its own transaction.
* **Invalidation and cleanup** of the cache run in the gateway and in the worker.
* The **agent** polls the gateway with heartbeats; the gateway never calls the agent. What it did
  reaches the gateway as events and telemetry.
* **Events** for the control center are published to a Redis stream next to the transactions.

### What makes each component correct

* Job queue: a row that says running is executed by somebody or can be recovered; a settled job stays
  settled; every queued job settles; failures reach the domain object.
* Training runs: nothing starts unconfirmed, nothing is paid for twice, no run waits for a job that
  does not exist, a cancelled run is stopped.
* Agent transactions: what was changed can be changed back whatever failed or died, and the host is
  where the agent says it is.
* Cache: one active row per fingerprint; an invalidated answer is not served.
* Requests: what was answered is on record, no unverified output of a specialized model is streamed,
  calls are bounded, slots and permits come back, every request ends.
* Datasets: an approved dataset keeps its examples, which are those its manifest names; a generation is
  not forgotten and not mixed with another.
* Agent loop: a benchmark compares the host as it was with the host under the profile; an agent at rest
  has what is desired; what was rolled back stays off; a benchmark is completed on what was measured,
  and once it is over only who looked at it before changes it.
* Catalogue: every model can be routed with what its row refers to; after an edit of a profile no answer
  made under the old one is served.

`PROJECT.json` lists the hazards behind these, each at its line, with the properties that would notice,
and a note on what of it they do not.
Smaller ones are not on that list: the number of attempts also counts
deferrals (`worker/main.py:78`); FreeSOLO metrics that are truthy and not an object strand a run
(`handlers.py:530`); an expired row is deleted by the cleanup while a store replaces it
(`cache/service.py:169`); a bulk invalidation compares counts only (`control.py:1979`) and an eviction
counts while stores commit (`handlers.py:925`); a quality fallback without choices leaves no attempt
(`gateway.py:1482`); events precede their commit (`gateway.py:1636`); versions of datasets are taken from
a maximum, which a unique constraint guards (`control.py:2209`); health streaks are several commands
(`handlers.py:771`); the permit of an event stream is taken before its generator starts
(`control.py:884`); stream ids are compared as strings (`control.py:900`).

## Plan

The modules were written in this order, the parts that others rely on first:

1. `JobQueue` with its abstract specification `JobLifecycle`; `JobQueueProofs`.
2. `TrainingRun`, which uses the delivery guarantees of `JobQueue` as its own steps, with its abstract
   specification `TrainingContract`; `TrainingRunProofs`.
3. `ControlTransaction`; `ControlTransactionProofs`.
4. `ResponseCache`; `ResponseCacheProofs`.
5. `GatewayRequest` with `RequestAudit`; `GatewayRequestProofs`.
6. `Dataset` with `DatasetReview`, delivered like `TrainingRun` by what `JobLifecycle` promises;
   `DatasetProofs`.
7. `AgentLoop`, in which an application or a restore of `ControlTransaction` passes or fails as a whole:
   what its properties promise of a host whose transactions fail halfway is `ControlTransaction`'s part;
   with its abstract specification `BenchmarkContract`; `AgentLoopProofs`.
8. `Catalog`, whose namespaces are part of the keys of `ResponseCache`; `CatalogProofs`.

What is left, and would come next: an abstract specification of the cache as a register per key, of
which `OneActiveEntry` is the safety part. Endpoint health and the event stream are left out on purpose
(see [Not modelled](#not-modelled)).

## Modules

Definitions keep the names of the code where they can; a comment over each says what it stands for.
A definition marked `Mutant` is a slip the code could have: it is used by no specification, and a
property of the runs notices when it takes the place of the definition next to it.

### JobQueue and JobLifecycle

`status`, `attempts`, `due`, `locked` are the columns of a job's row; `due` and `locked` keep of a time
only the comparisons made with it. `domain` says, for a job of a dataset or training run (`Domained`),
whether `_set_domain_failure` would mark that as failed or leave it alone. `stream`, `pending`, `idle`
are the Redis stream, the pending list of the group and its entries idle for a minute. A worker has a
`phase` of its loop, the rows it has locked and not yet published, its `inbox` and the entry in `step`.

| code | actions |
|---|---|
| `_enqueue_job` (insert, commit, XADD) | `EnqueueJob`; `InsertJob` then `Announce` or, if the gateway dies, `AnnounceLost` |
| loop of `run`: `_enqueue_due_jobs`, `_recover_pending`, XREADGROUP | `EnqueueDueJobs`, `PublishDue`, `RecoverPending`, `ReadGroup` |
| `execute_job` | `SkipJob`, `PostponeJob`, `StartJob`; `FinishJob`, `DeferJob` or `FailJob` read the row, `CommitOutcome` writes it; `PublishEvent(Fails)`; `SetDomainFailure`, `MarkDomainFailed`; `Ack` |
| other requests and jobs about the dataset or run | `DomainSettles` |
| `_cancel_*` on jobs | `SelectForCancel`, `CancelJob`: the rows are read and written by two statements without a lock |

A transaction that locks its rows is one step (the scan, and the start of a job). One that reads a row
and writes it on commit is two: the cancellation, the outcome of a job, the failure of its dataset or
run. Such a commit writes the columns whose values it changed; `kept` are those it found at their new
value, so that it does not write them, whatever others have made of them meanwhile. `RecoverPending` may
run in any iteration (the code runs it in every sixth) and the scan's `LIMIT 100` is above every
instance.

`JobLifecycle` is the same queue without streams, locks or clocks: an at-least-once runner whose last
recorded outcome wins and whose settled jobs are final unless somebody still runs or cancels them.
`ImplementsLifecycle` says `JobQueue` implements it, with `runners` read off the workers' steps.

### TrainingRun and TrainingContract

One run, created or imported, its metrics and profile, and what exists at FreeSOLO (`ext`, `report`). A
request passes its checks (`Ask`), commits (`Commit`) and enqueues (`EnqueueJob`), or ends in between
(`DropRequest`). A job has a kind, a stage and the external run it was made for. Handlers with a call in
the middle are several actions: `Launch` (or `LaunchUnheard`, where FreeSOLO starts the run and the
answer is lost), `StoreLaunch`, `EnqueuePoll`; `HearReport`, `FinishEvaluate`; `CallCancel`,
`FinishCancel`; polls are one action per answer. Delivery is what the `JobQueue` proofs allow: at least
once, redelivered after a crash, retried after a transient error. FreeSOLO may report metrics, and
others later, while a run goes on, and an evaluation stores what it hears at any time, as
`handlers.py:550` does not ask for the run's state; what is reported at the end of a run is final. Of
metrics the model keeps whether they pass the gates.

Two histories say what the properties are about. `said` are all the reports of each start, and
`forgotten` the starts the program cannot name: their answer was lost or came too late, their worker
died before the id was stored, or a later launch replaced it. `CancelledIsStopped` says that whatever is
still running at FreeSOLO when the run is cancelled is one of those: the cancellation stops every start
it can know of, and the others it does not (hazards at `handlers.py:477` and `482`).

A job's `row` is its own status as a cancellation may have overwritten it; `at` is where its handler is.

`TrainingContract` is what is promised to who pays for a run and to who is served by it: only what was
quoted and confirmed is started, a start ends once and reports nothing after its end, and a profile
serves only when some start was trained to its end, as ready only if some start was reported to pass or
the run was imported. `ImplementsContract` says that `TrainingRun` implements it. The code does not
promise more of the gates: they are checked when deployment is asked for, and an evaluation that
overlaps may replace the metrics before the profile becomes ready (`TrainingRun_gates` below).

Known limit: metrics that are truthy and not an object strand a run.

### ControlTransaction

`host` is the setting each control stands at (the original one, that of a profile, or another), `file`
and `saved` the snapshot file, `approved` the controls of this process. `Apply`, `WriteSnapshot`,
`ApplyControl(Fails)`, `ApplyPasses`, `Undo(Raises)`, `ApplyFails` are `apply()`; `Restore`,
`RestoreControl(Raises)`, `EndRestore` are `restore()`; `Start`, `Stop`, `Crash` the process. A control
that failed is left half applied: at its plan or where it was. When the agent's loop applies and
restores is left open, which covers what the loop does; what it tells the gateway of it is `AgentLoop`'s
subject.

Controls differ in what `plan()`, `apply()`, `verify()` and `rollback()` of `host.py` do, and `KindOf`
says how:

| kind | in `host.py` | |
|---|---|---|
| `volatile` | gateway concurrency | lives in the agent and vanishes with it |
| `exact` | cgroup weights | is set to what the profile says |
| `priority` | nice and ionice | is only ever lowered: "balanced" after "eco" changes nothing, and verifies |
| `power` | NVML power limit | is a share of the limit the process found when it was built (`shifted` when that was not the original one) |
| `scheduler` | sched_ext | a process: "balanced" starts none, a second "eco" starts another one and forgets the first, only the process that holds it (`mine`) can end it |
| `polling` | NAPI | "balanced" does nothing, and verifies whatever there is |

`AnsweredIsApplied` therefore says what an answer is worth for each kind (`KeepsTo`), and both it and
`OriginalIsKnown` are about the settings the agent can put back itself (`Held`): a scheduler that
outlives the process that loaded it is undone by nobody (`ControlTransaction_supervised` below).

The code takes for granted, and does not check, that a file in use knows every approved control
(`FileCovers`); the properties are proved under it. The same approvals at every start imply it.

A snapshot file torn by a crash in `write_text` keeps the agent in its registration loop for ever:
these runs therefore do not check for deadlock. It is torn before anything was changed, so the host
stands at its originals; that the agent is stuck is noticed by no property here.

### ResponseCache

A key stands for workspace, namespace version and fingerprint. `row`, `key`, `expired` are the
committed table; `redis` the value of each key. `store_entry` is `LockAndRead` (under the advisory
lock), `ResetFound` or `RetireExpired` and `SetFresh`, and the commit of the request (`CommitStore`) or
its failure, which rolls back rows and leaves Redis. `ReadChosen`, `DeleteChosen`, `CommitChosen` are
an invalidation of one or many entries; `ReadExpired`, `DeleteKey`, `PurgeAndEvict`, `CommitCleanup` the
cleanup job. `LocksRow` says which uncommitted updates others wait for.

Multi-row updates are one step, a miss is possible while an entry id is unused, and the semantic
lookup (which reads active rows and counts hits), the preview count and retention are left out.

### GatewayRequest and RequestAudit

`pc` is where a request is; `draft` its row, attempts and impact as its session has them, `row` as
committed; `active` and `permits` are `EndpointLimiter` and `stream_connections`.

| code | actions |
|---|---|
| arrival, cache hit | `Receive`, `Hit`, `CommitHit` |
| `select_candidate` and the choice of a live stream | `Route`, `NoEndpoint`; `Reserved` is its rule that specialized endpoints are excluded unless the grid is dirty |
| `invoke`, `preflight_stream`, `EndpointLimiter.slot` | `Invoke`, `InvokeLate`, `Preflight`, `Deadline`, `Acquire`, `TimesOut`, `ProviderFails`, `ProviderAnswers` |
| transport and quality fallback | `CallFails`, `Rejected` (both over `MayFallBack`) |
| verification and commit | `Accepted`, `Rejected`, `Invalid`, `Commit`, or `Raise` for an exception nobody handles |
| `_stream_response`, `_completion_sse` | `Admit`, `Refuse`, `NeverStarts`, `Replay` |
| a connected client reads no more | `Stall` |
| `live_events` | `FirstChunk`, `StartStream`, `LeaveUpstream`, `DropStream`, `RecordEnd`, `RecordFails`, `CompleteStream`, `SendDone` |
| restart | `Crash` |

The fallback is fixed for all requests (it is a column of the logical model) and may be of any tier,
since an endpoint can be patched under a logical model that was validated. Scores are left open: any
endpoint `select_candidate` could prefer may be selected. The demo's forced quality failure is an
output that does not pass. Events, metrics and texts are left out, and the number of slots of an endpoint
is constant, while the agent may change its `concurrency_target` at run time.

A client may stay connected and stop reading (`Stall`): the generator is then suspended at a `yield`, and
the timeout at `gateway.py:1042`, which is about the next chunk of the upstream, does not end it. Such a
request keeps its slot and its permit for as long as its client likes. `RequestsEnd` exempts the request
whose own client has stalled and nobody else, so that it says of the others that they do not wait for it:
an endpoint without a free slot makes them time out.

The model keeps what the code does with rows it gives up: a live stream that is refused, never
iterated, dropped at a `yield`, whose final update fails, or that a restart cuts off, leaves its row
`routing`, and nothing looks for such rows afterwards. They are named in `abandoned`, so that
`StreamEndsAreRecorded` says these are the only ones. A response that is never iterated also keeps its
stream permit (`leaked`). A quality fallback that answers without choices leaves no attempt.

`RequestAudit` is what the trail owes a client and an auditor: a request is recorded once, or twice when
it is streamed, the second time only to say how the stream ended; who is told of a failure finds no
answer of a model recorded, and what was answered whole is recorded as completed with its impact and one
of the endpoints that were tried. `ImplementsAudit` maps the committed rows and what each client got to
it.

### Dataset and DatasetReview

`ds` and `ex` are the rows of datasets and examples, `job` the generation job of each dataset, `req` and
`att` the requests and the executions of jobs under way, with what each has read. A manifest is the set
of examples and contents it hashes.

| code | actions |
|---|---|
| `import_dataset` | `Import` |
| `generate_dataset` (commit, then the job) | `Generate`, `EnqueueJob` or `DropJob` |
| `patch_dataset_example` | `StartEdit`, `ReadExample`; `CommitEdit` in place, or `ReadSource` and `CommitClone` |
| `approve_dataset` | `StartApproval`, `ReadExamples`, `CommitApproval` |
| `handle_dataset_generate`, four transactions around the calls to Gemini | `StartJob`, `ReadDataset`, `CommitReset`, `GenerationFails`, `ReadAgain`, `CommitExamples`, `StoreFails`, `FinishJob`, `FinishFails` |
| `_fail_or_retry`, `_set_domain_failure` | `Refuse`, `Retry`, `FailJob`, `ReadForFailure`, `CommitFailure` |
| `export_dataset`, `_publish_training_environment` | read what `Used` says |

Transactions are split where they read and where they commit, as nothing is locked in between, and
`Written` is what SQLAlchemy does with a column: it is in the UPDATE when its new value differs from the
one read. `MaxOpen` bounds how many are open at once, of whichever datasets. Any of them may overlap,
also about one dataset, as nothing in the code prevents it. Two histories name what comes of that: a
transaction is `behind` when the dataset it is about has changed since it read it, and a dataset is
`crossed` when a transaction that was behind has changed it. What is promised of contents
(`UsedIsApproved`, `GeneratedOnce`, `DatasetReview`) excepts the datasets that were crossed, because
there the code does not keep it: an edit that was decided before an approval and committed after it
(`dataset_edits`), and two attempts that store after both read "generating". So these say that every
other overlap is harmless.

Delivery is `JobQueue`'s: an execution may start while another of the same job runs, or after its worker
died. What the worker records of a job is one step here and two in `JobQueue`. `JobsFollowQueue` says
that the job of a generation implements `JobLifecycle`, which `JobQueue` implements, so that the two
modules agree on how jobs are delivered. `FinishFails` is an error of `_finish_job` or `publish_event`
after the examples were stored: the job is tried again, the next try finds a dataset that is not being
generated, and marks it as failed while it is under review (`main.py:121-147`). `OnlyLaterTriesFail`
says that a first try never does.

`DatasetReview` is what is promised to who trains on a dataset: a version is drafted once, fails or is
approved, and what is used of an approved version is a constant that its manifest describes. Of a version
that was crossed nothing is promised but that the others are not touched by it (`ImplementsReview`).
`handle_dataset_finalize` is left out, as nothing enqueues its job.

### AgentLoop

`agent` is the agent's process and host, `reply` the heartbeat's answer, `task` its benchmark task;
`desired`, `limit`, `bench`, `job` are the gateway's rows, `call` the handlers at work with what they
read and who waits for them.

| code | actions |
|---|---|
| `desired_profile`, `cancel_benchmark`, `create_benchmark` | `AskProfile`, `CommitProfile`; `AskCancel`, `CommitCancel`; `Create`, `EnqueueJob` or `DropJob` |
| `handle_demo_load` | `TakeJob`, `CommitAssign` (real agent); `CommitSimulate`, `ReadResult`, `CommitResult` (simulator) |
| loop of `real_main.py` (for a simulator, `main.py`) | `Register`, `Reap`, `Heartbeat`, `Handle`, `LoseHeartbeat`, `PostEvent`, `AllPosted`, `HealthRollback`, `Crash` |
| `_run_benchmark`, `_benchmark_phase` | `Begin`, `EndBaseline`, `ApplyProfile`, `EndOptimized`, `Undo`, `Report`, `Post`, `Refused` |
| `agent_event`, `agent_benchmark_sample` | `CommitEvent`, `CommitSample`, `CommitOutcome` |
| the agent's HTTP client gives up, or the call is lost | `Abandon` |

A call that is given up is handled all the same unless it was lost. Mishaps (a lost call, an application
or a restore that fails, a rollback of the agent's own, a death) are counted together. The two sides of
a guardrail are both possible whenever the code looks, since what it compares is measured. Left out:
telemetry and its sequence numbers, the numbers a benchmark compares, and the samples of a batch running
in parallel (they are taken one by one).

`BenchmarkContract` is what a benchmark promises to who reads its comparison. It knows statuses, what
has been decided of them and is still to be written, and one attempt at a time with the phases it has
measured; it knows no calls, heartbeats, jobs or files of originals. A decision is taken while the
status allows it and written later, whatever the status has become: handlers do not lock. "Completed" is
decided by an attempt that has measured both phases, in their order, each while the host stood where
that phase belongs. Who ends a benchmark asks for "observe" in the same step, under the next version.
`AgentLoop` implements it (`ImplementsContract`) with what a handler has read and will write as its
decision (`Decisions`), the task's benchmark as the attempt until the task is done (`Attempt`), a sample
the task waits for as `sampling`, and the phases behind the task as long as nothing has raised in it as
`measured` (`MeasuredPhases`). Three things are excepted, because the code does not promise them: a
phase measured after the host was changed under the task by the agent's own rollbacks or not restored
(`Spoiled`), the versions after two requests have taken one, and the statuses a simulator's job sets by
itself.

### Catalog

`endpoint`, `model`, `pool`, `namespace` and `edits` are committed rows, `answers` the cache as far as
namespaces decide about it, `tx` the requests under way with what they read and will write. A request
opens (it reads and is refused or decides) and commits, as in `Dataset`. `rows` of a request names the
rows its decision rests on, and `overtaken` that one was committed after another had changed such a row.

| code | actions |
|---|---|
| `create_endpoint`, `patch_endpoint`, `delete_endpoint` | `CreateEndpoint`; `PatchEndpoint`, `CommitPatch`; `DeleteEndpoint`, `CommitDelete` |
| `create_logical_model`, `patch_logical_model`, `_validate_logical_references` | `CreateModel`, `CommitModel`; `PatchModel`, `CommitModelPatch`; `Fits`, `Comparable` |
| `create_policy`, `clone_policy`, `activate_policy` | `CreatePolicy`, `ClonePolicy`, `ActivatePolicy`, `CommitActivation` |
| `patch_slm_profile` | `EditProfile`, `CommitEdit` |
| `_load_context`, and the answer's entry in the cache | `Load`, `Store` |

## Runs

| run | module, configuration | distinct states | what it shows |
|---|---|---|---|
| queue_safety | MCJobQueue, JobQueue_safety | 596,677 | two workers, a cancellable job, a crash: `TypeOK`, `RunningHasExecutor`, `ImplementsLifecycle` |
| queue_live | MCJobQueue, JobQueue_live | 47,840 | one worker, two crashes, a failed event, a job with a dataset or run: `RunningIsRecoverable`, `EveryJobSettles`, `FailureReachesDomain` |
| training_safety | MCTrainingRun, TrainingRun_safety | 1,378,846 | three requests, a crash, a lost request, a start at FreeSOLO that may report that it passes, or nothing: `TypeOK`, `WaitingHasWork`, `CancelledIsStopped`, `ImplementsContract` |
| training_live | MCTrainingRun, TrainingRun_live | 130,115 | two overlapping requests: `RunSettles` |
| control_safety | MCControlTransaction, ControlTransaction_safety | 1,204,495 | seven controls of all kinds, six approved, two crashes, two faults: `TypeOK`, `OriginalIsKnown`, `AnsweredIsApplied`, `HostIsRestored` |
| cache_entries | MCResponseCache, ResponseCache_entries | 102,986 | two requests, two keys, invalidation, cleanup: `TypeOK`, `OneActiveEntry`, `StaleIsDropped` |
| gateway_requests | MCGatewayRequest, GatewayRequest_requests | 162,801 | two requests on one slot per endpoint and one permit: `TypeOK`, `AnswersAreOnRecord`, `SpecializedIsVerified`, `CallsAreBounded`, `ResourcesAreReturned`, `StreamEndsAreRecorded`, `ImplementsAudit`, `RequestsEnd` |
| dataset_versions | MCDataset, Dataset_versions | 622,109 | two datasets, two attempts, any two transactions open at once, any two of an edit, an approval, a crash and a redelivery: `TypeOK`, `UsedIsApproved`, `GeneratedOnce`, `GeneratingHasWork`, `ImplementsReview`, `OnlyLaterTriesFail` |
| dataset_edits | MCDataset, Dataset_edits | counterexample | an edit overlaps with an approval and changes the approved dataset |
| agent_safety | MCAgentLoop, AgentLoop_safety | 709,807 | a profile asked for, a cancellation, one mishap at any point: `TypeOK`, `ComparisonIsFair`, `RolledBackStaysOff`, `AppliedIsDesired`, `ImplementsContract` |
| agent_restored | MCAgentLoop, AgentLoop_restored | counterexample | after a benchmark without any trouble the endpoint keeps the concurrency of its profile |
| catalog_references | MCCatalog, Catalog_references | 628,954 | five requests, two at a time: `TypeOK`, `ContextIsComplete`, `CurrentAnswers` |

These are the runs to repeat after a change. More configurations answer a question once and are run by
hand; the last five hold, the others end in the counterexample described:

| configuration | module | what it shows |
|---|---|---|
| TrainingRun_paid | MCTrainingRun | `OneStartPerConfirmation` fails: the launch command may time out after FreeSOLO has started the run; the job is retried and starts another one under the same confirmation (`worker/jobs/handlers.py:477`) |
| TrainingRun_gates | MCTrainingRun | `ReadyHasPassed` fails: an evaluation and a deployment are both asked for while the metrics pass; the evaluation stores metrics that fail, then the deployment makes the profile ready (`worker/jobs/handlers.py:647`), where the runbook has deployment enforce the gates (`docs/demo-runbook.md:104`) |
| ControlTransaction_supervised | MCControlTransaction | `EveryOriginalIsKnown`, which is `OriginalIsKnown` for schedulers as well, fails: `restore()` takes a rollback that returns for one that worked, although `SchedExtControl.rollback` may answer `passed=False`, and removes the file with the original (`node-agent/controls/transaction.py:85`) |
| ResponseCache_stale | MCResponseCache | `InvalidatedIsNotHit` fails: `store_entry` re-sets the Redis value of a row it read as active without locking it, so that an invalidation in between is undone in Redis until the next cleanup (`gateway/cache/service.py:156`) |
| GatewayRequest_timeout | MCGatewayRequest | `TimeoutFallsBack` fails: `invoke` measures one deadline for both attempts, so that a fallback after a timeout is recorded as failed and never called (`gateway/api/gateway.py:1265`) |
| Catalog_namespaces | MCCatalog | `EditsInvalidate` fails without any overlap: a clone keeps the namespace of its source (`control.py:1445`), an edit raises only the active one, and activating the clone later serves the answers of before |
| JobQueue_workers | MCJobQueue | two workers that skip each other's locked rows: `PendingHasHolder`, `EveryJobSettles` and `FailureReachesDomain` hold (284,384 states) |
| ControlTransaction_approvals | MCControlTransaction | controls are approved and withdrawn between starts, one is a scheduler: `OriginalIsKnown` and `AnsweredIsApplied` hold as long as `FileCovers` does (212,362 states) |
| Dataset_queue | MCDataset | two generations in any overlap, three open transactions: `JobsFollowQueue` holds (1,144,136 states) |
| Dataset_overlaps | MCDataset | two requests, four open transactions, a crash and a redelivery, one example with two contents: the invariants of `dataset_versions`, `ApprovedIsKept` and `OnlyLaterTriesFail` hold (1,346,635 states) |
| AgentLoop_live | MCAgentLoop | `BenchmarkSettles` holds with a cancellation and one mishap (131,505 states) |

### Findings

* `dataset_edits`: `patch_dataset_example` decides from the status it read, without a lock, that it may
  edit the dataset in place; when an approval commits before it does, an example of the approved dataset
  changes under the approved manifest (`control.py:2643`). The control center says that the approved
  version "will become read-only" (`SectionView.tsx:3034`).
* `agent_restored`: `agent_event` lets the endpoint's concurrency target follow the agent only for
  events of status `completed` (`control.py:4947`); the rollbacks after a benchmark, of a guardrail, of a
  hot GPU and of heartbeat loss are reported as `rolled_back`, so that the endpoint keeps the target of
  the profile. The runbook says the agent "restores" (`docs/demo-runbook.md:111`).

### Bounds, and why they are enough

* Queue: one cancellable job and two stream entries give duplicate entries of a job, which is what its
  hazards are about; two jobs share workers only through the batch, which `ReadCount` = 2 already
  fills. One retry and one deferral reach both sides of every comparison of `attempts`.
* Training: three requests cover every pair of overlapping requests with one more between them; two
  external runs are what a double start needs; three jobs let a launch, its poll and a cancellation
  overlap. Metrics that fail are in `TrainingRun_gates`, malformed ones in the proofs only, as they
  multiply the states. Symmetric sets are permuted only in runs without liveness.
* Control: one control of each kind is approved, in the order of `_build_controls`, and a second one of
  the exact kind is detected and not approved; two crashes allow one during the recovery from another.
* Datasets: a redelivered generation overlaps with the first one or follows its death; one dataset
  beside it takes a clone or an import. Two examples with two contents tell apart a rejected, an edited
  and an untouched one. Two open transactions are what an overlap needs; of edits, approvals, crashes and
  redeliveries any two occur together (`TwoEvents`), so that every pair of them meets at every point.
  `Dataset_overlaps` has four open transactions and all of these events, about a single example.
* Agent: two handlers at a time are what a lost update of a version, or a late sample, needs; `Strikes`
  is 2 where the code has 3, the count being the same. One profile is enough, as "observe" is the other
  setting; two pending events let the older one be dropped. One mishap is what each exception of the
  properties allows for.
* Catalogue: two endpoints can be swapped in the roles of a model; two policies, of which one admits a
  single endpoint, are what activating, cloning and going back need; five requests, two at a time, let
  two overlap after a second policy and a model were created and an answer given.
* Cache: two requests race for one key while the other key's entry fills the capacity of one.
* Requests: with one slot and one permit two requests already wait for, and refuse, each other. Two
  endpoints are one of each kind; that only the fallback is called besides the selected endpoint says
  something from three on, and is proved for any number.

### Fairness

* `JobQueue`: workers keep looping, handlers return, clocks advance; strong fairness for starting a job
  says that two workers do not lock each other's row for ever. Gateway and operators need not act.
* `TrainingRun`: requests end, a delivered job is taken sooner or later (strong, as its redelivery may
  come and go), its handler returns because every command of `freesolo/cli.py` has a timeout, and
  FreeSOLO ends a run.
* `ControlTransaction`: the service manager restarts the agent, and the calls of a transaction return.
* `ResponseCache`: transactions end and the periodic cleanup is run again; it does not fail for ever
  before it comes to the same entry.
* `AgentLoop` (`AgentLoop_live`): the agent's loop and its task go on, handlers end, the worker takes a
  queued job; strong fairness for the task and for finding a free handler says that neither the loop nor
  other calls push it aside for ever. Operators ask for nothing.
* `Dataset` and `Catalog` have safety properties only.
* `GatewayRequest`: the event loop serves every request and timers fire, and a client that reads gets
  what was sent. Providers, PostgreSQL and Redis are assumed to do nothing at all, and any client may
  stop reading (`Stall`). A stream sends finitely many chunks.

## Proofs

All constants are arbitrary but for the assumptions named in the modules (bounds are natural numbers,
`None` is no element, tiers are disjoint, sets that are counted are finite).

* **JobQueueProofs.** `TypeCorrect`; `RunningJobsAreExecuted`, `EntriesAreHeld` (the property of
  `JobQueue_workers`) and `EntriesHaveTheirRows`, each inductive over the types strengthened by "a
  worker in the middle of `execute_job` knows its entry". The first needs that a running row has
  somebody who will write its status (`WillSettle`): whose handler runs, or who is to commit an outcome
  and did not find the status at its new value. `QueueImplementsLifecycle`: every step of the queue is a
  step of `JobLifecycle` or leaves its variables alone; `SettledJobsStay` follows from it.
  `OneWorkerRecovers` assumes a single worker process, as deployed: then a pending entry of a running
  row is never acknowledged by anybody else, and the row keeps an entry that brings it back.
* **TrainingRunProofs.** `TypeCorrect` and `RunsAreConfirmed` for any number of requests, jobs and
  workers: a launch is only asked for with a quote and a confirmation, neither of which is ever taken
  back, so that the invariant is about the launches on their way (`Confirmed`). `RunsKeepTheContract` is
  the refinement of `TrainingContract`, step by step. It needs that who is past a check still knows what
  it rested on: a handler that asks FreeSOLO about a run has one (`ReadersKnow`), an imported run is
  never validated again (`ImportedIsTrained`), and passing metrics, like a deployment that was asked for
  on their strength, go back to a report that passed, which no later report takes back (`GatesHold`),
  whenever it was heard. `WaitingRunsAreNotForgotten` assumes that FreeSOLO sends no malformed metrics
  (a known way to strand a run); its invariant is that a run with an external id is polled (`RunsFit`)
  and that a run in a passing status has work of the kind it waits for that no cancellation has settled
  (`LiveInv`). `CancelledRunsAreStopped` assumes one worker, as deployed: then one handler at a time is
  busy, it is about the run the row names, and nobody cancels a run while it is being launched
  (`StopInv`). What goes on at FreeSOLO is what the row names, what a launch is about to store, or
  forgotten (`RunsAreKnown`).
* **DatasetProofs.** All of it is for any number of overlapping transactions, and assumes nothing.
  `TypeCorrect`. `GenerationIsNotForgotten` needs to know why an attempt that gives up its job leaves a
  dataset that is not generating: no transaction takes a dataset back to where it was (`PastStays`).
  `ApprovedStays` (`ApprovedIsKept`, which `Dataset_overlaps` checks), `ApprovedIsDescribed` and
  `OneAttemptIsStored` rest on what an open transaction has read of its dataset: it is still so unless
  the transaction is behind (`Current`), because a commit that changes the dataset puts the others
  behind (`StaysBehind`), and what one that is behind changes is crossed (`BehindCrosses`). The last of
  them also needs to know that a dataset has no examples until they are stored (`Single`), and that who
  stores them has read so (`ReadBlank`). `DatasetsImplementReview` puts them together as the refinement
  of `DatasetReview`. `FailureNeedsAnotherTry` rests on this: until the second try of a job, one attempt
  at most works for its dataset, which is being generated until that has stored the examples
  (`FirstTry`), and an approval is only under way after that (`Reviews`). `GenerationJobsFollowQueue` is
  the refinement of `JobLifecycle`: a generation is submitted before it is delivered, and its attempts
  are the runners of the abstract queue (`Submitted`).
* **ControlTransactionProofs.** `TypeCorrect`; `OriginalsAreKnown` and `TransactionsAreWhole`, for
  controls of any kinds, as long as a file in use covers the approved controls (`FileCovers`): otherwise
  it misses the originals of the new ones. `SameApprovalIsCurrent` derives that from approvals that are
  the same at every start. The inductive invariant says what file and host owe each other in each phase
  (`FileFits`), and which controls keep to which profile while one is applied and undone (`HostFits`).
* **ResponseCacheProofs.** `TypeCorrect`; `KeysHaveOneEntry`. The property alone is not inductive: a
  request about to insert must have seen every active row of its key (`NothingUnseen`), which rests on
  one request at a time being inside `store_entry` for a key (`Exclusive`).
* **GatewayRequestProofs.** Every safety property of `GatewayRequest` that its passing run checks, for
  any number of requests, endpoints, slots and permits. Its inductive invariant says of each request
  what its place promises (`Fits`): what its answer rests on (`AnswerFits`, `DraftFits`), that a live
  stream has no specialized endpoint to go to (`LiveFits`), which calls lie behind it (`CallsFit`), and
  where its row may still be "routing" (`EndFits`); a step of another request leaves all of it alone.
  `Slotted` and `Permitted` say that the two counters count, for which requests must be finitely many.
  `RowsAreAuditTrail` is the refinement of `RequestAudit`. Its invariant ties a session to the committed
  row (`RowFits`, `SessionFits`): a request that has not committed
  has no row, and the row of a stream under way is what its session has; what a client was told goes with
  the place of its request (`ToldFits`).
* **AgentLoopProofs.** Every property of `AgentLoop` that its passing run checks, and one more, for any
  number of handlers, benchmarks and mishaps. `TypeCorrect` needs to know who waits for which call: the
  loop and the task wait for one each, of the kind they make where they are (`Linked`). `Comparison` and
  `StaysOff` rest on what the host stands at in each phase of the task, and on the version the agent has
  rolled back (`HostInv`): while its file is missing the host is as it was, and a version that is active
  is newer than the one rolled back, unless a task is about to restore it. `Obedience` rests on
  `ObeyInv`, which is about the states in between: who ends a benchmark asks for another profile in the
  same transaction, so that a benchmark the agent was offered, or has a task for, is under way or there
  is a version to be applied. `Finality` (`TerminalIsFinal`, which no run repeats now that the contract
  has the decisions) follows from what each handler had read before it commits.
  `BenchmarksKeepTheContract` is the refinement of `BenchmarkContract`, with one lemma per action that
  says which of its steps it is. It needs that a sample or an event the task waits for is about the
  task's own benchmark, and made where the task is said to make it (`Tied`), and that who is about to
  ask for a profile has read the version that is desired, or an earlier one, in which case two take one
  (`Current`).
* **CatalogProofs.** `TypeCorrect`; `ModelsAreComplete` and `AnswersAreCurrent`, for any number of
  requests under way and finitely many models. Both rest on what a request that is not behind has read:
  it still holds (`Holds`), since a step changes only what lies in the rows it writes (`Tells`), and a
  commit that writes them puts the request behind. From that, `Routable` is kept by every model for the
  first; for the second every answer, in the cache or on its way there, is dated by the content and the
  namespace it was given under (`Dated`), and the namespace of its model only grows.

Liveness under fairness is checked by TLC only, as the prover has no support for `ENABLED`:
`EveryJobSettles`, `FailureReachesDomain`, `RunSettles`, `HostIsRestored`, `StaleIsDropped`,
`RequestsEnd`, `BenchmarkSettles`. Every other property of a passing run is stated by a theorem, some
under the assumptions named above. `RunningIsRecoverable` is proved for one worker and does not hold for
more: a worker that skipped a locked row acknowledges its entry, and if the other one dies the row stays
running.

## Not modelled

* Text and arithmetic: classification, safety, verification, scores, impact, carbon. Their results are
  left open wherever they decide something, so that nothing above rests on them.
* Provider adapters beyond their slots, collectors, simulator, kernel lab, user interfaces, scripts:
  input and output.
* Of the agent's host: the readings of collectors, and the numbers of a benchmark and of a guardrail.
* Of the catalogue: creation of SLM profiles, versions of policy documents, calibration and health of an
  endpoint, the hosting routes of the demo, and the enabled flag of a model.
* Endpoint health: the streaks that decide between unknown, degraded, healthy and unhealthy are a
  heuristic that the next probe corrects; nothing promises what two probes at once yield, so there is
  nothing to check. `GatewayRequest` lets an endpoint be in any state.
* The event stream: what is published before its transaction commits may announce something that is
  rolled back; it is listed as a hazard.
