------------------------------ MODULE JobQueue ------------------------------
(***************************************************************************)
(* The durable job queue of EcoRoute (services/worker/ecoroute_worker/     *)
(* main.py and _enqueue_job in services/gateway/ecoroute/api/control.py).  *)
(*                                                                         *)
(* PostgreSQL is the authority: one row per job (status, attempts,         *)
(* available_at, locked_at).  Job ids are delivered to workers through the *)
(* Redis stream "ecoroute:jobs" and the consumer group "ecoroute-workers". *)
(* Every worker process runs one loop: it scans for due rows, reclaims     *)
(* entries idle for a minute, reads new entries, and executes and acks     *)
(* what it got one entry at a time.  A transaction that locks its rows is  *)
(* one step; one that reads a row and writes it on commit is two, and it   *)
(* writes only the columns it changed.  Workers, the control plane and     *)
(* crashes interleave there and between two transactions.                  *)
(*                                                                         *)
(* Clock readings are kept as what the code asks of them: a job is due     *)
(* (available_at <= now), its lock is fresh or stale (locked_at older than *)
(* five minutes), an entry is idle (min_idle_time of one minute).  The     *)
(* attempts counter is only compared with len(RETRY_SECONDS), so it stays  *)
(* at MaxRetries + 1 once it is there.                                     *)
(***************************************************************************)
EXTENDS Naturals, Sequences, FiniteSets, Functions

CONSTANTS
    Jobs,             \* rows of the jobs table, one per idempotency key
    Cancellable,      \* the rows someone may cancel: training.poll, demo.load
    Domained,         \* the rows of a dataset or training run: dataset.*, training.*
    Workers,          \* worker processes
    Ids,              \* bound: stream entry ids in use at one time
    None,             \* no entry
    MaxRetries,       \* len(RETRY_SECONDS)
    ReadCount,        \* count of XREADGROUP
    MaxCrashes,       \* bound: crashes of workers
    MaxDefers,        \* bound: how often a job's handler answers DeferredJob
    MaxEventFailures  \* bound: failures of publish_event after a finished job

Entry == [id : Ids, job : Jobs]

ASSUME CancellableAssumption == Cancellable \subseteq Jobs
ASSUME DomainedAssumption == Domained \subseteq Jobs
ASSUME NoneAssumption == None \notin Entry
ASSUME BoundsAssumption ==
    /\ MaxRetries \in Nat
    /\ ReadCount \in Nat \ {0}
    /\ MaxCrashes \in Nat
    /\ MaxDefers \in Nat
    /\ MaxEventFailures \in Nat

VARIABLES
    (* the jobs table *)
    status,         \* "absent" until the row is inserted
    attempts,
    due,            \* available_at <= now
    locked,         \* locked_at: "none", "fresh", or "stale" after 5 minutes
    domain,         \* of a Domained job: how its dataset or training run stands
    (* the stream and the consumer group's pending entries list *)
    stream,         \* entries no worker has read
    pending,        \* entries read and not acknowledged
    idle,           \* pending entries not delivered for a minute
    (* the control plane *)
    announcing,     \* rows committed by _enqueue_job whose XADD is to come
    cancelling,     \* rows read by a cancellation that has not committed yet
    (* the workers *)
    phase,          \* the next call of the loop of run()
    toPublish,      \* rows the scan has locked and not yet added to the stream
    inbox,          \* entries of the batch the worker holds
    cur,            \* the entry being executed
    step,           \* where execute_job stands
    kept,           \* columns an open transaction found at their new value
    (* history and bounds *)
    defers, crashes, eventFailures

rowVars == <<status, attempts, due, locked>>
redisVars == <<stream, pending, idle>>
workerVars == <<phase, toPublish, inbox, cur, step, kept>>
boundVars == <<defers, crashes, eventFailures>>
controlVars == <<announcing, cancelling>>
vars == <<rowVars, domain, redisVars, controlVars, workerVars, boundVars>>

\* What _set_domain_failure finds: "spared" is a state it leaves alone (an
\* approved dataset, a cancelled, deployed or exported run).  "unheard" is
\* history: a worker died between the job's failure and the domain's.
Domain == {"none", "working", "spared", "failed", "unheard"}

Status == {"absent", "queued", "running", "completed", "failed", "cancelled"}
Phase == {"scan", "publish", "recover", "read"}
\* The transactions of _finish_job, _defer_job and _fail_or_retry, between the
\* read of the row and the commit, and the status each of them gives the row.
Outcome == {"finish", "defer", "retry", "fail"}
NewStatus(o) == CASE o = "finish" -> "completed"
                  [] o = "fail" -> "failed"
                  [] OTHER -> "queued"
AfterOutcome(o) == CASE o = "finish" -> "event"
                     [] o = "fail" -> "domain"
                     [] OTHER -> "ack"

Step == {"idle", "handler", "event", "domain", "mark", "ack"} \cup Outcome
-----------------------------------------------------------------------------
(* Definitions under "Mutant" are plausible slips in the code: each stands *)
(* beside the definition it would replace, no specification uses it, and a *)
(* property of the runs is known to notice it.                             *)

\* Mutant: a failed job counts as unsettled.
SettledForgetsFailed == {"completed", "cancelled"}

\* The statuses execute_job refuses to run.
Settled == {"completed", "cancelled", "failed"}

\* A counter compared with MaxRetries only.
Bump(n) == IF n > MaxRetries THEN n ELSE n + 1

Held == UNION {inbox[w] : w \in Workers}

Entries == Range(stream) \cup pending \cup Held

\* The job ids on their way to a worker.
Handed == announcing \cup (UNION {toPublish[w] : w \in Workers})
             \cup {e.job : e \in Entries}

\* An id XADD may give to a new entry: ids of entries that are gone for
\* everyone are used again.
FreshId(i) == \A e \in Entries : e.id # i

\* BOUND: room for n more entries beside those the workers are publishing.
Room(n) ==
    LET used == {e.id : e \in Entries}
        coming == {p \in Workers \X Jobs : p[2] \in toPublish[p[1]]}
    IN Cardinality(used) + Cardinality(coming) + n <= Cardinality(Ids)

XAdd(j) == \E i \in Ids : /\ FreshId(i)
                          /\ stream' = Append(stream, [id |-> i, job |-> j])

TypeOK ==
    /\ status \in [Jobs -> Status]
    /\ attempts \in [Jobs -> 0..(MaxRetries + 1)]
    /\ due \in [Jobs -> BOOLEAN]
    /\ locked \in [Jobs -> {"none", "fresh", "stale"}]
    /\ domain \in [Jobs -> Domain]
    /\ stream \in Seq(Entry)
    /\ pending \in SUBSET Entry
    /\ idle \in SUBSET pending
    /\ announcing \in SUBSET Jobs
    /\ cancelling \in SUBSET Jobs
    /\ phase \in [Workers -> Phase]
    /\ toPublish \in [Workers -> SUBSET Jobs]
    /\ inbox \in [Workers -> SUBSET Entry]
    /\ cur \in [Workers -> Entry \cup {None}]
    /\ step \in [Workers -> Step]
    /\ kept \in [Workers -> SUBSET {"status", "locked"}]
    /\ defers \in [Jobs -> 0..MaxDefers]
    /\ crashes \in 0..MaxCrashes
    /\ eventFailures \in 0..MaxEventFailures

Init ==
    /\ status = [j \in Jobs |-> "absent"]
    /\ attempts = [j \in Jobs |-> 0]
    /\ due = [j \in Jobs |-> FALSE]
    /\ locked = [j \in Jobs |-> "none"]
    /\ domain = [j \in Jobs |-> IF j \in Domained THEN "working" ELSE "none"]
    /\ stream = << >>
    /\ pending = {}
    /\ idle = {}
    /\ announcing = {}
    /\ cancelling = {}
    /\ phase = [w \in Workers |-> "scan"]
    /\ toPublish = [w \in Workers |-> {}]
    /\ inbox = [w \in Workers |-> {}]
    /\ cur = [w \in Workers |-> None]
    /\ step = [w \in Workers |-> "idle"]
    /\ kept = [w \in Workers |-> {}]
    /\ defers = [j \in Jobs |-> 0]
    /\ crashes = 0
    /\ eventFailures = 0
-----------------------------------------------------------------------------
(* The control plane and the handlers that insert jobs.                    *)

\* Mutant: a status no other code knows.
InsertRowPending(j, isDue) ==
    /\ status[j] = "absent"
    /\ status' = [status EXCEPT ![j] = "pending"]
    /\ due' = [due EXCEPT ![j] = isDue]
    /\ UNCHANGED <<attempts, locked, domain, redisVars, cancelling, workerVars,
                   boundVars>>

InsertRow(j, isDue) ==
    /\ status[j] = "absent"
    /\ status' = [status EXCEPT ![j] = "queued"]
    /\ due' = [due EXCEPT ![j] = isDue]
    /\ UNCHANGED <<attempts, locked, domain, redisVars, cancelling, workerVars,
                   boundVars>>

\* _enqueue_job: the row is committed, available at once; its entry is added
\* to the stream afterwards.  A key already in the table changes nothing.
EnqueueJob(j) ==
    /\ InsertRow(j, TRUE)
    /\ announcing' = announcing \cup {j}

\* _ensure_periodic_jobs and _enqueue_poll only insert the row (the poll is
\* available in 15 seconds): the scan is what puts it on the stream.
InsertJob(j) ==
    /\ \E isDue \in BOOLEAN : InsertRow(j, isDue)
    /\ UNCHANGED announcing

Announce(j) ==
    /\ j \in announcing
    /\ Room(1)
    /\ XAdd(j)
    /\ announcing' = announcing \ {j}
    /\ UNCHANGED <<rowVars, domain, pending, idle, cancelling, workerVars, boundVars>>

\* The gateway dies between the commit and the XADD.
AnnounceLost(j) ==
    /\ j \in announcing
    /\ announcing' = announcing \ {j}
    /\ UNCHANGED <<rowVars, domain, redisVars, cancelling, workerVars, boundVars>>

\* cancel_benchmark, and handle_training_cancel for the polls of its run: the
\* rows that are not settled are selected, without a lock, ...
SelectForCancel(j) ==
    /\ j \in Cancellable \ cancelling
    /\ status[j] \in {"queued", "running"}
    /\ cancelling' = cancelling \cup {j}
    /\ UNCHANGED <<rowVars, domain, redisVars, announcing, workerVars, boundVars>>

\* ... and written on commit, whatever a worker has made of them since.
CancelJob(j) ==
    /\ j \in cancelling
    /\ cancelling' = cancelling \ {j}
    /\ status' = [status EXCEPT ![j] = "cancelled"]
    /\ UNCHANGED <<attempts, due, locked, domain, redisVars, announcing,
                   workerVars, boundVars>>
-----------------------------------------------------------------------------
(* Time.                                                                   *)

BecomeDue(j) ==
    /\ status[j] = "queued"
    /\ ~due[j]
    /\ due' = [due EXCEPT ![j] = TRUE]
    /\ UNCHANGED <<status, attempts, locked, domain, redisVars, controlVars,
                   workerVars, boundVars>>

\* Five minutes pass; only a queued row's lock is ever looked at.
LockGoesStale(j) ==
    /\ status[j] = "queued"
    /\ locked[j] = "fresh"
    /\ locked' = [locked EXCEPT ![j] = "stale"]
    /\ UNCHANGED <<status, attempts, due, domain, redisVars, controlVars,
                   workerVars, boundVars>>

\* A minute passes since the entry was delivered or claimed.  A handler may
\* take ten times as long, so the entry may well be under execution.
EntryGoesIdle(e) ==
    /\ e \in pending \ idle
    /\ idle' = idle \cup {e}
    /\ UNCHANGED <<rowVars, domain, stream, pending, controlVars, workerVars,
                   boundVars>>
-----------------------------------------------------------------------------
(* The loop of run().                                                      *)

LoopAt(w, p) == /\ phase[w] = p
                /\ inbox[w] = {}

\* Mutant: the test for a stale lock is missing.
DueRowsUnlocked == {j \in Jobs : status[j] = "queued" /\ due[j] /\ locked[j] = "none"}

DueRows == {j \in Jobs : status[j] = "queued" /\ due[j] /\ locked[j] # "fresh"}

\* The rows a scan returns: all that are due, none while Ids has no room.
ScannedRows == {j \in DueRows : Room(Cardinality(DueRows))}

\* _enqueue_due_jobs, its transaction: lock the due rows.
EnqueueDueJobs(w) ==
    /\ LoopAt(w, "scan")
    /\ locked' = [j \in Jobs |-> IF j \in ScannedRows THEN "fresh" ELSE locked[j]]
    /\ toPublish' = [toPublish EXCEPT ![w] = ScannedRows]
    /\ phase' = [phase EXCEPT ![w] = IF ScannedRows = {} THEN "recover" ELSE "publish"]
    /\ UNCHANGED <<status, attempts, due, domain, redisVars, controlVars, inbox,
                   cur, step, kept, boundVars>>

\* ... and, after the commit, one XADD per locked row.
PublishDue(w) ==
    /\ LoopAt(w, "publish")
    /\ \E j \in toPublish[w] :
         /\ XAdd(j)
         /\ toPublish' = [toPublish EXCEPT ![w] = @ \ {j}]
         /\ phase' = [phase EXCEPT ![w] =
                         IF toPublish[w] = {j} THEN "recover" ELSE "publish"]
    /\ UNCHANGED <<rowVars, domain, pending, idle, controlVars, inbox, cur, step, kept,
                   boundVars>>

\* _recover_pending: XAUTOCLAIM takes over every idle entry, whoever holds it.
\* (It runs every sixth time round; entries may turn idle as late as they like.)
RecoverPending(w) ==
    /\ LoopAt(w, "recover")
    /\ inbox' = [inbox EXCEPT ![w] = idle]
    /\ idle' = {}
    /\ phase' = [phase EXCEPT ![w] = "read"]
    /\ UNCHANGED <<rowVars, domain, stream, pending, controlVars, toPublish, cur,
                   step, kept, boundVars>>

\* XREADGROUP ">": the oldest new entries, none when the read times out.
ReadGroup(w) ==
    /\ LoopAt(w, "read")
    /\ LET n == IF Len(stream) < ReadCount THEN Len(stream) ELSE ReadCount
           batch == {stream[i] : i \in 1..n}
       IN /\ stream' = SubSeq(stream, n + 1, Len(stream))
          /\ pending' = pending \cup batch
          /\ inbox' = [inbox EXCEPT ![w] = batch]
    /\ phase' = [phase EXCEPT ![w] = "scan"]
    /\ UNCHANGED <<rowVars, domain, idle, controlVars, toPublish, cur, step, kept,
                   boundVars>>
-----------------------------------------------------------------------------
(* execute_job, for an entry of the batch.                                 *)

Goto(w, s) == step' = [step EXCEPT ![w] = s]

Take(w, e, s) ==
    /\ step[w] = "idle"
    /\ e \in inbox[w]
    /\ cur' = [cur EXCEPT ![w] = e]
    /\ Goto(w, s)
    /\ UNCHANGED <<phase, toPublish, inbox, kept>>

Runs(w, j) == step[w] \in {"handler", "event"} \cup Outcome /\ cur[w].job = j

\* Another worker may be in a transaction on the row: it is about to start or
\* to settle the job, or to scan it.  (A cancellation that holds the row counts
\* as committed: the entry then finds the job settled.)
RowMayBeLocked(w, j) ==
    \E v \in Workers \ {w} :
        \/ Runs(v, j)
        \/ step[v] = "idle" /\ \E e \in inbox[v] : e.job = j
        \/ LoopAt(v, "scan") /\ j \in DueRows

\* The row is settled, or FOR UPDATE SKIP LOCKED does not return it.
SkipJob(w, e) ==
    /\ \/ status[e.job] \in Settled
       \/ RowMayBeLocked(w, e.job)
    /\ Take(w, e, "ack")
    /\ UNCHANGED <<rowVars, domain, redisVars, controlVars, boundVars>>

\* Delivered before available_at: the lock is dropped for the scan.
PostponeJob(w, e) ==
    /\ status[e.job] \notin Settled
    /\ ~due[e.job]
    /\ Take(w, e, "ack")
    /\ locked' = [locked EXCEPT ![e.job] = "none"]
    /\ UNCHANGED <<status, attempts, due, domain, redisVars, controlVars, boundVars>>

\* Mutant: the entry is acknowledged before the handler runs.
StartJobAcksFirst(w, e) ==
    /\ status[e.job] \notin Settled
    /\ due[e.job]
    /\ Take(w, e, "handler")
    /\ status' = [status EXCEPT ![e.job] = "running"]
    /\ locked' = [locked EXCEPT ![e.job] = "fresh"]
    /\ attempts' = [attempts EXCEPT ![e.job] = Bump(@)]
    /\ pending' = pending \ {e}
    /\ idle' = idle \ {e}
    /\ UNCHANGED <<due, domain, stream, controlVars, boundVars>>

\* A row that is already running is started again.
StartJob(w, e) ==
    /\ status[e.job] \notin Settled
    /\ due[e.job]
    /\ Take(w, e, "handler")
    /\ status' = [status EXCEPT ![e.job] = "running"]
    /\ locked' = [locked EXCEPT ![e.job] = "fresh"]
    /\ attempts' = [attempts EXCEPT ![e.job] = Bump(@)]
    /\ UNCHANGED <<due, domain, redisVars, controlVars, boundVars>>

\* The outcome's transaction reads the row, without a lock.
ReadForOutcome(w, o) ==
    LET j == cur[w].job IN
    /\ Goto(w, o)
    /\ kept' = [kept EXCEPT ![w] = {c \in {"status", "locked"} :
                     \/ c = "status" /\ status[j] = NewStatus(o)
                     \/ c = "locked" /\ locked[j] = "none"}]
    /\ UNCHANGED <<rowVars, domain, redisVars, controlVars, phase, toPublish, inbox,
                   cur, crashes>>

\* Mutant: a deferred row keeps its status.
CommitKeepsDeferred(w) ==
    LET j == cur[w].job
        o == step[w]
    IN
    /\ o \in Outcome
    /\ status' = IF "status" \in kept[w] \/ o = "defer" THEN status
                 ELSE [status EXCEPT ![j] = NewStatus(o)]
    /\ locked' = IF "locked" \in kept[w] THEN locked ELSE [locked EXCEPT ![j] = "none"]
    /\ due' = [due EXCEPT ![j] = @ /\ o \notin {"defer", "retry"}]
    /\ kept' = [kept EXCEPT ![w] = {}]
    /\ Goto(w, AfterOutcome(o))
    /\ UNCHANGED <<attempts, domain, redisVars, controlVars, phase, toPublish, inbox,
                   cur, boundVars>>

\* Its commit writes what it changed, whatever the row has become meanwhile; a
\* deferred or retried job is available later.
CommitOutcome(w) ==
    LET j == cur[w].job
        o == step[w]
    IN
    /\ o \in Outcome
    /\ status' = IF "status" \in kept[w] THEN status
                 ELSE [status EXCEPT ![j] = NewStatus(o)]
    /\ locked' = IF "locked" \in kept[w] THEN locked ELSE [locked EXCEPT ![j] = "none"]
    /\ due' = [due EXCEPT ![j] = @ /\ o \notin {"defer", "retry"}]
    /\ kept' = [kept EXCEPT ![w] = {}]
    /\ Goto(w, AfterOutcome(o))
    /\ UNCHANGED <<attempts, domain, redisVars, controlVars, phase, toPublish, inbox,
                   cur, boundVars>>

\* The handler returned its output, ...
FinishJob(w) ==
    /\ step[w] = "handler"
    /\ ReadForOutcome(w, "finish")
    /\ UNCHANGED <<defers, eventFailures>>

\* ... or a DeferredJob.
DeferJob(w) ==
    LET j == cur[w].job IN
    /\ step[w] = "handler"
    /\ defers[j] < MaxDefers
    /\ defers' = [defers EXCEPT ![j] = @ + 1]
    /\ ReadForOutcome(w, "defer")
    /\ UNCHANGED eventFailures

Retries(j, permanent) == ~permanent /\ attempts[j] <= MaxRetries

FailOrRetry(w, permanent) ==
    /\ ReadForOutcome(w, IF Retries(cur[w].job, permanent) THEN "retry" ELSE "fail")
    /\ UNCHANGED defers

\* The handler raised, or a transaction of _finish_job or _defer_job that left
\* no trace; PermanentJobError and ValueError are not retried.
FailJob(w, permanent) ==
    /\ step[w] = "handler"
    /\ FailOrRetry(w, permanent)
    /\ UNCHANGED eventFailures

\* publish_event after _finish_job; its failure is caught by the same except
\* clause as the handler's.
PublishEvent(w) ==
    /\ step[w] = "event"
    /\ Goto(w, "ack")
    /\ UNCHANGED <<rowVars, domain, redisVars, controlVars, phase, toPublish,
                   inbox, cur, kept, boundVars>>

PublishEventFails(w) ==
    /\ step[w] = "event"
    /\ eventFailures < MaxEventFailures
    /\ eventFailures' = eventFailures + 1
    /\ FailOrRetry(w, FALSE)

\* Mutant: the test of the domain's state is inverted.
SetDomainFailureInverted(w) ==
    /\ step[w] = "domain"
    /\ Goto(w, IF domain[cur[w].job] \in {"working", "unheard"} THEN "ack" ELSE "mark")
    /\ UNCHANGED <<rowVars, domain, redisVars, controlVars, phase, toPublish, inbox,
                   cur, kept, boundVars>>

\* _set_domain_failure, a transaction of its own after the job's, reads the
\* domain: one that others have settled, and a job without one, are left alone.
SetDomainFailure(w) ==
    /\ step[w] = "domain"
    /\ Goto(w, IF domain[cur[w].job] \in {"working", "unheard"} THEN "mark" ELSE "ack")
    /\ UNCHANGED <<rowVars, domain, redisVars, controlVars, phase, toPublish, inbox,
                   cur, kept, boundVars>>

\* Its commit, whatever the domain has become meanwhile.
MarkDomainFailed(w) ==
    /\ step[w] = "mark"
    /\ domain' = [domain EXCEPT ![cur[w].job] = "failed"]
    /\ Goto(w, "ack")
    /\ UNCHANGED <<rowVars, redisVars, controlVars, phase, toPublish, inbox, cur, kept,
                   boundVars>>

\* Other requests and jobs bring the dataset or run where it is left alone.
DomainSettles(j) ==
    /\ domain[j] \in {"working", "unheard"}
    /\ domain' = [domain EXCEPT ![j] = "spared"]
    /\ UNCHANGED <<rowVars, redisVars, controlVars, workerVars, boundVars>>

\* XACK removes the entry from the pending list of the group, even when
\* another worker has claimed it since.
Ack(w) ==
    /\ step[w] = "ack"
    /\ pending' = pending \ {cur[w]}
    /\ idle' = idle \ {cur[w]}
    /\ inbox' = [inbox EXCEPT ![w] = @ \ {cur[w]}]
    /\ cur' = [cur EXCEPT ![w] = None]
    /\ Goto(w, "idle")
    /\ UNCHANGED <<rowVars, domain, stream, controlVars, phase, toPublish, kept,
                   boundVars>>

\* The process dies and a new one takes its place, under a new consumer name:
\* what it held stays in the pending list.  (An exception outside the try of
\* execute_job ends the process too.)
Crash(w) ==
    /\ crashes < MaxCrashes
    /\ crashes' = crashes + 1
    /\ phase' = [phase EXCEPT ![w] = "scan"]
    /\ toPublish' = [toPublish EXCEPT ![w] = {}]
    /\ inbox' = [inbox EXCEPT ![w] = {}]
    /\ cur' = [cur EXCEPT ![w] = None]
    /\ kept' = [kept EXCEPT ![w] = {}]
    /\ Goto(w, "idle")
    /\ domain' = [j \in Jobs |-> IF /\ step[w] \in {"domain", "mark"} /\ cur[w].job = j
                                   /\ domain[j] = "working"
                                THEN "unheard" ELSE domain[j]]
    /\ UNCHANGED <<rowVars, redisVars, controlVars, defers, eventFailures>>
-----------------------------------------------------------------------------
Submit(j) == EnqueueJob(j) \/ InsertJob(j) \/ Announce(j) \/ AnnounceLost(j)

Cancel(j) == SelectForCancel(j) \/ CancelJob(j)

TimePasses == \/ \E j \in Jobs : BecomeDue(j) \/ LockGoesStale(j)
              \/ \E e \in pending : EntryGoesIdle(e)

Loop(w) == EnqueueDueJobs(w) \/ PublishDue(w) \/ RecoverPending(w) \/ ReadGroup(w)

Execute(w) ==
    \/ \E e \in inbox[w] : SkipJob(w, e) \/ PostponeJob(w, e) \/ StartJob(w, e)
    \/ FinishJob(w) \/ DeferJob(w) \/ \E permanent \in BOOLEAN : FailJob(w, permanent)
    \/ CommitOutcome(w) \/ PublishEvent(w) \/ PublishEventFails(w)
    \/ SetDomainFailure(w) \/ MarkDomainFailed(w) \/ Ack(w)

Next ==
    \/ \E j \in Jobs : Submit(j) \/ Cancel(j) \/ DomainSettles(j)
    \/ TimePasses
    \/ \E w \in Workers : Loop(w) \/ Execute(w) \/ Crash(w)

Spec == Init /\ [][Next]_vars

\* Workers keep looping and executing, clocks advance, and the conflict that
\* makes SKIP LOCKED pass over a row does not recur for ever.
Fairness ==
    /\ \A w \in Workers : WF_vars(Loop(w)) /\ WF_vars(Execute(w))
    /\ \A j \in Jobs : /\ WF_vars(BecomeDue(j)) /\ WF_vars(LockGoesStale(j))
                       /\ WF_vars(Announce(j) \/ AnnounceLost(j))
                       /\ SF_vars(\E w \in Workers : \E e \in inbox[w] :
                                     e.job = j /\ StartJob(w, e))
    /\ \A e \in Entry : WF_vars(EntryGoesIdle(e))

FairSpec == Spec /\ Fairness
-----------------------------------------------------------------------------
(* Properties.                                                             *)

Executing(j) == \E w \in Workers : step[w] \in {"handler"} \cup Outcome /\ cur[w].job = j

\* Whatever duplicates, late workers and cancellations do, a row says
\* "running" only while some worker's handler runs it or its outcome is being
\* written, unless a worker died: a late commit that keeps the column it read
\* never leaves a row "running" behind the last handler.
RunningHasExecutor ==
    \A j \in Jobs : status[j] = "running" => Executing(j) \/ crashes > 0

\* Pending recovery: the scan only looks at queued rows, so a running row
\* that lost its worker comes back only if an entry for it is still in the
\* stream, in the pending list or in a worker's batch.
RunningIsRecoverable ==
    \A j \in Jobs : status[j] = "running" =>
        \/ Executing(j)
        \/ \E e \in Entries : e.job = j

\* A read entry is never dropped by XREADGROUP, XAUTOCLAIM and XACK: until it
\* is acknowledged a worker holds it, unless a worker died.
PendingHasHolder ==
    \A e \in pending : (\E w \in Workers : e \in inbox[w]) \/ crashes > 0

\* The queue is an at-least-once job runner in the sense of JobLifecycle: a
\* worker runs a job while it stands between StartJob and the last word of
\* execute_job on the row.
Lifecycle == INSTANCE JobLifecycle
                WITH runners <- [j \in Jobs |-> {w \in Workers : Runs(w, j)}]

ImplementsLifecycle == Lifecycle!Spec

\* Rows are committed before their ids are added to the stream, so no worker
\* is handed the id of a row it cannot find (it would ack the entry).
EntriesHaveRows == \A j \in Handed : status[j] # "absent"

\* A settled job that nobody is executing or cancelling stays as it is:
\* redelivered entries, claims and the scan leave it alone (execute_job's
\* early return).
AtRest(j) == /\ status[j] \in {"completed", "cancelled", "failed"}
             /\ ~(\E w \in Workers : Runs(w, j))
             /\ j \notin cancelling

SettledStays == [][\A j \in Jobs : AtRest(j) => status'[j] = status[j]]_vars

\* Every queued job is eventually completed, failed or cancelled.
EveryJobSettles ==
    \A j \in Jobs : status[j] = "queued" ~> status[j] \in Settled

\* A failed job does not leave its dataset or training run waiting: it is
\* marked failed, or stands where _set_domain_failure leaves it alone.  The
\* exception is the one the code has: a worker that dies between the two
\* transactions, as a failed job is not run again.
FailureReachesDomain ==
    \A j \in Domained : status[j] = "failed" ~> domain[j] # "working"
=============================================================================
