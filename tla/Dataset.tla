------------------------------ MODULE Dataset ------------------------------
(***************************************************************************)
(* The versions of a training dataset, from their generation or import to  *)
(* their review, approval and use: the requests of the control plane       *)
(* (services/gateway/ecoroute/api/control.py), the job that generates the  *)
(* examples (services/worker/ecoroute_worker/jobs/handlers.py) and what    *)
(* the worker does when that job fails (ecoroute_worker/main.py).          *)
(*                                                                         *)
(* Every one of them reads rows in one statement, decides, and commits     *)
(* later, under PostgreSQL's READ COMMITTED and without locking what it    *)
(* read; SQLAlchemy then writes the columns that differ from what was      *)
(* read.  A generation is a sequence of such transactions, and its job is  *)
(* delivered as in JobQueue: again when its worker died or was slow.  What *)
(* the worker records of the job is one step here, and two in JobQueue.    *)
(* Versions' numbers are left out.                                         *)
(***************************************************************************)
EXTENDS Naturals, FiniteSets

CONSTANTS
    Datasets,       \* ids of datasets
    Examples,       \* external ids of examples
    Contents,       \* what an example may say (input, output, split)
    Requests,       \* bound: requests handled at one time
    Attempts,       \* bound: executions of generation jobs at one time
    MaxOpen,        \* bound: transactions on these rows open at one time
    MaxRequests,    \* bound: edits and approvals that start
    MaxGenerated,   \* bound: datasets generated, not imported
    MaxTries,       \* the try after which a transient error fails the job
    MaxRedelivered, \* bound: deliveries of a job that is still executed
    MaxCrashes      \* bound: deaths of workers

ASSUME BoundsAssumption ==
    /\ IsFiniteSet(Examples)
    /\ MaxOpen \in Nat /\ MaxRequests \in Nat /\ MaxGenerated \in Nat
    /\ MaxTries \in Nat \ {0} /\ MaxRedelivered \in Nat /\ MaxCrashes \in Nat

ASSUME ActorsAssumption == Requests \cap Attempts = {}

VARIABLES
    ds,             \* the rows of datasets
    ex,             \* the rows of dataset_examples, by dataset and external id
    job,            \* the generation job of a dataset
    req,            \* the requests being handled
    att,            \* the executions of generation jobs
    lost,           \* datasets whose job, or whose failure, got lost
    behind,         \* history: open transactions about a dataset changed since they read it
    crossed,        \* history: datasets changed by one that was behind
    generated, requests, redelivered, crashes

counters == <<generated, requests, redelivered, crashes>>
overlap == <<behind, crossed>>
vars == <<ds, ex, job, req, att, lost, overlap, counters>>

Statuses == {"absent", "generating", "review_required", "approved", "failed"}
Verdicts == {"pending", "approved", "rejected"}
Row == [content : Contents, review : Verdicts, approved : BOOLEAN]
NoRow == [content |-> "none", review |-> "none", approved |-> FALSE]
Rows == [Examples -> Row \cup {NoRow}]
NoRows == [e \in Examples |-> NoRow]

Present(rows) == {e \in Examples : rows[e] # NoRow}
Approved(rows) == {e \in Present(rows) : rows[e].approved}

\* _dataset_manifest: the hash of the examples; two manifests are equal when
\* they are of the same examples with the same contents.  A generation hashes
\* its examples in another form than an approval does.
Manifest(rows, accepted) ==
    [of |-> "approval", rows |-> {<<e, rows[e].content>> : e \in accepted}]
NoManifest == [of |-> "nothing", rows |-> {}]
Generated == [of |-> "generation", rows |-> {}]
Manifests == [of : {"nothing", "generation", "approval"}, rows : SUBSET (Examples \X Contents)]
Version == [status : Statuses, count : Nat, manifest : Manifests]
NoVersion == [status |-> "absent", count |-> 0, manifest |-> NoManifest]

Request == [at : {"idle", "owes a job", "opening", "cloning", "editing", "reviewing",
                  "approving"},
            ds : Datasets \cup {"none"}, read : Version, rows : Rows,
            id : Examples \cup {"none"}, new : Row \cup {NoRow}]
NoRequest == [at |-> "idle", ds |-> "none", read |-> NoVersion, rows |-> NoRows,
              id |-> "none", new |-> NoRow]
Attempt == [at : {"idle", "started", "resetting", "generating", "storing", "stored",
                  "erring", "refusing", "marking", "failing"},
            ds : Datasets \cup {"none"}, read : Version]
NoAttempt == [at |-> "idle", ds |-> "none", read |-> NoVersion]
JobStates == {"none", "queued", "running", "completed", "failed"}

TypeOK ==
    /\ ds \in [Datasets -> Version]
    /\ ex \in [Datasets -> Rows]
    /\ job \in [Datasets -> [status : JobStates, tries : Nat]]
    /\ req \in [Requests -> Request]
    /\ att \in [Attempts -> Attempt]
    /\ lost \in SUBSET Datasets
    /\ behind \in SUBSET (Requests \cup Attempts)
    /\ crossed \in SUBSET Datasets
    /\ generated \in 0..MaxGenerated
    /\ requests \in 0..MaxRequests
    /\ redelivered \in 0..MaxRedelivered
    /\ crashes \in 0..MaxCrashes

Init ==
    /\ ds = [d \in Datasets |-> NoVersion]
    /\ ex = [d \in Datasets |-> NoRows]
    /\ job = [d \in Datasets |-> [status |-> "none", tries |-> 0]]
    /\ req = [r \in Requests |-> NoRequest]
    /\ att = [a \in Attempts |-> NoAttempt]
    /\ lost = {} /\ behind = {} /\ crossed = {}
    /\ generated = 0 /\ requests = 0 /\ redelivered = 0 /\ crashes = 0

OpenRequests == {r \in Requests : req[r].at \notin {"idle", "owes a job"}}
OpenAttempts == {a \in Attempts : att[a].at \in {"resetting", "storing", "failing"}}
MayOpen == Cardinality(OpenRequests) + Cardinality(OpenAttempts) < MaxOpen

OpenAt(d) == {r \in OpenRequests : req[r].ds = d} \cup {a \in OpenAttempts : att[a].ds = d}

\* The transaction of x, which is about dataset d, commits.  When that changes
\* the dataset, the others that are open about it are behind from then on; the
\* dataset is crossed when x was behind itself.  Nothing prevents either.
Commits(x, d) ==
    LET changed == ds'[d] # ds[d] \/ ex'[d] # ex[d] IN
    /\ behind' = (IF changed THEN behind \cup OpenAt(d) ELSE behind) \ {x}
    /\ crossed' = IF changed /\ x \in behind THEN crossed \cup {d} ELSE crossed

\* It is rolled back.
RollsBack(x) == behind' = behind \ {x} /\ UNCHANGED crossed

\* A flush writes a column only when its new value differs from the one read.
Written(now, read, new) == IF new = read THEN now ELSE new
-----------------------------------------------------------------------------
(* Requests of the control plane.                                          *)

\* Some examples, with ids of their own, that nobody has reviewed: what
\* import_dataset prepares, and what process_examples leaves of the answers.
Fresh == {rows \in [Examples -> [content : Contents, review : {"pending"}, approved : {FALSE}]
                                \cup {NoRow}] : Present(rows) # {}}

\* import_dataset: one transaction that reads nothing it depends on.
Import(d, rows) ==
    /\ ds[d].status = "absent"
    /\ ds' = [ds EXCEPT ![d] = [status |-> "review_required",
                                count |-> Cardinality(Present(rows)), manifest |-> NoManifest]]
    /\ ex' = [ex EXCEPT ![d] = rows]
    /\ UNCHANGED <<job, req, att, lost, overlap, counters>>

\* generate_dataset commits the dataset before it inserts the job.
Generate(r, d) ==
    /\ req[r].at = "idle"
    /\ ds[d].status = "absent"
    /\ generated < MaxGenerated
    /\ generated' = generated + 1
    /\ ds' = [ds EXCEPT ![d].status = "generating"]
    /\ req' = [req EXCEPT ![r] = [NoRequest EXCEPT !.at = "owes a job", !.ds = d]]
    /\ UNCHANGED <<ex, job, att, lost, overlap, requests, redelivered, crashes>>

EnqueueJob(r) ==
    /\ req[r].at = "owes a job"
    /\ job' = [job EXCEPT ![req[r].ds].status = "queued"]
    /\ req' = [req EXCEPT ![r] = NoRequest]
    /\ UNCHANGED <<ds, ex, att, lost, overlap, counters>>

\* The gateway dies first, or _enqueue_job answers 409: another request used
\* the Idempotency-Key, or the same one did, for a dataset of its own.
DropJob(r) ==
    /\ req[r].at = "owes a job"
    /\ lost' = lost \cup {req[r].ds}
    /\ req' = [req EXCEPT ![r] = NoRequest]
    /\ UNCHANGED <<ds, ex, job, att, overlap, counters>>

\* What an edit may make of an example.  A new input or output takes the
\* approval back; a split does not, and metadata bring any verdict without it;
\* a verdict of its own, the last to be applied, gives or takes the approval.
Edits(row) == {new \in Row : new.approved => row.approved \/ new.review = "approved"}

\* Mutant: a clone is made of an example that is not there.
CloneBlank(row) == [row EXCEPT !.review = "pending", !.approved = FALSE]

Clone(row) == IF row = NoRow THEN NoRow ELSE [row EXCEPT !.approved = FALSE]

\* patch_dataset_example reads the dataset, ...
StartEdit(r, d) ==
    /\ req[r].at = "idle" /\ MayOpen
    /\ requests < MaxRequests
    /\ ds[d].status \in {"approved", "review_required"}
    /\ requests' = requests + 1
    /\ req' = [req EXCEPT ![r] = [NoRequest EXCEPT !.at = "opening", !.ds = d, !.read = ds[d]]]
    /\ UNCHANGED <<ds, ex, job, att, lost, overlap, generated, redelivered, crashes>>

\* ... then the example, which it edits in place, or, when the dataset it read
\* is approved, in a clone of that, ...
ReadExample(r, e) ==
    LET q == req[r]
        row == ex[q.ds][e]
        cloned == q.read.status = "approved"
    IN
    /\ q.at = "opening"
    /\ row # NoRow
    /\ \E new \in Edits(IF cloned THEN Clone(row) ELSE row) :
          req' = [req EXCEPT ![r] = [q EXCEPT !.at = IF cloned THEN "cloning" ELSE "editing",
                                              !.id = e, !.rows = [NoRows EXCEPT ![e] = row],
                                              !.new = new]]
    /\ UNCHANGED <<ds, ex, job, att, lost, overlap, counters>>

\* ... and then the examples to clone.  The one it has is not loaded again; when
\* that is gone from the database, the edit of it fails.
ReadSource(r) ==
    LET q == req[r] IN
    /\ q.at = "cloning"
    /\ ex[q.ds][q.id] # NoRow
    /\ req' = [req EXCEPT ![r] = [q EXCEPT !.at = "editing",
                                            !.rows = [ex[q.ds] EXCEPT ![q.id] = q.rows[q.id]]]]
    /\ UNCHANGED <<ds, ex, job, att, lost, overlap, counters>>

\* The row after a flush that has read one row and holds another.
Flushed(now, read, new) ==
    [content |-> Written(now.content, read.content, new.content),
     review |-> Written(now.review, read.review, new.review),
     approved |-> Written(now.approved, read.approved, new.approved)]

\* An approved dataset is cloned, the clone is edited.
CommitClone(r, n) ==
    LET q == req[r] IN
    /\ q.at = "editing" /\ q.read.status = "approved"
    /\ ds[n].status = "absent"
    /\ ds' = [ds EXCEPT ![n] = [status |-> "review_required", count |-> q.read.count,
                                manifest |-> NoManifest]]
    /\ ex' = [ex EXCEPT ![n] =
                 [e \in Examples |-> IF e = q.id THEN q.new ELSE Clone(q.rows[e])]]
    /\ req' = [req EXCEPT ![r] = NoRequest]
    /\ Commits(r, n)
    /\ UNCHANGED <<job, att, lost, counters>>

\* A dataset under review is edited in place, and loses its manifest.
CommitEdit(r) ==
    LET q == req[r] IN
    /\ q.at = "editing" /\ q.read.status = "review_required"
    /\ ex[q.ds][q.id] # NoRow
    /\ ds' = [ds EXCEPT ![q.ds].manifest = Written(@, q.read.manifest, NoManifest)]
    /\ ex' = [ex EXCEPT ![q.ds][q.id] = Flushed(@, q.rows[q.id], q.new)]
    /\ req' = [req EXCEPT ![r] = NoRequest]
    /\ Commits(r, q.ds)
    /\ UNCHANGED <<job, att, lost, counters>>

\* approve_dataset reads the dataset, ...
StartApproval(r, d) ==
    /\ req[r].at = "idle" /\ MayOpen
    /\ requests < MaxRequests
    /\ ds[d].status = "review_required"
    /\ requests' = requests + 1
    /\ req' = [req EXCEPT ![r] = [NoRequest EXCEPT !.at = "reviewing", !.ds = d,
                                                   !.read = ds[d]]]
    /\ UNCHANGED <<ds, ex, job, att, lost, overlap, generated, redelivered, crashes>>

Accepted(rows) == {e \in Present(rows) : rows[e].review # "rejected"}

\* ... then its examples, of which one at least is not rejected, ...
ReadExamples(r) ==
    LET d == req[r].ds IN
    /\ req[r].at = "reviewing"
    /\ Accepted(ex[d]) # {}
    /\ req' = [req EXCEPT ![r].at = "approving", ![r].rows = ex[d]]
    /\ UNCHANGED <<ds, ex, job, att, lost, overlap, counters>>

\* Mutant: the rejected examples are marked as approved with the others.
ReviewedAll(rows) ==
    [e \in Examples |->
        IF rows[e] = NoRow THEN NoRow
        ELSE IF rows[e].review = "rejected" THEN [rows[e] EXCEPT !.approved = TRUE]
        ELSE [rows[e] EXCEPT !.approved = TRUE, !.review = "approved"]]

Reviewed(rows) ==
    [e \in Examples |->
        IF rows[e] = NoRow THEN NoRow
        ELSE IF rows[e].review = "rejected" THEN [rows[e] EXCEPT !.approved = FALSE]
        ELSE [rows[e] EXCEPT !.approved = TRUE, !.review = "approved"]]

\* ... and commits the approval.  An update of a row that is gone fails.
CommitApproval(r) ==
    LET q == req[r]
        new == Reviewed(q.rows)
    IN
    /\ q.at = "approving"
    /\ \A e \in Examples : new[e] # q.rows[e] => ex[q.ds][e] # NoRow
    /\ ds' = [ds EXCEPT ![q.ds] = [
                  status |-> "approved",
                  count |-> Written(@.count, q.read.count, Cardinality(Accepted(q.rows))),
                  manifest |-> Manifest(q.rows, Accepted(q.rows))]]
    /\ ex' = [ex EXCEPT ![q.ds] = [e \in Examples |->
                  IF ex[q.ds][e] = NoRow THEN NoRow
                  ELSE Flushed(ex[q.ds][e], q.rows[e], new[e])]]
    /\ req' = [req EXCEPT ![r] = NoRequest]
    /\ Commits(r, q.ds)
    /\ UNCHANGED <<job, att, lost, counters>>

\* A refused request, or one whose flush fails: nothing is written.
EndEarly(r) ==
    /\ r \in OpenRequests
    /\ req' = [req EXCEPT ![r] = NoRequest]
    /\ RollsBack(r)
    /\ UNCHANGED <<ds, ex, job, att, lost, counters>>

\* export_dataset and _publish_training_environment take the examples marked
\* as approved of a dataset whose status is approved.
Usable(d) == ds[d].status = "approved"

Used(d) == Manifest(ex[d], Approved(ex[d]))
-----------------------------------------------------------------------------
(* The worker.                                                             *)

AttemptsAt(d) == {a \in Attempts : att[a].at # "idle" /\ att[a].ds = d}

\* execute_job takes a job that is queued, or running: its worker died, or is
\* slow and the message was claimed again.
StartJob(a, d) ==
    /\ att[a].at = "idle"
    /\ job[d].status \in {"queued", "running"}
    /\ IF AttemptsAt(d) = {} THEN UNCHANGED redelivered
       ELSE redelivered < MaxRedelivered /\ redelivered' = redelivered + 1
    /\ job' = [job EXCEPT ![d] = [status |-> "running", tries |-> @.tries + 1]]
    /\ att' = [att EXCEPT ![a] = [NoAttempt EXCEPT !.at = "started", !.ds = d]]
    /\ UNCHANGED <<ds, ex, req, lost, overlap, generated, requests, crashes>>

\* Attempt a, which is at "from", goes to "to".
Step(a, from, to) ==
    /\ att[a].at = from
    /\ att' = [att EXCEPT ![a].at = to]

\* handle_dataset_generate reads the dataset.
ReadDataset(a) ==
    LET d == att[a].ds IN
    /\ MayOpen
    /\ att[a].at = "started"
    /\ ds[d].status = "generating"
    /\ att' = [att EXCEPT ![a].at = "resetting", ![a].read = ds[d]]
    /\ UNCHANGED <<ds, ex, job, req, lost, overlap, counters>>

\* A dataset that is not being generated, or no key, profile or policy.
Refuse(a) ==
    /\ \/ Step(a, "started", "refusing")
       \/ Step(a, "generating", "refusing")
    /\ UNCHANGED <<ds, ex, job, req, lost, overlap, counters>>

\* It resets the dataset, and deletes the examples of an earlier attempt.
CommitReset(a) ==
    LET d == att[a].ds IN
    /\ att[a].at = "resetting"
    /\ ds' = [ds EXCEPT ![d].count = Written(@, att[a].read.count, 0),
                        ![d].manifest = Written(@, att[a].read.manifest, NoManifest)]
    /\ ex' = [ex EXCEPT ![d] = NoRows]
    /\ att' = [att EXCEPT ![a].at = "generating", ![a].read = NoVersion]
    /\ Commits(a, d)
    /\ UNCHANGED <<job, req, lost, counters>>

\* Gemini times out, or answers a batch twice with something else than asked;
\* the database or Redis fails.
GenerationFails(a) ==
    /\ Step(a, "started", "erring") \/ Step(a, "generating", "erring")
    /\ UNCHANGED <<ds, ex, job, req, lost, overlap, counters>>

\* Mutant: the status is not looked at again.
StillAny(status) == TRUE

StillGenerating(status) == status = "generating"

\* After the last batch it reads the dataset again.
ReadAgain(a) ==
    LET d == att[a].ds IN
    /\ MayOpen
    /\ att[a].at = "generating"
    /\ StillGenerating(ds[d].status)
    /\ att' = [att EXCEPT ![a].at = "storing", ![a].read = ds[d]]
    /\ UNCHANGED <<ds, ex, job, req, lost, overlap, counters>>

\* It stores what process_examples made of the answers.
CommitExamples(a, rows) ==
    LET d == att[a].ds IN
    /\ att[a].at = "storing"
    /\ Present(rows) \cap Present(ex[d]) = {}
    /\ ex' = [ex EXCEPT ![d] =
                 [e \in Examples |-> IF e \in Present(rows) THEN rows[e] ELSE @[e]]]
    /\ ds' = [ds EXCEPT ![d] = [
                  status |-> Written(@.status, att[a].read.status, "review_required"),
                  count |-> Written(@.count, att[a].read.count, Cardinality(Present(rows))),
                  manifest |-> Written(@.manifest, att[a].read.manifest, Generated)]]
    /\ att' = [att EXCEPT ![a].at = "stored", ![a].read = NoVersion]
    /\ Commits(a, d)
    /\ UNCHANGED <<job, req, lost, counters>>

\* The flush fails: an example of that id is there, or the database is not.
StoreFails(a) ==
    /\ att[a].at \in {"resetting", "storing"}
    /\ att' = [att EXCEPT ![a].at = "erring", ![a].read = NoVersion]
    /\ RollsBack(a)
    /\ UNCHANGED <<ds, ex, job, req, lost, counters>>

\* _finish_job
FinishJob(a) ==
    /\ att[a].at = "stored"
    /\ job' = [job EXCEPT ![att[a].ds].status = "completed"]
    /\ att' = [att EXCEPT ![a] = NoAttempt]
    /\ UNCHANGED <<ds, ex, req, lost, overlap, counters>>

\* It fails, or publish_event does after it: an error like any other.
FinishFails(a) ==
    /\ Step(a, "stored", "erring")
    /\ job' \in {job, [job EXCEPT ![att[a].ds].status = "completed"]}
    /\ UNCHANGED <<ds, ex, req, lost, overlap, counters>>

\* _fail_or_retry of an error that may pass
Retry(a) ==
    /\ att[a].at = "erring"
    /\ job[att[a].ds].tries <= MaxTries
    /\ job' = [job EXCEPT ![att[a].ds].status = "queued"]
    /\ att' = [att EXCEPT ![a] = NoAttempt]
    /\ UNCHANGED <<ds, ex, req, lost, overlap, counters>>

\* Mutant: the last try but one is the last.
FailJobEarly(a) ==
    /\ \/ Step(a, "refusing", "marking")
       \/ Step(a, "erring", "marking") /\ job[att[a].ds].tries >= MaxTries
    /\ job' = [job EXCEPT ![att[a].ds].status = "failed"]
    /\ UNCHANGED <<ds, ex, req, lost, overlap, counters>>

\* ... and of one that will not, or that came too often.
FailJob(a) ==
    /\ \/ Step(a, "refusing", "marking")
       \/ Step(a, "erring", "marking") /\ job[att[a].ds].tries > MaxTries
    /\ job' = [job EXCEPT ![att[a].ds].status = "failed"]
    /\ UNCHANGED <<ds, ex, req, lost, overlap, counters>>

\* Mutant: whatever its status, the dataset fails with its job.
FailsAny(status) == TRUE

\* Mutant: only a dataset under review fails with its job.
FailsReview(status) == status = "review_required"

FailsWith(status) == status # "approved"

\* _set_domain_failure reads the dataset ...
ReadForFailure(a) ==
    LET d == att[a].ds IN
    /\ MayOpen
    /\ att[a].at = "marking"
    /\ att' = [att EXCEPT ![a] = IF FailsWith(ds[d].status)
                                 THEN [@ EXCEPT !.at = "failing", !.read = ds[d]]
                                 ELSE NoAttempt]
    /\ UNCHANGED <<ds, ex, job, req, lost, overlap, counters>>

\* ... and marks it as failed.
CommitFailure(a) ==
    LET d == att[a].ds IN
    /\ att[a].at = "failing"
    /\ ds' = [ds EXCEPT ![d].status = Written(@, att[a].read.status, "failed")]
    /\ UNCHANGED ex
    /\ att' = [att EXCEPT ![a] = NoAttempt]
    /\ Commits(a, d)
    /\ UNCHANGED <<job, req, lost, counters>>

\* The worker dies.  A job that failed already is not delivered again.
Crash(a) ==
    /\ att[a].at # "idle"
    /\ crashes < MaxCrashes
    /\ crashes' = crashes + 1
    /\ lost' = IF att[a].at \in {"marking", "failing"} THEN lost \cup {att[a].ds} ELSE lost
    /\ att' = [att EXCEPT ![a] = NoAttempt]
    /\ RollsBack(a)
    /\ UNCHANGED <<ds, ex, job, req, generated, requests, redelivered>>
-----------------------------------------------------------------------------
RequestStep(r) ==
    \/ \E d \in Datasets : Generate(r, d) \/ StartApproval(r, d) \/ StartEdit(r, d)
    \/ (\E e \in Examples : ReadExample(r, e)) \/ ReadSource(r)
    \/ \E n \in Datasets : CommitClone(r, n)
    \/ EnqueueJob(r) \/ DropJob(r)
    \/ CommitEdit(r) \/ ReadExamples(r) \/ CommitApproval(r) \/ EndEarly(r)

\* What an attempt does; what it does with the dataset it does in a transaction.
AttemptStep(a) ==
    \/ ReadDataset(a) \/ Refuse(a) \/ CommitReset(a) \/ GenerationFails(a) \/ ReadAgain(a)
    \/ \E rows \in Fresh : CommitExamples(a, rows)
    \/ StoreFails(a) \/ FinishJob(a) \/ FinishFails(a) \/ Retry(a) \/ FailJob(a)
    \/ ReadForFailure(a) \/ CommitFailure(a)

Next ==
    \/ \E d \in Datasets, rows \in Fresh : Import(d, rows)
    \/ \E r \in Requests : RequestStep(r)
    \/ \E a \in Attempts : (\E d \in Datasets : StartJob(a, d)) \/ AttemptStep(a) \/ Crash(a)

Spec == Init /\ [][Next]_vars
-----------------------------------------------------------------------------
(* Properties.                                                             *)

\* An approved dataset never changes again: neither its row nor its examples,
\* whatever edits, approvals, deliveries of its job and failures are under way.
ApprovedIsFrozen ==
    [][\A d \in Datasets : ds[d].status = "approved" => ds'[d] = ds[d] /\ ex'[d] = ex[d]]_vars

\* The same, until a transaction that was behind has changed it.
ApprovedIsKept ==
    [][\A d \in Datasets \ crossed' :
          ds[d].status = "approved" => ds'[d] = ds[d] /\ ex'[d] = ex[d]]_vars

\* What an export or a training run takes of an approved dataset is what its
\* manifest and its count say, and never nothing, whatever edits, approvals and
\* attempts overlapped, unless one that was behind has changed it.
UsedIsApproved ==
    \A d \in Datasets \ crossed : Usable(d) =>
        /\ Approved(ex[d]) # {}
        /\ Used(d) = ds[d].manifest
        /\ Cardinality(Approved(ex[d])) = ds[d].count

\* A generated dataset under review, not edited yet, has the examples of one
\* attempt, not those of two, unless one that was behind has changed it.
GeneratedOnce ==
    \A d \in Datasets \ crossed :
        ds[d].status = "review_required" /\ ds[d].manifest = Generated =>
            Cardinality(Present(ex[d])) = ds[d].count

\* While a dataset is being generated somebody is still going to act on it: its
\* job can be delivered, is about to be inserted, or its failure to be marked.
GeneratingHasWork ==
    \A d \in Datasets : ds[d].status = "generating" =>
        \/ d \in lost
        \/ job[d].status \in {"queued", "running"}
        \/ \E r \in Requests : req[r].at = "owes a job" /\ req[r].ds = d
        \/ \E a \in Attempts : att[a].at \in {"marking", "failing"} /\ att[a].ds = d

\* The first try of a job never marks a dataset under review as failed: neither
\* by an error of its own, once it has stored the examples, nor by anything that
\* overlaps with it.  Later tries do.
OnlyLaterTriesFail ==
    [][\A d \in Datasets : ds[d].status = "review_required" /\ ds'[d].status = "failed"
          => job[d].tries > 1]_vars

\* Approval releases examples once and for all, as in DatasetReview: what a
\* dataset holds before its approval is its own business.
Review == INSTANCE DatasetReview WITH
    Texts <- Examples \X Contents, crossed <- crossed,
    stage <- [d \in Datasets |-> ds[d].status],
    used <- [d \in Datasets |-> IF Usable(d) THEN Used(d).rows ELSE {}],
    manifest <- [d \in Datasets |-> IF Usable(d) THEN ds[d].manifest.rows ELSE {}]

ImplementsReview == Review!Spec

\* The jobs of generations are delivered and settled as JobLifecycle, which the
\* job queue implements, has it.
Queue == INSTANCE JobLifecycle WITH
    Jobs <- Datasets, Cancellable <- {}, Workers <- Attempts, cancelling <- {},
    status <- [d \in Datasets |-> IF job[d].status = "none" THEN "absent" ELSE job[d].status],
    runners <- [d \in Datasets |-> AttemptsAt(d)]

JobsFollowQueue == Queue!Spec
=============================================================================
