--------------------------- MODULE DatasetProofs ---------------------------
(***************************************************************************)
(* Proofs about Dataset, for any sets of datasets, examples, contents,     *)
(* requests and attempts, any bounds, and any number of transactions open  *)
(* at one time:                                                            *)
(*  - TypeCorrect, the type invariant;                                     *)
(*  - GenerationIsNotForgotten: a dataset that is being generated has      *)
(*    somebody who will act on it;                                         *)
(*  - ApprovedStays: an approved dataset never changes;                    *)
(*  - ApprovedIsDescribed: its manifest and count describe what is used;   *)
(*  - OneAttemptIsStored: its examples are those of one attempt;           *)
(*  - GenerationJobsFollowQueue: the jobs refine JobLifecycle;             *)
(*  - FailureNeedsAnotherTry: the first try of a job leaves a dataset      *)
(*    under review alone;                                                  *)
(*  - DatasetsImplementReview: the datasets refine DatasetReview.          *)
(* ApprovedStays and the two after it, and the last, say nothing of a      *)
(* dataset that was crossed.                                               *)
(*                                                                         *)
(* The first needs to know that a request or an attempt that is under way  *)
(* is about a dataset, and that an edit replaces an example by another     *)
(* (Typed).  The second needs to know why an attempt that gives its job up *)
(* leaves a dataset that is not being generated any more (Stage): no       *)
(* transaction makes a dataset absent, or being generated, once it is      *)
(* neither (PastStays).  The next three and the last rest on what an open  *)
(* transaction has read, which is still so unless it is behind (Current):  *)
(* what another one commits puts it behind (StaysBehind), and then it      *)
(* crosses the dataset or does not change it (BehindCrosses).              *)
(* OneAttemptIsStored also needs to know that a dataset has no examples    *)
(* until they are stored (Single, ReadBlank); the refinement of the queue  *)
(* that a job is owed once, to a dataset that has none (Submitted); and    *)
(* FailureNeedsAnotherTry that until the second try one attempt at most    *)
(* works for a dataset, which is being generated until it has stored the   *)
(* examples (FirstTry), and that approvals come after that (Reviews).      *)
(***************************************************************************)
EXTENDS Dataset, FiniteSetTheorems, TLAPS

Requested ==
    \A r \in Requests : req[r].at # "idle" =>
        /\ req[r].ds \in Datasets
        /\ req[r].at \in {"cloning", "editing"} =>
              req[r].id \in Examples /\ req[r].rows[req[r].id] \in Row /\ req[r].new \in Row

Executed == \A a \in Attempts : att[a].at # "idle" => att[a].ds \in Datasets

Typed == TypeOK /\ Requested /\ Executed
-----------------------------------------------------------------------------
(* What the operators on rows, examples and datasets yield.                *)

LEMMA RowIsThere == NoRow \notin Row
  BY DEF NoRow, Row, Verdicts

LEMMA WrittenType ==
    ASSUME NEW S, NEW now \in S, NEW read, NEW new \in S
    PROVE  Written(now, read, new) \in S
  BY DEF Written

LEMMA FlushedType ==
    ASSUME NEW now \in Row, NEW read \in Row \cup {NoRow}, NEW new \in Row
    PROVE  Flushed(now, read, new) \in Row
  BY DEF Flushed, Written, Row

LEMMA FlushedSame ==
    ASSUME NEW now \in Row, NEW read
    PROVE  Flushed(now, read, read) = now
  BY DEF Flushed, Written, Row

LEMMA Blank ==
    /\ NoRows \in Rows
    /\ {NoManifest, Generated} \subseteq Manifests
    /\ NoVersion \in Version
    /\ NoRequest \in Request
    /\ NoAttempt \in Attempt
<1>1. NoRows \in Rows
  BY DEF NoRows, Rows
<1>2. {NoManifest, Generated} \subseteq Manifests
  BY DEF NoManifest, Generated, Manifests
<1>3. NoVersion \in Version
  BY <1>2 DEF NoVersion, Version, Statuses
<1>4. NoRequest \in Request
  BY <1>1, <1>3 DEF NoRequest, Request
<1>5. NoAttempt \in Attempt
  BY <1>3 DEF NoAttempt, Attempt
<1> QED BY <1>1, <1>2, <1>3, <1>4, <1>5

LEMMA PresentRows ==
    ASSUME NEW rows \in Rows
    PROVE  \A e \in Present(rows) : e \in Examples /\ rows[e] \in Row
  BY DEF Present, Rows

\* There are finitely many examples, so that the ones of a dataset are counted.
LEMMA Counted ==
    ASSUME NEW rows, NEW some, some \subseteq Present(rows)
    PROVE  Cardinality(some) \in Nat
<1>1. IsFiniteSet(some)
  BY BoundsAssumption, FS_Subset DEF Present
<1> QED BY <1>1, FS_CardinalityType

LEMMA ManifestType ==
    ASSUME NEW rows \in Rows, NEW accepted, accepted \subseteq Present(rows)
    PROVE  Manifest(rows, accepted) \in Manifests
<1>1. \A e \in accepted : e \in Examples /\ rows[e].content \in Contents
  BY PresentRows DEF Row
<1> QED BY <1>1 DEF Manifest, Manifests

LEMMA ReviewedType ==
    ASSUME NEW rows \in Rows
    PROVE  /\ Reviewed(rows) \in Rows
           /\ \A e \in Examples : rows[e] = NoRow => Reviewed(rows)[e] = NoRow
           /\ \A e \in Examples : rows[e] # NoRow => Reviewed(rows)[e] \in Row
<1>1. ASSUME NEW e \in Examples, rows[e] # NoRow
      PROVE  Reviewed(rows)[e] \in Row
  <2>1. rows[e] \in Row
    BY <1>1 DEF Rows
  <2>2. CASE rows[e].review = "rejected"
    BY <1>1, <2>1, <2>2 DEF Reviewed, Row
  <2>3. CASE rows[e].review # "rejected"
    BY <1>1, <2>1, <2>3 DEF Reviewed, Row, Verdicts
  <2> QED BY <2>2, <2>3
<1>2. ASSUME NEW e \in Examples, rows[e] = NoRow
      PROVE  Reviewed(rows)[e] = NoRow
  BY <1>2 DEF Reviewed
<1>3. Reviewed(rows) = [e \in Examples |-> Reviewed(rows)[e]]
  BY DEF Reviewed
<1> QED BY <1>1, <1>2, <1>3 DEF Rows

LEMMA CloneType ==
    ASSUME NEW row \in Row \cup {NoRow}
    PROVE  /\ Clone(row) \in Row \cup {NoRow}
           /\ row \in Row => Clone(row) \in Row
  BY RowIsThere DEF Clone, Row

LEMMA FreshType == Fresh \subseteq Rows
  BY DEF Fresh, Rows, Row, Verdicts
-----------------------------------------------------------------------------
(* How a step writes, and how a transaction ends.                          *)

\* Every other step leaves the datasets alone.
LEMMA Writers ==
    ASSUME [Next]_vars
    PROVE  \/ UNCHANGED <<ds, ex, crossed>>
           \/ \E d \in Datasets, rows \in Fresh : Import(d, rows)
           \/ \E r \in Requests, d \in Datasets : Generate(r, d) \/ CommitClone(r, d)
           \/ \E r \in Requests : CommitEdit(r) \/ CommitApproval(r)
           \/ \E a \in Attempts : \/ CommitReset(a) \/ CommitFailure(a)
                                  \/ \E rows \in Fresh : CommitExamples(a, rows)
  BY DEF Next, RequestStep, AttemptStep, EnqueueJob, DropJob, StartEdit, ReadExample,
         ReadSource, StartApproval, ReadExamples, EndEarly, StartJob, ReadDataset, Refuse,
         GenerationFails, ReadAgain, StoreFails, FinishJob, FinishFails, Retry, FailJob,
         ReadForFailure, Crash, RollsBack, vars, overlap

Only(d) == \A n \in Datasets \ {d} : ds'[n] = ds[n] /\ ex'[n] = ex[n]

\* Transaction x is rolled back, or commits what it did to a dataset.
Ends(x) ==
    \/ RollsBack(x) /\ UNCHANGED <<ds, ex>>
    \/ \E d \in Datasets : Commits(x, d) /\ Only(d)

\* Without a transaction that was open a step can only add a dataset.
Adds ==
    \E d \in Datasets :
        ds[d].status = "absent" /\ ds'[d].status \notin {"absent", "approved"} /\ Only(d)

LEMMA StepEnds ==
    ASSUME Typed, [Next]_vars
    PROVE  \/ UNCHANGED overlap /\ (UNCHANGED <<ds, ex>> \/ Adds)
           \/ \E r \in Requests \ OpenRequests' : Ends(r)
           \/ \E a \in Attempts \ OpenAttempts' : Ends(a)
<1> DEFINE Goal == \/ UNCHANGED overlap /\ (UNCHANGED <<ds, ex>> \/ Adds)
                   \/ \E r \in Requests \ OpenRequests' : Ends(r)
                   \/ \E a \in Attempts \ OpenAttempts' : Ends(a)
<1>0. /\ ds \in [Datasets -> Version] /\ ex \in [Datasets -> Rows]
      /\ req \in [Requests -> Request] /\ att \in [Attempts -> Attempt]
      /\ \A r \in Requests : req[r].at # "idle" => req[r].ds \in Datasets
      /\ \A a \in Attempts : att[a].at # "idle" => att[a].ds \in Datasets
  BY DEF Typed, TypeOK, Requested, Executed
<1>1. ASSUME UNCHANGED <<ds, ex, overlap>>
      PROVE  Goal
  BY <1>1
<1>2. ASSUME NEW d \in Datasets, NEW rows \in Fresh, Import(d, rows)
      PROVE  Goal
  BY <1>0, <1>2 DEF Import, Adds, Only
<1>3. ASSUME NEW r \in Requests, NEW d \in Datasets, Generate(r, d)
      PROVE  Goal
  BY <1>0, <1>3 DEF Generate, Adds, Only, Version, overlap
\* The request that ends is not open any more.
<1>4. ASSUME NEW r \in Requests, req' = [req EXCEPT ![r] = NoRequest]
      PROVE  r \in Requests \ OpenRequests'
  BY <1>0, <1>4 DEF OpenRequests, NoRequest
<1>5. ASSUME NEW r \in Requests, NEW d \in Datasets, CommitClone(r, d)
      PROVE  Goal
  <2>1. Ends(r)
    BY <1>0, <1>5 DEF CommitClone, Ends, Only
  <2> QED BY <1>4, <1>5, <2>1 DEF CommitClone
<1>6. ASSUME NEW r \in Requests, CommitEdit(r)
      PROVE  Goal
  <2>1. req[r].ds \in Datasets
    BY <1>0, <1>6 DEF CommitEdit
  <2>2. Ends(r)
    BY <1>0, <1>6, <2>1 DEF CommitEdit, Ends, Only
  <2> QED BY <1>4, <1>6, <2>2 DEF CommitEdit
<1>7. ASSUME NEW r \in Requests, CommitApproval(r)
      PROVE  Goal
  <2>1. req[r].ds \in Datasets
    BY <1>0, <1>7 DEF CommitApproval
  <2>2. Ends(r)
    BY <1>0, <1>7, <2>1 DEF CommitApproval, Ends, Only
  <2> QED BY <1>4, <1>7, <2>2 DEF CommitApproval
<1>8. ASSUME NEW r \in Requests, EndEarly(r)
      PROVE  Goal
  BY <1>4, <1>8 DEF EndEarly, Ends
\* The attempt that ends its transaction has none.
<1>9. ASSUME NEW a \in Attempts, att'[a].at \notin {"resetting", "storing", "failing"}
      PROVE  a \in Attempts \ OpenAttempts'
  BY <1>9 DEF OpenAttempts
<1>10. ASSUME NEW a \in Attempts, CommitReset(a)
       PROVE  Goal
  <2>1. att[a].ds \in Datasets /\ att'[a].at = "generating"
    BY <1>0, <1>10 DEF CommitReset, Attempt
  <2>2. Ends(a)
    BY <1>0, <1>10, <2>1 DEF CommitReset, Ends, Only
  <2> QED BY <1>9, <2>1, <2>2
<1>11. ASSUME NEW a \in Attempts, NEW rows \in Fresh, CommitExamples(a, rows)
       PROVE  Goal
  <2>1. att[a].ds \in Datasets /\ att'[a].at = "stored"
    BY <1>0, <1>11 DEF CommitExamples, Attempt
  <2>2. Ends(a)
    BY <1>0, <1>11, <2>1 DEF CommitExamples, Ends, Only
  <2> QED BY <1>9, <2>1, <2>2
<1>12. ASSUME NEW a \in Attempts, CommitFailure(a)
       PROVE  Goal
  <2>1. att[a].ds \in Datasets /\ att'[a].at = "idle"
    BY <1>0, <1>12 DEF CommitFailure, NoAttempt
  <2>2. Ends(a)
    BY <1>0, <1>12, <2>1 DEF CommitFailure, Ends, Only
  <2> QED BY <1>9, <2>1, <2>2
<1>13. ASSUME NEW a \in Attempts, StoreFails(a) \/ Crash(a)
       PROVE  Goal
  <2>1. att'[a].at \in {"erring", "idle"}
    BY <1>0, <1>13 DEF StoreFails, Crash, NoAttempt, Attempt
  <2>2. Ends(a)
    BY <1>13 DEF StoreFails, Crash, Ends
  <2> QED BY <1>9, <2>1, <2>2
<1> HIDE DEF Goal
<1>14. Goal
  BY <1>1, <1>2, <1>3, <1>5, <1>6, <1>7, <1>8, <1>10, <1>11, <1>12, <1>13
  DEF Next, RequestStep, AttemptStep, EnqueueJob, DropJob, StartEdit, ReadExample, ReadSource,
      StartApproval, ReadExamples, StartJob, ReadDataset, Refuse, GenerationFails, ReadAgain,
      FinishJob, FinishFails, Retry, FailJob, ReadForFailure, vars
<1> QED BY <1>14 DEF Goal

\* The histories have their types; what was crossed stays so, and only a
\* dataset that the step writes becomes so.
LEMMA OverlapStep ==
    ASSUME Typed, [Next]_vars
    PROVE  /\ behind' \in SUBSET (Requests \cup Attempts)
           /\ crossed' \in SUBSET Datasets
           /\ crossed \subseteq crossed'
<1>1. behind \subseteq Requests \cup Attempts /\ crossed \subseteq Datasets
  BY DEF Typed, TypeOK
<1>2. \A d \in Datasets : OpenAt(d) \subseteq Requests \cup Attempts
  BY DEF OpenAt, OpenRequests, OpenAttempts
<1>3. ASSUME NEW x, Ends(x)
      PROVE  /\ behind' \subseteq Requests \cup Attempts
             /\ crossed' \subseteq Datasets /\ crossed \subseteq crossed'
  <2>1. CASE RollsBack(x)
    BY <1>1, <2>1 DEF RollsBack
  <2>2. ASSUME NEW d \in Datasets, Commits(x, d)
        PROVE  /\ behind' \subseteq Requests \cup Attempts
               /\ crossed' \subseteq Datasets /\ crossed \subseteq crossed'
    BY <1>1, <1>2, <2>2 DEF Commits
  <2> QED BY <1>3, <2>1, <2>2 DEF Ends
<1> QED BY <1>1, <1>3, StepEnds DEF overlap
-----------------------------------------------------------------------------
(* The type invariant.                                                     *)

LEMMA TypedInit == Init => Typed
<1> SUFFICES ASSUME Init PROVE Typed
  OBVIOUS
<1>1. TypeOK
  <2>1. 0 \in 0..MaxGenerated /\ 0 \in 0..MaxRequests
    BY BoundsAssumption
  <2>2. 0 \in 0..MaxRedelivered /\ 0 \in 0..MaxCrashes
    BY BoundsAssumption
  <2> QED BY <2>1, <2>2, Blank DEF Init, TypeOK, JobStates
<1>2. Requested /\ Executed
  BY DEF Init, Requested, Executed, NoRequest, NoAttempt
<1> QED BY <1>1, <1>2 DEF Typed

LEMMA TypedStep == Typed /\ [Next]_vars => Typed'
<1> SUFFICES ASSUME Typed, [Next]_vars
             PROVE  Typed'
  OBVIOUS
<1>0. behind' \in SUBSET (Requests \cup Attempts) /\ crossed' \in SUBSET Datasets
  BY OverlapStep
<1> USE <1>0 DEF Typed, TypeOK, Requested, Executed
<1>1. ASSUME NEW d \in Datasets, NEW rows \in Fresh, Import(d, rows)
      PROVE  Typed'
  <2>1. rows \in Rows /\ Cardinality(Present(rows)) \in Nat
    BY FreshType, Counted
  <2>2. [status |-> "review_required", count |-> Cardinality(Present(rows)),
         manifest |-> NoManifest] \in Version
    BY <2>1, Blank DEF Version, Statuses
  <2> QED BY <1>1, <2>1, <2>2 DEF Import, counters
<1>2. ASSUME NEW r \in Requests, NEW d \in Datasets, Generate(r, d)
      PROVE  Typed'
  <2>1. [NoRequest EXCEPT !.at = "owes a job", !.ds = d] \in Request
    BY Blank DEF Request
  <2>2. [ds[d] EXCEPT !.status = "generating"] \in Version
    BY DEF Version, Statuses
  <2> QED BY <1>2, <2>1, <2>2, BoundsAssumption DEF Generate, NoRequest
<1>3. ASSUME NEW r \in Requests, EnqueueJob(r)
      PROVE  Typed'
  BY <1>3, Blank DEF EnqueueJob, counters, NoRequest, JobStates
<1>4. ASSUME NEW r \in Requests, DropJob(r)
      PROVE  Typed'
  BY <1>4, Blank DEF DropJob, counters, NoRequest
<1>5. ASSUME NEW r \in Requests, NEW d \in Datasets, StartEdit(r, d)
      PROVE  Typed'
  <2>1. [NoRequest EXCEPT !.at = "opening", !.ds = d, !.read = ds[d]] \in Request
    BY Blank DEF Request
  <2> QED BY <1>5, <2>1, BoundsAssumption DEF StartEdit, NoRequest
<1>27. ASSUME NEW r \in Requests, NEW e \in Examples, ReadExample(r, e)
       PROVE  Typed'
  <2> DEFINE q == req[r]
             row == ex[q.ds][e]
             at == IF q.read.status = "approved" THEN "cloning" ELSE "editing"
  <2>1. q \in Request /\ q.ds \in Datasets
    BY <1>27 DEF ReadExample
  <2>2. row \in Row
    BY <1>27, <2>1, PresentRows DEF ReadExample, Rows
  <2>3. PICK new \in Row :
           req' = [req EXCEPT ![r] =
                     [q EXCEPT !.at = at, !.id = e, !.rows = [NoRows EXCEPT ![e] = row],
                               !.new = new]]
    BY <1>27 DEF ReadExample, Edits
  <2> DEFINE rows == [NoRows EXCEPT ![e] = row]
             next == [q EXCEPT !.at = at, !.id = e, !.rows = rows, !.new = new]
  <2>4. rows \in Rows /\ rows[e] = row
    BY <2>2, Blank DEF Rows
  <2>5. /\ next \in Request /\ next.at # "idle" /\ next.ds = q.ds /\ next.id = e
        /\ next.rows = rows /\ next.new = new
    BY <2>1, <2>4 DEF Request
  <2>6. UNCHANGED <<ds, ex, job, att, lost, counters>> /\ req' = [req EXCEPT ![r] = next]
    BY <1>27, <2>3 DEF ReadExample
  <2> HIDE DEF next, rows, row
  <2> QED BY <2>1, <2>2, <2>4, <2>5, <2>6 DEF counters
<1>28. ASSUME NEW r \in Requests, ReadSource(r)
       PROVE  Typed'
  <2> DEFINE q == req[r]
             rows == [ex[q.ds] EXCEPT ![q.id] = q.rows[q.id]]
             next == [q EXCEPT !.at = "editing", !.rows = rows]
  <2>1. /\ q \in Request /\ q.ds \in Datasets
        /\ q.id \in Examples /\ q.rows[q.id] \in Row /\ q.new \in Row
    BY <1>28 DEF ReadSource
  <2>2. rows \in Rows /\ rows[q.id] = q.rows[q.id]
    BY <2>1 DEF Rows
  <2>3. /\ next \in Request /\ next.at # "idle" /\ next.ds = q.ds /\ next.id = q.id
        /\ next.rows = rows /\ next.new = q.new
    BY <2>1, <2>2 DEF Request
  <2>4. UNCHANGED <<ds, ex, job, att, lost, counters>> /\ req' = [req EXCEPT ![r] = next]
    BY <1>28 DEF ReadSource
  <2> HIDE DEF next, rows
  <2> QED BY <2>1, <2>2, <2>3, <2>4 DEF counters
<1>6. ASSUME NEW r \in Requests, NEW n \in Datasets, CommitClone(r, n)
      PROVE  Typed'
  <2> DEFINE q == req[r]
             rows == [e \in Examples |-> IF e = q.id THEN q.new ELSE Clone(q.rows[e])]
  <2>1. q \in Request /\ q.new \in Row
    BY <1>6 DEF CommitClone
  <2>2. rows \in Rows
    BY <2>1, CloneType DEF Request, Rows
  <2>3. [status |-> "review_required", count |-> q.read.count, manifest |-> NoManifest]
           \in Version
    BY <2>1, Blank DEF Request, Version, Statuses
  <2> QED BY <1>6, <2>2, <2>3, Blank DEF CommitClone, counters, NoRequest
<1>7. ASSUME NEW r \in Requests, CommitEdit(r)
      PROVE  Typed'
  <2> DEFINE q == req[r]
             row == Flushed(ex[q.ds][q.id], q.rows[q.id], q.new)
             manifest == Written(ds[q.ds].manifest, q.read.manifest, NoManifest)
  <2>1. /\ q \in Request /\ q.ds \in Datasets /\ q.id \in Examples
        /\ q.rows[q.id] \in Row /\ q.new \in Row
    BY <1>7 DEF CommitEdit
  <2>2. ex[q.ds][q.id] \in Row
    BY <1>7, <2>1 DEF CommitEdit, Rows
  <2>3. row \in Row
    BY <2>1, <2>2, FlushedType
  <2>4. ds[q.ds] \in Version /\ ds[q.ds].manifest \in Manifests
    BY <2>1 DEF Version
  <2>5. manifest \in Manifests
    BY <2>4, Blank, WrittenType
  <2>6. ds' = [ds EXCEPT ![q.ds].manifest = manifest]
    BY <1>7 DEF CommitEdit
  <2>7. ex' = [ex EXCEPT ![q.ds][q.id] = row]
    BY <1>7 DEF CommitEdit
  <2>8. ex' \in [Datasets -> Rows]
    <3> HIDE DEF row
    <3> QED BY <2>1, <2>3, <2>7 DEF Rows
  <2>9. ds' \in [Datasets -> Version]
    <3> HIDE DEF manifest
    <3> QED BY <2>4, <2>5, <2>6 DEF Version
  <2> QED BY <1>7, <2>8, <2>9, Blank DEF CommitEdit, counters, NoRequest
<1>8. ASSUME NEW r \in Requests, NEW d \in Datasets, StartApproval(r, d)
      PROVE  Typed'
  <2>1. [NoRequest EXCEPT !.at = "reviewing", !.ds = d, !.read = ds[d]] \in Request
    BY Blank DEF Request
  <2> QED BY <1>8, <2>1, BoundsAssumption DEF StartApproval, NoRequest
<1>9. ASSUME NEW r \in Requests, ReadExamples(r)
      PROVE  Typed'
  <2>1. req[r].ds \in Datasets /\ req[r] \in Request /\ ex[req[r].ds] \in Rows
    BY <1>9 DEF ReadExamples
  <2>2. [req[r] EXCEPT !.at = "approving", !.rows = ex[req[r].ds]] \in Request
    <3> HIDE DEF Typed, TypeOK, Requested, Executed
    <3> QED BY <2>1 DEF Request
  <2> QED BY <1>9, <2>1, <2>2 DEF ReadExamples, counters
<1>10. ASSUME NEW r \in Requests, CommitApproval(r)
       PROVE  Typed'
  <2> DEFINE q == req[r]
             new == Reviewed(q.rows)
             row == [status |-> "approved",
                     count |-> Written(ds[q.ds].count, q.read.count,
                                       Cardinality(Accepted(q.rows))),
                     manifest |-> Manifest(q.rows, Accepted(q.rows))]
             rows == [e \in Examples |-> IF ex[q.ds][e] = NoRow THEN NoRow
                                         ELSE Flushed(ex[q.ds][e], q.rows[e], new[e])]
  <2>1. q \in Request /\ q.ds \in Datasets /\ q.rows \in Rows
    BY <1>10 DEF CommitApproval, Request
  <2>2. Accepted(q.rows) \subseteq Present(q.rows)
    BY DEF Accepted
  <2>3. Manifest(q.rows, Accepted(q.rows)) \in Manifests
    BY <2>1, <2>2, ManifestType
  <2>4. Cardinality(Accepted(q.rows)) \in Nat /\ ds[q.ds].count \in Nat
    BY <2>1, <2>2, Counted DEF Version
  <2>5. row \in Version
    BY <2>3, <2>4, WrittenType DEF Version, Statuses
  <2>6. \A e \in Examples : rows[e] \in Row \cup {NoRow}
    <3> SUFFICES ASSUME NEW e \in Examples, ex[q.ds][e] # NoRow
                 PROVE  Flushed(ex[q.ds][e], q.rows[e], new[e]) \in Row
      OBVIOUS
    <3>1. ex[q.ds][e] \in Row /\ q.rows[e] \in Row \cup {NoRow}
      BY <2>1 DEF Rows
    <3>2. CASE q.rows[e] = NoRow
      BY <2>1, <3>1, <3>2, ReviewedType, FlushedSame
    <3>3. CASE q.rows[e] # NoRow
      BY <2>1, <3>1, <3>3, ReviewedType, FlushedType
    <3> QED BY <3>2, <3>3
  <2>7. rows \in Rows
    BY <2>6 DEF Rows
  <2>8. /\ ds' = [ds EXCEPT ![q.ds] = row] /\ ex' = [ex EXCEPT ![q.ds] = rows]
        /\ req' = [req EXCEPT ![r] = NoRequest]
        /\ UNCHANGED <<job, att, lost, counters>>
    BY <1>10 DEF CommitApproval
  <2> HIDE DEF row, rows
  <2> QED BY <2>1, <2>5, <2>7, <2>8, Blank DEF counters, NoRequest
<1>11. ASSUME NEW r \in Requests, EndEarly(r)
       PROVE  Typed'
  BY <1>11, Blank DEF EndEarly, counters, NoRequest
<1>12. ASSUME NEW a \in Attempts, NEW d \in Datasets, StartJob(a, d)
       PROVE  Typed'
  <2>1. [NoAttempt EXCEPT !.at = "started", !.ds = d] \in Attempt
    BY Blank DEF Attempt
  <2>2. [status |-> "running", tries |-> job[d].tries + 1] \in [status : JobStates, tries : Nat]
    BY DEF JobStates
  <2>3. redelivered' \in 0..MaxRedelivered
    BY <1>12, BoundsAssumption DEF StartJob
  <2> QED BY <1>12, <2>1, <2>2, <2>3 DEF StartJob, NoAttempt
<1>13. ASSUME NEW a \in Attempts, ReadDataset(a)
       PROVE  Typed'
  BY <1>13 DEF ReadDataset, counters, Attempt
<1>14. ASSUME NEW a \in Attempts, Refuse(a)
       PROVE  Typed'
  BY <1>14 DEF Refuse, Step, counters, Attempt
<1>15. ASSUME NEW a \in Attempts, CommitReset(a)
       PROVE  Typed'
  <2> DEFINE d == att[a].ds
             count == Written(ds[d].count, att[a].read.count, 0)
             manifest == Written(ds[d].manifest, att[a].read.manifest, NoManifest)
  <2>1. d \in Datasets /\ ds[d].count \in Nat /\ ds[d].manifest \in Manifests
    BY <1>15 DEF CommitReset, Version
  <2>2. count \in Nat /\ manifest \in Manifests
    BY <2>1, Blank, WrittenType
  <2>3. ds' = [ds EXCEPT ![d].count = count, ![d].manifest = manifest]
    BY <1>15 DEF CommitReset
  <2>4. ds' \in [Datasets -> Version]
    <3> HIDE DEF count, manifest
    <3> QED BY <2>1, <2>2, <2>3 DEF Version
  <2>5. att' \in [Attempts -> Attempt]
    BY <1>15, Blank DEF CommitReset, Attempt
  <2> QED BY <1>15, <2>1, <2>4, <2>5, Blank DEF CommitReset, counters
<1>16. ASSUME NEW a \in Attempts, GenerationFails(a)
       PROVE  Typed'
  <2>1. att[a].at # "idle" /\ att' = [att EXCEPT ![a].at = "erring"]
    BY <1>16 DEF GenerationFails, Step
  <2>2. att' \in [Attempts -> Attempt]
    BY <2>1 DEF Attempt
  <2> QED BY <1>16, <2>1, <2>2 DEF GenerationFails, counters
<1>17. ASSUME NEW a \in Attempts, ReadAgain(a)
       PROVE  Typed'
  BY <1>17 DEF ReadAgain, counters, Attempt
<1>18. ASSUME NEW a \in Attempts, NEW rows \in Fresh, CommitExamples(a, rows)
       PROVE  Typed'
  <2> DEFINE d == att[a].ds
             row == [status |-> Written(ds[d].status, att[a].read.status, "review_required"),
                     count |-> Written(ds[d].count, att[a].read.count,
                                       Cardinality(Present(rows))),
                     manifest |-> Written(ds[d].manifest, att[a].read.manifest, Generated)]
             all == [e \in Examples |-> IF e \in Present(rows) THEN rows[e] ELSE ex[d][e]]
  <2>1. d \in Datasets /\ ds[d] \in Version /\ ex[d] \in Rows
    BY <1>18 DEF CommitExamples
  <2>2. rows \in Rows /\ Cardinality(Present(rows)) \in Nat
    BY FreshType, Counted
  <2>3. Written(ds[d].status, att[a].read.status, "review_required") \in Statuses
    BY <2>1 DEF Written, Version, Statuses
  <2>4. Written(ds[d].count, att[a].read.count, Cardinality(Present(rows))) \in Nat
    BY <2>1, <2>2 DEF Written, Version
  <2>5. Written(ds[d].manifest, att[a].read.manifest, Generated) \in Manifests
    BY <2>1, Blank DEF Written, Version
  <2>6. row \in Version
    BY <2>3, <2>4, <2>5 DEF Version
  <2>7. all \in Rows
    BY <2>1, <2>2 DEF Rows
  <2>8. ds' = [ds EXCEPT ![d] = row] /\ ex' = [ex EXCEPT ![d] = all]
    BY <1>18 DEF CommitExamples
  <2>9. att' \in [Attempts -> Attempt]
    BY <1>18, Blank DEF CommitExamples, Attempt
  <2> HIDE DEF row, all
  <2> QED BY <1>18, <2>1, <2>6, <2>7, <2>8, <2>9 DEF CommitExamples, counters
<1>19. ASSUME NEW a \in Attempts, StoreFails(a)
       PROVE  Typed'
  BY <1>19, Blank DEF StoreFails, counters, Attempt
<1>20. ASSUME NEW a \in Attempts, FinishJob(a)
       PROVE  Typed'
  BY <1>20, Blank DEF FinishJob, counters, NoAttempt, JobStates
<1>29. ASSUME NEW a \in Attempts, FinishFails(a)
       PROVE  Typed'
  <2>1. att[a].at = "stored" /\ att' = [att EXCEPT ![a].at = "erring"]
    BY <1>29 DEF FinishFails, Step
  <2>2. job' \in [Datasets -> [status : JobStates, tries : Nat]]
    BY <1>29 DEF FinishFails, JobStates
  <2>3. att' \in [Attempts -> Attempt]
    BY <2>1 DEF Attempt
  <2> QED BY <1>29, <2>1, <2>2, <2>3 DEF FinishFails, counters
<1>21. ASSUME NEW a \in Attempts, Retry(a)
       PROVE  Typed'
  BY <1>21, Blank DEF Retry, counters, NoAttempt, JobStates
<1>22. ASSUME NEW a \in Attempts, FailJob(a)
       PROVE  Typed'
  <2>1. att[a].at # "idle" /\ att' = [att EXCEPT ![a].at = "marking"]
    BY <1>22 DEF FailJob, Step
  <2>2. job' \in [Datasets -> [status : JobStates, tries : Nat]]
    BY <1>22 DEF FailJob, JobStates
  <2>3. att' \in [Attempts -> Attempt]
    BY <2>1 DEF Attempt
  <2> QED BY <1>22, <2>1, <2>2, <2>3 DEF FailJob, counters
<1>23. ASSUME NEW a \in Attempts, ReadForFailure(a)
       PROVE  Typed'
  <2>1. att[a].ds \in Datasets /\ att[a] \in Attempt
    BY <1>23 DEF ReadForFailure
  <2>2. CASE FailsWith(ds[att[a].ds].status)
    <3> DEFINE next == [att[a] EXCEPT !.at = "failing", !.read = ds[att[a].ds]]
    <3>1. att' = [att EXCEPT ![a] = next]
      BY <1>23, <2>2 DEF ReadForFailure
    <3>2. next \in Attempt /\ next.ds \in Datasets
      BY <2>1 DEF Attempt
    <3>3. UNCHANGED <<ds, ex, job, req, lost, counters>>
      BY <1>23 DEF ReadForFailure
    <3> HIDE DEF next
    <3> QED BY <3>1, <3>2, <3>3 DEF counters
  <2>3. CASE ~FailsWith(ds[att[a].ds].status)
    <3>1. att' = [att EXCEPT ![a] = NoAttempt]
      BY <1>23, <2>3 DEF ReadForFailure
    <3> QED BY <1>23, <2>1, <3>1, Blank DEF ReadForFailure, counters, NoAttempt
  <2> QED BY <2>2, <2>3
<1>24. ASSUME NEW a \in Attempts, CommitFailure(a)
       PROVE  Typed'
  <2> DEFINE d == att[a].ds
             status == Written(ds[d].status, att[a].read.status, "failed")
  <2>1. d \in Datasets /\ ds[d] \in Version
    BY <1>24 DEF CommitFailure
  <2>2. status \in Statuses
    BY <2>1 DEF Written, Version, Statuses
  <2>3. ds' = [ds EXCEPT ![d].status = status]
    BY <1>24 DEF CommitFailure
  <2>4. ds' \in [Datasets -> Version]
    <3> HIDE DEF status
    <3> QED BY <2>1, <2>2, <2>3 DEF Version
  <2> QED BY <1>24, <2>4, Blank DEF CommitFailure, counters, NoAttempt
<1>25. ASSUME NEW a \in Attempts, Crash(a)
       PROVE  Typed'
  BY <1>25, Blank, BoundsAssumption DEF Crash, NoAttempt
<1>26. CASE UNCHANGED vars
  BY <1>26 DEF vars, counters
<1> HIDE DEF Typed, TypeOK, Requested, Executed
<1> QED
  BY <1>1, <1>2, <1>3, <1>4, <1>5, <1>6, <1>7, <1>8, <1>9, <1>10, <1>11, <1>12, <1>13, <1>14,
     <1>15, <1>16, <1>17, <1>18, <1>19, <1>20, <1>21, <1>22, <1>23, <1>24, <1>25, <1>26, <1>27,
     <1>28, <1>29
  DEF Next, RequestStep, AttemptStep

LEMMA TypedInvariant == Spec => []Typed
<1> QED BY TypedInit, TypedStep, PTL DEF Spec

\* Every row, request and attempt has the values the code gives it, whatever
\* overlaps: no flush writes one example's columns over those of none.
THEOREM TypeCorrect == Spec => []TypeOK
<1>1. Typed => TypeOK
  BY DEF Typed
<1> QED BY TypedInvariant, <1>1, PTL
-----------------------------------------------------------------------------
(* A generation is not forgotten.                                          *)

Past(d) == ds[d].status \notin {"absent", "generating"}

\* An attempt that stores examples has read that they are wanted; once they
\* are stored, or the dataset was found failed, it is past its generation.
Stage(a) ==
    /\ att[a].at = "storing" => att[a].read.status = "generating"
    /\ att[a].at = "stored" => Past(att[a].ds)
    /\ att[a].at = "failing" /\ att[a].read.status = "failed" => Past(att[a].ds)

Stages == \A a \in Attempts : Stage(a)

Work(d) ==
    \/ d \in lost
    \/ job[d].status \in {"queued", "running"}
    \/ \E r \in Requests : req[r].at = "owes a job" /\ req[r].ds = d
    \/ \E a \in Attempts : att[a].at \in {"marking", "failing"} /\ att[a].ds = d

Worked == \A d \in Datasets : ds[d].status = "generating" => Work(d)

\* No transaction makes a dataset absent, or being generated, again.
LEMMA PastStays ==
    ASSUME Typed, [Next]_vars, NEW d \in Datasets, Past(d)
    PROVE  Past(d)'
<1> USE DEF Past, Typed, TypeOK, Executed, Requested
<1>1. ASSUME UNCHANGED ds
      PROVE  Past(d)'
  BY <1>1
<1>2. ASSUME NEW n \in Datasets, NEW rows \in Fresh, Import(n, rows)
      PROVE  Past(d)'
  BY <1>2 DEF Import
<1>3. ASSUME NEW r \in Requests, NEW n \in Datasets, Generate(r, n)
      PROVE  Past(d)'
  BY <1>3 DEF Generate
<1>4. ASSUME NEW r \in Requests, NEW n \in Datasets, CommitClone(r, n)
      PROVE  Past(d)'
  BY <1>4 DEF CommitClone
<1>5. ASSUME NEW r \in Requests, CommitEdit(r)
      PROVE  Past(d)'
  <2>1. ds'[d].status = ds[d].status
    BY <1>5 DEF CommitEdit, Version
  <2> QED BY <2>1
<1>6. ASSUME NEW r \in Requests, CommitApproval(r)
      PROVE  Past(d)'
  <2>1. ds'[d].status \in {ds[d].status, "approved"}
    BY <1>6 DEF CommitApproval
  <2> QED BY <2>1
<1>7. ASSUME NEW a \in Attempts, CommitReset(a)
      PROVE  Past(d)'
  <2>1. ds'[d].status = ds[d].status
    BY <1>7 DEF CommitReset, Version
  <2> QED BY <2>1
<1>8. ASSUME NEW a \in Attempts, NEW rows \in Fresh, CommitExamples(a, rows)
      PROVE  Past(d)'
  <2>1. ds'[d].status \in {ds[d].status, "review_required"}
    BY <1>8 DEF CommitExamples, Written
  <2> QED BY <2>1
<1>9. ASSUME NEW a \in Attempts, CommitFailure(a)
      PROVE  Past(d)'
  <2>1. ds'[d].status \in {ds[d].status, "failed"}
    BY <1>9 DEF CommitFailure, Written, Version
  <2> QED BY <2>1
<1> HIDE DEF Past, Typed, TypeOK, Executed, Requested
<1> QED
  BY <1>1, <1>2, <1>3, <1>4, <1>5, <1>6, <1>7, <1>8, <1>9, Writers

\* Most attempts are not touched by a step.
LEMMA StageStays ==
    ASSUME Typed, [Next]_vars, NEW a \in Attempts, Stage(a), att'[a] = att[a]
    PROVE  Stage(a)'
<1>1. att[a].at # "idle" => att[a].ds \in Datasets
  BY DEF Typed, Executed
<1> QED BY <1>1, PastStays DEF Stage, Past

LEMMA StagesStep == Typed /\ Stages /\ [Next]_vars => Stages'
<1> SUFFICES ASSUME Typed, Stages, [Next]_vars
             PROVE  Stages'
  OBVIOUS
<1> USE DEF Typed, TypeOK
<1>1. ASSUME UNCHANGED att
      PROVE  Stages'
  BY <1>1, StageStays DEF Stages
<1>2. ASSUME NEW a \in Attempts, Stage(a)', \A b \in Attempts \ {a} : att'[b] = att[b]
      PROVE  Stages'
  BY <1>2, StageStays DEF Stages
<1>3. ASSUME NEW a \in Attempts, NEW d \in Datasets, StartJob(a, d)
      PROVE  Stages'
  BY <1>2, <1>3 DEF StartJob, Stage, NoAttempt
<1>4. ASSUME NEW a \in Attempts, ReadDataset(a)
      PROVE  Stages'
  BY <1>2, <1>4 DEF ReadDataset, Stage, Attempt
<1>5. ASSUME NEW a \in Attempts, Refuse(a)
      PROVE  Stages'
  BY <1>2, <1>5 DEF Refuse, Step, Stage, Attempt
<1>6. ASSUME NEW a \in Attempts, CommitReset(a)
      PROVE  Stages'
  BY <1>2, <1>6 DEF CommitReset, Stage, Attempt
<1>7. ASSUME NEW a \in Attempts, GenerationFails(a)
      PROVE  Stages'
  BY <1>2, <1>7 DEF GenerationFails, Step, Stage, Attempt
<1>8. ASSUME NEW a \in Attempts, ReadAgain(a)
      PROVE  Stages'
  BY <1>2, <1>8 DEF ReadAgain, Stage, Attempt, StillGenerating
<1>9. ASSUME NEW a \in Attempts, NEW rows \in Fresh, CommitExamples(a, rows)
      PROVE  Stages'
  <2>1. att[a].ds \in Datasets /\ att[a].read.status = "generating"
    BY <1>9 DEF CommitExamples, Executed, Stages, Stage
  <2>2. ds'[att[a].ds].status = "review_required"
    BY <1>9, <2>1 DEF CommitExamples, Written
  <2>3. /\ att'[a].at = "stored" /\ att'[a].ds = att[a].ds
        /\ \A b \in Attempts \ {a} : att'[b] = att[b]
    BY <1>9 DEF CommitExamples, Attempt
  <2>4. Stage(a)'
    BY <2>2, <2>3 DEF Stage, Past
  <2> QED BY <1>2, <2>3, <2>4
<1>10. ASSUME NEW a \in Attempts, StoreFails(a)
       PROVE  Stages'
  BY <1>2, <1>10 DEF StoreFails, Stage, Attempt
<1>11. ASSUME NEW a \in Attempts, att' = [att EXCEPT ![a] = NoAttempt]
       PROVE  Stages'
  BY <1>2, <1>11 DEF Stage, NoAttempt
<1>12. ASSUME NEW a \in Attempts, FailJob(a)
       PROVE  Stages'
  <2>1. att' = [att EXCEPT ![a].at = "marking"]
    BY <1>12 DEF FailJob, Step
  <2> QED BY <1>2, <2>1 DEF Stage, Attempt
<1>13. ASSUME NEW a \in Attempts, ReadForFailure(a), FailsWith(ds[att[a].ds].status)
       PROVE  Stages'
  <2>1. att' = [att EXCEPT ![a] = [@ EXCEPT !.at = "failing", !.read = ds[att[a].ds]]]
    BY <1>13 DEF ReadForFailure
  <2>2. /\ att'[a].at = "failing" /\ att'[a].ds = att[a].ds /\ att'[a].read = ds[att[a].ds]
        /\ \A b \in Attempts \ {a} : att'[b] = att[b]
    BY <2>1 DEF Attempt
  <2>3. ds' = ds
    BY <1>13 DEF ReadForFailure
  <2>4. Stage(a)'
    BY <2>2, <2>3 DEF Stage, Past
  <2> QED BY <1>2, <2>2, <2>4
<1>14. ASSUME NEW a \in Attempts, ReadForFailure(a), ~FailsWith(ds[att[a].ds].status)
       PROVE  Stages'
  BY <1>11, <1>14 DEF ReadForFailure
<1>15. ASSUME NEW a \in Attempts, FinishFails(a)
       PROVE  Stages'
  <2>1. att' = [att EXCEPT ![a].at = "erring"]
    BY <1>15 DEF FinishFails, Step
  <2> QED BY <1>2, <2>1 DEF Stage, Attempt
<1> HIDE DEF Typed, TypeOK
<1> QED
  BY <1>1, <1>3, <1>4, <1>5, <1>6, <1>7, <1>8, <1>9, <1>10, <1>11, <1>12, <1>13, <1>14, <1>15
  DEF Next, RequestStep, AttemptStep, Import, Generate, EnqueueJob, DropJob, StartEdit,
      ReadExample, ReadSource, StartApproval, CommitClone, CommitEdit, ReadExamples,
      CommitApproval, EndEarly, FinishJob, Retry, CommitFailure, Crash, vars

LEMMA WorkedStep == Typed /\ Stages /\ Worked /\ [Next]_vars => Worked'
<1> SUFFICES ASSUME Typed, Stages, Worked, [Next]_vars,
                    NEW d \in Datasets, ds'[d].status = "generating"
             PROVE  Work(d)'
  BY DEF Worked
<1> USE DEF Typed, TypeOK, Work
<1>1. ds[d].status = "generating" => Work(d)
  BY DEF Worked
<1>2. ~Past(d)
  BY PastStays DEF Past
<1>3. ASSUME NEW n \in Datasets, NEW rows \in Fresh, Import(n, rows)
      PROVE  Work(d)'
  BY <1>1, <1>3 DEF Import
<1>4. ASSUME NEW r \in Requests, NEW n \in Datasets, Generate(r, n)
      PROVE  Work(d)'
  <2>1. CASE n = d
    <3>1. req'[r].at = "owes a job" /\ req'[r].ds = d
      BY <1>4, <2>1 DEF Generate, NoRequest
    <3> QED BY <3>1
  <2>2. CASE n # d
    <3>1. ds[d].status = "generating"
      BY <1>4, <2>2 DEF Generate
    <3>2. \A q \in Requests : req[q].at = "owes a job" => req'[q] = req[q]
      BY <1>4 DEF Generate
    <3> QED BY <1>1, <1>4, <3>1, <3>2 DEF Generate
  <2> QED BY <2>1, <2>2
<1>5. ASSUME NEW r \in Requests, EnqueueJob(r)
      PROVE  Work(d)'
  BY <1>1, <1>5 DEF EnqueueJob, Requested
<1>6. ASSUME NEW r \in Requests, DropJob(r)
      PROVE  Work(d)'
  BY <1>1, <1>6 DEF DropJob, Requested
\* The other requests are not about the job of a dataset.
<1>7. ASSUME ds[d].status = "generating", UNCHANGED <<job, att, lost>>,
             \A q \in Requests : req[q].at = "owes a job" => req'[q] = req[q]
      PROVE  Work(d)'
  BY <1>1, <1>7
<1>8. ASSUME NEW r \in Requests, NEW n \in Datasets, StartEdit(r, n)
      PROVE  Work(d)'
  BY <1>7, <1>8 DEF StartEdit
<1>31. ASSUME NEW r \in Requests, NEW e \in Examples, ReadExample(r, e)
       PROVE  Work(d)'
  BY <1>7, <1>31 DEF ReadExample
<1>32. ASSUME NEW r \in Requests, ReadSource(r)
       PROVE  Work(d)'
  BY <1>7, <1>32 DEF ReadSource
<1>9. ASSUME NEW r \in Requests, NEW n \in Datasets, StartApproval(r, n)
      PROVE  Work(d)'
  BY <1>7, <1>9 DEF StartApproval
<1>10. ASSUME NEW r \in Requests, NEW n \in Datasets, CommitClone(r, n)
       PROVE  Work(d)'
  BY <1>7, <1>10 DEF CommitClone
<1>11. ASSUME NEW r \in Requests, CommitEdit(r)
       PROVE  Work(d)'
  <2>1. ds'[d].status = ds[d].status
    BY <1>11 DEF CommitEdit, Version
  <2> QED BY <1>7, <1>11, <2>1 DEF CommitEdit
<1>12. ASSUME NEW r \in Requests, ReadExamples(r)
       PROVE  Work(d)'
  BY <1>7, <1>12 DEF ReadExamples
<1>13. ASSUME NEW r \in Requests, CommitApproval(r)
       PROVE  Work(d)'
  <2>1. ds[d].status = "generating"
    BY <1>13 DEF CommitApproval
  <2> QED BY <1>7, <1>13, <2>1 DEF CommitApproval
<1>14. ASSUME NEW r \in Requests, EndEarly(r)
       PROVE  Work(d)'
  BY <1>7, <1>14 DEF EndEarly, OpenRequests
<1>15. ASSUME NEW a \in Attempts, NEW n \in Datasets, StartJob(a, n)
       PROVE  Work(d)'
  <2>1. job[d].status \in {"queued", "running"} => job'[d].status \in {"queued", "running"}
    BY <1>15 DEF StartJob
  <2>2. \A b \in Attempts : att[b].at # "idle" => att'[b] = att[b]
    BY <1>15 DEF StartJob
  <2> QED BY <1>1, <1>15, <2>1, <2>2 DEF StartJob
\* So are the steps of an attempt that has not given its job up.
<1>16. ASSUME NEW a \in Attempts, att[a].at \notin {"marking", "failing"},
              ds[d].status = "generating", UNCHANGED <<job, req, lost>>,
              \A b \in Attempts \ {a} : att'[b] = att[b]
       PROVE  Work(d)'
  BY <1>1, <1>16
<1>17. ASSUME NEW a \in Attempts, ReadDataset(a)
       PROVE  Work(d)'
  BY <1>16, <1>17 DEF ReadDataset
<1>18. ASSUME NEW a \in Attempts, Refuse(a)
       PROVE  Work(d)'
  BY <1>16, <1>18 DEF Refuse, Step
<1>19. ASSUME NEW a \in Attempts, CommitReset(a)
       PROVE  Work(d)'
  <2>1. ds'[d].status = ds[d].status
    BY <1>19 DEF CommitReset, Version
  <2> QED BY <1>16, <1>19, <2>1 DEF CommitReset
<1>20. ASSUME NEW a \in Attempts, GenerationFails(a)
       PROVE  Work(d)'
  BY <1>16, <1>20 DEF GenerationFails, Step
<1>21. ASSUME NEW a \in Attempts, ReadAgain(a)
       PROVE  Work(d)'
  BY <1>16, <1>21 DEF ReadAgain
<1>22. ASSUME NEW a \in Attempts, NEW rows \in Fresh, CommitExamples(a, rows)
       PROVE  Work(d)'
  <2>1. ds[d].status = "generating"
    BY <1>22 DEF CommitExamples, Written
  <2> QED BY <1>16, <1>22, <2>1 DEF CommitExamples
<1>23. ASSUME NEW a \in Attempts, StoreFails(a)
       PROVE  Work(d)'
  BY <1>16, <1>23 DEF StoreFails
<1>24. ASSUME NEW a \in Attempts, FinishJob(a)
       PROVE  Work(d)'
  <2>1. att[a].ds # d /\ ds[d].status = "generating"
    BY <1>2, <1>24 DEF FinishJob, Stages, Stage
  <2>2. job'[d] = job[d]
    BY <1>24, <2>1 DEF FinishJob
  <2>3. \A b \in Attempts : att[b].at \in {"marking", "failing"} => att'[b] = att[b]
    BY <1>24 DEF FinishJob
  <2> QED BY <1>1, <1>24, <2>1, <2>2, <2>3 DEF FinishJob
<1>33. ASSUME NEW a \in Attempts, FinishFails(a)
       PROVE  Work(d)'
  <2>1. att[a].ds # d /\ ds[d].status = "generating"
    BY <1>2, <1>33 DEF FinishFails, Step, Stages, Stage
  <2>2. job'[d] = job[d]
    BY <1>33, <2>1 DEF FinishFails
  <2>3. \A b \in Attempts : att[b].at \in {"marking", "failing"} => att'[b] = att[b]
    BY <1>33 DEF FinishFails, Step
  <2> QED BY <1>1, <1>33, <2>1, <2>2, <2>3 DEF FinishFails
<1>25. ASSUME NEW a \in Attempts, Retry(a)
       PROVE  Work(d)'
  <2>1. job[d].status \in {"queued", "running"} => job'[d].status \in {"queued", "running"}
    BY <1>25 DEF Retry
  <2>2. \A b \in Attempts : att[b].at \in {"marking", "failing"} => att'[b] = att[b]
    BY <1>25 DEF Retry
  <2> QED BY <1>1, <1>25, <2>1, <2>2 DEF Retry
<1>26. ASSUME NEW a \in Attempts, FailJob(a)
       PROVE  Work(d)'
  <2>1. att' = [att EXCEPT ![a].at = "marking"]
    BY <1>26 DEF FailJob, Step
  <2>2. /\ att'[a].at = "marking" /\ att'[a].ds = att[a].ds
        /\ \A b \in Attempts \ {a} : att'[b] = att[b]
    BY <2>1 DEF Attempt
  <2>3. att[a].at \notin {"marking", "failing"}
    BY <1>26 DEF FailJob, Step
  <2>4. CASE att[a].ds = d
    BY <2>2, <2>4
  <2>5. CASE att[a].ds # d
    BY <1>1, <1>26, <2>2, <2>3, <2>5 DEF FailJob
  <2> QED BY <2>4, <2>5
<1>27. ASSUME NEW a \in Attempts, ReadForFailure(a)
       PROVE  Work(d)'
  <2>1. att[a].at = "marking" /\ UNCHANGED <<ds, job, req, lost>>
    BY <1>27 DEF ReadForFailure
  <2>2. \A b \in Attempts \ {a} : att'[b] = att[b]
    BY <1>27 DEF ReadForFailure
  <2>3. CASE att[a].ds = d
    <3>1. att' = [att EXCEPT ![a] = [@ EXCEPT !.at = "failing", !.read = ds[d]]]
      BY <1>27, <2>1, <2>3 DEF ReadForFailure, FailsWith
    <3>2. att'[a].at = "failing" /\ att'[a].ds = d
      BY <2>3, <3>1 DEF Attempt
    <3> QED BY <3>2
  <2>4. CASE att[a].ds # d
    BY <1>1, <2>1, <2>2, <2>4
  <2> QED BY <2>3, <2>4
<1>28. ASSUME NEW a \in Attempts, CommitFailure(a)
       PROVE  Work(d)'
  <2>1. att[a].ds # d
    <3>1. SUFFICES ASSUME att[a].ds = d
                   PROVE  FALSE
      OBVIOUS
    <3>2. ds'[d].status = Written(ds[d].status, att[a].read.status, "failed")
      BY <1>28, <3>1 DEF CommitFailure, Version
    <3>3. att[a].read.status = "failed" => Past(d)
      BY <1>28, <3>1 DEF CommitFailure, Stages, Stage
    <3> QED BY <1>2, <3>2, <3>3 DEF Written
  <2>2. ds[d] = ds'[d]
    BY <1>28, <2>1 DEF CommitFailure
  <2>3. \A b \in Attempts : att[b].ds = d => att'[b] = att[b]
    BY <1>28, <2>1 DEF CommitFailure
  <2> QED BY <1>1, <1>28, <2>2, <2>3 DEF CommitFailure
<1>29. ASSUME NEW a \in Attempts, Crash(a)
       PROVE  Work(d)'
  BY <1>1, <1>29 DEF Crash
<1>30. CASE UNCHANGED vars
  BY <1>1, <1>30 DEF vars
<1> HIDE DEF Typed, TypeOK, Work
<1> QED
  BY <1>3, <1>4, <1>5, <1>6, <1>8, <1>9, <1>10, <1>11, <1>12, <1>13, <1>14, <1>15, <1>17, <1>18,
     <1>19, <1>20, <1>21, <1>22, <1>23, <1>24, <1>25, <1>26, <1>27, <1>28, <1>29, <1>30, <1>31,
     <1>32, <1>33
  DEF Next, RequestStep, AttemptStep

LEMMA InitWorked == Init => Stages /\ Worked
  BY DEF Init, Stages, Stage, Worked, NoAttempt, NoVersion

\* A dataset stays "generating" only while its job can be delivered, is about
\* to be inserted or its failure to be marked, or when one of these got lost:
\* also when several attempts and requests have read what others overwrite.
THEOREM GenerationIsNotForgotten == Spec => []GeneratingHasWork
<1>1. Init => Typed /\ Stages /\ Worked
  BY TypedInit, InitWorked
<1>2. (Typed /\ Stages /\ Worked) /\ [Next]_vars => (Typed /\ Stages /\ Worked)'
  BY TypedStep, StagesStep, WorkedStep
<1>3. Typed /\ Stages /\ Worked => GeneratingHasWork
  BY DEF Worked, Work, GeneratingHasWork
<1> QED BY <1>1, <1>2, <1>3, PTL DEF Spec
-----------------------------------------------------------------------------
(* What is approved stays as it was approved, unless a transaction that    *)
(* was behind changes it: what the others have read is still so (Current). *)

CurrentRequest(r) ==
    /\ req[r].read = ds[req[r].ds]
    /\ req[r].read.status \in {"approved", "review_required"}
    /\ req[r].at \in {"reviewing", "approving"} => req[r].read.status = "review_required"
    /\ req[r].at = "approving" => req[r].rows = ex[req[r].ds] /\ Accepted(req[r].rows) # {}

CurrentAttempt(a) ==
    /\ att[a].at \in {"resetting", "storing"} => ds[att[a].ds].status = "generating"
    /\ att[a].at = "failing" => ds[att[a].ds].status # "approved"

Current ==
    /\ \A r \in OpenRequests \ behind : CurrentRequest(r)
    /\ \A a \in OpenAttempts \ behind : CurrentAttempt(a)

\* One that was behind crosses the dataset, or changes nothing.
LEMMA BehindCrosses ==
    ASSUME NEW x, NEW d, Commits(x, d), x \in behind, d \notin crossed'
    PROVE  ds'[d] = ds[d] /\ ex'[d] = ex[d]
  BY DEF Commits

\* A step of one whose reading is current does not write an approved dataset.
LEMMA FrozenStep ==
    ASSUME Typed, Current, [Next]_vars, NEW d \in Datasets \ crossed', ds[d].status = "approved"
    PROVE  ds'[d] = ds[d] /\ ex'[d] = ex[d]
<1> DEFINE Goal == ds'[d] = ds[d] /\ ex'[d] = ex[d]
<1>0. /\ ds \in [Datasets -> Version] /\ ex \in [Datasets -> Rows]
      /\ \A r \in Requests : req[r].at # "idle" => req[r].ds \in Datasets
      /\ \A a \in Attempts : att[a].at # "idle" => att[a].ds \in Datasets
  BY DEF Typed, TypeOK, Requested, Executed
<1>1. ASSUME UNCHANGED <<ds, ex>>
      PROVE  Goal
  BY <1>1
<1>2. ASSUME NEW n \in Datasets, NEW rows \in Fresh, Import(n, rows)
      PROVE  Goal
  BY <1>0, <1>2 DEF Import
<1>3. ASSUME NEW r \in Requests, NEW n \in Datasets, Generate(r, n)
      PROVE  Goal
  BY <1>0, <1>3 DEF Generate
<1>4. ASSUME NEW r \in Requests, NEW n \in Datasets, CommitClone(r, n)
      PROVE  Goal
  BY <1>0, <1>4 DEF CommitClone
<1>5. ASSUME NEW r \in Requests, CommitEdit(r)
      PROVE  Goal
  <2>1. CASE req[r].ds = d /\ r \in behind
    BY <1>5, <2>1, BehindCrosses DEF CommitEdit
  <2>2. req[r].ds # d \/ r \in behind
    BY <1>5 DEF CommitEdit, Current, OpenRequests, CurrentRequest
  <2>3. CASE req[r].ds # d
    BY <1>0, <1>5, <2>3 DEF CommitEdit
  <2> QED BY <2>1, <2>2, <2>3
<1>6. ASSUME NEW r \in Requests, CommitApproval(r)
      PROVE  Goal
  <2>1. CASE req[r].ds = d /\ r \in behind
    BY <1>6, <2>1, BehindCrosses DEF CommitApproval
  <2>2. req[r].ds # d \/ r \in behind
    BY <1>6 DEF CommitApproval, Current, OpenRequests, CurrentRequest
  <2>3. CASE req[r].ds # d
    BY <1>0, <1>6, <2>3 DEF CommitApproval
  <2> QED BY <2>1, <2>2, <2>3
<1>7. ASSUME NEW a \in Attempts, CommitReset(a)
      PROVE  Goal
  <2>1. CASE att[a].ds = d /\ a \in behind
    BY <1>7, <2>1, BehindCrosses DEF CommitReset
  <2>2. att[a].ds # d \/ a \in behind
    BY <1>7 DEF CommitReset, Current, OpenAttempts, CurrentAttempt
  <2>3. CASE att[a].ds # d
    BY <1>0, <1>7, <2>3 DEF CommitReset
  <2> QED BY <2>1, <2>2, <2>3
<1>8. ASSUME NEW a \in Attempts, NEW rows \in Fresh, CommitExamples(a, rows)
      PROVE  Goal
  <2>1. CASE att[a].ds = d /\ a \in behind
    BY <1>8, <2>1, BehindCrosses DEF CommitExamples
  <2>2. att[a].ds # d \/ a \in behind
    BY <1>8 DEF CommitExamples, Current, OpenAttempts, CurrentAttempt
  <2>3. CASE att[a].ds # d
    BY <1>0, <1>8, <2>3 DEF CommitExamples
  <2> QED BY <2>1, <2>2, <2>3
<1>9. ASSUME NEW a \in Attempts, CommitFailure(a)
      PROVE  Goal
  <2>1. CASE att[a].ds = d /\ a \in behind
    BY <1>9, <2>1, BehindCrosses DEF CommitFailure
  <2>2. att[a].ds # d \/ a \in behind
    BY <1>9 DEF CommitFailure, Current, OpenAttempts, CurrentAttempt
  <2>3. CASE att[a].ds # d
    BY <1>0, <1>9, <2>3 DEF CommitFailure
  <2> QED BY <2>1, <2>2, <2>3
<1> HIDE DEF Goal
<1>10. Goal
  BY <1>1, <1>2, <1>3, <1>4, <1>5, <1>6, <1>7, <1>8, <1>9, Writers
<1> QED BY <1>10 DEF Goal

\* What was open and stays so is behind when its dataset changes, and after.
LEMMA StaysBehind ==
    ASSUME Typed, [Next]_vars, NEW d \in Datasets,
           NEW x \in OpenAt(d), x \in Requests => x \in OpenRequests',
           x \in Attempts => x \in OpenAttempts', x \notin behind'
    PROVE  /\ x \notin behind
           /\ \/ ds'[d] = ds[d] /\ ex'[d] = ex[d]
              \/ ds[d].status = "absent" /\ ds'[d].status # "approved"
<1>1. ASSUME UNCHANGED overlap, UNCHANGED <<ds, ex>> \/ Adds
      PROVE  x \notin behind /\ \/ ds'[d] = ds[d] /\ ex'[d] = ex[d]
                                \/ ds[d].status = "absent" /\ ds'[d].status # "approved"
  BY <1>1 DEF overlap, Adds, Only
<1>2. ASSUME NEW y, Ends(y), y # x
      PROVE  x \notin behind /\ ds'[d] = ds[d] /\ ex'[d] = ex[d]
  <2>1. CASE RollsBack(y) /\ UNCHANGED <<ds, ex>>
    BY <1>2, <2>1 DEF RollsBack
  <2>2. ASSUME NEW n \in Datasets, Commits(y, n), Only(n)
        PROVE  x \notin behind /\ ds'[d] = ds[d] /\ ex'[d] = ex[d]
    BY <1>2, <2>2 DEF Commits, Only
  <2> QED BY <1>2, <2>1, <2>2 DEF Ends
<1>3. \A y \in (Requests \ OpenRequests') \cup (Attempts \ OpenAttempts') : y # x
  <2>1. OpenRequests \subseteq Requests /\ OpenAttempts \subseteq Attempts
    BY DEF OpenRequests, OpenAttempts
  <2>2. x \in Requests \/ x \in Attempts
    BY <2>1 DEF OpenAt
  <2> QED BY <2>2, ActorsAssumption
<1> QED BY <1>1, <1>2, <1>3, StepEnds

\* A request whose transaction was just opened, or read more.
LEMMA RequestReads ==
    ASSUME Typed, [Next]_vars, NEW r \in OpenRequests', req'[r] # req[r]
    PROVE  \/ \E n \in Datasets : StartApproval(r, n) \/ StartEdit(r, n)
           \/ \E e \in Examples : ReadExample(r, e)
           \/ ReadSource(r) \/ ReadExamples(r)
<1> USE DEF Typed, TypeOK
<1>1. ASSUME NEW q \in Requests, req' = [req EXCEPT ![q] = NoRequest]
      PROVE  FALSE
  BY <1>1 DEF OpenRequests, NoRequest
<1>2. ASSUME NEW q \in Requests, NEW n \in Datasets, Generate(q, n)
      PROVE  FALSE
  BY <1>2 DEF Generate, OpenRequests, NoRequest
<1>3. ASSUME UNCHANGED req
      PROVE  FALSE
  BY <1>3
<1>4. ASSUME NEW q \in Requests, q # r,
             \/ \E n \in Datasets : StartApproval(q, n) \/ StartEdit(q, n)
             \/ \E e \in Examples : ReadExample(q, e)
             \/ ReadSource(q) \/ ReadExamples(q)
      PROVE  FALSE
  BY <1>4 DEF StartApproval, StartEdit, ReadExample, ReadSource, ReadExamples, OpenRequests
<1> HIDE DEF Typed, TypeOK
<1> QED
  BY <1>1, <1>2, <1>3, <1>4
  DEF Next, RequestStep, AttemptStep, Import, EnqueueJob, DropJob, CommitClone, CommitEdit,
      CommitApproval, EndEarly, StartJob, ReadDataset, Refuse, CommitReset, GenerationFails,
      ReadAgain, CommitExamples, StoreFails, FinishJob, FinishFails, Retry, FailJob,
      ReadForFailure, CommitFailure, Crash, vars

LEMMA AttemptReads ==
    ASSUME Typed, [Next]_vars, NEW a \in OpenAttempts', att'[a] # att[a]
    PROVE  ReadDataset(a) \/ ReadAgain(a) \/ ReadForFailure(a)
<1> USE DEF Typed, TypeOK
<1>1. ASSUME UNCHANGED att
      PROVE  FALSE
  BY <1>1
<1>2. ASSUME NEW b \in Attempts, \A c \in Attempts \ {b} : att'[c] = att[c],
             att'[b].at \notin {"resetting", "storing", "failing"}
      PROVE  FALSE
  BY <1>2 DEF OpenAttempts
<1>3. ASSUME NEW b \in Attempts,
             \/ \E n \in Datasets : StartJob(b, n)
             \/ FinishJob(b) \/ Retry(b) \/ CommitFailure(b) \/ Crash(b)
      PROVE  FALSE
  <2>1. \A c \in Attempts \ {b} : att'[c] = att[c]
    BY <1>3 DEF StartJob, FinishJob, Retry, CommitFailure, Crash
  <2>2. att'[b].at \in {"idle", "started"}
    <3>1. \A n \in Datasets : StartJob(b, n) => att'[b].at = "started"
      BY DEF StartJob, NoAttempt
    <3>2. FinishJob(b) \/ Retry(b) \/ CommitFailure(b) \/ Crash(b) => att'[b].at = "idle"
      BY DEF FinishJob, Retry, CommitFailure, Crash, NoAttempt
    <3> QED BY <1>3, <3>1, <3>2
  <2> QED BY <1>2, <2>1, <2>2
<1>4. ASSUME NEW b \in Attempts, NEW to \in {"refusing", "erring", "marking"},
             att' = [att EXCEPT ![b].at = to]
      PROVE  FALSE
  BY <1>2, <1>4 DEF Attempt
<1>5. ASSUME NEW b \in Attempts, Refuse(b) \/ GenerationFails(b) \/ FinishFails(b) \/ FailJob(b)
      PROVE  FALSE
  BY <1>4, <1>5 DEF Refuse, GenerationFails, FinishFails, FailJob, Step
<1>6. ASSUME NEW b \in Attempts, CommitReset(b) \/ StoreFails(b)
      PROVE  FALSE
  BY <1>2, <1>6 DEF CommitReset, StoreFails, Attempt
<1>7. ASSUME NEW b \in Attempts, NEW rows \in Fresh, CommitExamples(b, rows)
      PROVE  FALSE
  BY <1>2, <1>7 DEF CommitExamples, Attempt
<1>8. ASSUME NEW b \in Attempts, b # a, ReadDataset(b) \/ ReadAgain(b) \/ ReadForFailure(b)
      PROVE  FALSE
  <2>1. att'[a] = att[a]
    BY <1>8 DEF ReadDataset, ReadAgain, ReadForFailure, OpenAttempts
  <2> QED BY <2>1
<1> HIDE DEF Typed, TypeOK
<1> QED
  BY <1>1, <1>3, <1>5, <1>6, <1>7, <1>8
  DEF Next, RequestStep, AttemptStep, Import, Generate, EnqueueJob, DropJob, StartEdit,
      ReadExample, ReadSource, StartApproval, ReadExamples, CommitClone, CommitEdit,
      CommitApproval, EndEarly, vars

LEMMA CurrentStep ==
    ASSUME Typed, Current, [Next]_vars
    PROVE  Current'
<1> USE DEF Typed, TypeOK
\* Nobody has written what an open transaction read before this step, or it is
\* behind.
<1>1. ASSUME NEW r \in OpenRequests' \ behind', req'[r] = req[r]
      PROVE  CurrentRequest(r)'
  <2>1. r \in Requests /\ r \in OpenRequests /\ req[r].ds \in Datasets
    BY <1>1 DEF OpenRequests, Requested
  <2>2. r \in OpenAt(req[r].ds) /\ r \notin Attempts
    BY <2>1, ActorsAssumption DEF OpenAt
  <2>3. /\ r \notin behind
        /\ \/ ds'[req[r].ds] = ds[req[r].ds] /\ ex'[req[r].ds] = ex[req[r].ds]
           \/ ds[req[r].ds].status = "absent"
    <3> HIDE DEF Typed
    <3> QED BY <1>1, <2>1, <2>2, StaysBehind
  <2>4. CurrentRequest(r)
    BY <2>1, <2>3 DEF Current
  <2>5. ds'[req[r].ds] = ds[req[r].ds] /\ ex'[req[r].ds] = ex[req[r].ds]
    BY <2>3, <2>4 DEF CurrentRequest
  <2> HIDE DEF Typed, TypeOK
  <2> QED BY <1>1, <2>4, <2>5 DEF CurrentRequest, Accepted, Present
<1>2. ASSUME NEW a \in OpenAttempts' \ behind', att'[a] = att[a]
      PROVE  CurrentAttempt(a)'
  <2>1. a \in Attempts /\ a \in OpenAttempts /\ att[a].ds \in Datasets
    BY <1>2 DEF OpenAttempts, Executed
  <2>2. a \in OpenAt(att[a].ds) /\ a \notin Requests
    BY <2>1, ActorsAssumption DEF OpenAt
  <2>3. /\ a \notin behind
        /\ \/ ds'[att[a].ds] = ds[att[a].ds]
           \/ ds[att[a].ds].status = "absent" /\ ds'[att[a].ds].status # "approved"
    <3> HIDE DEF Typed
    <3> QED BY <1>2, <2>1, <2>2, StaysBehind
  <2>4. CurrentAttempt(a)
    BY <2>1, <2>3 DEF Current
  <2> QED BY <1>2, <2>1, <2>3, <2>4 DEF CurrentAttempt
\* What a transaction reads in this step is so.
<1>3. ASSUME NEW r \in OpenRequests' \ behind', req'[r] # req[r]
      PROVE  CurrentRequest(r)'
  <2>0. r \in Requests
    BY DEF OpenRequests
  <2>1. ASSUME NEW n \in Datasets, StartApproval(r, n)
        PROVE  CurrentRequest(r)'
    BY <2>0, <2>1 DEF StartApproval, CurrentRequest, NoRequest
  <2>2. ASSUME NEW n \in Datasets, StartEdit(r, n)
        PROVE  CurrentRequest(r)'
    BY <2>0, <2>2 DEF StartEdit, CurrentRequest, NoRequest
  <2>3. ASSUME ReadExamples(r)
        PROVE  CurrentRequest(r)'
    <3>1. /\ req'[r].at = "approving" /\ req'[r].ds = req[r].ds /\ req'[r].read = req[r].read
          /\ req'[r].rows = ex[req[r].ds] /\ Accepted(ex[req[r].ds]) # {}
          /\ req[r].at = "reviewing" /\ UNCHANGED <<ds, ex>> /\ behind' = behind
      BY <2>0, <2>3 DEF ReadExamples, Request, overlap
    <3>2. CurrentRequest(r)
      BY <2>0, <3>1 DEF Current, OpenRequests
    <3> QED BY <3>1, <3>2 DEF CurrentRequest, Accepted, Present
  <2>4. ASSUME NEW at \in {"cloning", "editing"}, NEW id, NEW rows, NEW new,
               req'[r] = [req[r] EXCEPT !.at = at, !.id = id, !.rows = rows, !.new = new],
               req[r].at \in {"opening", "cloning"}, UNCHANGED ds, behind' = behind
        PROVE  CurrentRequest(r)'
    <3>1. req'[r].at = at /\ req'[r].ds = req[r].ds /\ req'[r].read = req[r].read
      BY <2>0, <2>4 DEF Request
    <3>2. CurrentRequest(r)
      BY <1>3, <2>0, <2>4 DEF Current, OpenRequests
    <3> QED BY <2>4, <3>1, <3>2 DEF CurrentRequest
  <2>5. ASSUME NEW e \in Examples, ReadExample(r, e)
        PROVE  CurrentRequest(r)'
    <3>1. PICK at \in {"cloning", "editing"} : \E rows, new :
             req' = [req EXCEPT ![r] =
               [req[r] EXCEPT !.at = at, !.id = e, !.rows = rows, !.new = new]]
      BY <2>5 DEF ReadExample
    <3>2. PICK rows, new :
             req' = [req EXCEPT ![r] =
               [req[r] EXCEPT !.at = at, !.id = e, !.rows = rows, !.new = new]]
      BY <3>1
    <3> QED BY <2>0, <2>4, <2>5, <3>2 DEF ReadExample, overlap
  <2>6. ASSUME ReadSource(r)
        PROVE  CurrentRequest(r)'
    <3>1. req'[r].ds = req[r].ds /\ req'[r].read = req[r].read /\ req'[r].at = "editing"
      BY <2>0, <2>6 DEF ReadSource, Request
    <3>2. CurrentRequest(r)
      BY <1>3, <2>0, <2>6 DEF ReadSource, Current, OpenRequests, overlap
    <3> QED BY <2>6, <3>1, <3>2 DEF ReadSource, CurrentRequest
  <2> HIDE DEF Typed, TypeOK
  <2> QED BY <1>3, <2>1, <2>2, <2>3, <2>5, <2>6, RequestReads
<1>4. ASSUME NEW a \in OpenAttempts' \ behind', att'[a] # att[a]
      PROVE  CurrentAttempt(a)'
  <2>0. a \in Attempts
    BY DEF OpenAttempts
  <2>1. ASSUME ReadDataset(a)
        PROVE  CurrentAttempt(a)'
    BY <2>0, <2>1 DEF ReadDataset, CurrentAttempt, Attempt
  <2>2. ASSUME ReadAgain(a)
        PROVE  CurrentAttempt(a)'
    BY <2>0, <2>2 DEF ReadAgain, CurrentAttempt, Attempt, StillGenerating
  <2>3. ASSUME ReadForFailure(a)
        PROVE  CurrentAttempt(a)'
    <3>1. UNCHANGED ds /\ att'[a] = IF FailsWith(ds[att[a].ds].status)
                  THEN [att[a] EXCEPT !.at = "failing", !.read = ds[att[a].ds]]
                  ELSE NoAttempt
      BY <2>0, <2>3 DEF ReadForFailure
    <3>2. CASE FailsWith(ds[att[a].ds].status)
      <4>1. att'[a].ds = att[a].ds /\ att'[a].at = "failing"
        BY <2>0, <3>1, <3>2 DEF Attempt
      <4> QED BY <3>1, <3>2, <4>1 DEF CurrentAttempt, FailsWith
    <3>3. CASE ~FailsWith(ds[att[a].ds].status)
      BY <3>1, <3>3 DEF CurrentAttempt, NoAttempt
    <3> QED BY <3>2, <3>3
  <2> HIDE DEF Typed, TypeOK
  <2> QED BY <1>4, <2>1, <2>2, <2>3, AttemptReads
<1> QED BY <1>1, <1>2, <1>3, <1>4 DEF Current

LEMMA CurrentInit == Init => Current
  BY DEF Init, Current, OpenRequests, OpenAttempts, NoRequest, NoAttempt

\* An approved dataset keeps its row and its examples, whatever edits,
\* approvals, deliveries and failures come after or overlap, until a
\* transaction that had read it before somebody else changed it commits.
THEOREM ApprovedStays == Spec => ApprovedIsKept
<1>1. (Typed /\ Current) /\ [Next]_vars => (Typed /\ Current)'
  BY TypedStep, CurrentStep
<1>2. (Typed /\ Current) /\ [Next]_vars =>
         [\A d \in Datasets \ crossed' :
             ds[d].status = "approved" => ds'[d] = ds[d] /\ ex'[d] = ex[d]]_vars
  BY FrozenStep
<1>3. Init => Typed /\ Current
  BY TypedInit, CurrentInit
<1> QED BY <1>1, <1>2, <1>3, PTL DEF Spec, ApprovedIsKept
-----------------------------------------------------------------------------
(* What is used of a dataset is what was approved.                         *)

Described(d) ==
    /\ Approved(ex[d]) # {}
    /\ Used(d) = ds[d].manifest
    /\ Cardinality(Approved(ex[d])) = ds[d].count

LEMMA ReviewMarksAccepted ==
    ASSUME NEW rows \in Rows
    PROVE  /\ Approved(Reviewed(rows)) = Accepted(rows)
           /\ Manifest(Reviewed(rows), Accepted(rows)) = Manifest(rows, Accepted(rows))
<1>1. \A e \in Examples : rows[e] # NoRow => rows[e] \in Row
  BY DEF Rows
<1>2. ASSUME NEW e \in Examples
      PROVE  /\ e \in Approved(Reviewed(rows)) <=> e \in Accepted(rows)
             /\ e \in Accepted(rows) => Reviewed(rows)[e].content = rows[e].content
  <2>1. CASE rows[e] = NoRow
    <3>1. Reviewed(rows)[e] = NoRow
      BY <2>1 DEF Reviewed
    <3> QED BY <2>1, <3>1 DEF Approved, Accepted, Present
  <2>2. CASE rows[e] # NoRow /\ rows[e].review = "rejected"
    <3>1. Reviewed(rows)[e] = [rows[e] EXCEPT !.approved = FALSE]
      BY <2>2 DEF Reviewed
    <3>2. ~Reviewed(rows)[e].approved
      BY <1>1, <2>2, <3>1 DEF Row
    <3> QED BY <2>2, <3>2 DEF Approved, Accepted
  <2>3. CASE rows[e] # NoRow /\ rows[e].review # "rejected"
    <3>1. Reviewed(rows)[e] = [rows[e] EXCEPT !.approved = TRUE, !.review = "approved"]
      BY <2>3 DEF Reviewed
    <3>2. Reviewed(rows)[e].approved /\ Reviewed(rows)[e].content = rows[e].content
      BY <1>1, <2>3, <3>1 DEF Row
    <3>3. Reviewed(rows)[e] # NoRow
      BY <2>3, ReviewedType, RowIsThere
    <3> QED BY <2>3, <3>2, <3>3 DEF Approved, Accepted, Present
  <2> QED BY <2>1, <2>2, <2>3
<1>3. Approved(Reviewed(rows)) = Accepted(rows)
  BY <1>2 DEF Approved, Accepted, Present
<1>4. \A e \in Accepted(rows) : <<e, Reviewed(rows)[e].content>> = <<e, rows[e].content>>
  BY <1>2 DEF Accepted, Present
<1> QED BY <1>3, <1>4 DEF Manifest

LEMMA ApprovalDescribes ==
    ASSUME Typed, Current, NEW r \in Requests, CommitApproval(r), r \notin behind,
           NEW d \in Datasets, req[r].ds = d
    PROVE  Described(d)'
<1> DEFINE q == req[r]
           n == Cardinality(Accepted(q.rows))
<1>1. /\ d \in Datasets /\ q.rows = ex[d] /\ q.read = ds[d] /\ Accepted(q.rows) # {}
      /\ q.rows \in Rows
  BY DEF CommitApproval, Current, OpenRequests, CurrentRequest, Typed, TypeOK, Requested,
         Request
<1>2. ex'[d] = Reviewed(q.rows)
  <2>1. ex'[d] = [e \in Examples |-> IF ex[d][e] = NoRow THEN NoRow
                                     ELSE Flushed(ex[d][e], q.rows[e], Reviewed(q.rows)[e])]
    BY <1>1 DEF CommitApproval, Typed, TypeOK
  <2>2. ASSUME NEW e \in Examples, q.rows[e] # NoRow
        PROVE  Flushed(q.rows[e], q.rows[e], Reviewed(q.rows)[e]) = Reviewed(q.rows)[e]
    <3>1. Reviewed(q.rows)[e] \in Row
      BY <1>1, <2>2, ReviewedType
    <3> QED BY <3>1 DEF Flushed, Written, Row
  <2>3. ASSUME NEW e \in Examples
        PROVE  ex'[d][e] = Reviewed(q.rows)[e]
    BY <1>1, <2>1, <2>2, <2>3, ReviewedType
  <2>4. /\ ex'[d] \in [Examples -> Row \cup {NoRow}]
        /\ Reviewed(q.rows) \in [Examples -> Row \cup {NoRow}]
    <3>1. Typed'
      BY TypedStep DEF Next, RequestStep
    <3> QED BY <1>1, <3>1, ReviewedType DEF Typed, TypeOK, Rows
  <2> QED BY <2>3, <2>4
<1>3. ds'[d].count = n /\ ds'[d].manifest = Manifest(q.rows, Accepted(q.rows))
  BY <1>1 DEF CommitApproval, Written, Typed, TypeOK
<1>4. Approved(ex'[d]) = Accepted(q.rows)
  BY <1>1, <1>2, ReviewMarksAccepted
<1>5. Manifest(ex'[d], Approved(ex'[d])) = Manifest(q.rows, Accepted(q.rows))
  BY <1>1, <1>2, <1>4, ReviewMarksAccepted
<1> QED BY <1>1, <1>3, <1>4, <1>5 DEF Described, Used

\* Only an approval makes a dataset approved.
LEMMA ApprovedBy ==
    ASSUME Typed, [Next]_vars, NEW d \in Datasets, ds[d].status # "approved",
           ds'[d].status = "approved"
    PROVE  \E r \in Requests : CommitApproval(r) /\ req[r].ds = d
<1> USE DEF Typed, TypeOK
<1>1. ASSUME ds'[d].status \in {ds[d].status, "generating", "review_required", "failed"}
      PROVE  FALSE
  BY <1>1
<1>2. \A n \in Datasets, rows \in Fresh : ~Import(n, rows)
  BY <1>1 DEF Import
<1>3. \A r \in Requests, n \in Datasets : ~Generate(r, n)
  BY <1>1 DEF Generate, Version
<1>4. \A r \in Requests, n \in Datasets : ~CommitClone(r, n)
  BY <1>1 DEF CommitClone
<1>5. \A r \in Requests : ~CommitEdit(r)
  BY <1>1 DEF CommitEdit, Version
<1>6. ASSUME NEW r \in Requests, CommitApproval(r)
      PROVE  req[r].ds = d
  BY <1>1, <1>6 DEF CommitApproval
<1>7. \A a \in Attempts : ~CommitReset(a)
  BY <1>1 DEF CommitReset, Version
<1>8. \A a \in Attempts, rows \in Fresh : ~CommitExamples(a, rows)
  BY <1>1 DEF CommitExamples, Written
<1>9. \A a \in Attempts : ~CommitFailure(a)
  BY <1>1 DEF CommitFailure, Written, Version
<1>10. ~UNCHANGED ds
  BY <1>1
<1> HIDE DEF Typed, TypeOK
<1> QED
  BY <1>2, <1>3, <1>4, <1>5, <1>6, <1>7, <1>8, <1>9, <1>10, Writers

DescribedInv == \A d \in Datasets \ crossed : ds[d].status = "approved" => Described(d)

LEMMA DescribedStep == Typed /\ Current /\ DescribedInv /\ [Next]_vars => DescribedInv'
<1> SUFFICES ASSUME Typed, Current, DescribedInv, [Next]_vars, NEW d \in Datasets \ crossed',
                    ds'[d].status = "approved"
             PROVE  Described(d)'
  BY DEF DescribedInv
<1>1. d \notin crossed
  BY OverlapStep
<1>2. CASE ds[d].status = "approved"
  <2>1. ds'[d] = ds[d] /\ ex'[d] = ex[d]
    BY <1>2, FrozenStep
  <2> QED BY <1>1, <1>2, <2>1 DEF DescribedInv, Described, Used, Approved
<1>3. CASE ds[d].status # "approved"
  <2>1. PICK r \in Requests : CommitApproval(r) /\ req[r].ds = d
    BY <1>3, ApprovedBy
  <2>2. r \notin behind
    BY <1>3, <2>1, BehindCrosses DEF CommitApproval
  <2> QED BY <2>1, <2>2, ApprovalDescribes
<1> QED BY <1>2, <1>3

\* An export or a training run that uses an approved dataset takes the examples
\* its manifest and its count describe, whatever edits came before and whatever
\* verdicts they brought, unless a transaction that was behind has changed it.
THEOREM ApprovedIsDescribed == Spec => []UsedIsApproved
<1> DEFINE Inv == Typed /\ Current /\ DescribedInv
<1>1. Init => Inv
  BY TypedInit, CurrentInit DEF Init, DescribedInv, NoVersion
<1>2. Inv /\ [Next]_vars => Inv'
  BY TypedStep, CurrentStep, DescribedStep
<1>3. Inv => UsedIsApproved
  BY DEF UsedIsApproved, Usable, DescribedInv, Described
<1> QED BY <1>1, <1>2, <1>3, PTL DEF Spec
-----------------------------------------------------------------------------
(* The examples of one attempt.                                            *)

\* Until its examples are stored a dataset has none, and once they are it says
\* how many there are.
Single(d) ==
    /\ ds[d].status \in {"absent", "generating"} =>
          ex[d] = NoRows /\ ds[d].count = 0 /\ ds[d].manifest = NoManifest
    /\ ds[d].status = "review_required" /\ ds[d].manifest = Generated =>
          Cardinality(Present(ex[d])) = ds[d].count

\* What an attempt that stores has read.
ReadBlank(a) ==
    att[a].at = "storing" =>
        /\ att[a].read.status = "generating"
        /\ att[a].ds \notin crossed =>
              att[a].read.count = 0 /\ att[a].read.manifest = NoManifest

OnceInv == (\A d \in Datasets \ crossed : Single(d)) /\ (\A a \in Attempts : ReadBlank(a))

LEMMA ReadBlankStep ==
    ASSUME Typed, OnceInv, [Next]_vars, NEW a \in Attempts
    PROVE  ReadBlank(a)'
<1>0. crossed \subseteq crossed'
  BY OverlapStep
<1> USE DEF Typed, TypeOK
<1>1. ASSUME att'[a] = att[a] \/ att'[a].at # "storing"
      PROVE  ReadBlank(a)'
  BY <1>0, <1>1 DEF OnceInv, ReadBlank
<1>2. ASSUME NEW b \in Attempts, att' = [att EXCEPT ![b] = NoAttempt]
      PROVE  ReadBlank(a)'
  BY <1>1, <1>2 DEF NoAttempt
<1>3. ASSUME NEW b \in Attempts, ReadAgain(b)
      PROVE  ReadBlank(a)'
  <2>1. CASE b = a
    <3>1. /\ att'[a].read = ds[att[a].ds] /\ ds[att[a].ds].status = "generating"
          /\ att'[a].ds = att[a].ds
      BY <1>3, <2>1 DEF ReadAgain, StillGenerating, Attempt
    <3>2. att[a].ds \in Datasets
      BY <1>3, <2>1 DEF ReadAgain, Executed
    <3> QED BY <1>0, <3>1, <3>2 DEF OnceInv, Single, ReadBlank
  <2>2. CASE b # a
    BY <1>1, <1>3, <2>2 DEF ReadAgain
  <2> QED BY <2>1, <2>2
<1>4. ASSUME NEW b \in Attempts,
             \/ \E d \in Datasets : StartJob(b, d)
             \/ ReadDataset(b) \/ Refuse(b) \/ CommitReset(b) \/ GenerationFails(b)
             \/ \E rows \in Fresh : CommitExamples(b, rows)
             \/ StoreFails(b) \/ FinishFails(b) \/ FailJob(b)
      PROVE  ReadBlank(a)'
  <2>1. \A c \in Attempts \ {b} : att'[c] = att[c]
    BY <1>4 DEF StartJob, ReadDataset, Refuse, CommitReset, GenerationFails, CommitExamples,
                StoreFails, FinishFails, FailJob, Step
  <2>2. CASE \E d \in Datasets : StartJob(b, d)
    BY <1>1, <2>1, <2>2 DEF StartJob, NoAttempt
  <2>3. CASE ReadDataset(b) \/ CommitReset(b) \/ StoreFails(b)
    BY <1>1, <2>1, <2>3 DEF ReadDataset, CommitReset, StoreFails, Attempt
  <2>4. CASE Refuse(b) \/ GenerationFails(b) \/ FinishFails(b) \/ FailJob(b)
    BY <1>1, <2>1, <2>4 DEF Refuse, GenerationFails, FinishFails, FailJob, Step, Attempt
  <2>5. CASE \E rows \in Fresh : CommitExamples(b, rows)
    BY <1>1, <2>1, <2>5 DEF CommitExamples, Attempt
  <2> QED BY <1>4, <2>2, <2>3, <2>4, <2>5
<1>5. ASSUME NEW b \in Attempts, ReadForFailure(b)
      PROVE  ReadBlank(a)'
  <2>1. CASE FailsWith(ds[att[b].ds].status)
    <3>1. att' = [att EXCEPT ![b] = [@ EXCEPT !.at = "failing", !.read = ds[att[b].ds]]]
      BY <1>5, <2>1 DEF ReadForFailure
    <3>2. att'[b].at = "failing" /\ \A c \in Attempts \ {b} : att'[c] = att[c]
      BY <3>1 DEF Attempt
    <3> QED BY <1>1, <3>2
  <2>2. CASE ~FailsWith(ds[att[b].ds].status)
    BY <1>2, <1>5, <2>2 DEF ReadForFailure
  <2> QED BY <2>1, <2>2
<1>6. ASSUME UNCHANGED att
      PROVE  ReadBlank(a)'
  BY <1>1, <1>6
<1> HIDE DEF Typed, TypeOK
<1> QED
  BY <1>2, <1>3, <1>4, <1>5, <1>6
  DEF Next, RequestStep, AttemptStep, Import, Generate, EnqueueJob, DropJob, StartEdit,
      ReadExample, ReadSource, StartApproval, CommitClone, CommitEdit, ReadExamples,
      CommitApproval, EndEarly, FinishJob, Retry, CommitFailure, Crash, vars

\* The examples are stored where there were none.
LEMMA StoredOnce ==
    ASSUME Typed, Current, OnceInv, NEW a \in Attempts, NEW rows \in Fresh,
           CommitExamples(a, rows), a \notin behind, NEW d \in Datasets \ crossed, att[a].ds = d
    PROVE  Single(d)'
<1> DEFINE n == Cardinality(Present(rows))
<1>1. /\ ds[d].status = "generating"
      /\ att[a].read.status = "generating" /\ att[a].read.count = 0
      /\ att[a].read.manifest = NoManifest
  BY DEF CommitExamples, Typed, Executed, Current, OpenAttempts, CurrentAttempt, OnceInv,
         ReadBlank
<1>2. ex[d] = NoRows /\ ds[d].count = 0 /\ ds[d].manifest = NoManifest
  BY <1>1 DEF OnceInv, Single
<1>3. /\ ex \in [Datasets -> Rows] /\ ds \in [Datasets -> Version] /\ rows \in Rows
      /\ Present(rows) # {}
  BY FreshType DEF Typed, TypeOK, Fresh
<1>4. ex'[d] = [e \in Examples |-> IF e \in Present(rows) THEN rows[e] ELSE ex[d][e]]
  BY <1>1, <1>3 DEF CommitExamples
<1>5. Present(ex[d])' = Present(rows)
  BY <1>2, <1>3, <1>4 DEF Present, NoRows, Rows
<1>6. n \in Nat /\ n # 0
  <2>1. IsFiniteSet(Present(rows))
    BY BoundsAssumption, FS_Subset DEF Present
  <2> QED BY <1>3, <2>1, FS_CardinalityType, FS_EmptySet
<1>7. ds'[d] = [status |-> Written(ds[d].status, att[a].read.status, "review_required"),
                count |-> Written(ds[d].count, att[a].read.count, n),
                manifest |-> Written(ds[d].manifest, att[a].read.manifest, Generated)]
  BY <1>1, <1>3 DEF CommitExamples
<1>8. ds'[d].status = "review_required"
  BY <1>1, <1>7 DEF Written
<1>9. ds'[d].count = n
  BY <1>1, <1>6, <1>7 DEF Written
<1> QED BY <1>5, <1>8, <1>9 DEF Single

LEMMA SingleStep ==
    ASSUME Typed, Current, OnceInv, [Next]_vars, NEW d \in Datasets \ crossed'
    PROVE  Single(d)'
<1> USE DEF Typed, TypeOK
<1>0. Single(d) /\ ds[d] \in Version /\ d \notin crossed
  <2>1. d \notin crossed
    BY OverlapStep
  <2> QED BY <2>1 DEF OnceInv
<1>1. ASSUME ds'[d] = ds[d], ex'[d] = ex[d]
      PROVE  Single(d)'
  BY <1>0, <1>1 DEF Single, Present
\* One that was behind leaves it as it is.
<1>13. ASSUME NEW x, Commits(x, d), x \in behind
       PROVE  Single(d)'
  BY <1>1, <1>13, BehindCrosses
\* Nobody says that these were generated.
<1>2. ASSUME ds'[d].status \notin {"absent", "generating"},
             ds'[d].status = "review_required" => ds'[d].manifest # Generated
      PROVE  Single(d)'
  BY <1>2 DEF Single
<1>3. NoManifest # Generated
  BY DEF NoManifest, Generated
<1>4. ASSUME NEW n \in Datasets, NEW rows \in Fresh, Import(n, rows)
      PROVE  Single(d)'
  <2>1. CASE n = d
    BY <1>2, <1>3, <1>4, <2>1 DEF Import
  <2>2. CASE n # d
    BY <1>1, <1>4, <2>2 DEF Import
  <2> QED BY <2>1, <2>2
<1>5. ASSUME NEW r \in Requests, NEW n \in Datasets, Generate(r, n)
      PROVE  Single(d)'
  <2>1. CASE n = d
    <3>1. /\ ds'[d].status = "generating" /\ ds'[d].count = ds[d].count
          /\ ds'[d].manifest = ds[d].manifest /\ ex'[d] = ex[d] /\ ds[d].status = "absent"
      BY <1>0, <1>5, <2>1 DEF Generate, Version
    <3> QED BY <1>0, <3>1 DEF Single
  <2>2. CASE n # d
    BY <1>1, <1>5, <2>2 DEF Generate
  <2> QED BY <2>1, <2>2
<1>6. ASSUME NEW r \in Requests, NEW n \in Datasets, CommitClone(r, n)
      PROVE  Single(d)'
  <2>1. CASE n = d
    BY <1>2, <1>3, <1>6, <2>1 DEF CommitClone
  <2>2. CASE n # d
    BY <1>1, <1>6, <2>2 DEF CommitClone
  <2> QED BY <2>1, <2>2
<1>7. ASSUME NEW r \in Requests, CommitEdit(r)
      PROVE  Single(d)'
  <2>0. CASE req[r].ds = d /\ r \in behind
    BY <1>7, <1>13, <2>0 DEF CommitEdit
  <2>1. CASE req[r].ds = d /\ r \notin behind
    <3>1. req[r].read = ds[d] /\ ds[d].status = "review_required"
      BY <1>7, <2>1 DEF CommitEdit, Current, OpenRequests, CurrentRequest
    <3>2. /\ ds'[d].status = ds[d].status
          /\ ds'[d].manifest = Written(ds[d].manifest, req[r].read.manifest, NoManifest)
      BY <1>0, <1>7, <2>1 DEF CommitEdit, Version
    <3>3. ds'[d].manifest = NoManifest
      BY <3>1, <3>2 DEF Written
    <3> QED BY <1>2, <1>3, <3>1, <3>2, <3>3
  <2>2. CASE req[r].ds # d
    BY <1>1, <1>7, <2>2 DEF CommitEdit
  <2> QED BY <2>0, <2>1, <2>2
<1>8. ASSUME NEW r \in Requests, CommitApproval(r)
      PROVE  Single(d)'
  <2>1. CASE req[r].ds = d
    BY <1>2, <1>8, <2>1 DEF CommitApproval
  <2>2. CASE req[r].ds # d
    BY <1>1, <1>8, <2>2 DEF CommitApproval
  <2> QED BY <2>1, <2>2
<1>9. ASSUME NEW a \in Attempts, CommitReset(a)
      PROVE  Single(d)'
  <2>0. CASE att[a].ds = d /\ a \in behind
    BY <1>9, <1>13, <2>0 DEF CommitReset
  <2>1. CASE att[a].ds = d /\ a \notin behind
    <3>1. ds[d].status = "generating"
      BY <1>9, <2>1 DEF CommitReset, Current, OpenAttempts, CurrentAttempt
    <3>2. /\ ds'[d].status = ds[d].status
          /\ ds'[d].count = Written(ds[d].count, att[a].read.count, 0)
          /\ ds'[d].manifest = Written(ds[d].manifest, att[a].read.manifest, NoManifest)
          /\ ex'[d] = NoRows
      BY <1>0, <1>9, <2>1 DEF CommitReset, Version
    <3>3. ds'[d].count = 0 /\ ds'[d].manifest = NoManifest
      BY <1>0, <3>1, <3>2 DEF Written, Single
    <3> QED BY <3>1, <3>2, <3>3 DEF Single
  <2>2. CASE att[a].ds # d
    BY <1>1, <1>9, <2>2 DEF CommitReset
  <2> QED BY <2>0, <2>1, <2>2
<1>10. ASSUME NEW a \in Attempts, NEW rows \in Fresh, CommitExamples(a, rows)
       PROVE  Single(d)'
  <2>0. CASE att[a].ds = d /\ a \in behind
    BY <1>10, <1>13, <2>0 DEF CommitExamples
  <2>1. CASE att[a].ds = d /\ a \notin behind
    BY <1>0, <1>10, <2>1, StoredOnce
  <2>2. CASE att[a].ds # d
    BY <1>1, <1>10, <2>2 DEF CommitExamples
  <2> QED BY <2>0, <2>1, <2>2
<1>11. ASSUME NEW a \in Attempts, CommitFailure(a)
       PROVE  Single(d)'
  <2>1. CASE att[a].ds = d
    <3>1. ds'[d] = [ds[d] EXCEPT !.status = Written(@, att[a].read.status, "failed")]
          /\ ex'[d] = ex[d]
      BY <1>11, <2>1 DEF CommitFailure
    <3>2. CASE att[a].read.status = "failed"
      <4>1. ds'[d] = ds[d]
        BY <1>0, <3>1, <3>2 DEF Written, Version
      <4> QED BY <1>1, <3>1, <4>1
    <3>3. CASE att[a].read.status # "failed"
      <4>1. ds'[d].status = "failed"
        BY <1>0, <3>1, <3>3 DEF Written, Version
      <4> QED BY <1>2, <4>1
    <3> QED BY <3>2, <3>3
  <2>2. CASE att[a].ds # d
    BY <1>1, <1>11, <2>2 DEF CommitFailure
  <2> QED BY <2>1, <2>2
<1>12. ASSUME UNCHANGED <<ds, ex>>
       PROVE  Single(d)'
  BY <1>1, <1>12
<1> HIDE DEF Typed, TypeOK
<1> QED
  BY <1>4, <1>5, <1>6, <1>7, <1>8, <1>9, <1>10, <1>11, <1>12, Writers

\* A generated dataset under review, not edited yet, has the examples of one
\* attempt, however often its job was delivered and however its attempts
\* overlap, unless one that was behind has changed it.
THEOREM OneAttemptIsStored == Spec => []GeneratedOnce
<1> DEFINE Inv == Typed /\ Current /\ OnceInv
<1>1. Init => Inv
  BY TypedInit, CurrentInit DEF Init, OnceInv, Single, ReadBlank, NoVersion, NoAttempt
<1>2. Inv /\ [Next]_vars => Inv'
  <2> SUFFICES ASSUME Inv, [Next]_vars PROVE OnceInv'
    BY TypedStep, CurrentStep
  <2>1. \A d \in Datasets \ crossed' : Single(d)'
    BY SingleStep
  <2>2. \A a \in Attempts : ReadBlank(a)'
    BY ReadBlankStep
  <2> QED BY <2>1, <2>2 DEF OnceInv
<1>3. Inv => GeneratedOnce
  BY DEF OnceInv, Single, GeneratedOnce
<1> QED BY <1>1, <1>2, <1>3, PTL DEF Spec
-----------------------------------------------------------------------------
(* The jobs of generations follow JobLifecycle.  A dataset has at most one *)
(* request that owes it a job, before it has one (Submitted).              *)

Owing(d) == {r \in Requests : req[r].at = "owes a job" /\ req[r].ds = d}

Submitted ==
    /\ \A d \in Datasets : ds[d].status = "absent" => job[d].status = "none"
    /\ \A a \in Attempts : att[a].at # "idle" => job[att[a].ds].status # "none"
    /\ \A d \in Datasets : \A r, s \in Owing(d) :
          r = s /\ job[d].status = "none" /\ ds[d].status # "absent"

\* What an attempt does to attempts, jobs and datasets.
LEMMA AttemptKeeps ==
    ASSUME Typed, Submitted, NEW a \in Attempts, AttemptStep(a) \/ Crash(a)
    PROVE  /\ UNCHANGED req
           /\ \A b \in Attempts \ {a} : att'[b] = att[b]
           /\ att[a].at # "idle"
           /\ att'[a].at # "idle" => att'[a].ds = att[a].ds
           /\ \A d \in Datasets : job'[d].status = "none" <=> job[d].status = "none"
<1> USE DEF Typed, TypeOK
<1>1. UNCHANGED req
  BY DEF AttemptStep, ReadDataset, Refuse, CommitReset, GenerationFails, ReadAgain,
         CommitExamples, StoreFails, FinishJob, FinishFails, Retry, FailJob, ReadForFailure,
         CommitFailure, Crash
<1>2. \A b \in Attempts \ {a} : att'[b] = att[b]
  <2>1. CASE ReadForFailure(a)
    BY <2>1 DEF ReadForFailure
  <2>2. CASE ~ReadForFailure(a)
    BY <2>2 DEF AttemptStep, ReadDataset, Refuse, CommitReset, GenerationFails, ReadAgain,
                CommitExamples, StoreFails, FinishJob, FinishFails, Retry, FailJob,
                CommitFailure, Step, Crash
  <2> QED BY <2>1, <2>2
<1>3. att[a].at # "idle"
  BY DEF AttemptStep, ReadDataset, Refuse, CommitReset, GenerationFails, ReadAgain,
         CommitExamples, StoreFails, FinishJob, FinishFails, Retry, FailJob, ReadForFailure,
         CommitFailure, Step, Crash
<1>4. att'[a].at # "idle" => att'[a].ds = att[a].ds
  <2>1. CASE ReadForFailure(a)
    <3>1. CASE FailsWith(ds[att[a].ds].status)
      <4>1. att' = [att EXCEPT ![a] = [@ EXCEPT !.at = "failing", !.read = ds[att[a].ds]]]
        BY <2>1, <3>1 DEF ReadForFailure
      <4> QED BY <4>1 DEF Attempt
    <3>2. CASE ~FailsWith(ds[att[a].ds].status)
      BY <2>1, <3>2 DEF ReadForFailure, NoAttempt
    <3> QED BY <3>1, <3>2
  <2>2. CASE FinishJob(a) \/ Retry(a) \/ CommitFailure(a) \/ Crash(a)
    BY <2>2 DEF FinishJob, Retry, CommitFailure, Crash, NoAttempt
  <2>3. CASE ReadDataset(a) \/ CommitReset(a) \/ ReadAgain(a) \/ StoreFails(a)
    BY <2>3 DEF ReadDataset, CommitReset, ReadAgain, StoreFails, Attempt
  <2>4. CASE Refuse(a) \/ GenerationFails(a) \/ FinishFails(a) \/ FailJob(a)
    BY <2>4 DEF Refuse, GenerationFails, FinishFails, FailJob, Step, Attempt
  <2>5. CASE \E rows \in Fresh : CommitExamples(a, rows)
    BY <2>5 DEF CommitExamples, Attempt
  <2> QED BY <2>1, <2>2, <2>3, <2>4, <2>5 DEF AttemptStep
<1>5. \A d \in Datasets : job'[d].status = "none" <=> job[d].status = "none"
  <2>1. job[att[a].ds].status # "none" /\ att[a].ds \in Datasets
    BY <1>3 DEF Submitted, Executed
  <2>2. CASE FinishJob(a) \/ FinishFails(a) \/ Retry(a) \/ FailJob(a)
    BY <2>1, <2>2 DEF FinishJob, FinishFails, Retry, FailJob
  <2>3. CASE ~(FinishJob(a) \/ FinishFails(a) \/ Retry(a) \/ FailJob(a))
    <3>1. UNCHANGED job
      BY <2>3 DEF AttemptStep, ReadDataset, Refuse, CommitReset, GenerationFails, ReadAgain,
                  CommitExamples, StoreFails, ReadForFailure, CommitFailure, Crash
    <3> QED BY <3>1
  <2> QED BY <2>2, <2>3
<1> QED BY <1>1, <1>2, <1>3, <1>4, <1>5

\* No transaction deletes a dataset.
LEMMA AbsentBefore ==
    ASSUME Typed, [Next]_vars, NEW d \in Datasets, ds'[d].status = "absent"
    PROVE  ds[d].status = "absent"
<1> USE DEF Typed, TypeOK
<1>1. ASSUME UNCHANGED ds
      PROVE  ds[d].status = "absent"
  BY <1>1
<1>2. ASSUME NEW n \in Datasets, NEW rows \in Fresh, Import(n, rows)
      PROVE  ds[d].status = "absent"
  BY <1>2 DEF Import
<1>3. ASSUME NEW r \in Requests, NEW n \in Datasets, Generate(r, n)
      PROVE  ds[d].status = "absent"
  BY <1>3 DEF Generate
<1>4. ASSUME NEW r \in Requests, NEW n \in Datasets, CommitClone(r, n)
      PROVE  ds[d].status = "absent"
  BY <1>4 DEF CommitClone
<1>5. ASSUME NEW r \in Requests, CommitEdit(r)
      PROVE  ds[d].status = "absent"
  <2>1. ds'[d].status = ds[d].status
    BY <1>5 DEF CommitEdit, Version
  <2> QED BY <2>1
<1>6. ASSUME NEW r \in Requests, CommitApproval(r)
      PROVE  ds[d].status = "absent"
  <2>1. ds'[d].status \in {ds[d].status, "approved"}
    BY <1>6 DEF CommitApproval
  <2> QED BY <2>1
<1>7. ASSUME NEW a \in Attempts, CommitReset(a)
      PROVE  ds[d].status = "absent"
  <2>1. ds'[d].status = ds[d].status
    BY <1>7 DEF CommitReset, Version
  <2> QED BY <2>1
<1>8. ASSUME NEW a \in Attempts, NEW rows \in Fresh, CommitExamples(a, rows)
      PROVE  ds[d].status = "absent"
  <2>1. ds'[d].status \in {ds[d].status, "review_required"}
    BY <1>8 DEF CommitExamples, Written
  <2> QED BY <2>1
<1>9. ASSUME NEW a \in Attempts, CommitFailure(a)
      PROVE  ds[d].status = "absent"
  <2>1. ds'[d].status \in {ds[d].status, "failed"}
    BY <1>9 DEF CommitFailure, Written, Version
  <2> QED BY <2>1
<1> HIDE DEF Typed, TypeOK
<1> QED
  BY <1>1, <1>2, <1>3, <1>4, <1>5, <1>6, <1>7, <1>8, <1>9, Writers

\* A request other than the ones that begin a generation or insert its job.
LEMMA RequestKeeps ==
    ASSUME Typed, NEW r \in Requests, RequestStep(r), ~EnqueueJob(r),
           \A n \in Datasets : ~Generate(r, n)
    PROVE  UNCHANGED <<job, att>> /\ \A d \in Datasets : Owing(d)' \subseteq Owing(d)
<1> USE DEF Typed, TypeOK
<1>1. UNCHANGED <<job, att>>
  BY DEF RequestStep, DropJob, StartEdit, ReadExample, ReadSource, CommitClone, CommitEdit,
         StartApproval, ReadExamples, CommitApproval, EndEarly
<1>2. req'[r].at # "owes a job" /\ \A s \in Requests \ {r} : req'[s] = req[s]
  <2>1. CASE \E n \in Datasets : StartApproval(r, n)
    BY <2>1 DEF StartApproval, NoRequest
  <2>2. CASE \E n \in Datasets : StartEdit(r, n)
    BY <2>2 DEF StartEdit, NoRequest
  <2>5. ASSUME NEW e \in Examples, ReadExample(r, e)
        PROVE  req'[r].at # "owes a job" /\ \A s \in Requests \ {r} : req'[s] = req[s]
    <3>1. PICK at \in {"cloning", "editing"} : \E rows, new :
             req' = [req EXCEPT ![r] =
               [req[r] EXCEPT !.at = at, !.id = e, !.rows = rows, !.new = new]]
      BY <2>5 DEF ReadExample
    <3>2. PICK rows, new :
             req' = [req EXCEPT ![r] =
               [req[r] EXCEPT !.at = at, !.id = e, !.rows = rows, !.new = new]]
      BY <3>1
    <3> QED BY <3>2 DEF Request
  <2>6. CASE ReadSource(r)
    BY <2>6 DEF ReadSource, Request
  <2>3. CASE ReadExamples(r)
    BY <2>3 DEF ReadExamples, Request
  <2>4. CASE \/ \E n \in Datasets : CommitClone(r, n)
             \/ DropJob(r) \/ CommitEdit(r) \/ CommitApproval(r) \/ EndEarly(r)
    <3>1. req' = [req EXCEPT ![r] = NoRequest]
      BY <2>4 DEF CommitClone, DropJob, CommitEdit, CommitApproval, EndEarly
    <3> QED BY <3>1 DEF NoRequest
  <2> QED BY <2>1, <2>2, <2>3, <2>4, <2>5, <2>6 DEF RequestStep
<1> QED BY <1>1, <1>2 DEF Owing

LEMMA SubmittedStep == Typed /\ Submitted /\ [Next]_vars => Submitted'
<1> SUFFICES ASSUME Typed, Submitted, [Next]_vars
             PROVE  Submitted'
  OBVIOUS
<1>0. \A d \in Datasets : ds'[d].status = "absent" => ds[d].status = "absent"
  BY AbsentBefore
\* Nobody new owes a job, runs one, or has one.
<1>1. ASSUME \A d \in Datasets : Owing(d)' \subseteq Owing(d),
             \A d \in Datasets : job'[d].status = "none" <=> job[d].status = "none",
             \A a \in Attempts : att'[a].at # "idle" =>
                 /\ att'[a].ds \in Datasets
                 /\ job'[att'[a].ds].status # "none"
      PROVE  Submitted'
  BY <1>0, <1>1 DEF Submitted
<1>2. ASSUME UNCHANGED <<job, att>>, \A d \in Datasets : Owing(d)' \subseteq Owing(d)
      PROVE  Submitted'
  BY <1>1, <1>2 DEF Submitted, Typed, Executed
<1>3. ASSUME NEW r \in Requests, NEW n \in Datasets, Generate(r, n)
      PROVE  Submitted'
  <2>1. UNCHANGED <<job, att>> /\ ds[n].status = "absent" /\ ds'[n].status = "generating"
    BY <1>3 DEF Generate, Typed, TypeOK, Version
  <2>2. Owing(n) = {} /\ job[n].status = "none"
    BY <2>1 DEF Submitted
  <2>3. \A d \in Datasets : Owing(d)' \subseteq IF d = n THEN Owing(d) \cup {r} ELSE Owing(d)
    BY <1>3 DEF Generate, Owing, NoRequest, Typed, TypeOK
  <2>4. \A d \in Datasets : \A q, s \in Owing(d)' :
           q = s /\ job'[d].status = "none" /\ ds'[d].status # "absent"
    BY <1>0, <2>1, <2>2, <2>3 DEF Submitted
  <2> QED BY <1>0, <2>1, <2>4 DEF Submitted
<1>4. ASSUME NEW r \in Requests, EnqueueJob(r)
      PROVE  Submitted'
  <2>1. req[r].ds \in Datasets /\ r \in Owing(req[r].ds)
    BY <1>4 DEF EnqueueJob, Owing, Typed, Requested
  <2>2. Owing(req[r].ds) = {r} /\ ds[req[r].ds].status # "absent"
    BY <2>1 DEF Submitted
  <2>3. /\ \A d \in Datasets \ {req[r].ds} : job'[d] = job[d]
        /\ job'[req[r].ds].status = "queued" /\ UNCHANGED <<ds, att>>
    BY <1>4, <2>1 DEF EnqueueJob, Typed, TypeOK
  <2>4. \A d \in Datasets : Owing(d)' \subseteq Owing(d) \ {r}
    BY <1>4 DEF EnqueueJob, Owing, NoRequest, Typed, TypeOK
  <2>5. \A a \in Attempts : att[a].at # "idle" => job'[att[a].ds].status # "none"
    BY <2>3 DEF Submitted, Typed, Executed
  <2>6. \A d \in Datasets : \A q, s \in Owing(d)' :
           q = s /\ job'[d].status = "none" /\ ds'[d].status # "absent"
    <3> SUFFICES ASSUME NEW d \in Datasets, NEW q \in Owing(d)', NEW s \in Owing(d)'
                 PROVE  q = s /\ job'[d].status = "none" /\ ds'[d].status # "absent"
      OBVIOUS
    <3>1. d # req[r].ds /\ q \in Owing(d) /\ s \in Owing(d)
      BY <2>2, <2>4
    <3> QED BY <2>3, <3>1 DEF Submitted
  <2> QED BY <2>2, <2>3, <2>5, <2>6 DEF Submitted
<1>5. ASSUME NEW a \in Attempts, NEW n \in Datasets, StartJob(a, n)
      PROVE  Submitted'
  <2>1. UNCHANGED req /\ \A b \in Attempts \ {a} : att'[b] = att[b]
    BY <1>5 DEF StartJob, Typed, TypeOK
  <2>2. att'[a].ds = n
    BY <1>5 DEF StartJob, NoAttempt, Typed, TypeOK
  <2>3. /\ job[n].status # "none" /\ job'[n].status # "none"
        /\ \A d \in Datasets \ {n} : job'[d] = job[d]
    BY <1>5 DEF StartJob, Typed, TypeOK
  <2>4. \A b \in Attempts : att'[b].at # "idle" =>
           att'[b].ds \in Datasets /\ job'[att'[b].ds].status # "none"
    BY <2>1, <2>2, <2>3 DEF Submitted, Typed, Executed
  <2> QED BY <1>1, <2>1, <2>3, <2>4 DEF Owing
<1>6. ASSUME NEW a \in Attempts, AttemptStep(a) \/ Crash(a)
      PROVE  Submitted'
  <2>1. \A b \in Attempts : att'[b].at # "idle" => att[b].at # "idle" /\ att'[b].ds = att[b].ds
    BY <1>6, AttemptKeeps
  <2>2. \A b \in Attempts : att'[b].at # "idle" =>
           att'[b].ds \in Datasets /\ job'[att'[b].ds].status # "none"
    BY <1>6, <2>1, AttemptKeeps DEF Submitted, Typed, Executed
  <2> QED BY <1>1, <1>6, <2>2, AttemptKeeps DEF Owing
<1>7. ASSUME NEW d \in Datasets, NEW rows \in Fresh, Import(d, rows)
      PROVE  Submitted'
  BY <1>2, <1>7 DEF Import, Owing
<1>8. ASSUME UNCHANGED vars
      PROVE  Submitted'
  BY <1>2, <1>8 DEF vars, Owing
<1> QED BY <1>2, <1>3, <1>4, <1>5, <1>6, <1>7, <1>8, RequestKeeps DEF Next

LEMMA SubmittedInit == Init => Submitted
  BY DEF Init, Submitted, Owing, NoRequest, NoAttempt

\* The refinement mapping, named.
MapStatus == [d \in Datasets |-> IF job[d].status = "none" THEN "absent" ELSE job[d].status]
MapRunners == [d \in Datasets |-> AttemptsAt(d)]

LEMMA RunnersStay ==
    ASSUME \A b \in Attempts : /\ att'[b].at = "idle" <=> att[b].at = "idle"
                               /\ att'[b].ds = att[b].ds
    PROVE  MapRunners' = MapRunners
  BY DEF MapRunners, AttemptsAt

LEMMA RunnerLeaves ==
    ASSUME Typed, NEW a \in Attempts, att[a].at # "idle", att' = [att EXCEPT ![a] = NoAttempt]
    PROVE  /\ MapRunners' = [MapRunners EXCEPT ![att[a].ds] = @ \ {a}]
           /\ a \in AttemptsAt(att[a].ds) /\ att[a].ds \in Datasets
<1>1. att[a].ds \in Datasets
  BY DEF Typed, Executed
<1>2. \A d \in Datasets : AttemptsAt(d)' = IF d = att[a].ds THEN AttemptsAt(d) \ {a}
                                           ELSE AttemptsAt(d)
  BY DEF AttemptsAt, NoAttempt, Typed, TypeOK
<1> QED BY <1>1, <1>2 DEF MapRunners, AttemptsAt

LEMMA QueueStutters ==
    ASSUME UNCHANGED job, MapRunners' = MapRunners
    PROVE  UNCHANGED Queue!vars
  BY DEF Queue!vars, MapRunners

LEMMA StatusMoves ==
    ASSUME NEW d \in Datasets, NEW s, s # "none", job'[d].status = s,
           \A n \in Datasets \ {d} : job'[n] = job[n]
    PROVE  MapStatus' = [MapStatus EXCEPT ![d] = s]
  BY DEF MapStatus

LEMMA QueueRecords ==
    ASSUME Typed, NEW a \in Attempts, NEW d \in Datasets, a \in AttemptsAt(d),
           NEW s \in {"queued", "completed", "failed"}, job' = [job EXCEPT ![d].status = s],
           MapRunners' = MapRunners \/ MapRunners' = [MapRunners EXCEPT ![d] = @ \ {a}]
    PROVE  Queue!Next
<1>1. a \in MapRunners[d]
  BY DEF MapRunners
<1>2. MapStatus' = [MapStatus EXCEPT ![d] = s]
  <2>1. job'[d].status = s /\ \A n \in Datasets \ {d} : job'[n] = job[n]
    BY DEF Typed, TypeOK
  <2>2. s # "none"
    OBVIOUS
  <2> QED BY <2>1, <2>2, StatusMoves
<1>3. Queue!Record(a, d)
  BY <1>1, <1>2 DEF Queue!Record, MapStatus, MapRunners
<1> QED BY <1>3 DEF Queue!Next

LEMMA QueueLeaves ==
    ASSUME Typed, NEW a \in Attempts, att[a].at # "idle", UNCHANGED job,
           att' = [att EXCEPT ![a] = NoAttempt]
    PROVE  Queue!Next
<1>1. PICK d \in Datasets :
         MapRunners' = [MapRunners EXCEPT ![d] = @ \ {a}] /\ a \in AttemptsAt(d)
  BY RunnerLeaves
<1>2. Queue!Leave(a, d)
  BY <1>1 DEF Queue!Leave, MapRunners
<1> QED BY <1>2 DEF Queue!Next

LEMMA QueueStep == Typed /\ Submitted /\ [Next]_vars => [Queue!Next]_(Queue!vars)
<1> SUFFICES ASSUME Typed, Submitted, [Next]_vars
             PROVE  [Queue!Next]_(Queue!vars)
  OBVIOUS
<1> DEFINE Goal == [Queue!Next]_(Queue!vars)
<1> USE DEF Typed, TypeOK
<1>1. ASSUME UNCHANGED <<job, att>>
      PROVE  Goal
  <2>1. MapRunners' = MapRunners
    BY <1>1 DEF MapRunners, AttemptsAt
  <2> QED BY <1>1, <2>1, QueueStutters
<1>2. ASSUME NEW r \in Requests, EnqueueJob(r)
      PROVE  Goal
  <2>1. PICK d \in Datasets : req[r].ds = d /\ r \in Owing(d)
    BY <1>2 DEF EnqueueJob, Owing, Requested
  <2>2. job[d].status = "none"
    BY <2>1 DEF Submitted
  <2>3. MapRunners' = MapRunners
    BY <1>2 DEF EnqueueJob, MapRunners, AttemptsAt
  <2>4. job'[d].status = "queued" /\ \A n \in Datasets \ {d} : job'[n] = job[n]
    BY <1>2, <2>1 DEF EnqueueJob
  <2>5. MapStatus' = [MapStatus EXCEPT ![d] = "queued"] /\ MapStatus[d] = "absent"
    BY <2>1, <2>2, <2>4 DEF MapStatus
  <2>6. Queue!Submit(d)
    BY <2>3, <2>5 DEF Queue!Submit, MapStatus, MapRunners
  <2> QED BY <2>1, <2>6 DEF Queue!Next
<1>3. ASSUME NEW a \in Attempts, NEW d \in Datasets, StartJob(a, d)
      PROVE  Goal
  <2>1. \A n \in Datasets :
           AttemptsAt(n)' = IF n = d THEN AttemptsAt(n) \cup {a} ELSE AttemptsAt(n)
    <3>1. att'[a].at = "started" /\ att'[a].ds = d /\ att[a].at = "idle"
      BY <1>3 DEF StartJob, NoAttempt
    <3>2. \A b \in Attempts \ {a} : att'[b] = att[b]
      BY <1>3 DEF StartJob
    <3> QED BY <3>1, <3>2 DEF AttemptsAt
  <2>2. MapRunners' = [MapRunners EXCEPT ![d] = @ \cup {a}]
    BY <2>1 DEF MapRunners
  <2>3. \A n \in Datasets : a \notin MapRunners[n]
    BY <1>3 DEF StartJob, MapRunners, AttemptsAt
  <2>4. /\ MapStatus' = [MapStatus EXCEPT ![d] = "running"]
        /\ MapStatus[d] \in {"queued", "running"}
    BY <1>3 DEF StartJob, MapStatus
  <2>5. Queue!Start(a, d)
    BY <2>2, <2>3, <2>4 DEF Queue!Start, MapStatus, MapRunners
  <2> QED BY <2>5 DEF Queue!Next
<1>4. ASSUME NEW a \in Attempts, FinishJob(a) \/ Retry(a)
      PROVE  Goal
  <2>1. /\ att[a].at # "idle" /\ att' = [att EXCEPT ![a] = NoAttempt]
        /\ \E s \in {"queued", "completed", "failed"} :
              job' = [job EXCEPT ![att[a].ds].status = s]
    BY <1>4 DEF FinishJob, Retry
  <2> HIDE DEF Typed, TypeOK
  <2> QED BY <2>1, RunnerLeaves, QueueRecords
<1>5. ASSUME NEW a \in Attempts, FailJob(a)
      PROVE  Goal
  <2>1. att[a].at # "idle" /\ job' = [job EXCEPT ![att[a].ds].status = "failed"]
    BY <1>5 DEF FailJob, Step
  <2>2. att' = [att EXCEPT ![a].at = "marking"]
    BY <1>5 DEF FailJob, Step
  <2>3. MapRunners' = MapRunners
    <3>1. \A b \in Attempts : /\ att'[b].at = "idle" <=> att[b].at = "idle"
                              /\ att'[b].ds = att[b].ds
      BY <2>1, <2>2 DEF Attempt
    <3> QED BY <3>1, RunnersStay
  <2>4. att[a].ds \in Datasets /\ a \in AttemptsAt(att[a].ds)
    BY <2>1 DEF Executed, AttemptsAt
  <2> HIDE DEF Typed, TypeOK
  <2> QED BY <2>1, <2>3, <2>4, QueueRecords
<1>6. ASSUME NEW a \in Attempts, CommitFailure(a) \/ Crash(a)
      PROVE  Goal
  <2>1. att[a].at # "idle" /\ UNCHANGED job /\ att' = [att EXCEPT ![a] = NoAttempt]
    BY <1>6 DEF CommitFailure, Crash
  <2> HIDE DEF Typed, TypeOK
  <2> QED BY <2>1, QueueLeaves
<1>7. ASSUME NEW a \in Attempts, AttemptStep(a), UNCHANGED job, att'[a].at # "idle"
      PROVE  Goal
  <2>1. \A b \in Attempts : /\ att'[b].at = "idle" <=> att[b].at = "idle"
                            /\ att'[b].ds = att[b].ds
    <3> HIDE DEF Typed, TypeOK
    <3> QED BY <1>7, AttemptKeeps
  <2> QED BY <1>7, <2>1, RunnersStay, QueueStutters
<1>8. ASSUME NEW a \in Attempts, ReadForFailure(a)
      PROVE  Goal
  <2>1. att[a].at # "idle" /\ UNCHANGED job
    BY <1>8 DEF ReadForFailure
  <2>2. CASE FailsWith(ds[att[a].ds].status)
    <3>1. att' = [att EXCEPT ![a] = [@ EXCEPT !.at = "failing", !.read = ds[att[a].ds]]]
      BY <1>8, <2>2 DEF ReadForFailure
    <3>2. att'[a].at # "idle"
      BY <3>1 DEF Attempt
    <3> QED BY <1>7, <1>8, <2>1, <3>2 DEF AttemptStep
  <2>3. CASE ~FailsWith(ds[att[a].ds].status)
    <3>1. att' = [att EXCEPT ![a] = NoAttempt]
      BY <1>8, <2>3 DEF ReadForFailure
    <3> HIDE DEF Typed, TypeOK
    <3> QED BY <2>1, <3>1, QueueLeaves
  <2> QED BY <2>2, <2>3
<1>9. ASSUME NEW a \in Attempts,
             \/ ReadDataset(a) \/ Refuse(a) \/ CommitReset(a) \/ GenerationFails(a)
             \/ ReadAgain(a)
             \/ \E rows \in Fresh : CommitExamples(a, rows)
             \/ StoreFails(a)
      PROVE  Goal
  <2>1. UNCHANGED job
    BY <1>9 DEF ReadDataset, Refuse, CommitReset, GenerationFails, ReadAgain, CommitExamples,
                StoreFails
  <2>2. att'[a].at # "idle"
    <3>1. CASE ReadDataset(a) \/ CommitReset(a) \/ ReadAgain(a) \/ StoreFails(a)
      BY <3>1 DEF ReadDataset, CommitReset, ReadAgain, StoreFails, Attempt
    <3>2. CASE Refuse(a) \/ GenerationFails(a)
      BY <3>2 DEF Refuse, GenerationFails, Step, Attempt
    <3>3. CASE \E rows \in Fresh : CommitExamples(a, rows)
      BY <3>3 DEF CommitExamples, Attempt
    <3> QED BY <1>9, <3>1, <3>2, <3>3
  <2>3. AttemptStep(a)
    BY <1>9 DEF AttemptStep
  <2> QED BY <1>7, <2>1, <2>2, <2>3
<1>10. ASSUME NEW r \in Requests, RequestStep(r)
       PROVE  Goal
  <2>1. CASE EnqueueJob(r)
    BY <1>2, <2>1
  <2>2. CASE \E n \in Datasets : Generate(r, n)
    BY <1>1, <2>2 DEF Generate
  <2>3. CASE ~EnqueueJob(r) /\ \A n \in Datasets : ~Generate(r, n)
    <3> HIDE DEF Typed, TypeOK
    <3> QED BY <1>1, <1>10, <2>3, RequestKeeps
  <2> QED BY <2>1, <2>2, <2>3
<1>11. ASSUME NEW d \in Datasets, NEW rows \in Fresh, Import(d, rows)
       PROVE  Goal
  BY <1>1, <1>11 DEF Import
<1>12. ASSUME UNCHANGED vars
       PROVE  Goal
  BY <1>1, <1>12 DEF vars
<1>13. ASSUME NEW a \in Attempts, FinishFails(a)
       PROVE  Goal
  <2>1. att[a].at = "stored" /\ att' = [att EXCEPT ![a].at = "erring"]
    BY <1>13 DEF FinishFails, Step
  <2>2. MapRunners' = MapRunners
    <3>1. \A b \in Attempts : /\ att'[b].at = "idle" <=> att[b].at = "idle"
                              /\ att'[b].ds = att[b].ds
      BY <2>1 DEF Attempt
    <3> QED BY <3>1, RunnersStay
  <2>3. att[a].ds \in Datasets /\ a \in AttemptsAt(att[a].ds)
    BY <2>1 DEF Executed, AttemptsAt
  <2>4. CASE UNCHANGED job
    BY <2>2, <2>4, QueueStutters
  <2>5. CASE job' = [job EXCEPT ![att[a].ds].status = "completed"]
    <3> HIDE DEF Typed, TypeOK
    <3> QED BY <2>2, <2>3, <2>5, QueueRecords
  <2> QED BY <1>13, <2>4, <2>5 DEF FinishFails
<1> HIDE DEF Typed, TypeOK, Goal
<1>14. Goal
  BY <1>3, <1>4, <1>5, <1>6, <1>8, <1>9, <1>10, <1>11, <1>12, <1>13 DEF Next, AttemptStep
<1> QED BY <1>14 DEF Goal

\* The job of a generation, as far as datasets see it, is a job of the queue: it
\* is delivered and redelivered to attempts, and settled by them, in no other
\* way than JobLifecycle, which JobQueue implements, allows.
THEOREM GenerationJobsFollowQueue == Spec => JobsFollowQueue
<1>1. Init => Queue!Init
  BY DEF Init, Queue!Init, AttemptsAt, NoAttempt
<1>2. (Typed /\ Submitted) /\ [Next]_vars => (Typed /\ Submitted)'
  BY TypedStep, SubmittedStep
<1>3. Init => Typed /\ Submitted
  BY TypedInit, SubmittedInit
<1> QED BY <1>1, <1>2, <1>3, QueueStep, PTL DEF Spec, JobsFollowQueue, Queue!Spec
-----------------------------------------------------------------------------
(* A dataset under review is marked as failed by a later try of its job    *)
(* only.  Until the job is started a second time one attempt at most works *)
(* for the dataset, which is being generated until that attempt has stored *)
(* its examples; after that only a retry is left to it (FirstTry).         *)

Deliverable(d) == job[d].status \in {"queued", "running"}
Generating(d) == ds[d].status = "generating"

FirstTry(d) ==
    job[d].tries <= 1 =>
        /\ \A a, b \in AttemptsAt(d) : a = b
        /\ \A a \in AttemptsAt(d) : att[a].at \notin {"stored", "erring"} => Generating(d)
        /\ job[d].tries = 0 =>
              /\ AttemptsAt(d) = {}
              /\ Deliverable(d) \/ Owing(d) # {} => Generating(d)

FirstTries == \A d \in Datasets : FirstTry(d)

\* A request that approves has found the dataset past its generation.
Reviews ==
    \A r \in Requests : req[r].at \in {"reviewing", "approving"} => Past(req[r].ds)

LEMMA ReviewsStep == Typed /\ Reviews /\ [Next]_vars => Reviews'
<1> SUFFICES ASSUME Typed, Reviews, [Next]_vars, NEW s \in Requests,
                    req'[s].at \in {"reviewing", "approving"}
             PROVE  Past(req[s].ds)'
  BY DEF Reviews
<1>1. CASE req'[s] = req[s]
  <2>1. req[s].ds \in Datasets /\ Past(req[s].ds)
    BY <1>1 DEF Reviews, Typed, Requested
  <2>2. \A d \in Datasets : Past(d) => Past(d)'
    BY PastStays
  <2> QED BY <1>1, <2>1, <2>2 DEF Past
<1>2. CASE req'[s] # req[s]
  <2>1. s \in OpenRequests'
    BY DEF OpenRequests
  <2>2. ASSUME NEW d \in Datasets, StartApproval(s, d)
        PROVE  Past(req[s].ds)'
    BY <2>2 DEF StartApproval, Typed, TypeOK, Past
  <2>3. ASSUME ReadExamples(s)
        PROVE  Past(req[s].ds)'
    <3>1. req'[s].ds = req[s].ds /\ UNCHANGED ds /\ req[s].at = "reviewing"
      BY <2>3 DEF ReadExamples, Typed, TypeOK, Request
    <3> QED BY <3>1 DEF Reviews, Past
  <2>4. ASSUME NEW d \in Datasets, StartEdit(s, d)
        PROVE  FALSE
    BY <2>4 DEF StartEdit, Typed, TypeOK
  <2>5. ASSUME NEW e \in Examples, ReadExample(s, e)
        PROVE  FALSE
    <3>1. PICK at \in {"cloning", "editing"} : \E rows, new :
             req' = [req EXCEPT ![s] =
               [req[s] EXCEPT !.at = at, !.id = e, !.rows = rows, !.new = new]]
      BY <2>5 DEF ReadExample
    <3>2. PICK rows, new :
             req' = [req EXCEPT ![s] =
               [req[s] EXCEPT !.at = at, !.id = e, !.rows = rows, !.new = new]]
      BY <3>1
    <3> QED BY <3>2 DEF Typed, TypeOK, Request
  <2>6. ASSUME ReadSource(s)
        PROVE  FALSE
    BY <2>6 DEF ReadSource, Typed, TypeOK, Request
  <2> QED BY <1>2, <2>1, <2>2, <2>3, <2>4, <2>5, <2>6, RequestReads
<1> QED BY <1>1, <1>2

\* Nobody works for a dataset whose job was not tried yet.
LEMMA Untried ==
    ASSUME NEW d, FirstTry(d), job[d].tries = 0
    PROVE  /\ AttemptsAt(d) = {}
           /\ Deliverable(d) => Generating(d)
           /\ Owing(d) # {} => Generating(d)
<1>1. job[d].tries <= 1
  OBVIOUS
<1> QED BY <1>1 DEF FirstTry

\* A step that starts no attempt for the dataset, and ends no generation.
LEMMA FirstTryKept ==
    ASSUME NEW d, FirstTry(d), job'[d].tries = job[d].tries,
           AttemptsAt(d)' \subseteq AttemptsAt(d),
           \A a \in AttemptsAt(d)' :
              att'[a].at \notin {"stored", "erring"} => att[a].at \notin {"stored", "erring"},
           Generating(d) => Generating(d)',
           job[d].tries = 0 => \/ Generating(d)
                               \/ ~Deliverable(d)' /\ Owing(d)' = {}
                               \/ Generating(d)'
    PROVE  FirstTry(d)'
BY DEF FirstTry

\* What a request does.  None ends a generation: an approval has found the
\* dataset past it.
LEMMA FirstTryRequest ==
    ASSUME Typed, Reviews, NEW d \in Datasets, FirstTry(d), NEW r \in Requests, RequestStep(r)
    PROVE  FirstTry(d)'
<1>0. /\ ds \in [Datasets -> Version] /\ req \in [Requests -> Request]
      /\ job \in [Datasets -> [status : JobStates, tries : Nat]]
      /\ req[r].at # "idle" => req[r].ds \in Datasets
  BY DEF Typed, TypeOK, Requested
<1>1. UNCHANGED att /\ AttemptsAt(d)' = AttemptsAt(d)
  BY DEF RequestStep, Generate, StartApproval, StartEdit, ReadExample, ReadSource, CommitClone,
         EnqueueJob, DropJob, CommitEdit, ReadExamples, CommitApproval, EndEarly, AttemptsAt
<1>2. job'[d].tries = job[d].tries
  <2>1. CASE EnqueueJob(r)
    BY <1>0, <2>1 DEF EnqueueJob
  <2>2. CASE ~EnqueueJob(r)
    BY <2>2 DEF RequestStep, Generate, StartApproval, StartEdit, ReadExample, ReadSource,
                CommitClone, DropJob, CommitEdit, ReadExamples, CommitApproval, EndEarly
  <2> QED BY <2>1, <2>2
<1>3. Generating(d) => Generating(d)'
  <2>1. ASSUME NEW n \in Datasets, Generate(r, n) \/ CommitClone(r, n)
        PROVE  Generating(d) => Generating(d)'
    BY <1>0, <2>1 DEF Generate, CommitClone, Generating
  <2>2. CASE CommitEdit(r)
    BY <1>0, <2>2 DEF CommitEdit, Generating, Version
  <2>3. CASE CommitApproval(r)
    <3>1. Past(req[r].ds)
      BY <2>3 DEF CommitApproval, Reviews
    <3> QED BY <1>0, <2>3, <3>1 DEF CommitApproval, Generating, Past
  <2>4. ASSUME UNCHANGED ds
        PROVE  Generating(d) => Generating(d)'
    BY <2>4 DEF Generating
  <2> QED
    BY <2>1, <2>2, <2>3, <2>4
    DEF RequestStep, StartApproval, StartEdit, ReadExample, ReadSource, EnqueueJob, DropJob,
        ReadExamples, EndEarly
<1>4. CASE EnqueueJob(r)
  <2>1. UNCHANGED ds /\ Owing(d)' \subseteq Owing(d)
    BY <1>0, <1>4 DEF EnqueueJob, Owing, NoRequest
  <2>2. Deliverable(d)' => Deliverable(d) \/ r \in Owing(d)
    BY <1>0, <1>4 DEF EnqueueJob, Owing, Deliverable
  <2>3. job[d].tries = 0 => Generating(d) \/ (~Deliverable(d)' /\ Owing(d)' = {})
    BY <2>1, <2>2, Untried
  <2> QED BY <1>1, <1>2, <1>3, <2>3, FirstTryKept
<1>5. ASSUME NEW n \in Datasets, Generate(r, n)
      PROVE  FirstTry(d)'
  <2>1. CASE n = d
    <3>1. Generating(d)'
      BY <1>0, <1>5, <2>1 DEF Generate, Generating, Version
    <3> QED BY <1>1, <1>2, <3>1, FirstTryKept
  <2>2. CASE n # d
    <3>1. Owing(d)' \subseteq Owing(d) /\ UNCHANGED job
      BY <1>0, <1>5, <2>2 DEF Generate, Owing, NoRequest
    <3>2. job[d].tries = 0 => Generating(d) \/ (~Deliverable(d)' /\ Owing(d)' = {})
      BY <3>1, Untried DEF Deliverable
    <3> QED BY <1>1, <1>2, <1>3, <3>2, FirstTryKept
  <2> QED BY <2>1, <2>2
<1>6. CASE ~EnqueueJob(r) /\ \A n \in Datasets : ~Generate(r, n)
  <2>1. Owing(d)' \subseteq Owing(d) /\ UNCHANGED job
    BY <1>6, RequestKeeps
  <2>2. job[d].tries = 0 => Generating(d) \/ (~Deliverable(d)' /\ Owing(d)' = {})
    BY <2>1, Untried DEF Deliverable
  <2> QED BY <1>1, <1>2, <1>3, <2>2, FirstTryKept
<1> QED BY <1>4, <1>5, <1>6

\* What an attempt for another dataset does.
LEMMA FirstTryOther ==
    ASSUME Typed, Submitted, NEW d \in Datasets, FirstTry(d), NEW a \in Attempts,
           att[a].ds # d, AttemptStep(a) \/ Crash(a)
    PROVE  FirstTry(d)'
<1>0. /\ ds \in [Datasets -> Version]
      /\ job \in [Datasets -> [status : JobStates, tries : Nat]]
  BY DEF Typed, TypeOK
<1>1. ds'[d] = ds[d]
  BY <1>0 DEF AttemptStep, ReadDataset, Refuse, CommitReset, GenerationFails, ReadAgain,
      CommitExamples, StoreFails, FinishJob, FinishFails, Retry, FailJob, ReadForFailure,
      CommitFailure, Crash
<1>2. job'[d] = job[d]
  BY <1>0 DEF AttemptStep, ReadDataset, Refuse, CommitReset, GenerationFails, ReadAgain,
      CommitExamples, StoreFails, FinishJob, FinishFails, Retry, FailJob, ReadForFailure,
      CommitFailure, Crash
<1>3. UNCHANGED req /\ \A b \in Attempts \ {a} : att'[b] = att[b]
  BY AttemptKeeps
<1>4. att'[a].at # "idle" => att'[a].ds # d
  BY AttemptKeeps
<1>5. AttemptsAt(d)' = AttemptsAt(d) /\ \A b \in AttemptsAt(d) : att'[b] = att[b]
  BY <1>3, <1>4 DEF AttemptsAt
<1>6. Owing(d)' = Owing(d) /\ (Deliverable(d)' <=> Deliverable(d))
      /\ (Generating(d)' <=> Generating(d))
  BY <1>1, <1>2, <1>3 DEF Owing, Deliverable, Generating
<1>7. job[d].tries = 0 => Generating(d) \/ (~Deliverable(d)' /\ Owing(d)' = {})
  BY <1>6, Untried
<1> QED BY <1>2, <1>5, <1>6, <1>7, FirstTryKept

\* What the attempt does that works for it.
LEMMA FirstTryOwn ==
    ASSUME Typed, Submitted, NEW d \in Datasets, FirstTry(d), NEW a \in Attempts,
           att[a].ds = d, AttemptStep(a) \/ Crash(a)
    PROVE  FirstTry(d)'
<1>0. /\ ds \in [Datasets -> Version] /\ att \in [Attempts -> Attempt]
      /\ job \in [Datasets -> [status : JobStates, tries : Nat]]
  BY DEF Typed, TypeOK
<1>1. job'[d].tries = job[d].tries /\ job[d].tries \in Nat
  <2>1. CASE FinishJob(a) \/ FinishFails(a) \/ Retry(a) \/ FailJob(a)
    BY <1>0, <2>1 DEF FinishJob, FinishFails, Retry, FailJob
  <2>2. CASE ~(FinishJob(a) \/ FinishFails(a) \/ Retry(a) \/ FailJob(a))
    <3>1. UNCHANGED job
      BY <2>2 DEF AttemptStep, ReadDataset, Refuse, CommitReset, GenerationFails, ReadAgain,
                  CommitExamples, StoreFails, ReadForFailure, CommitFailure, Crash
    <3> QED BY <1>0, <3>1
  <2> QED BY <2>1, <2>2
<1> SUFFICES ASSUME job[d].tries <= 1
             PROVE  FirstTry(d)'
  BY <1>1 DEF FirstTry
<1>2. a \in AttemptsAt(d)
  BY AttemptKeeps DEF AttemptsAt
<1>3. AttemptsAt(d) = {a} /\ job[d].tries # 0
  BY <1>2 DEF FirstTry
<1>4. AttemptsAt(d)' \subseteq {a}
  BY <1>3, AttemptKeeps DEF AttemptsAt
<1>5. att[a].at \notin {"stored", "erring"} => Generating(d)
  BY <1>2 DEF FirstTry
<1>6. ASSUME a \in AttemptsAt(d)', att'[a].at \notin {"stored", "erring"}
      PROVE  Generating(d)'
  <2>1. att'[a].at # "idle"
    BY <1>6 DEF AttemptsAt
  <2>2. CASE ReadDataset(a) \/ ReadAgain(a)
    BY <1>5, <2>2 DEF ReadDataset, ReadAgain, Generating
  <2>3. CASE Refuse(a)
    BY <1>5, <2>3 DEF Refuse, Step, Generating
  <2>4. CASE CommitReset(a)
    <3>1. ds'[d].status = ds[d].status
      BY <1>0, <2>4 DEF CommitReset, Version
    <3> QED BY <1>5, <2>4, <3>1 DEF CommitReset, Generating
  <2>5. CASE GenerationFails(a) \/ FinishFails(a)
    BY <1>0, <1>6, <2>5 DEF GenerationFails, FinishFails, Step, Attempt
  <2>6. CASE StoreFails(a)
    BY <1>0, <1>6, <2>6 DEF StoreFails, Attempt
  <2>7. CASE \E rows \in Fresh : CommitExamples(a, rows)
    BY <1>0, <1>6, <2>7 DEF CommitExamples, Attempt
  <2>8. CASE FinishJob(a) \/ Retry(a) \/ CommitFailure(a) \/ Crash(a)
    BY <1>0, <2>1, <2>8 DEF FinishJob, Retry, CommitFailure, Crash, NoAttempt
  \* It may not give up after an error yet.
  <2>9. CASE FailJob(a)
    <3>1. MaxTries >= 1 /\ MaxTries \in Nat
      BY BoundsAssumption
    <3>2. att[a].at = "refusing" /\ UNCHANGED ds
      BY <1>1, <2>9, <3>1 DEF FailJob, Step
    <3> QED BY <1>5, <3>2 DEF Generating
  <2>10. CASE ReadForFailure(a)
    BY <1>5, <2>10 DEF ReadForFailure, Generating
  <2> QED
    BY <2>2, <2>3, <2>4, <2>5, <2>6, <2>7, <2>8, <2>9, <2>10 DEF AttemptStep
<1> QED BY <1>1, <1>3, <1>4, <1>6 DEF FirstTry

LEMMA FirstTryStart ==
    ASSUME Typed, NEW d \in Datasets, FirstTry(d), NEW a \in Attempts, NEW n \in Datasets,
           StartJob(a, n)
    PROVE  FirstTry(d)'
<1>0. /\ att \in [Attempts -> Attempt]
      /\ job \in [Datasets -> [status : JobStates, tries : Nat]]
  BY DEF Typed, TypeOK
<1>1. UNCHANGED <<ds, req>> /\ Owing(d)' = Owing(d)
  BY DEF StartJob, Owing
<1>2. CASE n = d
  <2>1. job'[d].tries = job[d].tries + 1 /\ job[d].tries \in Nat /\ Deliverable(d)
    BY <1>0, <1>2 DEF StartJob, Deliverable
  <2>2. CASE job[d].tries = 0
    <3>1. AttemptsAt(d) = {} /\ Generating(d)'
      BY <1>1, <2>1, <2>2, Untried DEF Generating
    <3>2. AttemptsAt(d)' = {a}
      BY <1>0, <1>2, <3>1 DEF StartJob, AttemptsAt, NoAttempt
    <3> QED BY <2>1, <2>2, <3>1, <3>2 DEF FirstTry
  <2>3. CASE job[d].tries # 0
    BY <2>1, <2>3 DEF FirstTry
  <2> QED BY <2>2, <2>3
<1>3. CASE n # d
  <2>1. job'[d] = job[d]
    BY <1>0, <1>3 DEF StartJob
  <2>2. AttemptsAt(d)' = AttemptsAt(d) /\ \A b \in AttemptsAt(d) : att'[b] = att[b]
    BY <1>0, <1>3 DEF StartJob, AttemptsAt, NoAttempt
  <2>3. job[d].tries = 0 => Generating(d) \/ (~Deliverable(d)' /\ Owing(d)' = {})
    BY <1>1, <2>1, Untried DEF Deliverable
  <2>4. Generating(d)' <=> Generating(d)
    BY <1>1 DEF Generating
  <2>5. AttemptsAt(d)' \subseteq AttemptsAt(d) /\ job'[d].tries = job[d].tries
    BY <2>1, <2>2
  <2> QED BY <2>2, <2>3, <2>4, <2>5, FirstTryKept
<1> QED BY <1>2, <1>3

LEMMA FirstTriesStep ==
    Typed /\ Submitted /\ Reviews /\ FirstTries /\ [Next]_vars => FirstTries'
<1> SUFFICES ASSUME Typed, Submitted, Reviews, FirstTries, [Next]_vars, NEW d \in Datasets
             PROVE  FirstTry(d)'
  BY DEF FirstTries
<1>0. FirstTry(d)
  BY DEF FirstTries
<1>1. ASSUME UNCHANGED <<job, req, att>>, Generating(d) => Generating(d)'
      PROVE  FirstTry(d)'
  <2>1. AttemptsAt(d)' = AttemptsAt(d) /\ Owing(d)' = Owing(d)
    BY <1>1 DEF AttemptsAt, Owing
  <2>2. job[d].tries = 0 => Generating(d) \/ (~Deliverable(d)' /\ Owing(d)' = {})
    BY <1>0, <1>1, <2>1, Untried DEF Deliverable
  <2> QED BY <1>0, <1>1, <2>1, <2>2, FirstTryKept
<1>2. ASSUME NEW n \in Datasets, NEW rows \in Fresh, Import(n, rows)
      PROVE  FirstTry(d)'
  <2>1. Generating(d) => Generating(d)'
    BY <1>2 DEF Import, Generating, Typed, TypeOK
  <2> QED BY <1>1, <1>2, <2>1 DEF Import
<1>3. ASSUME NEW a \in Attempts, AttemptStep(a) \/ Crash(a)
      PROVE  FirstTry(d)'
  BY <1>0, <1>3, FirstTryOwn, FirstTryOther
<1>4. CASE UNCHANGED vars
  BY <1>1, <1>4 DEF vars, Generating
<1> QED BY <1>0, <1>2, <1>3, <1>4, FirstTryRequest, FirstTryStart DEF Next

\* Only the worker that marks a failure makes a dataset under review fail.
LEMMA FailsBy ==
    ASSUME Typed, [Next]_vars, NEW d \in Datasets,
           ds[d].status = "review_required", ds'[d].status = "failed"
    PROVE  \E a \in Attempts : att[a].at = "failing" /\ att[a].ds = d
<1>0. ds \in [Datasets -> Version]
  BY DEF Typed, TypeOK
<1>1. \A n \in Datasets, rows \in Fresh : ~Import(n, rows)
  BY <1>0 DEF Import
<1>2. \A r \in Requests, n \in Datasets : ~Generate(r, n) /\ ~CommitClone(r, n)
  BY <1>0 DEF Generate, CommitClone
<1>3. \A r \in Requests : ~CommitEdit(r)
  BY <1>0 DEF CommitEdit, Version
<1>4. \A r \in Requests : ~CommitApproval(r)
  BY <1>0 DEF CommitApproval
<1>5. \A a \in Attempts : ~CommitReset(a)
  BY <1>0 DEF CommitReset, Version
<1>6. \A a \in Attempts, rows \in Fresh : ~CommitExamples(a, rows)
  BY <1>0 DEF CommitExamples, Written
<1>7. ASSUME NEW a \in Attempts, CommitFailure(a)
      PROVE  att[a].at = "failing" /\ att[a].ds = d
  BY <1>0, <1>7 DEF CommitFailure
<1> QED BY <1>1, <1>2, <1>3, <1>4, <1>5, <1>6, <1>7, Writers

\* The first try of a generation's job never marks a dataset under review as
\* failed, also when what comes after its commit fails, and whatever overlaps.
THEOREM FailureNeedsAnotherTry == Spec => OnlyLaterTriesFail
<1> DEFINE Inv == Typed /\ Submitted /\ Reviews /\ FirstTries
<1>1. Init => Inv
  <2> SUFFICES ASSUME Init PROVE Reviews /\ FirstTries
    BY TypedInit, SubmittedInit
  <2>1. Reviews
    BY DEF Init, Reviews, NoRequest
  <2>2. \A d \in Datasets : AttemptsAt(d) = {} /\ Owing(d) = {} /\ ~Deliverable(d)
    BY DEF Init, AttemptsAt, Owing, Deliverable, NoAttempt, NoRequest
  <2> QED BY <2>1, <2>2 DEF FirstTries, FirstTry
<1>2. Inv /\ [Next]_vars => Inv'
  BY TypedStep, SubmittedStep, ReviewsStep, FirstTriesStep
<1>3. Inv /\ [Next]_vars =>
        [\A d \in Datasets : ds[d].status = "review_required" /\ ds'[d].status = "failed"
            => job[d].tries > 1]_vars
  <2> SUFFICES ASSUME Inv, [Next]_vars, NEW d \in Datasets,
                      ds[d].status = "review_required", ds'[d].status = "failed"
               PROVE  job[d].tries > 1
    OBVIOUS
  <2>1. PICK a \in Attempts : att[a].at = "failing" /\ att[a].ds = d
    BY FailsBy
  <2>2. a \in AttemptsAt(d) /\ ~Generating(d)
    BY <2>1 DEF AttemptsAt, Generating
  <2>3. job[d].tries \in Nat /\ ~(job[d].tries <= 1)
    BY <2>1, <2>2 DEF FirstTries, FirstTry, Typed, TypeOK
  <2> QED BY <2>3
<1> QED BY <1>1, <1>2, <1>3, PTL DEF Spec, OnlyLaterTriesFail
-----------------------------------------------------------------------------
(* Approval releases examples once and for all: DatasetReview.             *)

\* The refinement mapping, named.
MapStage == [d \in Datasets |-> ds[d].status]
MapUsed == [d \in Datasets |-> IF Usable(d) THEN Used(d).rows ELSE {}]
MapManifest == [d \in Datasets |-> IF Usable(d) THEN ds[d].manifest.rows ELSE {}]

\* What a step may do to a dataset that was not crossed.
Keeps(n) == ds'[n].status = ds[n].status /\ (Usable(n) => ds'[n] = ds[n] /\ ex'[n] = ex[n])

Advances(n) ==
    \/ ds[n].status = "absent" /\ ds'[n].status = "generating"
    \/ ds[n].status \in {"absent", "generating"} /\ ds'[n].status = "review_required"
    \/ ds[n].status \in {"generating", "review_required"} /\ ds'[n].status = "failed"

Approves(n) == ds[n].status = "review_required" /\ Usable(n)' /\ Described(n)'

\* Only dataset n moves on, and not by an approval.
LEMMA ReviewMoves ==
    ASSUME NEW n \in Datasets, ~Usable(n), ~Usable(n)', Only(n)
    PROVE  /\ MapStage' = [MapStage EXCEPT ![n] = ds'[n].status]
           /\ MapUsed' = MapUsed /\ MapManifest' = MapManifest
<1>1. \A d \in Datasets \ {n} : (Usable(d)' <=> Usable(d)) /\ Used(d)' = Used(d)
  BY DEF Usable, Used, Approved, Present, Only
<1> QED BY <1>1 DEF MapStage, MapUsed, MapManifest, Only

LEMMA ReviewStutters ==
    ASSUME UNCHANGED crossed, \A d \in Datasets : Keeps(d)
    PROVE  UNCHANGED Review!vars
<1>1. \A d \in Datasets : Usable(d)' <=> Usable(d)
  BY DEF Usable, Keeps
<1>2. \A d \in Datasets : Usable(d) => Used(d)' = Used(d)
  BY DEF Used, Approved, Present, Keeps
<1>3. MapStage' = MapStage
  BY DEF MapStage, Keeps
<1>4. MapUsed' = MapUsed
  BY <1>1, <1>2 DEF MapUsed
<1>5. MapManifest' = MapManifest
  BY <1>1 DEF MapManifest, Keeps
<1> QED BY <1>3, <1>4, <1>5 DEF Review!vars, MapStage, MapUsed, MapManifest

LEMMA ReviewAdvances ==
    ASSUME NEW n \in Datasets \ crossed, Only(n), UNCHANGED crossed, Advances(n)
    PROVE  Review!Next
<1>1. /\ MapStage' = [MapStage EXCEPT ![n] = ds'[n].status]
      /\ MapUsed' = MapUsed /\ MapManifest' = MapManifest
  BY ReviewMoves DEF Usable, Advances
<1>2. Review!Begin(n) \/ Review!Draft(n) \/ Review!Fail(n)
  BY <1>1
  DEF Review!Begin, Review!Draft, Review!Fail, MapStage, MapUsed, MapManifest, Advances
<1> QED BY <1>2 DEF Review!Next, Review!Moves

LEMMA ReviewApproves ==
    ASSUME Typed', NEW n \in Datasets \ crossed, Only(n), UNCHANGED crossed, Approves(n)
    PROVE  Review!Next
<1> DEFINE some == Used(n).rows
<1>0. ds[n].status = "review_required" /\ Usable(n)' /\ Described(n)'
  BY DEF Approves
<1>1. \A d \in Datasets \ {n} : (Usable(d)' <=> Usable(d)) /\ Used(d)' = Used(d)
  BY DEF Usable, Used, Approved, Present, Only
<1>2. /\ MapStage' = [MapStage EXCEPT ![n] = "approved"]
      /\ MapUsed' = [MapUsed EXCEPT ![n] = some']
      /\ MapManifest' = [MapManifest EXCEPT ![n] = some']
  <2>1. ds'[n].status = "approved" /\ Used(n)' = ds'[n].manifest
    BY <1>0 DEF Usable, Described
  <2> QED BY <1>1, <2>1 DEF MapStage, MapUsed, MapManifest, Only, Usable
<1>3. some' \in SUBSET (Examples \X Contents)
  <2>1. ds'[n].manifest \in Manifests
    BY DEF Typed, TypeOK, Version
  <2> QED BY <1>0, <2>1 DEF Described, Manifests
<1>4. some' # {}
  <2>1. PICK e \in Approved(ex[n])' : TRUE
    BY <1>0 DEF Described
  <2> QED BY <2>1 DEF Used, Manifest
<1>5. Review!Approve(n)
  BY <1>0, <1>2, <1>3, <1>4 DEF Review!Approve, MapStage, MapUsed, MapManifest
<1> QED BY <1>5 DEF Review!Next, Review!Moves

\* Of a dataset that was crossed nothing is promised.
LEMMA ReviewCrosses ==
    ASSUME NEW n \in Datasets, Only(n), crossed' = crossed \cup {n}
    PROVE  Review!Next
<1>1. \A d \in Datasets \ {n} : (Usable(d)' <=> Usable(d)) /\ Used(d)' = Used(d)
  BY DEF Usable, Used, Approved, Present, Only
<1>2. \A d \in Datasets \ {n} : /\ MapStage'[d] = MapStage[d]
                                /\ MapUsed'[d] = MapUsed[d]
                                /\ MapManifest'[d] = MapManifest[d]
  BY <1>1 DEF MapStage, MapUsed, MapManifest, Only
<1>3. Review!Cross(n)
  BY <1>2 DEF Review!Cross, MapStage, MapUsed, MapManifest
<1> QED BY <1>3 DEF Review!Next

\* A step that writes dataset n only.
LEMMA ReviewWrites ==
    ASSUME Typed, Typed', Current, [Next]_vars, NEW n \in Datasets, Only(n),
           crossed' \subseteq crossed \cup {n},
           n \notin crossed' => \/ ds'[n].status = ds[n].status
                                \/ Advances(n) \/ Approves(n)
    PROVE  [Review!Next]_(Review!vars)
<1>1. crossed \subseteq crossed'
  BY OverlapStep
<1>2. CASE n \in crossed'
  BY <1>1, <1>2, ReviewCrosses
<1>3. CASE n \notin crossed' /\ ds'[n].status = ds[n].status
  <2>1. Keeps(n)
    BY <1>3, FrozenStep DEF Keeps, Usable
  <2>2. \A d \in Datasets : Keeps(d)
    BY <2>1 DEF Keeps, Only
  <2> QED BY <1>1, <1>3, <2>2, ReviewStutters
<1>4. CASE n \notin crossed' /\ (Advances(n) \/ Approves(n))
  <2>1. UNCHANGED crossed /\ n \notin crossed
    BY <1>1, <1>4
  <2> QED BY <1>4, <2>1, ReviewAdvances, ReviewApproves
<1> QED BY <1>2, <1>3, <1>4

LEMMA CommitsCross ==
    ASSUME NEW x, NEW d, Commits(x, d)
    PROVE  crossed' \subseteq crossed \cup {d}
  BY DEF Commits

LEMMA ReviewStep ==
    ASSUME Typed, Current, Submitted, Stages, [Next]_vars, Typed', DescribedInv'
    PROVE  [Review!Next]_(Review!vars)
<1> DEFINE Goal == [Review!Next]_(Review!vars)
<1>0. /\ ds \in [Datasets -> Version] /\ ex \in [Datasets -> Rows]
      /\ \A r \in Requests : req[r].at # "idle" => req[r].ds \in Datasets
      /\ \A a \in Attempts : att[a].at # "idle" => att[a].ds \in Datasets
  BY DEF Typed, TypeOK, Requested, Executed
<1>1. ASSUME UNCHANGED <<ds, ex, crossed>>
      PROVE  Goal
  BY <1>1, ReviewStutters DEF Keeps
<1>2. ASSUME NEW n \in Datasets, NEW rows \in Fresh, Import(n, rows)
      PROVE  Goal
  <2>1. Only(n) /\ Advances(n) /\ UNCHANGED crossed
    BY <1>0, <1>2 DEF Import, Only, Advances, overlap
  <2> QED BY <2>1, ReviewWrites
<1>3. ASSUME NEW r \in Requests, NEW n \in Datasets, Generate(r, n)
      PROVE  Goal
  <2>1. Only(n) /\ Advances(n) /\ UNCHANGED crossed
    BY <1>0, <1>3 DEF Generate, Only, Advances, Version, overlap
  <2> QED BY <2>1, ReviewWrites
<1>4. ASSUME NEW r \in Requests, NEW n \in Datasets, CommitClone(r, n)
      PROVE  Goal
  <2>1. Only(n) /\ Advances(n) /\ Commits(r, n)
    BY <1>0, <1>4 DEF CommitClone, Only, Advances
  <2> QED BY <2>1, ReviewWrites, CommitsCross
<1>5. ASSUME NEW r \in Requests, CommitEdit(r)
      PROVE  Goal
  <2> DEFINE n == req[r].ds
  <2>1. n \in Datasets /\ Only(n) /\ Commits(r, n) /\ ds'[n].status = ds[n].status
    BY <1>0, <1>5 DEF CommitEdit, Only, Version
  <2> QED BY <2>1, ReviewWrites, CommitsCross
<1>6. ASSUME NEW r \in Requests, CommitApproval(r)
      PROVE  Goal
  <2>0. PICK n \in Datasets : n = req[r].ds
    BY <1>0, <1>6 DEF CommitApproval
  <2>1. Only(n) /\ Commits(r, n) /\ Usable(n)'
    BY <1>0, <1>6, <2>0 DEF CommitApproval, Only, Usable
  <2>2. r \notin behind => ds[n].status = "review_required"
    BY <1>6, <2>0 DEF CommitApproval, Current, OpenRequests, CurrentRequest
  <2>3. n \notin crossed' /\ r \in behind => ds'[n].status = ds[n].status
    BY <2>1, BehindCrosses
  <2>4. n \notin crossed' => Described(n)'
    BY <2>1 DEF DescribedInv, Usable
  <2>5. n \notin crossed' => ds'[n].status = ds[n].status \/ Approves(n)
    BY <2>1, <2>2, <2>3, <2>4 DEF Approves
  <2> QED BY <2>1, <2>5, ReviewWrites, CommitsCross
<1>7. ASSUME NEW a \in Attempts, CommitReset(a)
      PROVE  Goal
  <2> DEFINE n == att[a].ds
  <2>1. n \in Datasets /\ Only(n) /\ Commits(a, n) /\ ds'[n].status = ds[n].status
    BY <1>0, <1>7 DEF CommitReset, Only, Version
  <2> QED BY <2>1, ReviewWrites, CommitsCross
<1>8. ASSUME NEW a \in Attempts, NEW rows \in Fresh, CommitExamples(a, rows)
      PROVE  Goal
  <2> DEFINE n == att[a].ds
  <2>1. n \in Datasets /\ Only(n) /\ Commits(a, n)
    BY <1>0, <1>8 DEF CommitExamples, Only
  <2>2. ds'[n].status \in {ds[n].status, "review_required"}
    BY <1>0, <1>8, <2>1 DEF CommitExamples, Written
  <2>3. a \notin behind => ds[n].status = "generating"
    BY <1>8 DEF CommitExamples, Current, OpenAttempts, CurrentAttempt
  <2>4. n \notin crossed' /\ a \in behind => ds'[n].status = ds[n].status
    BY <2>1, BehindCrosses
  <2>5. n \notin crossed' => ds'[n].status = ds[n].status \/ Advances(n)
    BY <2>2, <2>3, <2>4 DEF Advances
  <2> QED BY <2>1, <2>5, ReviewWrites, CommitsCross
<1>9. ASSUME NEW a \in Attempts, CommitFailure(a)
      PROVE  Goal
  <2> DEFINE n == att[a].ds
  <2>1. n \in Datasets /\ Only(n) /\ Commits(a, n)
    BY <1>0, <1>9 DEF CommitFailure, Only
  <2>2. ds'[n].status \in {ds[n].status, "failed"}
    BY <1>0, <1>9, <2>1 DEF CommitFailure, Written, Version
  <2>3. ds[n].status \in Statuses \ {"absent"}
    BY <1>0, <1>9, <2>1 DEF CommitFailure, Version, Submitted
  <2>4. a \notin behind => ds[n].status # "approved"
    BY <1>9 DEF CommitFailure, Current, OpenAttempts, CurrentAttempt
  <2>5. n \notin crossed' /\ a \in behind => ds'[n].status = ds[n].status
    BY <2>1, BehindCrosses
  <2>6. n \notin crossed' => ds'[n].status = ds[n].status \/ Advances(n)
    BY <2>2, <2>3, <2>4, <2>5 DEF Advances, Statuses
  <2> QED BY <2>1, <2>6, ReviewWrites, CommitsCross
<1> HIDE DEF Goal
<1>10. Goal
  BY <1>1, <1>2, <1>3, <1>4, <1>5, <1>6, <1>7, <1>8, <1>9, Writers
<1> QED BY <1>10 DEF Goal

\* The datasets implement DatasetReview, whatever edits, approvals, attempts and
\* failures overlap: each version is drafted once, fails or is approved for good,
\* and what is used of it is what its approval released, until a transaction that
\* was behind changes it; and that never touches another version.
THEOREM DatasetsImplementReview == Spec => ImplementsReview
<1> DEFINE Inv == Typed /\ Current /\ Submitted /\ Stages /\ DescribedInv
<1>1. Init => Inv
  BY TypedInit, CurrentInit, SubmittedInit, InitWorked DEF Init, DescribedInv, NoVersion
<1>2. Inv /\ [Next]_vars => Inv'
  BY TypedStep, CurrentStep, SubmittedStep, StagesStep, DescribedStep
<1>3. Inv /\ [Next]_vars /\ Inv' => [Review!Next]_(Review!vars)
  BY ReviewStep
<1>4. Init => Review!Init
  BY DEF Init, Review!Init, NoVersion, Usable
<1> QED BY <1>1, <1>2, <1>3, <1>4, PTL DEF Spec, ImplementsReview, Review!Spec
=============================================================================
