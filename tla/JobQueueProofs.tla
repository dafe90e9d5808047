--------------------------- MODULE JobQueueProofs ---------------------------
(***************************************************************************)
(* Theorems about JobQueue, for any sets of jobs, workers and entry ids    *)
(* and any bounds.                                                         *)
(***************************************************************************)
EXTENDS JobQueue, SequenceTheorems, TLAPS

LEMMA EntryJob == \A e \in Entry : e.job \in Jobs
BY DEF Entry

\* XADD appends an entry for the job and changes nothing else.
LEMMA XAddType ==
    ASSUME NEW j \in Jobs, stream \in Seq(Entry), XAdd(j)
    PROVE  stream' \in Seq(Entry)
BY DEF XAdd, Entry

\* What XREADGROUP takes and what it leaves are entries.
LEMMA ReadType ==
    ASSUME stream \in Seq(Entry), NEW n \in 0..Len(stream)
    PROVE  /\ {stream[i] : i \in 1..n} \in SUBSET Entry
           /\ SubSeq(stream, n + 1, Len(stream)) \in Seq(Entry)
<1>1. Len(stream) \in Nat /\ \A i \in 1..Len(stream) : stream[i] \in Entry
  BY ElementOfSeq, LenProperties
<1>2. \A i \in (n + 1)..Len(stream) : stream[i] \in Entry
  BY <1>1
<1>3. SubSeq(stream, n + 1, Len(stream)) \in Seq(Entry)
  BY <1>1, <1>2, SubSeqProperties
<1>4. QED BY <1>1, <1>3

\* What an outcome's commit makes of the row and of the worker.
LEMMA OutcomeType ==
    /\ \A s \in Step : NewStatus(s) \in {"queued", "completed", "failed"}
    /\ \A s \in Step : AfterOutcome(s) \in {"event", "domain", "ack"}
    /\ \A s \in Step : AfterOutcome(s) = "event" <=> s = "finish"
    /\ {"queued", "completed", "failed"} \subseteq Status
    /\ {"event", "domain", "ack"} \subseteq Step
BY DEF NewStatus, AfterOutcome, Step, Status, Outcome

\* A worker that is in the middle of execute_job knows which entry it executes.
CurKnown == \A w \in Workers : step[w] # "idle" => cur[w] \in Entry

Typed == TypeOK /\ CurKnown
-----------------------------------------------------------------------------
LEMMA TypedInit == Init => Typed
<1> SUFFICES ASSUME Init PROVE Typed
  OBVIOUS
<1> USE BoundsAssumption DEF Init
<1>1. << >> \in Seq(Entry)
  BY EmptySeq
<1>2. TypeOK
  BY <1>1 DEF TypeOK, Status, Phase, Step, Domain
<1>3. CurKnown
  BY DEF CurKnown
<1> QED BY <1>2, <1>3 DEF Typed

LEMMA TypedStep == Typed /\ [Next]_vars => Typed'
<1> SUFFICES ASSUME Typed, [Next]_vars PROVE Typed'
  OBVIOUS
<1> USE BoundsAssumption, EntryJob
    DEF Typed, TypeOK, CurKnown, Status, Phase, Step, Outcome, Domain, rowVars,
        redisVars, workerVars, boundVars, controlVars
<1>1. ASSUME NEW j \in Jobs, Submit(j) PROVE Typed'
  <2>1. CASE EnqueueJob(j)
    BY <1>1, <2>1 DEF EnqueueJob, InsertRow
  <2>2. CASE InsertJob(j)
    BY <1>1, <2>2 DEF InsertJob, InsertRow
  <2>3. CASE Announce(j)
    BY <1>1, <2>3, XAddType DEF Announce
  <2>4. CASE AnnounceLost(j)
    BY <1>1, <2>4 DEF AnnounceLost
  <2> QED BY <1>1, <2>1, <2>2, <2>3, <2>4 DEF Submit
<1>2. ASSUME TimePasses PROVE Typed'
  <2>1. ASSUME NEW j \in Jobs, BecomeDue(j) PROVE Typed'
    BY <2>1 DEF BecomeDue
  <2>2. ASSUME NEW j \in Jobs, LockGoesStale(j) PROVE Typed'
    BY <2>2 DEF LockGoesStale
  <2>3. ASSUME NEW e \in pending, EntryGoesIdle(e) PROVE Typed'
    BY <2>3 DEF EntryGoesIdle
  <2> QED BY <1>2, <2>1, <2>2, <2>3 DEF TimePasses
<1>3. ASSUME NEW w \in Workers, Loop(w) PROVE Typed'
  <2>1. CASE EnqueueDueJobs(w)
    <3>1. ScannedRows \in SUBSET Jobs
      BY DEF ScannedRows, DueRows
    <3> QED BY <2>1, <3>1 DEF EnqueueDueJobs, LoopAt
  <2>2. CASE PublishDue(w)
    BY <2>2, XAddType DEF PublishDue, LoopAt
  <2>3. CASE RecoverPending(w)
    BY <2>3 DEF RecoverPending, LoopAt
  <2>4. CASE ReadGroup(w)
    <3> DEFINE n == IF Len(stream) < ReadCount THEN Len(stream) ELSE ReadCount
               batch == {stream[i] : i \in 1..n}
    <3>1. n \in 0..Len(stream)
      BY LenProperties
    <3>2. /\ batch \in SUBSET Entry
          /\ SubSeq(stream, n + 1, Len(stream)) \in Seq(Entry)
      BY <3>1, ReadType
    <3>3. /\ stream' = SubSeq(stream, n + 1, Len(stream))
          /\ pending' = pending \cup batch
          /\ inbox' = [inbox EXCEPT ![w] = batch]
          /\ phase' = [phase EXCEPT ![w] = "scan"]
          /\ UNCHANGED <<rowVars, domain, idle, controlVars, toPublish, cur,
                         step, kept, boundVars>>
      BY <2>4 DEF ReadGroup
    <3> HIDE DEF n, batch
    <3> QED BY <3>2, <3>3
  <2> QED BY <1>3, <2>1, <2>2, <2>3, <2>4 DEF Loop
<1>4. ASSUME NEW w \in Workers, Execute(w) PROVE Typed'
  <2> USE DEF Goto, Take, Bump
  <2>1. ASSUME NEW e \in inbox[w], SkipJob(w, e) PROVE Typed'
    BY <2>1 DEF SkipJob
  <2>2. ASSUME NEW e \in inbox[w], PostponeJob(w, e) PROVE Typed'
    BY <2>2 DEF PostponeJob
  <2>3. ASSUME NEW e \in inbox[w], StartJob(w, e) PROVE Typed'
    BY <2>3 DEF StartJob
  <2>4. CASE FinishJob(w)
    BY <2>4 DEF FinishJob, ReadForOutcome
  <2>5. CASE DeferJob(w)
    BY <2>5 DEF DeferJob, ReadForOutcome
  <2>6. ASSUME NEW permanent \in BOOLEAN, FailJob(w, permanent) PROVE Typed'
    BY <2>6 DEF FailJob, FailOrRetry, ReadForOutcome
  <2>7. CASE CommitOutcome(w)
    <3>1. NewStatus(step[w]) \in Status /\ AfterOutcome(step[w]) \in Step
      BY OutcomeType
    <3>2. /\ UNCHANGED <<attempts, domain, redisVars, controlVars, phase, toPublish,
                         inbox, cur, boundVars>>
          /\ status' \in [Jobs -> Status]
          /\ locked' \in [Jobs -> {"none", "fresh", "stale"}]
          /\ due' \in [Jobs -> BOOLEAN]
          /\ kept' \in [Workers -> SUBSET {"status", "locked"}]
      BY <2>7, <3>1 DEF CommitOutcome
    <3>3. /\ step' \in [Workers -> Step]
          /\ \A v \in Workers : step'[v] # "idle" => cur[v] \in Entry
      BY <2>7, <3>1 DEF CommitOutcome
    <3> QED BY <3>2, <3>3
  <2>8. CASE PublishEvent(w)
    BY <2>8 DEF PublishEvent
  <2>9. CASE PublishEventFails(w)
    <3>1. PICK o \in {"retry", "fail"} : ReadForOutcome(w, o)
      BY <2>9 DEF PublishEventFails, FailOrRetry
    <3>2. eventFailures' \in 0..MaxEventFailures /\ defers' = defers /\ step[w] # "idle"
      BY <2>9 DEF PublishEventFails, FailOrRetry
    <3> QED BY <3>1, <3>2 DEF ReadForOutcome
  <2>10. CASE SetDomainFailure(w) \/ MarkDomainFailed(w)
    <3>1. CASE SetDomainFailure(w)
      BY <3>1 DEF SetDomainFailure
    <3>2. CASE MarkDomainFailed(w)
      BY <3>2 DEF MarkDomainFailed
    <3> QED BY <2>10, <3>1, <3>2
  <2>11. CASE Ack(w)
    BY <2>11 DEF Ack
  <2> QED BY <1>4, <2>1, <2>2, <2>3, <2>4, <2>5, <2>6, <2>7, <2>8, <2>9, <2>10, <2>11
          DEF Execute
<1>5. ASSUME NEW w \in Workers, Crash(w) PROVE Typed'
  BY <1>5 DEF Crash, Goto
<1>6. CASE UNCHANGED vars
  BY <1>6 DEF vars
<1>7. ASSUME NEW j \in Jobs, Cancel(j) PROVE Typed'
  <2>1. CASE SelectForCancel(j)
    BY <2>1 DEF SelectForCancel
  <2>2. CASE CancelJob(j)
    BY <2>2 DEF CancelJob
  <2> QED BY <1>7, <2>1, <2>2 DEF Cancel
<1>8. ASSUME NEW j \in Jobs, DomainSettles(j) PROVE Typed'
  BY <1>8 DEF DomainSettles
<1> QED BY <1>1, <1>2, <1>3, <1>4, <1>5, <1>6, <1>7, <1>8 DEF Next

LEMMA TypedInvariant == Spec => []Typed
BY TypedInit, TypedStep, PTL DEF Spec

\* The type invariant of the queue holds in every reachable state, however
\* many jobs, workers and entries there are.
THEOREM TypeCorrect == Spec => []TypeOK
<1>1. Typed => TypeOK
  BY DEF Typed
<1> QED BY <1>1, TypedInvariant, PTL
-----------------------------------------------------------------------------
(* Running jobs have an executor.                                          *)

\* RunningHasExecutor is not inductive: a commit that keeps the status it read
\* leaves a running row to somebody else.  A row is running only while someone
\* runs it who has yet to read it, or who read it running and will write it.
WillSettle(k) == \E w \in Workers :
    /\ cur[w].job = k
    /\ \/ step[w] = "handler"
       \/ step[w] \in Outcome /\ "status" \notin kept[w]

RunningWillSettle ==
    \A k \in Jobs : status[k] = "running" => WillSettle(k) \/ crashes > 0

LEMMA RunningStep == Typed /\ RunningWillSettle /\ [Next]_vars => RunningWillSettle'
<1> SUFFICES ASSUME Typed, RunningWillSettle, [Next]_vars,
                    NEW k \in Jobs, status'[k] = "running", ~(crashes' > 0)
             PROVE  WillSettle(k)'
  BY DEF RunningWillSettle
<1> DEFINE Goal == WillSettle(k)'
<1> USE EntryJob DEF Typed, TypeOK, CurKnown, rowVars, redisVars, workerVars, boundVars, controlVars
<1>0. ASSUME status[k] = "running", crashes' = crashes PROVE WillSettle(k)
  BY <1>0 DEF RunningWillSettle
<1>1. ASSUME status'[k] = status[k], UNCHANGED <<step, cur, kept, crashes>> PROVE Goal
  BY <1>0, <1>1 DEF WillSettle
<1>2. ASSUME NEW j \in Jobs, Submit(j) PROVE Goal
  BY <1>1, <1>2 DEF Submit, EnqueueJob, InsertJob, InsertRow, Announce, AnnounceLost
<1>3. ASSUME TimePasses PROVE Goal
  BY <1>1, <1>3 DEF TimePasses, BecomeDue, LockGoesStale, EntryGoesIdle
<1>4. ASSUME NEW w \in Workers, Loop(w) PROVE Goal
  BY <1>1, <1>4 DEF Loop, EnqueueDueJobs, PublishDue, RecoverPending, ReadGroup
<1>5. ASSUME NEW w \in Workers, Execute(w) PROVE Goal
  <2> USE DEF Goto, Take, WillSettle, Outcome
  <2>1. ASSUME NEW e \in inbox[w], SkipJob(w, e) PROVE Goal
    BY <2>1, <1>0 DEF SkipJob
  <2>2. ASSUME NEW e \in inbox[w], PostponeJob(w, e) PROVE Goal
    BY <2>2, <1>0 DEF PostponeJob
  <2>3. ASSUME NEW e \in inbox[w], StartJob(w, e) PROVE Goal
    <3>1. CASE e.job = k
      BY <2>3, <3>1 DEF StartJob
    <3>2. CASE e.job # k
      BY <2>3, <3>2, <1>0 DEF StartJob
    <3> QED BY <3>1, <3>2
  <2>4. ASSUME NEW o \in Outcome, ReadForOutcome(w, o) PROVE Goal
    <3>1. "status" \in kept'[w] => status[cur[w].job] # "running"
      BY <2>4 DEF ReadForOutcome, NewStatus
    <3> QED BY <2>4, <3>1, <1>0 DEF ReadForOutcome
  <2>5. CASE FinishJob(w) \/ DeferJob(w)
    BY <2>4, <2>5 DEF FinishJob, DeferJob
  <2>6. ASSUME NEW permanent \in BOOLEAN, FailJob(w, permanent) PROVE Goal
    BY <2>4, <2>6 DEF FailJob, FailOrRetry
  <2>7. CASE CommitOutcome(w)
    <3>1. NewStatus(step[w]) # "running"
      BY DEF NewStatus
    <3>2. status'[k] = status[k] /\ crashes' = crashes
      BY <2>7, <3>1 DEF CommitOutcome
    <3>3. PICK v \in Workers : /\ cur[v].job = k
                               /\ \/ step[v] = "handler"
                                  \/ step[v] \in Outcome /\ "status" \notin kept[v]
      BY <1>0, <3>2
    <3>4. v # w
      BY <2>7, <3>1, <3>2, <3>3 DEF CommitOutcome
    <3> QED BY <2>7, <3>3, <3>4 DEF CommitOutcome
  <2>8. CASE PublishEvent(w)
    BY <2>8, <1>0 DEF PublishEvent
  <2>9. CASE PublishEventFails(w)
    BY <2>4, <2>9 DEF PublishEventFails, FailOrRetry
  <2>10. CASE SetDomainFailure(w) \/ MarkDomainFailed(w)
    BY <2>10, <1>0 DEF SetDomainFailure, MarkDomainFailed
  <2>11. CASE Ack(w)
    BY <2>11, <1>0 DEF Ack
  <2> QED BY <1>5, <2>1, <2>2, <2>3, <2>5, <2>6, <2>7, <2>8, <2>9, <2>10, <2>11
          DEF Execute
<1>6. ASSUME NEW w \in Workers, Crash(w) PROVE Goal
  BY <1>6 DEF Crash
<1>7. CASE UNCHANGED vars
  BY <1>1, <1>7 DEF vars
<1>8. ASSUME NEW j \in Jobs, Cancel(j) PROVE Goal
  BY <1>0, <1>1, <1>8 DEF Cancel, SelectForCancel, CancelJob
<1>9. ASSUME NEW j \in Jobs, DomainSettles(j) PROVE Goal
  BY <1>1, <1>9 DEF DomainSettles
<1> QED BY <1>2, <1>3, <1>4, <1>5, <1>6, <1>7, <1>8, <1>9 DEF Next

\* A row is "running" only while a handler runs it or its outcome is being
\* written, unless a worker died: no interleaving of duplicates, claims,
\* deferrals, late commits and cancellations leaves a running row behind.
THEOREM RunningJobsAreExecuted == Spec => []RunningHasExecutor
<1>1. Init => RunningWillSettle
  BY DEF Init, RunningWillSettle
<1>2. RunningWillSettle => RunningHasExecutor
  BY DEF RunningWillSettle, WillSettle, RunningHasExecutor, Executing
<1> QED BY <1>1, <1>2, RunningStep, TypedInvariant, PTL DEF Spec
-----------------------------------------------------------------------------
(* Entries have a holder.                                                  *)

LEMMA HolderStep == Typed /\ PendingHasHolder /\ [Next]_vars => PendingHasHolder'
<1> SUFFICES ASSUME Typed, PendingHasHolder, [Next]_vars,
                    NEW f \in pending', ~(crashes' > 0)
             PROVE  \E w \in Workers : f \in inbox'[w]
  BY DEF PendingHasHolder
<1> DEFINE Goal == \E w \in Workers : f \in inbox'[w]
<1> USE DEF Typed, TypeOK, rowVars, redisVars, workerVars, boundVars, controlVars
<1>0. ASSUME f \in pending, crashes' = crashes PROVE \E w \in Workers : f \in inbox[w]
  BY <1>0 DEF PendingHasHolder
<1>1. ASSUME UNCHANGED <<pending, inbox, crashes>> PROVE Goal
  BY <1>0, <1>1
<1>2. ASSUME NEW j \in Jobs, Submit(j) PROVE Goal
  BY <1>1, <1>2 DEF Submit, EnqueueJob, InsertJob, InsertRow, Announce, AnnounceLost
<1>3. ASSUME TimePasses PROVE Goal
  BY <1>1, <1>3 DEF TimePasses, BecomeDue, LockGoesStale, EntryGoesIdle
<1>4. ASSUME NEW w \in Workers, Loop(w) PROVE Goal
  <2>1. CASE EnqueueDueJobs(w) \/ PublishDue(w)
    BY <1>1, <2>1 DEF EnqueueDueJobs, PublishDue
  <2>2. CASE RecoverPending(w)
    BY <2>2, <1>0 DEF RecoverPending, LoopAt
  <2>3. CASE ReadGroup(w)
    BY <2>3, <1>0 DEF ReadGroup, LoopAt
  <2> QED BY <1>4, <2>1, <2>2, <2>3 DEF Loop
<1>5. ASSUME NEW w \in Workers, Execute(w) PROVE Goal
  <2>1. ASSUME ~Ack(w) PROVE UNCHANGED <<pending, inbox, crashes>>
    BY <1>5, <2>1 DEF Execute, Take, SkipJob, PostponeJob, StartJob, FinishJob, DeferJob,
                      FailJob, FailOrRetry, ReadForOutcome, CommitOutcome, PublishEvent,
                      PublishEventFails, SetDomainFailure, MarkDomainFailed
  <2>2. CASE Ack(w)
    BY <2>2, <1>0 DEF Ack
  <2> QED BY <1>1, <2>1, <2>2
<1>6. ASSUME NEW w \in Workers, Crash(w) PROVE Goal
  BY <1>6 DEF Crash
<1>7. CASE UNCHANGED vars
  BY <1>1, <1>7 DEF vars
<1>8. ASSUME NEW j \in Jobs, Cancel(j) PROVE Goal
  BY <1>0, <1>1, <1>8 DEF Cancel, SelectForCancel, CancelJob
<1>9. ASSUME NEW j \in Jobs, DomainSettles(j) PROVE Goal
  BY <1>1, <1>9 DEF DomainSettles
<1> QED BY <1>2, <1>3, <1>4, <1>5, <1>6, <1>7, <1>8, <1>9 DEF Next

\* An entry of the pending list is in some worker's batch, unless a worker
\* died: XAUTOCLAIM, XREADGROUP and XACK lose nothing between them.
THEOREM EntriesAreHeld == Spec => []PendingHasHolder
<1>1. Init => PendingHasHolder
  BY DEF Init, PendingHasHolder
<1> QED BY <1>1, HolderStep, TypedInvariant, PTL DEF Spec
-----------------------------------------------------------------------------
(* Entries have rows.                                                      *)

LEMMA RangeAppend ==
    ASSUME NEW S, NEW s \in Seq(S), NEW x \in S
    PROVE  Range(Append(s, x)) = Range(s) \cup {x}
<1>1. /\ Append(s, x) \in Seq(S) /\ Len(Append(s, x)) = Len(s) + 1 /\ Len(s) \in Nat
      /\ \A i \in 1..Len(s) : Append(s, x)[i] = s[i]
      /\ Append(s, x)[Len(s) + 1] = x
  BY AppendProperties, LenProperties
<1>2. DOMAIN s = 1..Len(s) /\ DOMAIN Append(s, x) = 1..(Len(s) + 1)
  BY <1>1, LenProperties
<1> QED BY <1>1, <1>2 DEF Range

LEMMA SuffixIndex ==
    ASSUME NEW len \in Nat, NEW n \in 0..len, NEW i,
           i \in 1..(IF n + 1 <= len THEN len - n ELSE 0)
    PROVE  i \in 1..(len - n) /\ n + i \in 1..len
OBVIOUS

LEMMA RangeSuffix ==
    ASSUME NEW S, NEW s \in Seq(S), NEW n \in 0..Len(s)
    PROVE  Range(SubSeq(s, n + 1, Len(s))) \subseteq Range(s)
<1> DEFINE t == SubSeq(s, n + 1, Len(s))
<1>1. Len(s) \in Nat /\ DOMAIN s = 1..Len(s) /\ \A i \in 1..Len(s) : s[i] \in S
  BY LenProperties, ElementOfSeq
<1>2. /\ t \in Seq(S)
      /\ Len(t) = IF n + 1 <= Len(s) THEN Len(s) - n ELSE 0
      /\ \A i \in 1..(Len(s) - n) : t[i] = s[n + i]
  BY <1>1, SubSeqProperties
<1>3. DOMAIN t = 1..Len(t)
  BY <1>2, LenProperties
<1> HIDE DEF t
<1>4. ASSUME NEW i \in 1..Len(t) PROVE t[i] \in Range(s)
  <2>1. i \in 1..(Len(s) - n) /\ n + i \in 1..Len(s)
    BY <1>1, <1>2, <1>4, SuffixIndex
  <2>2. t[i] = s[n + i]
    BY <1>2, <2>1
  <2> QED BY <1>1, <2>1, <2>2 DEF Range
<1>5. Range(t) \subseteq Range(s)
  BY <1>3, <1>4 DEF Range
<1> QED BY <1>5 DEF t

LEMMA RangePrefix ==
    ASSUME NEW S, NEW s \in Seq(S), NEW n \in 0..Len(s)
    PROVE  {s[i] : i \in 1..n} \subseteq Range(s)
<1>1. Len(s) \in Nat /\ DOMAIN s = 1..Len(s)
  BY LenProperties
<1> QED BY <1>1 DEF Range

LEMMA RangeEntries == Typed => Range(stream) \subseteq Entry
BY RangeOfSeq DEF Typed, TypeOK

LEMMA HandedJobs == Typed => Handed \subseteq Jobs
<1> SUFFICES ASSUME Typed PROVE Handed \subseteq Jobs
  OBVIOUS
<1>1. Entries \subseteq Entry
  BY RangeEntries DEF Typed, TypeOK, Entries, Held
<1>2. {e.job : e \in Entries} \subseteq Jobs
  BY <1>1, EntryJob
<1>3. announcing \cup (UNION {toPublish[w] : w \in Workers}) \subseteq Jobs
  BY DEF Typed, TypeOK
<1> QED BY <1>2, <1>3 DEF Handed

\* The invariant, source by source.
Known == {j \in Jobs : status[j] # "absent"}

RowsBehind ==
    /\ announcing \subseteq Known
    /\ \A w \in Workers : toPublish[w] \subseteq Known
    /\ \A e \in Range(stream) \cup pending : e.job \in Known
    /\ \A w \in Workers : \A e \in inbox[w] : e.job \in Known

LEMMA RowsBehindMeaning == Typed => (EntriesHaveRows <=> RowsBehind)
<1> SUFFICES ASSUME Typed PROVE EntriesHaveRows <=> RowsBehind
  OBVIOUS
<1>1. EntriesHaveRows <=> Handed \subseteq Known
  BY HandedJobs DEF EntriesHaveRows, Known
<1>2. RowsBehind <=> Handed \subseteq Known
  BY DEF RowsBehind, Handed, Entries, Held
<1> QED BY <1>1, <1>2

LEMMA RowsBehindStep == Typed /\ RowsBehind /\ [Next]_vars => RowsBehind'
<1> SUFFICES ASSUME Typed, RowsBehind, [Next]_vars PROVE RowsBehind'
  OBVIOUS
<1> USE EntryJob DEF rowVars, redisVars, workerVars, boundVars, controlVars
<1>0. \A e \in Range(stream) \cup pending \cup Held : e \in Entry
  BY RangeEntries DEF Typed, TypeOK, Held
\* Steps that leave the rows' existence, the announcements and the stream alone.
<1>1. ASSUME Known \subseteq Known', announcing' \subseteq announcing,
             Range(stream') \subseteq Range(stream),
             pending' \subseteq Range(stream) \cup pending,
             \A w \in Workers : toPublish'[w] \subseteq Known,
             \A w \in Workers : inbox'[w] \subseteq Range(stream) \cup pending \cup inbox[w]
      PROVE  RowsBehind'
  BY <1>1 DEF RowsBehind
<1>2. ASSUME NEW j \in Known, XAdd(j), UNCHANGED <<status, pending, inbox>>,
             announcing' \subseteq announcing,
             \A w \in Workers : toPublish'[w] \subseteq toPublish[w]
      PROVE  RowsBehind'
  <2>1. PICK i \in Ids : stream' = Append(stream, [id |-> i, job |-> j])
    BY <1>2 DEF XAdd
  <2>2. [id |-> i, job |-> j] \in Entry
    BY <1>2 DEF Entry, Known
  <2>3. Range(stream') = Range(stream) \cup {[id |-> i, job |-> j]}
    BY <2>1, <2>2, RangeAppend DEF Typed, TypeOK
  <2>4. Known' = Known
    BY <1>2 DEF Known
  <2> QED BY <1>2, <2>3, <2>4 DEF RowsBehind
<1>3. ASSUME NEW j \in Jobs, Submit(j) PROVE RowsBehind'
  <2>1. CASE EnqueueJob(j)
    <3>1. Known' = Known \cup {j}
      BY <2>1 DEF EnqueueJob, InsertRow, Known, Typed, TypeOK
    <3> QED BY <2>1, <3>1 DEF EnqueueJob, InsertRow, RowsBehind
  <2>2. CASE InsertJob(j)
    <3>1. Known' = Known \cup {j}
      BY <2>2 DEF InsertJob, InsertRow, Known, Typed, TypeOK
    <3> QED BY <2>2, <3>1 DEF InsertJob, InsertRow, RowsBehind
  <2>3. CASE Announce(j)
    BY <1>2, <2>3 DEF Announce, RowsBehind
  <2>4. CASE AnnounceLost(j)
    BY <1>1, <2>4 DEF AnnounceLost, RowsBehind, Known
  <2> QED BY <1>3, <2>1, <2>2, <2>3, <2>4 DEF Submit
<1>4. ASSUME TimePasses PROVE RowsBehind'
  <2>1. UNCHANGED <<status, announcing, stream, pending, toPublish, inbox>>
    BY <1>4 DEF TimePasses, BecomeDue, LockGoesStale, EntryGoesIdle
  <2> QED BY <2>1 DEF RowsBehind, Known
<1>5. ASSUME NEW w \in Workers, Loop(w) PROVE RowsBehind'
  <2>1. CASE EnqueueDueJobs(w)
    <3>1. ScannedRows \subseteq Known
      BY DEF ScannedRows, DueRows, Known
    <3> QED BY <1>1, <2>1, <3>1 DEF EnqueueDueJobs, RowsBehind, Known, Typed, TypeOK
  <2>2. CASE PublishDue(w)
    <3>1. PICK j \in toPublish[w] :
             XAdd(j) /\ toPublish' = [toPublish EXCEPT ![w] = @ \ {j}]
      BY <2>2 DEF PublishDue
    <3>2. j \in Known
      BY <3>1 DEF RowsBehind
    <3>3. \A v \in Workers : toPublish'[v] \subseteq toPublish[v]
      BY <3>1 DEF Typed, TypeOK
    <3> QED BY <1>2, <2>2, <3>1, <3>2, <3>3 DEF PublishDue
  <2>3. CASE RecoverPending(w)
    <3>1. \A v \in Workers : inbox'[v] \subseteq pending \cup inbox[v]
      BY <2>3 DEF RecoverPending, Typed, TypeOK
    <3> QED BY <1>1, <2>3, <3>1 DEF RecoverPending, RowsBehind, Known
  <2>4. CASE ReadGroup(w)
    <3> DEFINE n == IF Len(stream) < ReadCount THEN Len(stream) ELSE ReadCount
               batch == {stream[i] : i \in 1..n}
    <3>1. n \in 0..Len(stream) /\ stream \in Seq(Entry)
      BY BoundsAssumption, LenProperties DEF Typed, TypeOK
    <3>2. /\ batch \subseteq Range(stream)
          /\ Range(SubSeq(stream, n + 1, Len(stream))) \subseteq Range(stream)
      BY <3>1, RangePrefix, RangeSuffix
    <3>3. /\ stream' = SubSeq(stream, n + 1, Len(stream))
          /\ pending' = pending \cup batch
          /\ inbox' = [inbox EXCEPT ![w] = batch]
          /\ UNCHANGED <<status, announcing, toPublish>>
      BY <2>4 DEF ReadGroup
    <3> HIDE DEF n, batch
    <3>4. \A v \in Workers : inbox'[v] \subseteq Range(stream) \cup inbox[v]
      BY <3>2, <3>3 DEF Typed, TypeOK
    <3> QED BY <1>1, <3>2, <3>3, <3>4 DEF RowsBehind, Known
  <2> QED BY <1>5, <2>1, <2>2, <2>3, <2>4 DEF Loop
<1>6. ASSUME NEW w \in Workers, Execute(w) \/ Crash(w) PROVE RowsBehind'
  <2> DEFINE Quiet ==
        /\ Known \subseteq Known'
        /\ UNCHANGED <<announcing, stream>>
        /\ pending' \subseteq pending
        /\ \A v \in Workers :
              inbox'[v] \subseteq inbox[v] /\ toPublish'[v] \subseteq toPublish[v]
  <2> USE DEF Take, Known, Typed, TypeOK
  <2>1. ASSUME NEW e \in inbox[w], SkipJob(w, e) \/ PostponeJob(w, e) PROVE Quiet
    BY <2>1 DEF SkipJob, PostponeJob
  <2>2. ASSUME NEW e \in inbox[w], StartJob(w, e) PROVE Quiet
    BY <2>2 DEF StartJob
  <2>3. ASSUME FinishJob(w) \/ DeferJob(w) PROVE Quiet
    BY <2>3 DEF FinishJob, DeferJob, ReadForOutcome
  <2>4. ASSUME CommitOutcome(w) PROVE Quiet
    <3>1. NewStatus(step[w]) # "absent"
      BY DEF NewStatus
    <3> QED BY <2>4, <3>1 DEF CommitOutcome
  <2>5. ASSUME NEW permanent \in BOOLEAN, FailJob(w, permanent) PROVE Quiet
    BY <2>5 DEF FailJob, FailOrRetry, ReadForOutcome
  <2>6. ASSUME PublishEventFails(w) PROVE Quiet
    BY <2>6 DEF PublishEventFails, FailOrRetry, ReadForOutcome
  <2>7. ASSUME PublishEvent(w) \/ SetDomainFailure(w) \/ MarkDomainFailed(w) PROVE Quiet
    BY <2>7 DEF PublishEvent, SetDomainFailure, MarkDomainFailed
  <2>8. ASSUME Ack(w) PROVE Quiet
    BY <2>8 DEF Ack
  <2>9. ASSUME Crash(w) PROVE Quiet
    BY <2>9 DEF Crash
  <2>10. Quiet
    BY <1>6, <2>1, <2>2, <2>3, <2>4, <2>5, <2>6, <2>7, <2>8, <2>9 DEF Execute
  <2> QED BY <1>1, <2>10 DEF RowsBehind
<1>7. CASE UNCHANGED vars
  BY <1>7 DEF vars, RowsBehind, Known
<1>8. ASSUME NEW j \in Jobs, Cancel(j) PROVE RowsBehind'
  <2>1. Known \subseteq Known'
    BY <1>8 DEF Cancel, SelectForCancel, CancelJob, Known, Typed, TypeOK
  <2> QED BY <1>1, <1>8, <2>1 DEF Cancel, SelectForCancel, CancelJob, RowsBehind
<1>9. ASSUME NEW j \in Jobs, DomainSettles(j) PROVE RowsBehind'
  BY <1>9 DEF DomainSettles, RowsBehind, Known
<1> QED BY <1>3, <1>4, <1>5, <1>6, <1>7, <1>8, <1>9 DEF Next

\* No worker is handed the id of a row that is not in the table: what is
\* announced, published or read always has its row committed.
THEOREM EntriesHaveTheirRows == Spec => []EntriesHaveRows
<1>1. Init => RowsBehind
  BY EmptySeq DEF Init, RowsBehind, Range
<1>2. Spec => []RowsBehind
  BY <1>1, RowsBehindStep, TypedInvariant, PTL DEF Spec
<1> QED BY <1>2, RowsBehindMeaning, TypedInvariant, PTL

-----------------------------------------------------------------------------
(* Refinement of JobLifecycle.                                             *)

\* The refinement mapping of JobQueue, named.
Runners == [j \in Jobs |-> {w \in Workers : Runs(w, j)}]

\* Only worker w moves in a step of its own.
OnlyMoves(w) == \A v \in Workers \ {w} : step'[v] = step[v] /\ cur'[v] = cur[v]

LEMMA RunnersSame ==
    ASSUME NEW w \in Workers, OnlyMoves(w),
           \A j \in Jobs : Runs(w, j)' <=> Runs(w, j)
    PROVE  Runners' = Runners
BY DEF Runners, Runs, OnlyMoves

LEMMA RunnersUnmoved ==
    ASSUME UNCHANGED <<step, cur>>
    PROVE  Runners' = Runners
BY DEF Runners, Runs

LEMMA RunnersLeft ==
    ASSUME NEW w \in Workers, NEW k \in Jobs, OnlyMoves(w), Runs(w, k),
           step'[w] \notin {"handler", "event"} \cup Outcome
    PROVE  Runners' = [Runners EXCEPT ![k] = @ \ {w}]
BY DEF Runners, Runs, OnlyMoves, Outcome

LEMMA RunnersJoined ==
    ASSUME NEW w \in Workers, NEW k \in Jobs, OnlyMoves(w),
           step[w] = "idle", step'[w] = "handler", cur'[w].job = k
    PROVE  /\ Runners' = [Runners EXCEPT ![k] = @ \cup {w}]
           /\ \A j \in Jobs : w \notin Runners[j]
<1>1. \A j \in Jobs : w \notin Runners[j]
  BY DEF Runners, Runs, Outcome
<1>2. \A j \in Jobs, v \in Workers : Runs(v, j)' <=> Runs(v, j) \/ (v = w /\ j = k)
  BY DEF Runs, OnlyMoves, Outcome
<1>3. \A j \in Jobs : {v \in Workers : Runs(v, j)'} =
                       IF j = k THEN {v \in Workers : Runs(v, j)} \cup {w}
                       ELSE {v \in Workers : Runs(v, j)}
  BY <1>2
<1>4. Runners' = [Runners EXCEPT ![k] = @ \cup {w}]
  BY <1>3 DEF Runners
<1> QED BY <1>1, <1>4

\* The steps of JobLifecycle, in terms of the mapping.
LEMMA AbstractStutter ==
    ASSUME UNCHANGED <<status, cancelling>>, Runners' = Runners
    PROVE  [Lifecycle!Next]_(Lifecycle!vars)
BY DEF Lifecycle!vars, Runners

LEMMA AbstractRecord ==
    ASSUME NEW w \in Workers, NEW k \in Jobs, Runs(w, k), UNCHANGED cancelling,
           NEW s \in {"queued", "completed", "failed"},
           status' = [status EXCEPT ![k] = s],
           Runners' = Runners \/ Runners' = [Runners EXCEPT ![k] = @ \ {w}]
    PROVE  [Lifecycle!Next]_(Lifecycle!vars)
<1>1. w \in Runners[k]
  BY DEF Runners
<1>2. Lifecycle!Record(w, k)
  BY <1>1 DEF Lifecycle!Record, Runners
<1> QED BY <1>2 DEF Lifecycle!Next

LEMMA AbstractLeave ==
    ASSUME NEW w \in Workers, NEW k \in Jobs, Runs(w, k), UNCHANGED <<status, cancelling>>,
           Runners' = [Runners EXCEPT ![k] = @ \ {w}]
    PROVE  [Lifecycle!Next]_(Lifecycle!vars)
<1>1. w \in Runners[k]
  BY DEF Runners
<1>2. Lifecycle!Leave(w, k)
  BY <1>1 DEF Lifecycle!Leave, Runners
<1> QED BY <1>2 DEF Lifecycle!Next

LEMMA RefinementStep ==
    Typed /\ RowsBehind /\ [Next]_vars => [Lifecycle!Next]_(Lifecycle!vars)
<1> SUFFICES ASSUME Typed, RowsBehind, [Next]_vars PROVE [Lifecycle!Next]_(Lifecycle!vars)
  OBVIOUS
<1> DEFINE Goal == [Lifecycle!Next]_(Lifecycle!vars)
<1> HIDE DEF Goal
<1> USE EntryJob DEF Typed, TypeOK, CurKnown, rowVars, redisVars, workerVars, boundVars, controlVars
<1>1. ASSUME UNCHANGED <<status, cancelling, step, cur>> PROVE Goal
  BY <1>1, RunnersUnmoved, AbstractStutter DEF Goal
<1>2. ASSUME NEW j \in Jobs, Submit(j) PROVE Goal
  <2>1. CASE EnqueueJob(j) \/ InsertJob(j)
    <3>1. Lifecycle!Submit(j)
      BY <2>1, RunnersUnmoved
      DEF EnqueueJob, InsertJob, InsertRow, Lifecycle!Submit, Runners
    <3> QED BY <3>1 DEF Goal, Lifecycle!Next
  <2>2. CASE Announce(j) \/ AnnounceLost(j)
    BY <1>1, <2>2 DEF Announce, AnnounceLost
  <2> QED BY <1>2, <2>1, <2>2 DEF Submit
<1>3. ASSUME TimePasses PROVE Goal
  BY <1>1, <1>3 DEF TimePasses, BecomeDue, LockGoesStale, EntryGoesIdle
<1>4. ASSUME NEW w \in Workers, Loop(w) PROVE Goal
  BY <1>1, <1>4 DEF Loop, EnqueueDueJobs, PublishDue, RecoverPending, ReadGroup
<1>5. ASSUME NEW w \in Workers, Execute(w) PROVE Goal
  <2> DEFINE k == cur[w].job
  <2> USE DEF Goto, Take
  <2>1. ASSUME NEW e \in inbox[w], SkipJob(w, e) \/ PostponeJob(w, e) PROVE Goal
    <3>1. /\ UNCHANGED <<status, cancelling>>
          /\ OnlyMoves(w)
          /\ \A j \in Jobs : Runs(w, j)' <=> Runs(w, j)
      BY <2>1 DEF SkipJob, PostponeJob, OnlyMoves, Runs, Outcome
    <3> QED BY <3>1, RunnersSame, AbstractStutter DEF Goal
  <2>2. ASSUME NEW e \in inbox[w], StartJob(w, e) PROVE Goal
    <3>1. /\ OnlyMoves(w)
          /\ step[w] = "idle" /\ step'[w] = "handler" /\ cur'[w].job = e.job
          /\ e.job \in Jobs
      BY <2>2 DEF StartJob, OnlyMoves
    <3>2. /\ Runners' = [Runners EXCEPT ![e.job] = @ \cup {w}]
          /\ \A j \in Jobs : w \notin Runners[j]
      BY <3>1, RunnersJoined
    <3>3. status[e.job] \in {"queued", "running"}
      BY <2>2, <3>1 DEF StartJob, Settled, Status, RowsBehind, Known
    <3>4. status' = [status EXCEPT ![e.job] = "running"] /\ UNCHANGED cancelling
      BY <2>2 DEF StartJob
    <3>5. Lifecycle!Start(w, e.job)
      BY <3>2, <3>3, <3>4 DEF Lifecycle!Start, Runners
    <3> QED BY <3>1, <3>5 DEF Goal, Lifecycle!Next
  <2>3. ASSUME Runs(w, k) PROVE k \in Jobs
    BY <2>3 DEF Runs, Outcome
  <2>4. ASSUME NEW o \in Outcome, ReadForOutcome(w, o), step[w] \in {"handler", "event"}
        PROVE  Goal
    <3>1. /\ UNCHANGED <<status, cancelling>>
          /\ OnlyMoves(w)
          /\ \A j \in Jobs : Runs(w, j)' <=> Runs(w, j)
      BY <2>4 DEF ReadForOutcome, OnlyMoves, Runs
    <3> QED BY <3>1, RunnersSame, AbstractStutter DEF Goal
  <2>5. ASSUME \/ FinishJob(w) \/ DeferJob(w) \/ PublishEventFails(w)
               \/ \E permanent \in BOOLEAN : FailJob(w, permanent)
        PROVE  Goal
    BY <2>4, <2>5 DEF FinishJob, DeferJob, PublishEventFails, FailJob, FailOrRetry, Outcome
  <2>6. CASE CommitOutcome(w)
    <3> DEFINE s == NewStatus(step[w])
    <3>1. /\ OnlyMoves(w) /\ Runs(w, k) /\ UNCHANGED cancelling
          /\ k \in Jobs /\ s \in {"queued", "completed", "failed"}
          /\ step'[w] = AfterOutcome(step[w])
      BY <2>3, <2>6, OutcomeType DEF CommitOutcome, OnlyMoves, Runs
    <3>2. CASE step[w] = "finish"
      <4>1. \A j \in Jobs : Runs(w, j)' <=> Runs(w, j)
        BY <2>6, <3>1, <3>2, OutcomeType DEF CommitOutcome, Runs, Outcome
      <4>2. Runners' = Runners
        BY <3>1, <4>1, RunnersSame
      <4>3. CASE "status" \in kept[w]
        BY <2>6, <4>2, <4>3, AbstractStutter DEF CommitOutcome, Goal
      <4>4. CASE "status" \notin kept[w]
        <5>1. status' = [status EXCEPT ![k] = s]
          BY <2>6, <4>4 DEF CommitOutcome
        <5> QED BY <3>1, <4>2, <5>1, AbstractRecord DEF Goal
      <4> QED BY <4>3, <4>4
    <3>3. CASE step[w] # "finish"
      <4>1. step'[w] \notin {"handler", "event"} \cup Outcome
        BY <3>1, <3>3, OutcomeType DEF Outcome
      <4>2. Runners' = [Runners EXCEPT ![k] = @ \ {w}]
        BY <3>1, <4>1, RunnersLeft
      <4>3. CASE "status" \in kept[w]
        <5>1. status' = status
          BY <2>6, <4>3 DEF CommitOutcome
        <5> QED BY <3>1, <4>2, <5>1, AbstractLeave DEF Goal
      <4>4. CASE "status" \notin kept[w]
        <5>1. status' = [status EXCEPT ![k] = s]
          BY <2>6, <4>4 DEF CommitOutcome
        <5> QED BY <3>1, <4>2, <5>1, AbstractRecord DEF Goal
      <4> QED BY <4>3, <4>4
    <3> QED BY <3>2, <3>3
  <2>7. CASE PublishEvent(w)
    <3>1. /\ OnlyMoves(w) /\ Runs(w, k) /\ UNCHANGED <<status, cancelling>>
          /\ step'[w] \notin {"handler", "event"} \cup Outcome
      BY <2>7 DEF PublishEvent, OnlyMoves, Runs, Outcome
    <3> QED BY <2>3, <3>1, RunnersLeft, AbstractLeave DEF Goal
  <2>8. CASE SetDomainFailure(w) \/ MarkDomainFailed(w) \/ Ack(w)
    <3>1. /\ UNCHANGED <<status, cancelling>>
          /\ OnlyMoves(w)
          /\ \A j \in Jobs : Runs(w, j)' <=> Runs(w, j)
      BY <2>8 DEF SetDomainFailure, MarkDomainFailed, Ack, OnlyMoves, Runs, Outcome
    <3> QED BY <3>1, RunnersSame, AbstractStutter DEF Goal
  <2> QED BY <1>5, <2>1, <2>2, <2>5, <2>6, <2>7, <2>8 DEF Execute
<1>6. ASSUME NEW w \in Workers, Crash(w) PROVE Goal
  <2>1. /\ UNCHANGED <<status, cancelling>>
        /\ OnlyMoves(w)
        /\ step'[w] \notin {"handler", "event"} \cup Outcome
    BY <1>6 DEF Crash, Goto, OnlyMoves, Outcome
  <2>2. CASE \E k \in Jobs : Runs(w, k)
    BY <2>1, <2>2, RunnersLeft, AbstractLeave DEF Goal
  <2>3. CASE ~(\E k \in Jobs : Runs(w, k))
    <3>1. \A j \in Jobs : Runs(w, j)' <=> Runs(w, j)
      BY <2>1, <2>3 DEF Runs
    <3> QED BY <2>1, <3>1, RunnersSame, AbstractStutter DEF Goal
  <2> QED BY <2>2, <2>3
<1>7. CASE UNCHANGED vars
  <2>1. UNCHANGED <<status, cancelling, step, cur>>
    BY <1>7 DEF vars
  <2> QED BY <1>1, <2>1 DEF Goal
<1>8. ASSUME NEW j \in Jobs, Cancel(j) PROVE Goal
  <2>1. CASE SelectForCancel(j)
    <3>1. Lifecycle!RequestCancel(j)
      BY <2>1, RunnersUnmoved DEF SelectForCancel, Lifecycle!RequestCancel, Runners
    <3> QED BY <3>1 DEF Goal, Lifecycle!Next
  <2>2. CASE CancelJob(j)
    <3>1. Lifecycle!Cancel(j)
      BY <2>2, RunnersUnmoved DEF CancelJob, Lifecycle!Cancel, Runners
    <3> QED BY <3>1 DEF Goal, Lifecycle!Next
  <2> QED BY <1>8, <2>1, <2>2 DEF Cancel
<1>9. ASSUME NEW j \in Jobs, DomainSettles(j) PROVE Goal
  BY <1>1, <1>9 DEF DomainSettles
<1> QED BY <1>2, <1>3, <1>4, <1>5, <1>6, <1>7, <1>8, <1>9 DEF Next, Goal

\* The queue refines JobLifecycle: a job starts only when it is queued or
\* running, on a worker that runs nothing else, and only a worker that runs it
\* or a cancellation changes its status from there.
THEOREM QueueImplementsLifecycle == Spec => ImplementsLifecycle
<1>1. Init => Lifecycle!Init
  BY DEF Init, Lifecycle!Init, Runs, Outcome
<1>2. Init => RowsBehind
  BY EmptySeq DEF Init, RowsBehind, Range
<1>3. Spec => []RowsBehind
  BY <1>2, RowsBehindStep, TypedInvariant, PTL DEF Spec
<1> QED BY <1>1, <1>3, RefinementStep, TypedInvariant, PTL
        DEF Spec, ImplementsLifecycle, Lifecycle!Spec
-----------------------------------------------------------------------------
(* What the abstract specification says of settled jobs holds of the queue. *)

LEMMA SettledStep ==
    ASSUME Typed, [Lifecycle!Next]_(Lifecycle!vars), NEW j \in Jobs,
           AtRest(j)
    PROVE  status'[j] = status[j]
<1> USE DEF Typed, TypeOK, AtRest
<1>1. \A w \in Workers : w \notin Runners[j]
  BY DEF Runners
<1>2. CASE UNCHANGED Lifecycle!vars
  BY <1>2 DEF Lifecycle!vars
<1>3. ASSUME NEW k \in Jobs, Lifecycle!Submit(k) \/ Lifecycle!RequestCancel(k) \/ Lifecycle!Cancel(k)
      PROVE  status'[j] = status[j]
  BY <1>3 DEF Lifecycle!Submit, Lifecycle!RequestCancel, Lifecycle!Cancel
<1>4. ASSUME NEW k \in Jobs, NEW w \in Workers, Lifecycle!Start(w, k)
      PROVE  status'[j] = status[j]
  BY <1>4 DEF Lifecycle!Start
<1>5. ASSUME NEW k \in Jobs, NEW w \in Workers, Lifecycle!Record(w, k)
      PROVE  status'[j] = status[j]
  <2>1. w \in Runners[k]
    BY <1>5 DEF Lifecycle!Record, Runners
  <2>2. k # j
    BY <1>1, <2>1
  <2> QED BY <1>5, <2>2 DEF Lifecycle!Record
<1>6. ASSUME NEW k \in Jobs, NEW w \in Workers, Lifecycle!Leave(w, k)
      PROVE  status'[j] = status[j]
  BY <1>6 DEF Lifecycle!Leave
<1> QED BY <1>2, <1>3, <1>4, <1>5, <1>6 DEF Lifecycle!Next

\* A settled job that nobody is executing keeps its status for ever:
\* redelivered and reclaimed entries are skipped by execute_job, and the scan
\* does not look at it.
THEOREM SettledJobsStay == Spec => SettledStays
<1>1. Typed /\ RowsBehind /\ [Next]_vars =>
        [\A j \in Jobs : AtRest(j) => status'[j] = status[j]]_vars
  BY RefinementStep, SettledStep
<1>2. Init => RowsBehind
  BY EmptySeq DEF Init, RowsBehind, Range
<1>3. Spec => []RowsBehind
  BY <1>2, RowsBehindStep, TypedInvariant, PTL DEF Spec
<1> QED BY <1>1, <1>3, TypedInvariant, PTL DEF Spec, SettledStays
-----------------------------------------------------------------------------
(* With one worker process, the deployment of infra/compose.yaml, a running  *)
(* row always has an entry that brings it back.                              *)

OneWorker == \A v, w \in Workers : v = w

\* Entries of a batch are pending, the entry under execution is in the batch,
\* and execute_job leaves no row running when it comes to its XACK; a running
\* row is due, so its entry is not postponed.
SoloInv ==
    /\ \A j \in Jobs : status[j] = "running" =>
          due[j] /\ \E e \in Range(stream) \cup pending : e.job = j
    /\ \A w \in Workers :
          /\ inbox[w] \subseteq pending
          /\ step[w] # "idle" => cur[w] \in inbox[w]
          /\ step[w] \in {"event", "domain", "mark", "ack"} =>
                status[cur[w].job] # "running"
          /\ step[w] \in Outcome /\ "status" \in kept[w] =>
                status[cur[w].job] # "running"

LEMMA RangeSplit ==
    ASSUME NEW S, NEW s \in Seq(S), NEW n \in 0..Len(s)
    PROVE  Range(s) \subseteq {s[i] : i \in 1..n} \cup Range(SubSeq(s, n + 1, Len(s)))
<1> DEFINE t == SubSeq(s, n + 1, Len(s))
<1>1. Len(s) \in Nat /\ DOMAIN s = 1..Len(s) /\ \A i \in 1..Len(s) : s[i] \in S
  BY LenProperties, ElementOfSeq
<1>2. /\ t \in Seq(S)
      /\ Len(t) = IF n + 1 <= Len(s) THEN Len(s) - n ELSE 0
      /\ \A i \in 1..(Len(s) - n) : t[i] = s[n + i]
  BY <1>1, SubSeqProperties
<1>3. DOMAIN t = 1..Len(t)
  BY <1>2, LenProperties
<1> HIDE DEF t
<1>4. ASSUME NEW i \in 1..Len(s), i \notin 1..n PROVE s[i] \in Range(t)
  <2>1. i - n \in 1..(Len(s) - n) /\ n + (i - n) = i /\ n + 1 <= Len(s)
    BY <1>1, <1>4
  <2>2. t[i - n] = s[i] /\ i - n \in DOMAIN t
    BY <1>2, <1>3, <2>1
  <2> QED BY <2>2 DEF Range
<1>5. Range(s) \subseteq {s[i] : i \in 1..n} \cup Range(t)
  BY <1>1, <1>4 DEF Range
<1> QED BY <1>5 DEF t

LEMMA SoloStep == OneWorker /\ Typed /\ SoloInv /\ [Next]_vars => SoloInv'
<1> SUFFICES ASSUME OneWorker, Typed, SoloInv, [Next]_vars PROVE SoloInv'
  OBVIOUS
<1> USE EntryJob DEF Typed, TypeOK, CurKnown, rowVars, redisVars, workerVars, boundVars, controlVars
<1>1. ASSUME UNCHANGED <<inbox, cur, step, kept>>, pending \subseteq pending',
             Range(stream) \subseteq Range(stream'),
             \A j \in Jobs : status'[j] = "running" => status[j] = "running",
             \A j \in Jobs : due[j] => due'[j]
      PROVE  SoloInv'
  <2>1. \A j \in Jobs : status'[j] = "running" =>
          due'[j] /\ \E e \in Range(stream') \cup pending' : e.job = j
    BY <1>1 DEF SoloInv
  <2>2. \A w \in Workers : step[w] # "idle" => cur[w].job \in Jobs
    OBVIOUS
  <2> QED BY <1>1, <2>1, <2>2 DEF SoloInv, Outcome
<1>2. ASSUME NEW j \in Jobs, XAdd(j) PROVE Range(stream) \subseteq Range(stream')
  <2>1. PICK i \in Ids : stream' = Append(stream, [id |-> i, job |-> j])
    BY <1>2 DEF XAdd
  <2>2. [id |-> i, job |-> j] \in Entry
    BY DEF Entry
  <2> QED BY <2>1, <2>2, RangeAppend
<1>3. ASSUME NEW j \in Jobs, Submit(j) PROVE SoloInv'
  <2>1. CASE EnqueueJob(j) \/ InsertJob(j)
    <3>1. /\ UNCHANGED <<inbox, cur, step, kept, pending, stream>>
          /\ \A k \in Jobs : status'[k] = "running" => status[k] = "running" /\ due'[k] = due[k]
      BY <2>1 DEF EnqueueJob, InsertJob, InsertRow
    <3>2. \A w \in Workers : step[w] # "idle" => cur[w].job \in Jobs
      OBVIOUS
    <3> QED BY <3>1, <3>2 DEF SoloInv, Outcome
  <2>2. CASE Announce(j)
    BY <1>1, <1>2, <2>2 DEF Announce
  <2>3. CASE AnnounceLost(j)
    BY <1>1, <2>3 DEF AnnounceLost
  <2> QED BY <1>3, <2>1, <2>2, <2>3 DEF Submit
<1>4. ASSUME TimePasses PROVE SoloInv'
  BY <1>1, <1>4 DEF TimePasses, BecomeDue, LockGoesStale, EntryGoesIdle
<1>5. ASSUME NEW w \in Workers, Loop(w) PROVE SoloInv'
  <2>1. CASE EnqueueDueJobs(w)
    BY <1>1, <2>1 DEF EnqueueDueJobs
  <2>2. CASE PublishDue(w)
    <3>1. Range(stream) \subseteq Range(stream')
      BY <1>2, <2>2 DEF PublishDue
    <3> QED BY <1>1, <2>2, <3>1 DEF PublishDue
  <2>3. CASE RecoverPending(w)
    <3>1. step[w] = "idle"
      BY <2>3 DEF RecoverPending, LoopAt, SoloInv
    <3>2. /\ inbox' = [inbox EXCEPT ![w] = idle]
          /\ UNCHANGED <<status, due, stream, pending, cur, step, kept>>
      BY <2>3 DEF RecoverPending
    <3> QED BY <3>1, <3>2 DEF SoloInv, Outcome
  <2>4. CASE ReadGroup(w)
    <3> DEFINE n == IF Len(stream) < ReadCount THEN Len(stream) ELSE ReadCount
               batch == {stream[i] : i \in 1..n}
    <3>1. n \in 0..Len(stream) /\ stream \in Seq(Entry)
      BY BoundsAssumption, LenProperties
    <3>2. Range(stream) \subseteq batch \cup Range(SubSeq(stream, n + 1, Len(stream)))
      BY <3>1, RangeSplit
    <3>3. /\ stream' = SubSeq(stream, n + 1, Len(stream))
          /\ pending' = pending \cup batch
          /\ inbox' = [inbox EXCEPT ![w] = batch]
          /\ UNCHANGED <<status, due, cur, step, kept>>
          /\ inbox[w] = {}
      BY <2>4 DEF ReadGroup, LoopAt
    <3> HIDE DEF n, batch
    <3>4. step[w] = "idle"
      BY <3>3 DEF SoloInv
    <3> QED BY <3>2, <3>3, <3>4 DEF SoloInv, Outcome
  <2> QED BY <1>5, <2>1, <2>2, <2>3, <2>4 DEF Loop
<1>6. ASSUME NEW w \in Workers, Execute(w) PROVE SoloInv'
  <2> USE DEF Goto, Take, OneWorker, SoloInv, Outcome
  <2>1. ASSUME NEW e \in inbox[w], SkipJob(w, e) PROVE SoloInv'
    <3>1. ~RowMayBeLocked(w, e.job)
      BY DEF RowMayBeLocked
    <3> QED BY <2>1, <3>1 DEF SkipJob, Settled
  <2>2. ASSUME NEW e \in inbox[w], PostponeJob(w, e) PROVE SoloInv'
    BY <2>2 DEF PostponeJob
  <2>3. ASSUME NEW e \in inbox[w], StartJob(w, e) PROVE SoloInv'
    <3>1. e.job \in Jobs /\ e \in pending
      OBVIOUS
    <3> QED BY <2>3, <3>1 DEF StartJob
  <2>4. ASSUME NEW o \in Outcome, ReadForOutcome(w, o), step[w] \in {"handler", "event"}
        PROVE  SoloInv'
    <3>1. "status" \in kept'[w] => status[cur[w].job] # "running"
      BY <2>4 DEF ReadForOutcome, NewStatus
    <3> QED BY <2>4, <3>1 DEF ReadForOutcome
  <2>5. ASSUME \/ FinishJob(w) \/ DeferJob(w) \/ PublishEventFails(w)
               \/ \E permanent \in BOOLEAN : FailJob(w, permanent)
        PROVE  SoloInv'
    BY <2>4, <2>5 DEF FinishJob, DeferJob, PublishEventFails, FailJob, FailOrRetry
  <2>6. CASE CommitOutcome(w)
    <3>1. /\ NewStatus(step[w]) # "running"
          /\ AfterOutcome(step[w]) \in {"event", "domain", "ack"}
      BY OutcomeType
    <3>2. /\ UNCHANGED <<pending, inbox, cur, stream>>
          /\ step'[w] = AfterOutcome(step[w])
          /\ status'[cur[w].job] # "running"
          /\ \A j \in Jobs : status'[j] = "running" =>
                status[j] = "running" /\ due'[j] = due[j]
      BY <2>6, <3>1 DEF CommitOutcome
    <3>3. /\ \A j \in Jobs : status'[j] = "running" =>
                due'[j] /\ \E e \in Range(stream') \cup pending' : e.job = j
          /\ inbox'[w] \subseteq pending' /\ cur'[w] \in inbox'[w]
      BY <2>6, <3>2 DEF CommitOutcome
    <3> QED BY <3>1, <3>2, <3>3
  <2>7. CASE PublishEvent(w)
    BY <2>7 DEF PublishEvent
  <2>8. CASE SetDomainFailure(w) \/ MarkDomainFailed(w)
    BY <2>8 DEF SetDomainFailure, MarkDomainFailed
  <2>9. CASE Ack(w)
    BY <2>9 DEF Ack
  <2> QED BY <1>6, <2>1, <2>2, <2>3, <2>5, <2>6, <2>7, <2>8, <2>9 DEF Execute
<1>7. ASSUME NEW w \in Workers, Crash(w) PROVE SoloInv'
  BY <1>7 DEF Crash, Goto, SoloInv, Outcome
<1>8. CASE UNCHANGED vars
  BY <1>1, <1>8 DEF vars
<1>9. ASSUME NEW j \in Jobs, Cancel(j) PROVE SoloInv'
  <2>1. CASE SelectForCancel(j)
    BY <1>1, <2>1 DEF SelectForCancel
  <2>2. CASE CancelJob(j)
    BY <1>1, <2>2 DEF CancelJob
  <2> QED BY <1>9, <2>1, <2>2 DEF Cancel
<1>10. ASSUME NEW j \in Jobs, DomainSettles(j) PROVE SoloInv'
  BY <1>1, <1>10 DEF DomainSettles
<1> QED BY <1>3, <1>4, <1>5, <1>6, <1>7, <1>8, <1>9, <1>10 DEF Next

\* While a single worker process consumes the stream, a running row survives
\* any number of crashes: an entry for it is in the stream or the pending list.
THEOREM OneWorkerRecovers ==
    ASSUME OneWorker
    PROVE  Spec => []RunningIsRecoverable
<1>1. Init => SoloInv
  BY DEF Init, SoloInv
<1>2. Typed /\ SoloInv /\ [Next]_vars => SoloInv'
  BY SoloStep
<1>3. SoloInv => RunningIsRecoverable
  BY DEF SoloInv, RunningIsRecoverable, Entries
<1> QED BY <1>1, <1>2, <1>3, TypedInvariant, PTL DEF Spec
=============================================================================
