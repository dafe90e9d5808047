-------------------------- MODULE AgentLoopProofs --------------------------
(***************************************************************************)
(* The proofs about AgentLoop: its types, what a benchmark's two phases    *)
(* measure, that a profile which was rolled back stays off, that the agent *)
(* has what it was told to have, that a benchmark that is over is only     *)
(* touched by who looked at it before, and that benchmarks keep the        *)
(* contract of BenchmarkContract.                                          *)
(*                                                                         *)
(* Four invariants carry them, each proved with the ones before it.        *)
(* Typed: the types, and that the loop and the task wait for one call each,*)
(* of the kind they make where they are.  HostInv: what the host stands at *)
(* in each phase of the task, and which version the agent has rolled back. *)
(* ObeyInv: while no two requests have taken one version, a benchmark that *)
(* the agent was offered is under way or there is a version to be applied. *)
(* ContractInv: a sample or an event that the task waits for is about the  *)
(* task's benchmark, which it has measured where the event completes it;   *)
(* and while no two requests have taken one version, whoever is about to   *)
(* ask for a profile has seen the one that is desired.                     *)
(***************************************************************************)
EXTENDS AgentLoop, SequenceTheorems, TLAPS

-----------------------------------------------------------------------------
(* What is done to the host.                                               *)

\* Without a file of originals the host is as it was.
Whole(a) == ~a.file => a.setting = "observe"

\* A state of the agent whose events fit.
Fits(a) == a \in Agent /\ Len(a.pending) <= MaxPending

LEMMA ObserveIs == "observe" \in Settings /\ NoDesired \in Desired /\ NoReply \in Reply
                   /\ NoTask \in Task /\ NoCall \in Call
  BY DEF Settings, NoDesired, Desired, NoReply, Reply, NoTask, Task, NoCall, Call, Ops, Statuses

LEMMA RestoredIs ==
    ASSUME NEW a \in Agent, NEW passed \in BOOLEAN
    PROVE  LET b == Restored(a, passed) IN
           /\ b \in Agent
           /\ b.at = a.at /\ b.simulator = a.simulator /\ b.active = a.active
           /\ b.applied = a.applied /\ b.strikes = a.strikes /\ b.pending = a.pending
           /\ b.rolled = a.rolled
           /\ a.broken => b.broken
           /\ ~a.file => b = a
           /\ Whole(a) => Whole(b)
           /\ Whole(a) /\ passed => b.setting = "observe"
           /\ ~b.broken /\ Whole(a) => b.setting = "observe"
  BY ObserveIs DEF Restored, Agent, Whole

LEMMA ApplyIs ==
    ASSUME NEW a \in Agent, NEW p \in Settings, NEW passed \in BOOLEAN
    PROVE  LET b == ApplySetting(a, p, passed) IN
           /\ b \in Agent
           /\ b.at = a.at /\ b.simulator = a.simulator /\ b.active = a.active
           /\ b.applied = a.applied /\ b.strikes = a.strikes /\ b.pending = a.pending
           /\ b.rolled = a.rolled /\ b.broken = a.broken
           /\ Whole(b)
           /\ b.setting = IF passed THEN p ELSE a.setting
  BY DEF ApplySetting, Agent, Whole

LEMMA QueuedIs ==
    ASSUME NEW a, Fits(a), NEW effect \in Settings \cup {"none"}
    PROVE  LET b == Queued(a, effect) IN
           /\ Fits(b)
           /\ b.at = a.at /\ b.simulator = a.simulator /\ b.active = a.active
           /\ b.setting = a.setting /\ b.file = a.file
           /\ b.applied = a.applied /\ b.strikes = a.strikes
           /\ b.rolled = a.rolled /\ b.broken = a.broken
<1> DEFINE all == Append(a.pending, effect)
           kept == IF Len(all) > MaxPending THEN Tail(all) ELSE all
<1>1. a.pending \in Seq(Settings \cup {"none"}) /\ Len(a.pending) \in Nat
  BY DEF Fits, Agent
<1>2. /\ all \in Seq(Settings \cup {"none"}) /\ Len(all) = Len(a.pending) + 1
      /\ Tail(all) \in Seq(Settings \cup {"none"}) /\ Len(Tail(all)) = Len(a.pending)
  BY <1>1
<1>3. kept \in Seq(Settings \cup {"none"}) /\ Len(kept) <= MaxPending
  <2>1. Len(a.pending) <= MaxPending /\ MaxPending \in Nat
    BY BoundsAssumption DEF Fits
  <2> HIDE DEF all
  <2> QED BY <1>1, <1>2, <2>1
<1>4. Queued(a, effect) = [a EXCEPT !.pending = kept]
  BY DEF Queued
<1> HIDE DEF kept
<1> QED BY <1>3, <1>4 DEF Fits, Agent

LEMMA RolledBackIs ==
    ASSUME NEW a, Fits(a), NEW passed \in BOOLEAN
    PROVE  LET b == RolledBack(a, passed) IN
           /\ Fits(b)
           /\ b.at = a.at /\ b.simulator = a.simulator /\ b.active = "observe"
           /\ b.applied = a.applied /\ b.strikes = a.strikes
           /\ b.rolled = IF a.active = "observe" THEN a.rolled ELSE a.applied
           /\ a.broken => b.broken
           /\ Whole(a) => Whole(b)
           /\ ~b.broken /\ Whole(a) => b.setting = "observe"
<1> DEFINE back == Restored(a, passed)
           told == IF a.file THEN Queued(back, "none") ELSE back
           rolled == IF a.active = "observe" THEN a.rolled ELSE a.applied
<1>1. /\ Fits(back)
      /\ back.at = a.at /\ back.simulator = a.simulator /\ back.active = a.active
      /\ back.applied = a.applied /\ back.strikes = a.strikes
      /\ back.rolled = a.rolled
      /\ a.broken => back.broken
      /\ Whole(a) => Whole(back)
      /\ ~back.broken /\ Whole(a) => back.setting = "observe"
  BY RestoredIs DEF Fits
<1> HIDE DEF back
<1>2. /\ Fits(told)
      /\ told.at = back.at /\ told.simulator = back.simulator
      /\ told.applied = back.applied /\ told.strikes = back.strikes
      /\ told.setting = back.setting /\ told.file = back.file
      /\ told.rolled = back.rolled /\ told.broken = back.broken
  BY <1>1, QueuedIs
<1>3. RolledBack(a, passed) = [told EXCEPT !.active = "observe", !.rolled = rolled]
  <2>1. RolledBack(a, passed) =
          [told EXCEPT !.active = "observe",
                       !.rolled = IF a.active = "observe" THEN told.rolled ELSE a.applied]
    BY Zenon DEF RolledBack, back
  <2>2. told.rolled = a.rolled
    BY <1>1, <1>2
  <2> QED BY <2>1, <2>2
<1>4. rolled \in Nat
  BY DEF Fits, Agent
<1> HIDE DEF told, rolled
<1>5. /\ Fits(RolledBack(a, passed))
      /\ RolledBack(a, passed).active = "observe" /\ RolledBack(a, passed).rolled = rolled
      /\ RolledBack(a, passed).at = told.at /\ RolledBack(a, passed).simulator = told.simulator
      /\ RolledBack(a, passed).applied = told.applied
      /\ RolledBack(a, passed).strikes = told.strikes
      /\ RolledBack(a, passed).setting = told.setting /\ RolledBack(a, passed).file = told.file
      /\ RolledBack(a, passed).broken = told.broken
  BY <1>2, <1>3, <1>4, ObserveIs DEF Fits, Agent
<1> QED BY <1>1, <1>2, <1>5 DEF Whole, rolled

LEMMA ObeyedIs ==
    ASSUME NEW a, Fits(a), NEW r \in Reply, NEW passed \in BOOLEAN
    PROVE  LET b == Obeyed(a, r, passed) IN
           /\ Fits(b)
           /\ b.at = a.at /\ b.simulator = a.simulator /\ b.strikes = a.strikes
           /\ b.rolled = a.rolled
           /\ a.broken => b.broken
           /\ Whole(a) => Whole(b)
           /\ \/ /\ b.active = r.profile /\ b.applied = r.version
                 /\ Whole(a) => b.setting = r.profile
              \/ b.active = a.active /\ b.applied = a.applied /\ b.setting = a.setting
<1> DEFINE done == IF r.profile = "observe" THEN Restored(a, passed)
                   ELSE ApplySetting(a, r.profile, passed)
           silent == r.profile = "observe" /\ ~a.file
           effect == IF passed THEN Effect(a, r.profile) ELSE "none"
           told == IF silent THEN done ELSE Queued(done, effect)
<1>0. r.profile \in Settings /\ r.version \in Nat /\ effect \in Settings \cup {"none"}
  BY DEF Reply, Effect
<1>1. /\ Fits(done)
      /\ done.at = a.at /\ done.simulator = a.simulator /\ done.active = a.active
      /\ done.applied = a.applied /\ done.strikes = a.strikes
      /\ done.rolled = a.rolled
      /\ a.broken => done.broken
      /\ Whole(a) => Whole(done)
      /\ Whole(a) /\ (passed \/ silent) => done.setting = r.profile
      /\ ~passed => done.setting = a.setting
  <2>1. CASE r.profile = "observe"
    <3>1. done = Restored(a, passed) /\ a \in Agent
      BY <2>1 DEF Fits
    <3>2. ~passed => done.setting = a.setting
      BY <3>1 DEF Restored, Agent
    <3>3. Whole(a) /\ silent => done.setting = "observe"
      BY <3>1, RestoredIs DEF Whole
    <3> HIDE DEF done
    <3> QED BY <2>1, <3>1, <3>2, <3>3, RestoredIs DEF Fits
  <2>2. CASE r.profile # "observe"
    <3>1. done = ApplySetting(a, r.profile, passed) /\ a \in Agent /\ ~silent
      BY <2>2 DEF Fits
    <3> HIDE DEF done, silent
    <3> QED BY <1>0, <3>1, ApplyIs DEF Fits
  <2> QED BY <2>1, <2>2
<1> HIDE DEF done, effect
<1>2. /\ Fits(told)
      /\ told.at = done.at /\ told.simulator = done.simulator /\ told.active = done.active
      /\ told.setting = done.setting /\ told.file = done.file
      /\ told.applied = done.applied /\ told.strikes = done.strikes
      /\ told.rolled = done.rolled /\ told.broken = done.broken
  BY <1>0, <1>1, QueuedIs
<1>3. Obeyed(a, r, passed) = IF passed \/ silent
                             THEN [told EXCEPT !.active = r.profile, !.applied = r.version]
                             ELSE told
  BY DEF Obeyed, done, effect
<1> HIDE DEF told, silent
<1>4. CASE passed \/ silent
  <2>1. Obeyed(a, r, passed) = [told EXCEPT !.active = r.profile, !.applied = r.version]
    BY <1>3, <1>4
  <2> DEFINE b == [told EXCEPT !.active = r.profile, !.applied = r.version]
  <2>2. /\ Fits(b) /\ b.active = r.profile /\ b.applied = r.version
        /\ b.at = told.at /\ b.simulator = told.simulator /\ b.strikes = told.strikes
        /\ b.rolled = told.rolled /\ b.broken = told.broken
        /\ b.setting = told.setting /\ b.file = told.file
    BY <1>0, <1>2 DEF Fits, Agent
  <2> HIDE DEF b
  <2> QED BY <1>1, <1>2, <1>4, <2>1, <2>2 DEF Whole, b
<1>5. CASE ~(passed \/ silent)
  <2>1. Obeyed(a, r, passed) = told
    BY <1>3, <1>5
  <2> QED BY <1>1, <1>2, <1>5, <2>1 DEF Whole
<1> QED BY <1>4, <1>5
-----------------------------------------------------------------------------
(* What becomes of the benchmark task.                                     *)

LEMMA RaisedIs ==
    ASSUME NEW t \in Task
    PROVE  /\ Raised(t) \in Task
           /\ Raised(t).b = t.b /\ Raised(t).disturbed = t.disturbed
           /\ Raised(t).at \in {"failing", "undoing", "done"}
           /\ Raised(t).at = "done" =>
                t.at \notin {"baseline", "cooling", "cooled", "applying", "optimized", "failing"}
<1> DEFINE early == {"baseline", "cooling", "cooled", "applying", "optimized"}
<1>1. CASE t.at \in early
  <2>1. Raised(t) = [t EXCEPT !.at = "failing", !.ok = FALSE]
    BY <1>1, Zenon DEF Raised
  <2> QED BY <1>1, <2>1 DEF Task
<1>2. CASE t.at = "failing"
  <2>1. Raised(t) = [t EXCEPT !.at = "undoing", !.ok = FALSE]
    BY <1>2, Zenon DEF Raised
  <2> QED BY <1>2, <2>1 DEF Task
<1>3. CASE t.at \notin early /\ t.at # "failing"
  <2>1. Raised(t) = [t EXCEPT !.at = "done"]
    BY <1>3, Zenon DEF Raised
  <2> QED BY <1>3, <2>1 DEF Task
<1> QED BY <1>1, <1>2, <1>3

LEMMA ReportedIs ==
    ASSUME NEW t \in Task
    PROVE  /\ Reported(t) \in Task
           /\ Reported(t).b = t.b /\ Reported(t).disturbed = t.disturbed
           /\ Reported(t).at \in {"baseline", "cooled", "optimized", "failing", "undoing",
                                  "completing", "done"}
           /\ Reported(t).at = "baseline" => t.at = "first"
           /\ Reported(t).at = "optimized" => t.at = "applying" /\ t.ok
           /\ Reported(t).at = "cooled" => t.at = "cooling"
           /\ Reported(t).at = "completing" => t.at = "undone"
           /\ Reported(t).at = "done" => t.at \notin {"first", "cooling", "applying", "failing"}
<1>1. CASE t.at = "first"
  <2>1. Reported(t) = [t EXCEPT !.at = "baseline", !.sampled = FALSE]
    BY <1>1, Zenon DEF Reported
  <2> QED BY <1>1, <2>1 DEF Task
<1>2. CASE t.at = "cooling"
  <2>1. Reported(t) = [t EXCEPT !.at = "cooled"]
    BY <1>2, Zenon DEF Reported
  <2> QED BY <1>2, <2>1 DEF Task
<1>3. CASE t.at = "applying" /\ t.ok
  <2>1. Reported(t) = [t EXCEPT !.at = "optimized", !.sampled = FALSE]
    BY <1>3, Zenon DEF Reported
  <2> QED BY <1>3, <2>1 DEF Task
<1>4. CASE t.at = "applying" /\ ~t.ok
  <2>1. Reported(t) = Raised(t)
    BY <1>4, Zenon DEF Reported
  <2>2. Reported(t).at \notin {"baseline", "optimized", "cooled", "completing", "done"}
    BY <1>4, <2>1, RaisedIs
  <2> QED BY <1>4, <2>1, <2>2, RaisedIs
<1>5. CASE t.at = "failing"
  <2>1. Reported(t) = [t EXCEPT !.at = "undoing", !.ok = FALSE]
    BY <1>5, Zenon DEF Reported
  <2> QED BY <1>5, <2>1 DEF Task
<1>6. CASE t.at = "undone" /\ t.ok
  <2>1. Reported(t) = [t EXCEPT !.at = "completing"]
    BY <1>6, Zenon DEF Reported
  <2> QED BY <1>6, <2>1 DEF Task
<1>7. CASE /\ t.at \notin {"first", "cooling", "applying", "failing"}
           /\ ~(t.at = "undone" /\ t.ok)
  <2>1. Reported(t) = [t EXCEPT !.at = "done"]
    BY <1>7, Zenon DEF Reported
  <2> QED BY <1>7, <2>1 DEF Task
<1> QED BY <1>1, <1>2, <1>3, <1>4, <1>5, <1>6, <1>7

LEMMA AnnouncedIs ==
    ASSUME NEW a \in Agent, NEW t \in Task, t.at # "done" => t.b \in Benchmarks
    PROVE  LET b == Announced(a, t) IN
           /\ b \in Agent
           /\ b.at = a.at /\ b.simulator = a.simulator /\ b.setting = a.setting
           /\ b.file = a.file /\ b.applied = a.applied /\ b.strikes = a.strikes
           /\ b.pending = a.pending /\ b.rolled = a.rolled /\ b.broken = a.broken
           /\ t.at = "first" => b.active = "observe"
           /\ t.at = "applying" /\ t.ok => b.active = ProfileOf[t.b]
           /\ t.at # "first" /\ ~(t.at = "applying" /\ t.ok) => b = a
<1>1. CASE t.at = "first"
  <2>1. Announced(a, t) = [a EXCEPT !.active = "observe"]
    BY <1>1, Zenon DEF Announced
  <2> QED BY <1>1, <2>1, ObserveIs DEF Agent
<1>2. CASE t.at = "applying" /\ t.ok
  <2>1. Announced(a, t) = [a EXCEPT !.active = ProfileOf[t.b]]
    BY <1>2, Zenon DEF Announced
  <2>2. ProfileOf[t.b] \in Settings
    BY <1>2, ProfileAssumption DEF Settings
  <2> QED BY <1>2, <2>1, <2>2 DEF Agent
<1>3. CASE t.at # "first" /\ ~(t.at = "applying" /\ t.ok)
  <2>1. Announced(a, t) = a
    BY <1>3, Zenon DEF Announced
  <2> QED BY <1>3, <2>1
<1> QED BY <1>1, <1>2, <1>3
-----------------------------------------------------------------------------
(* The calls.                                                              *)

LEMMA StartIs ==
    ASSUME call \in [Calls -> Call], bench \in [Benchmarks -> Statuses],
           desired \in Desired, limit \in Settings, NEW c \in Calls, NEW op \in Ops, NEW b \in Benchmarks \cup {"none"},
           NEW wanted \in Settings \cup {"none"}, NEW for \in {"nobody", "loop", "task"},
           Start(c, op, b, wanted, for)
    PROVE  /\ call' \in [Calls -> Call]
           /\ call[c].op = "none"
           /\ call'[c].op = op /\ call'[c].b = b /\ call'[c].for = for
           /\ call'[c].read = IF b = "none" THEN "absent" ELSE bench[b]
           /\ call'[c].profile = wanted
           /\ op \in Desiring => call'[c].desired = desired
           /\ \A d \in Calls \ {c} : call'[d] = call[d]
<1> DEFINE read == IF b = "none" THEN "absent" ELSE bench[b]
           asks == IF op \in Desiring THEN desired ELSE NoDesired
           found == IF op = "event" THEN limit ELSE "observe"
           new == [op |-> op, b |-> b, read |-> read, desired |-> asks, limit |-> found,
                   profile |-> wanted, for |-> for]
<1>1. read \in Statuses /\ asks \in Desired /\ found \in Settings
  BY ObserveIs DEF Statuses
<1>2. call[c].op = "none" /\ call' = [call EXCEPT ![c] = new]
  BY DEF Start
<1>3. read = IF b = "none" THEN "absent" ELSE bench[b]
  OBVIOUS
<1>4. op \in Desiring => asks = desired
  OBVIOUS
<1> HIDE DEF read, asks, found
<1>5. /\ new \in Call /\ new.op = op /\ new.b = b /\ new.for = for /\ new.read = read
      /\ new.desired = asks /\ new.profile = wanted
  BY <1>1 DEF Call
<1> HIDE DEF new
<1> QED BY <1>2, <1>3, <1>4, <1>5

LEMMA EndIs ==
    ASSUME call \in [Calls -> Call], NEW c \in Calls, End(c)
    PROVE  /\ call' \in [Calls -> Call]
           /\ call'[c] = NoCall
           /\ \A d \in Calls \ {c} : call'[d] = call[d]
  BY ObserveIs DEF End

LEMMA ForsakenIs ==
    ASSUME call \in [Calls -> Call], NEW cs, call' = Forsaken(cs)
    PROVE  /\ call' \in [Calls -> Call]
           /\ \A c \in Calls : /\ call'[c].op = call[c].op /\ call'[c].b = call[c].b
                               /\ call'[c].read = call[c].read
                               /\ call'[c].desired = call[c].desired
                               /\ call'[c].profile = call[c].profile
                               /\ call'[c].for = IF c \in cs THEN "nobody" ELSE call[c].for
                               /\ c \notin cs => call'[c] = call[c]
<1>1. call' = [c \in Calls |-> IF c \in cs THEN [call[c] EXCEPT !.for = "nobody"] ELSE call[c]]
  BY DEF Forsaken
<1>2. ASSUME NEW c \in Calls
      PROVE  /\ call'[c] \in Call
             /\ call'[c].op = call[c].op /\ call'[c].b = call[c].b
             /\ call'[c].read = call[c].read
             /\ call'[c].desired = call[c].desired
             /\ call'[c].profile = call[c].profile
             /\ call'[c].for = IF c \in cs THEN "nobody" ELSE call[c].for
             /\ c \notin cs => call'[c] = call[c]
  <2>1. call[c] \in Call
    OBVIOUS
  <2>2. CASE c \in cs
    <3>1. call'[c] = [call[c] EXCEPT !.for = "nobody"]
      BY <1>1, <2>2
    <3> QED BY <2>1, <2>2, <3>1 DEF Call
  <2>3. CASE c \notin cs
    <3>1. call'[c] = call[c]
      BY <1>1, <2>3
    <3> QED BY <2>1, <2>3, <3>1
  <2> QED BY <2>2, <2>3
<1> QED BY <1>1, <1>2
-----------------------------------------------------------------------------
(* The invariants.                                                         *)

Reporting == {"first", "cooling", "applying", "undone", "failing", "completing"}

\* The call that the task waits for is of the kind that it makes there.
Paired(c) ==
    call[c].for = "task" =>
        \/ task.at \in Reporting /\ call[c].op # "sample"
        \/ task.at \in {"baseline", "optimized"} /\ call[c].op = "sample"

\* What a handler has read, and of whom it is.
Reads(c) ==
    /\ call[c].op = "profile" => call[c].profile \in Settings
    /\ call[c].op \in {"cancel", "sample", "complete", "fail"} => call[c].read \notin Terminal
    /\ call[c].op \in {"simulate", "computing", "finish"} =>
         agent.simulator /\ call[c].b \in Benchmarks

\* The loop and the task wait for one call each.
Linked ==
    /\ task.at \notin {"none", "done"} => task.b \in Benchmarks
    /\ agent.at = "down" => task.at = "none"
    /\ \A c \in Calls : Paired(c) /\ Reads(c)
    /\ \A c \in Calls : call[c].for = "loop" => agent.at = "posting" /\ agent.pending # <<>>
    /\ \A c, d \in Calls : call[c].for # "nobody" /\ call[d].for = call[c].for => c = d

Typed == TypeOK /\ Linked

\* What a phase of the task measures, and what the agent says it has applied.
Fair(a, t) ==
    /\ t.at \in {"first", "baseline"} => a.setting = "observe"
    /\ t.at = "applying" /\ t.ok => a.setting = ProfileOf[t.b]
    /\ t.at = "optimized" => a.setting = ProfileOf[t.b] /\ a.active = a.setting

\* A version that was rolled back is not one that is active, but for a task that
\* will restore the host.
Off(a, t) ==
    /\ a.rolled <= a.applied
    /\ a.at # "down" /\ a.active # "observe" /\ t.at \notin {"optimized", "failing", "undoing"}
         => a.rolled < a.applied

HostOK(a, t) == Whole(a) /\ (t.disturbed \/ Fair(a, t)) /\ Off(a, t)

HostInv == HostOK(agent, task)

\* A step of the task, its host included, as the loop sees it.
Moved(a) ==
    /\ a \in Agent
    /\ a.at = agent.at /\ a.simulator = agent.simulator
    /\ a.applied = agent.applied /\ a.strikes = agent.strikes
    /\ a.pending = agent.pending /\ a.rolled = agent.rolled
    /\ agent.broken => a.broken

TaskMoves ==
    /\ task.at \notin {"none", "done"}
    /\ Moved(agent')
    /\ task' \in Task /\ task'.at # "none" /\ task'.b = task.b
-----------------------------------------------------------------------------
(* The steps of the task.                                                  *)

\* A report that is answered, or that there is none to make.
LEMMA ReportedFits ==
    ASSUME NEW a \in Agent, NEW t \in Task, t.b \in Benchmarks, HostOK(a, t),
           t.at \notin {"optimized", "undoing"}
    PROVE  HostOK(Announced(a, t), Reported(t))
<1> DEFINE b == Announced(a, t)
           r == Reported(t)
<1>1. /\ b \in Agent
      /\ b.at = a.at /\ b.setting = a.setting /\ b.file = a.file /\ b.applied = a.applied
      /\ b.rolled = a.rolled
      /\ t.at = "first" => b.active = "observe"
      /\ t.at = "applying" /\ t.ok => b.active = ProfileOf[t.b]
      /\ t.at # "first" /\ ~(t.at = "applying" /\ t.ok) => b.active = a.active
  BY AnnouncedIs
<1>2. /\ r.b = t.b /\ r.disturbed = t.disturbed
      /\ r.at \in {"baseline", "cooled", "optimized", "failing", "undoing", "completing", "done"}
      /\ r.at = "baseline" => t.at = "first"
      /\ r.at = "optimized" => t.at = "applying" /\ t.ok
      /\ r.at = "cooled" => t.at = "cooling"
      /\ r.at = "completing" => t.at = "undone"
      /\ r.at = "done" => t.at \notin {"first", "cooling", "applying", "failing"}
  BY ReportedIs
<1> HIDE DEF b, r
<1>3. Whole(b)
  BY <1>1 DEF HostOK, Whole
<1>4. r.disturbed \/ Fair(b, r)
  BY <1>1, <1>2 DEF HostOK, Fair
<1>5. Off(b, r)
  <2>1. b.rolled <= b.applied
    BY <1>1 DEF HostOK, Off
  <2>2. CASE r.at \in {"optimized", "failing", "undoing"}
    BY <2>1, <2>2 DEF Off
  <2>3. CASE r.at = "baseline"
    BY <1>1, <1>2, <2>1, <2>3 DEF Off
  <2>4. CASE r.at \in {"cooled", "completing", "done"}
    <3>1. /\ t.at \notin {"first", "applying", "failing"}
          /\ b.active = a.active
      BY <1>1, <1>2, <2>4
    <3> QED BY <1>1, <2>1, <3>1 DEF HostOK, Off
  <2> QED BY <1>2, <2>2, <2>3, <2>4
<1> QED BY <1>3, <1>4, <1>5 DEF HostOK, b, r

LEMMA RaisedFits ==
    ASSUME NEW a \in Agent, NEW t \in Task, HostOK(a, t), t.at # "undoing"
    PROVE  HostOK(a, Raised(t))
<1> DEFINE r == Raised(t)
<1>1. /\ r.b = t.b /\ r.disturbed = t.disturbed
      /\ r.at \in {"failing", "undoing", "done"}
      /\ r.at = "done" =>
           t.at \notin {"baseline", "cooling", "cooled", "applying", "optimized", "failing"}
  BY RaisedIs
<1> HIDE DEF r
<1> QED BY <1>1 DEF HostOK, Whole, Fair, Off, r

LEMMA ReportsIs ==
    ASSUME Typed, task.at \notin {"none", "done"}, NEW a, Moved(a), NEW t \in Task,
           t.at \notin {"none", "done", "optimized", "undoing"}, t.b = task.b,
           NEW silent \in BOOLEAN, Reports(t, a, silent)
    PROVE  TaskMoves /\ (HostOK(a, t) => HostInv')
<1>0. a \in Agent /\ t.b \in Benchmarks
  BY DEF Typed, Linked, Moved
<1>1. CASE silent
  <2>1. task' = Reported(t) /\ agent' = Announced(a, t)
    BY <1>1 DEF Reports
  <2>2. Moved(Announced(a, t))
    BY <1>0, AnnouncedIs DEF Moved
  <2>3. Reported(t) \in Task /\ Reported(t).at # "none" /\ Reported(t).b = t.b
    BY ReportedIs
  <2>4. HostOK(a, t) => HostOK(Announced(a, t), Reported(t))
    BY <1>0, ReportedFits
  <2>5. TaskMoves
    BY <2>1, <2>2, <2>3 DEF TaskMoves
  <2>6. HostOK(a, t) => HostOK(agent', task')
    BY <2>1, <2>4
  <2> QED BY <2>5, <2>6 DEF HostInv
<1>2. CASE ~silent
  <2>1. task' = t /\ agent' = a
    BY <1>2 DEF Reports
  <2>2. HostOK(a, t) => HostOK(agent', task')
    BY <2>1
  <2>3. TaskMoves
    BY <2>1 DEF TaskMoves
  <2> QED BY <2>2, <2>3 DEF HostInv
<1> QED BY <1>1, <1>2

LEMMA FaultIs ==
    ASSUME TypeOK, NEW passed \in BOOLEAN, Fault(passed)
    PROVE  mishaps' \in 0..MaxMishaps
  BY BoundsAssumption DEF TypeOK, Fault, Mishap

LEMMA RestoresMoves ==
    ASSUME Typed, NEW passed \in BOOLEAN, NEW from, NEW to,
           <<from, to>> \in {<<"starting", "first">>, <<"baseline", "cooling">>},
           Restores(from, to, passed)
    PROVE  TaskMoves /\ (HostInv => HostInv')
<1> DEFINE a == Restored(agent, passed)
           late == task.disturbed \/ ~(passed \/ ~agent.file)
           t == [task EXCEPT !.at = to, !.effect = "none", !.ok = TRUE, !.disturbed = late]
<1>0. agent \in Agent /\ task \in Task /\ task.at = from
  BY DEF Typed, TypeOK, Restores
<1>1. to \in {"first", "cooling"} /\ from \in {"starting", "baseline"}
  OBVIOUS
<1>2. late \in BOOLEAN
  BY <1>0 DEF Task
<1>3. Reports(t, a, ~agent.file)
  BY DEF Restores
<1>4. Moved(a)
  BY <1>0, RestoredIs DEF Moved
<1>5. Whole(agent) => Whole(a) /\ (late \/ a.setting = "observe")
  BY <1>0, RestoredIs DEF Whole
<1>6. a.active = agent.active
  BY <1>0, RestoredIs
<1> HIDE DEF a, late
<1>7. t \in Task /\ t.at = to /\ t.b = task.b /\ t.disturbed = late
  BY <1>0, <1>1, <1>2 DEF Task
<1> HIDE DEF t
<1>8. HostInv => HostOK(a, t)
  BY <1>0, <1>1, <1>4, <1>5, <1>6, <1>7 DEF HostInv, HostOK, Fair, Off, Moved
<1> QED BY <1>0, <1>1, <1>3, <1>4, <1>7, <1>8, ReportsIs DEF Agent

LEMMA ApplyMoves ==
    ASSUME Typed, NEW passed \in BOOLEAN, ApplyProfile(passed)
    PROVE  TaskMoves /\ (HostInv => HostInv')
<1> DEFINE p == ProfileOf[task.b]
           a == ApplySetting(agent, p, passed)
           effect == IF passed THEN p ELSE "none"
           t == [task EXCEPT !.at = "applying", !.ok = passed, !.effect = effect]
<1>0. agent \in Agent /\ task \in Task /\ task.at = "cooled" /\ task.b \in Benchmarks
  BY DEF Typed, TypeOK, Linked, ApplyProfile
<1>1. p \in Settings
  BY <1>0, ProfileAssumption DEF Settings
<1>2. Reports(t, a, FALSE)
  BY DEF ApplyProfile
<1>3. Moved(a)
  BY <1>0, <1>1, ApplyIs DEF Moved
<1>4. Whole(a) /\ (passed => a.setting = p) /\ a.active = agent.active
  BY <1>0, <1>1, ApplyIs
<1>5. effect \in Settings \cup {"none"}
  BY <1>1
<1> HIDE DEF a, effect
<1>6. /\ t \in Task /\ t.at = "applying" /\ t.b = task.b /\ t.disturbed = task.disturbed
      /\ t.ok = passed
  BY <1>0, <1>5 DEF Task
<1> HIDE DEF t
<1>7. HostInv => HostOK(a, t)
  BY <1>0, <1>3, <1>4, <1>6 DEF HostInv, HostOK, Fair, Off, Moved
<1> QED BY <1>0, <1>2, <1>3, <1>6, <1>7, ReportsIs

LEMMA UndoMoves ==
    ASSUME Typed, NEW passed \in BOOLEAN, Undo(passed)
    PROVE  TaskMoves /\ (HostInv => HostInv')
<1> DEFINE r == Restored(agent, passed)
           a == [r EXCEPT !.active = "observe"]
           t == [task EXCEPT !.at = "undone", !.effect = "none"]
<1>0. agent \in Agent /\ task \in Task /\ task.at = "undoing"
  BY DEF Typed, TypeOK, Undo
<1>1. Reports(t, a, ~agent.file)
  BY DEF Undo
<1>2. Moved(r) /\ (Whole(agent) => Whole(r))
  BY <1>0, RestoredIs DEF Moved
<1> HIDE DEF r
<1>3. /\ Moved(a) /\ a.active = "observe" /\ (Whole(r) => Whole(a))
  BY <1>2, ObserveIs DEF Moved, Agent, Whole
<1> HIDE DEF a
<1>4. t \in Task /\ t.at = "undone" /\ t.b = task.b
  BY <1>0 DEF Task
<1> HIDE DEF t
<1>5. HostInv => HostOK(a, t)
  BY <1>0, <1>2, <1>3, <1>4 DEF HostInv, HostOK, Fair, Off, Moved
<1> QED BY <1>0, <1>1, <1>3, <1>4, <1>5, ReportsIs DEF Agent

LEMMA EndMoves ==
    ASSUME Typed, EndOptimized
    PROVE  TaskMoves /\ (HostInv => HostInv')
<1>0. agent \in Agent /\ task \in Task /\ task.at = "optimized"
  BY DEF Typed, TypeOK, EndOptimized
<1>1. task' = [task EXCEPT !.at = "undoing"] /\ agent' = agent
  BY DEF EndOptimized
<1>2. task' \in Task /\ task'.at = "undoing" /\ task'.b = task.b
  BY <1>0, <1>1 DEF Task
<1>3. HostInv => HostOK(agent', task')
  BY <1>1, <1>2 DEF HostInv, HostOK, Fair, Off
<1> QED BY <1>0, <1>1, <1>2, <1>3 DEF TaskMoves, Moved, HostInv

\* An exception in the task, but under its last restore.
LEMMA RaisedMoves ==
    ASSUME Typed, task.at \notin {"none", "done", "undoing"}, task' = Raised(task),
           agent' = agent
    PROVE  TaskMoves /\ (HostInv => HostInv')
<1>0. agent \in Agent /\ task \in Task
  BY DEF Typed, TypeOK
<1>1. task' \in Task /\ task'.at # "none" /\ task'.b = task.b
  BY <1>0, RaisedIs
<1>2. HostOK(agent, task) => HostOK(agent, Raised(task))
  BY <1>0, RaisedFits
<1>3. HostInv => HostOK(agent', task')
  BY <1>2 DEF HostInv
<1>4. HostInv => HostInv'
  BY <1>3 DEF HostInv
<1> QED BY <1>0, <1>1, <1>4 DEF TaskMoves, Moved

\* The answer of a call to the task.
LEMMA AnsweredMoves ==
    ASSUME Typed, NEW c \in Calls, call[c].for = "task", Answer(c)
    PROVE  TaskMoves /\ (HostInv => HostInv')
<1>0. /\ agent \in Agent /\ task \in Task /\ Paired(c)
      /\ (task.at \notin {"none", "done"} => task.b \in Benchmarks)
  BY DEF Typed, TypeOK, Linked
<1>1. CASE call[c].op = "sample"
  <2>1. task' = [task EXCEPT !.sampled = TRUE] /\ agent' = agent
    BY <1>1, Zenon DEF Answer
  <2>2. task.at \in {"baseline", "optimized"}
    BY <1>0, <1>1 DEF Paired
  <2>3. /\ task' \in Task /\ task'.at = task.at /\ task'.b = task.b
        /\ task'.disturbed = task.disturbed /\ task'.ok = task.ok
    BY <1>0, <2>1 DEF Task
  <2>4. HostInv => HostOK(agent', task')
    BY <2>1, <2>3 DEF HostInv, HostOK, Fair, Off
  <2> QED BY <1>0, <2>1, <2>2, <2>3, <2>4 DEF TaskMoves, Moved, HostInv
<1>2. CASE call[c].op # "sample"
  <2>1. task' = Reported(task) /\ agent' = Announced(agent, task)
    BY <1>2, Zenon DEF Answer
  <2>2. task.at \in Reporting
    BY <1>0, <1>2 DEF Paired
  <2>3. task.at \notin {"none", "done", "optimized", "undoing"}
    BY <2>2 DEF Reporting
  <2>4. Moved(Announced(agent, task))
    BY <1>0, <2>3, AnnouncedIs DEF Moved
  <2>5. Reported(task) \in Task /\ Reported(task).at # "none" /\ Reported(task).b = task.b
    BY <1>0, ReportedIs
  <2>6. HostInv => HostOK(agent', task')
    BY <1>0, <2>1, <2>3, ReportedFits DEF HostInv
  <2>7. TaskMoves
    BY <2>1, <2>3, <2>4, <2>5 DEF TaskMoves
  <2> QED BY <2>6, <2>7 DEF HostInv
<1> QED BY <1>1, <1>2
-----------------------------------------------------------------------------
(* The steps of the loop.                                                  *)

\* What the loop makes of the profile and of the answer that told it.
Follows ==
    \/ /\ agent'.active = agent.active /\ agent'.applied = agent.applied
       /\ agent'.setting = agent.setting /\ agent'.rolled = agent.rolled
    \/ /\ ~Busy /\ agent.applied < reply.version
       /\ agent'.active = reply.profile /\ agent'.applied = reply.version
       /\ Whole(agent) => agent'.setting = reply.profile
       /\ agent'.rolled = agent.rolled
    \/ /\ ~Busy /\ agent'.active = "observe" /\ agent'.rolled = agent'.applied
       /\ \/ agent'.applied = agent.applied
          \/ agent.applied < reply.version /\ agent'.applied = reply.version

LEMMA HandleIs ==
    ASSUME Typed, NEW passed \in BOOLEAN, NEW outside \in BOOLEAN, NEW undone \in BOOLEAN,
           Handle(passed, outside, undone)
    PROVE  /\ Fits(agent') /\ agent'.strikes < Strikes
           /\ agent.at = "replied" /\ agent'.at = "posting"
           /\ agent'.simulator = agent.simulator
           /\ agent.broken => agent'.broken
           /\ Whole(agent) => Whole(agent')
           /\ Follows
<1> DEFINE a == IF MayObey(agent, reply) THEN Obeyed(agent, reply, passed) ELSE agent
           begins == ~Busy /\ reply.b # "none"
           watched == ~Busy /\ ~begins /\ ~a.simulator /\ a.active # "observe" /\ outside
           strikes == IF watched THEN a.strikes + 1 ELSE 0
           back == IF strikes < Strikes THEN a ELSE RolledBack(a, undone)
           counted == StrikesAfter(strikes)
<1>0. /\ Fits(agent) /\ reply \in Reply
      /\ agent.strikes \in Nat /\ agent.applied \in Nat
      /\ Strikes \in Nat \ {0} /\ agent.strikes < Strikes
  BY BoundsAssumption DEF Typed, TypeOK, Fits, Agent
<1>1. /\ agent.at = "replied"
      /\ agent' = [back EXCEPT !.strikes = counted, !.at = "posting"]
  BY DEF Handle
<1>2. /\ Fits(a) /\ a.at = agent.at /\ a.simulator = agent.simulator
      /\ a.strikes = agent.strikes /\ a.rolled = agent.rolled
      /\ agent.broken => a.broken
      /\ Whole(agent) => Whole(a)
      /\ \/ a.active = agent.active /\ a.applied = agent.applied /\ a.setting = agent.setting
         \/ /\ ~Busy /\ agent.applied < reply.version
            /\ a.active = reply.profile /\ a.applied = reply.version
            /\ Whole(agent) => a.setting = reply.profile
  <2>1. CASE MayObey(agent, reply)
    <3>1. a = Obeyed(agent, reply, passed)
      BY <2>1
    <3>2. reply.version \in Nat /\ ~Busy /\ agent.applied < reply.version
      BY <1>0, <2>1 DEF MayObey, Reply
    <3> HIDE DEF a
    <3> QED BY <1>0, <3>1, <3>2, ObeyedIs
  <2>2. CASE ~MayObey(agent, reply)
    <3>1. a = agent
      BY <2>2
    <3> QED BY <1>0, <3>1
  <2> QED BY <2>1, <2>2
<1> HIDE DEF a
<1>3. /\ strikes \in Nat /\ strikes <= Strikes
      /\ strikes = Strikes => watched
  BY <1>0, <1>2
<1>4. watched => ~Busy /\ a.active # "observe"
  OBVIOUS
<1> HIDE DEF watched, begins
<1>5. counted \in Nat /\ counted < Strikes
  BY <1>0, <1>3 DEF StrikesAfter
<1> HIDE DEF counted
<1>6. /\ Fits(back) /\ back.simulator = a.simulator /\ back.applied = a.applied
      /\ a.broken => back.broken
      /\ Whole(a) => Whole(back)
      /\ \/ back.active = a.active /\ back.setting = a.setting /\ back.rolled = a.rolled
         \/ ~Busy /\ back.active = "observe" /\ back.rolled = a.applied
  <2>1. CASE strikes < Strikes
    <3>1. back = a
      BY <2>1
    <3> QED BY <1>2, <3>1
  <2>2. CASE ~(strikes < Strikes)
    <3>1. back = RolledBack(a, undone) /\ ~Busy /\ a.active # "observe"
      BY <1>0, <1>3, <1>4, <2>2
    <3> HIDE DEF back
    <3> QED BY <1>2, <3>1, RolledBackIs
  <2> QED BY <2>1, <2>2
<1> HIDE DEF back, strikes
<1>7. /\ Fits(agent') /\ agent'.strikes = counted /\ agent'.at = "posting"
      /\ agent'.simulator = back.simulator /\ agent'.active = back.active
      /\ agent'.setting = back.setting /\ agent'.file = back.file
      /\ agent'.applied = back.applied /\ agent'.rolled = back.rolled
      /\ agent'.broken = back.broken
  BY <1>1, <1>5, <1>6 DEF Fits, Agent
<1>8. Whole(agent) => Whole(agent')
  BY <1>2, <1>6, <1>7 DEF Whole
<1>9. Follows
  <2>1. CASE back.active = a.active /\ back.setting = a.setting /\ back.rolled = a.rolled
    BY <1>2, <1>6, <1>7, <2>1 DEF Follows
  <2>2. CASE ~Busy /\ back.active = "observe" /\ back.rolled = a.applied
    BY <1>2, <1>6, <1>7, <2>2 DEF Follows
  <2> QED BY <1>6, <2>1, <2>2
<1> QED BY <1>1, <1>2, <1>5, <1>6, <1>7, <1>8, <1>9

\* A rollback of the agent's own, whatever the task does.
LEMMA DisturbedIs ==
    ASSUME task \in Task, task' = IF Busy THEN [task EXCEPT !.disturbed = TRUE] ELSE task
    PROVE  /\ task' \in Task /\ task'.at = task.at /\ task'.b = task.b
           /\ task.at # "none" => task'.disturbed
  BY DEF Busy, Task

LEMMA HeartbeatLost ==
    ASSUME Typed, NEW late \in BOOLEAN, NEW passed \in BOOLEAN, LoseHeartbeat(late, passed)
    PROVE  /\ Fits(agent') /\ agent'.strikes = agent.strikes
           /\ agent.at \in {"ready", "replied"} /\ agent'.at = "ready"
           /\ agent'.simulator = agent.simulator /\ agent'.applied = agent.applied
           /\ agent.broken => agent'.broken
           /\ Whole(agent) => Whole(agent')
           /\ task' \in Task /\ task'.at = task.at /\ task'.b = task.b
           /\ \/ /\ agent'.active = agent.active /\ agent'.setting = agent.setting
                 /\ agent'.rolled = agent.rolled /\ task' = task
              \/ /\ agent'.active = "observe" /\ agent'.rolled = agent.applied
                 /\ task.at # "none" => task'.disturbed
<1> DEFINE gone == late /\ agent.active # "observe"
           back == IF gone THEN RolledBack(agent, passed) ELSE agent
<1>0. Fits(agent) /\ task \in Task
  BY DEF Typed, TypeOK, Fits
<1>1. /\ agent.at \in {"ready", "replied"}
      /\ agent' = [back EXCEPT !.at = "ready"]
      /\ task' = IF gone /\ Busy THEN [task EXCEPT !.disturbed = TRUE] ELSE task
  BY DEF LoseHeartbeat
<1>2. /\ Fits(back) /\ back.strikes = agent.strikes /\ back.simulator = agent.simulator
      /\ back.applied = agent.applied
      /\ agent.broken => back.broken
      /\ Whole(agent) => Whole(back)
      /\ ~gone => back.active = agent.active /\ back.setting = agent.setting
                  /\ back.rolled = agent.rolled
      /\ gone => back.active = "observe" /\ back.rolled = agent.applied
  <2>1. CASE gone
    <3>1. back = RolledBack(agent, passed) /\ agent.active # "observe"
      BY <2>1
    <3> HIDE DEF back
    <3> QED BY <1>0, <2>1, <3>1, RolledBackIs
  <2>2. CASE ~gone
    <3>1. back = agent
      BY <2>2
    <3> QED BY <1>0, <2>2, <3>1
  <2> QED BY <2>1, <2>2
<1> HIDE DEF back
<1>3. /\ Fits(agent') /\ agent'.at = "ready" /\ agent'.strikes = back.strikes
      /\ agent'.simulator = back.simulator /\ agent'.active = back.active
      /\ agent'.setting = back.setting /\ agent'.file = back.file
      /\ agent'.applied = back.applied /\ agent'.rolled = back.rolled
      /\ agent'.broken = back.broken
  BY <1>1, <1>2 DEF Fits, Agent
<1>4. /\ task' \in Task /\ task'.at = task.at /\ task'.b = task.b
      /\ ~gone => task' = task
      /\ gone /\ task.at # "none" => task'.disturbed
  BY <1>0, <1>1, DisturbedIs DEF Busy
<1> HIDE DEF gone
<1> QED BY <1>1, <1>2, <1>3, <1>4 DEF Whole

LEMMA HealthIs ==
    ASSUME Typed, NEW passed \in BOOLEAN, HealthRollback(passed)
    PROVE  /\ Fits(agent') /\ agent'.strikes = agent.strikes
           /\ agent.at = "ready" /\ agent'.at = "ready"
           /\ agent'.simulator = agent.simulator /\ agent'.applied = agent.applied
           /\ agent.broken => agent'.broken
           /\ Whole(agent) => Whole(agent')
           /\ ~agent'.broken /\ Whole(agent) => agent'.setting = "observe"
           /\ agent'.active = "observe"
           /\ agent'.rolled = IF agent.active = "observe" THEN agent.rolled ELSE agent.applied
           /\ task' \in Task /\ task'.at = task.at /\ task'.b = task.b
           /\ task.at # "none" => task'.disturbed
<1>0. Fits(agent) /\ task \in Task
  BY DEF Typed, TypeOK, Fits
<1>1. agent.at = "ready" /\ agent' = RolledBack(agent, passed)
  BY DEF HealthRollback
<1>2. /\ task' \in Task /\ task'.at = task.at /\ task'.b = task.b
      /\ task.at # "none" => task'.disturbed
  BY <1>0, DisturbedIs DEF HealthRollback
<1> QED BY <1>0, <1>1, <1>2, RolledBackIs

LEMMA RegisterIs ==
    ASSUME Typed, NEW passed \in BOOLEAN, Register(passed)
    PROVE  /\ Fits(agent') /\ agent'.strikes = 0
           /\ agent.at = "down" /\ agent'.at = "ready"
           /\ agent'.simulator = agent.simulator
           /\ agent'.active = "observe" /\ agent'.applied = 0 /\ agent'.rolled = 0
           /\ Whole(agent) => Whole(agent')
<1> DEFINE new == [agent EXCEPT !.at = "ready", !.active = "observe", !.applied = 0,
                                !.strikes = 0, !.pending = <<>>, !.rolled = 0,
                                !.broken = FALSE]
<1>1. agent.at = "down" /\ agent' = Restored(new, passed)
  BY DEF Register
<1>2. /\ new \in Agent /\ new.at = "ready" /\ new.active = "observe" /\ new.applied = 0
      /\ new.strikes = 0 /\ new.pending = <<>> /\ new.rolled = 0
      /\ new.simulator = agent.simulator
      /\ Whole(agent) => Whole(new)
  <2>1. <<>> \in Seq(Settings \cup {"none"})
    OBVIOUS
  <2> QED BY <2>1, ObserveIs DEF Typed, TypeOK, Agent, Whole
<1>3. Len(<<>>) <= MaxPending
  BY BoundsAssumption
<1> HIDE DEF new
<1> QED BY <1>1, <1>2, <1>3, RestoredIs DEF Fits

LEMMA CrashIs ==
    ASSUME Typed, NEW restores \in BOOLEAN, NEW passed \in BOOLEAN, Crash(restores, passed)
    PROVE  /\ Fits(agent') /\ agent'.strikes = agent.strikes
           /\ agent'.at = "down" /\ agent'.simulator = agent.simulator
           /\ agent'.applied = agent.applied /\ agent'.rolled = agent.rolled
           /\ Whole(agent) => Whole(agent')
<1> DEFINE left == IF restores THEN Restored(agent, passed) ELSE agent
<1>0. Fits(agent)
  BY DEF Typed, TypeOK, Fits
<1>1. agent' = [left EXCEPT !.at = "down"]
  BY DEF Crash
<1>2. /\ Fits(left) /\ left.strikes = agent.strikes /\ left.simulator = agent.simulator
      /\ left.applied = agent.applied /\ left.rolled = agent.rolled
      /\ Whole(agent) => Whole(left)
  <2>1. CASE restores
    <3>1. left = Restored(agent, passed)
      BY <2>1
    <3> HIDE DEF left
    <3> QED BY <1>0, <3>1, RestoredIs DEF Fits
  <2>2. CASE ~restores
    BY <1>0, <2>2
  <2> QED BY <2>1, <2>2
<1> HIDE DEF left
<1>3. /\ Fits(agent') /\ agent'.at = "down" /\ agent'.strikes = left.strikes
      /\ agent'.simulator = left.simulator /\ agent'.applied = left.applied
      /\ agent'.rolled = left.rolled
      /\ agent'.setting = left.setting /\ agent'.file = left.file
  BY <1>1, <1>2 DEF Fits, Agent
<1> QED BY <1>2, <1>3 DEF Whole
-----------------------------------------------------------------------------
(* The types.                                                              *)

LEMMA DesireIs ==
    ASSUME Typed, NEW c \in Calls, NEW p \in Settings, Desire(c, p)
    PROVE  /\ desired' \in Desired /\ collided' \in BOOLEAN
           /\ ~collided' => ~collided /\ desired'.version = desired.version + 1
<1>1. call[c] \in Call /\ desired \in Desired /\ collided \in BOOLEAN
  BY DEF Typed, TypeOK
<1>2. call[c].desired \in Desired
  BY <1>1 DEF Call
<1>3. Written(desired.profile, call[c].desired.profile, p) \in Settings
  BY <1>1, <1>2 DEF Written, Desired
<1>4. /\ desired' = [profile |-> Written(desired.profile, call[c].desired.profile, p),
                     version |-> call[c].desired.version + 1]
      /\ collided' = (collided \/ call[c].desired.version # desired.version)
  BY DEF Desire
<1>5. desired'.version = call[c].desired.version + 1 /\ desired' \in Desired
  BY <1>2, <1>3, <1>4 DEF Desired
<1>6. collided' \in BOOLEAN
  BY <1>1, <1>4
<1> QED BY <1>4, <1>5, <1>6

\* A handler starts.
LEMMA LinkedStart ==
    ASSUME Typed, NEW c \in Calls, NEW op \in Ops, NEW b \in Benchmarks \cup {"none"},
           NEW wanted \in Settings \cup {"none"}, NEW for \in {"nobody", "loop", "task"},
           Start(c, op, b, wanted, for), UNCHANGED <<agent, task>>,
           op = "profile" => wanted \in Settings,
           op \in {"cancel", "sample", "complete", "fail"} =>
               b = "none" \/ bench[b] \notin Terminal,
           op \in {"simulate", "computing", "finish"} => agent.simulator /\ b \in Benchmarks,
           for # "nobody" => \A d \in Calls : call[d].for # for,
           for = "loop" => agent.at = "posting" /\ agent.pending # <<>>,
           for = "task" => \/ task.at \in Reporting /\ op # "sample"
                           \/ task.at \in {"baseline", "optimized"} /\ op = "sample"
    PROVE  call' \in [Calls -> Call] /\ Linked'
<1>0. /\ call \in [Calls -> Call] /\ bench \in [Benchmarks -> Statuses]
      /\ desired \in Desired /\ limit \in Settings
  BY DEF Typed, TypeOK
<1>1. /\ call' \in [Calls -> Call]
      /\ call'[c].op = op /\ call'[c].b = b /\ call'[c].for = for
      /\ call'[c].read = IF b = "none" THEN "absent" ELSE bench[b]
      /\ call'[c].profile = wanted
      /\ \A d \in Calls \ {c} : call'[d] = call[d]
  BY <1>0, StartIs
<1>2. Paired(c)' /\ Reads(c)'
  BY <1>1 DEF Paired, Reads, Terminal
<1>3. \A d \in Calls \ {c} : Paired(d)' /\ Reads(d)'
  BY <1>1 DEF Typed, Linked, Paired, Reads
<1>4. \A d \in Calls : call'[d].for = "loop" => agent'.at = "posting" /\ agent'.pending # <<>>
  BY <1>1 DEF Typed, Linked
<1>5. \A d, e \in Calls : call'[d].for # "nobody" /\ call'[e].for = call'[d].for => d = e
  BY <1>1 DEF Typed, Linked
<1> QED BY <1>1, <1>2, <1>3, <1>4, <1>5 DEF Typed, Linked

\* Calls end, and nobody waits for more than before.
LEMMA LinkedEnds ==
    ASSUME Typed, UNCHANGED <<agent, task>>,
           \A c \in Calls : call'[c] = NoCall \/ call'[c] = call[c]
    PROVE  Linked'
<1>1. NoCall.op = "none" /\ NoCall.for = "nobody"
  BY DEF NoCall
<1>2. \A d \in Calls : Paired(d)' /\ Reads(d)'
  BY <1>1 DEF Typed, Linked, Paired, Reads
<1>3. \A d \in Calls : call'[d].for # "nobody" => call'[d] = call[d]
  BY <1>1
<1> QED BY <1>2, <1>3 DEF Typed, Linked

\* A step of the task, which waits for nothing then.
LEMMA LinkedTask ==
    ASSUME Typed, TaskMoves,
           \A c \in Calls : /\ call'[c] = NoCall \/ call'[c] = call[c]
                            /\ call'[c].for # "task"
    PROVE  Linked'
<1>1. NoCall.op = "none" /\ NoCall.for = "nobody"
  BY DEF NoCall
<1>2. \A d \in Calls : Paired(d)' /\ Reads(d)'
  BY <1>1 DEF Typed, Linked, Paired, Reads, TaskMoves, Moved
<1>3. \A d \in Calls : call'[d].for # "nobody" => call'[d] = call[d]
  BY <1>1
<1>4. task'.b \in Benchmarks /\ agent'.at # "down"
  BY DEF Typed, Linked, TaskMoves, Moved
<1>5. \A d \in Calls : call'[d].for = "loop" => agent'.at = "posting" /\ agent'.pending # <<>>
  BY <1>3 DEF Typed, Linked, TaskMoves, Moved
<1> QED BY <1>2, <1>3, <1>4, <1>5 DEF Typed, Linked

LEMMA TypedTask ==
    ASSUME Typed, TaskMoves, \A c \in Calls : call[c].for # "task",
           UNCHANGED <<server, call, reply, collided, asked, cancels>>,
           mishaps' \in 0..MaxMishaps
    PROVE  Typed'
<1>1. Linked'
  BY LinkedTask
<1>2. Fits(agent') /\ agent'.strikes < Strikes
  BY DEF Typed, TypeOK, TaskMoves, Moved, Fits
<1>3. TypeOK'
  BY <1>2 DEF Typed, TypeOK, server, TaskMoves, Fits
<1> QED BY <1>1, <1>3 DEF Typed

LEMMA TypedRequested ==
    ASSUME Typed, NEW c \in Calls, Requested(c)
    PROVE  Typed'
<1>1. ASSUME NEW p \in Settings, AskProfile(c, p)
      PROVE  Typed'
  <2>1. Start(c, "profile", "none", p, "nobody") /\ UNCHANGED <<agent, task>>
    BY <1>1 DEF AskProfile
  <2>2. call' \in [Calls -> Call] /\ Linked'
    BY <2>1, LinkedStart DEF Ops
  <2>3. asked' \in 0..MaxAsked
    BY <1>1, BoundsAssumption DEF AskProfile, Typed, TypeOK
  <2>4. TypeOK'
    BY <1>1, <2>2, <2>3 DEF AskProfile, server, Typed, TypeOK
  <2> QED BY <2>2, <2>4 DEF Typed
<1>2. ASSUME NEW b \in Benchmarks, AskCancel(c, b)
      PROVE  Typed'
  <2>1. /\ Start(c, "cancel", b, "none", "nobody") /\ UNCHANGED <<agent, task>>
        /\ bench[b] \notin Terminal
    BY <1>2 DEF AskCancel
  <2>2. call' \in [Calls -> Call] /\ Linked'
    BY <2>1, LinkedStart DEF Ops
  <2>3. cancels' \in 0..MaxCancels
    BY <1>2, BoundsAssumption DEF AskCancel, Typed, TypeOK
  <2>4. TypeOK'
    BY <1>2, <2>2, <2>3 DEF AskCancel, server, Typed, TypeOK
  <2> QED BY <2>2, <2>4 DEF Typed
<1> QED BY <1>1, <1>2 DEF Requested

LEMMA TypedJobs ==
    ASSUME Typed, NEW b \in Benchmarks, Create(b) \/ EnqueueJob(b) \/ DropJob(b)
    PROVE  Typed'
<1>1. UNCHANGED <<call, agent, task>>
  BY DEF Create, EnqueueJob, DropJob
<1>2. Linked'
  BY <1>1, LinkedEnds
<1>3. /\ bench' \in [Benchmarks -> Statuses]
      /\ job' \in [Benchmarks -> {"none", "owed", "queued", "running", "cancelled",
                                  "completed", "lost"}]
      /\ mishaps' \in 0..MaxMishaps
  BY BoundsAssumption DEF Create, EnqueueJob, DropJob, Mishap, counters, Statuses, Typed, TypeOK
<1>4. UNCHANGED <<desired, limit, reply, collided, asked, cancels>>
  BY DEF Create, EnqueueJob, DropJob, counters
<1>5. TypeOK'
  BY <1>1, <1>3, <1>4 DEF Typed, TypeOK
<1> QED BY <1>2, <1>5 DEF Typed

\* A handler of an operator, or of the worker, ends.
LEMMA TypedEnds ==
    ASSUME Typed, NEW c \in Calls, End(c), UNCHANGED <<agent, task, reply, limit>>,
           desired' \in Desired, collided' \in BOOLEAN,
           bench' \in [Benchmarks -> Statuses],
           job' \in [Benchmarks -> {"none", "owed", "queued", "running", "cancelled",
                                    "completed", "lost"}],
           asked' = asked, cancels' = cancels, mishaps' \in 0..MaxMishaps
    PROVE  Typed'
<1>1. /\ call' \in [Calls -> Call]
      /\ \A d \in Calls : call'[d] = NoCall \/ call'[d] = call[d]
  BY EndIs DEF Typed, TypeOK
<1>2. Linked'
  BY <1>1, LinkedEnds
<1>3. TypeOK'
  BY <1>1 DEF Typed, TypeOK
<1> QED BY <1>2, <1>3 DEF Typed

LEMMA TypedOperators ==
    ASSUME Typed, NEW c \in Calls, CommitProfile(c) \/ CommitCancel(c)
    PROVE  Typed'
<1>1. CASE CommitProfile(c)
  <2>1. call[c].profile \in Settings
    BY <1>1 DEF CommitProfile, Typed, Linked, Reads
  <2>2. desired' \in Desired /\ collided' \in BOOLEAN
    BY <1>1, <2>1, DesireIs DEF CommitProfile
  <2> QED BY <1>1, <2>2, TypedEnds DEF CommitProfile, counters, Typed, TypeOK
<1>2. CASE CommitCancel(c)
  <2>1. desired' \in Desired /\ collided' \in BOOLEAN
    BY <1>2, ObserveIs, DesireIs DEF CommitCancel
  <2>2. /\ bench' \in [Benchmarks -> Statuses]
        /\ job' \in [Benchmarks -> {"none", "owed", "queued", "running", "cancelled",
                                    "completed", "lost"}]
    BY <1>2 DEF CommitCancel, Statuses, Typed, TypeOK
  <2> QED BY <1>2, <2>1, <2>2, TypedEnds DEF CommitCancel, counters, Typed, TypeOK
<1> QED BY <1>1, <1>2

JobStatuses == {"none", "owed", "queued", "running", "cancelled", "completed", "lost"}

\* A worker's handler goes on: it is the same one.
LEMMA LinkedGoes ==
    ASSUME Typed, NEW c \in Calls, UNCHANGED <<agent, task>>,
           call' \in [Calls -> Call],
           call[c].op \in {"simulate", "computing"}, call'[c].op \in {"computing", "finish"},
           call'[c].for = call[c].for, call'[c].b = call[c].b,
           \A d \in Calls \ {c} : call'[d] = call[d]
    PROVE  Linked'
<1>1. Paired(c)' /\ Reads(c)'
  BY DEF Typed, Linked, Paired, Reads
<1>2. \A d \in Calls \ {c} : Paired(d)' /\ Reads(d)'
  BY DEF Typed, Linked, Paired, Reads
<1>3. \A d \in Calls : call'[d].for = call[d].for
  OBVIOUS
<1> QED BY <1>1, <1>2, <1>3 DEF Typed, Linked

LEMMA TypedWorker ==
    ASSUME Typed, NEW c \in Calls,
           \/ \E b \in Benchmarks : TakeJob(c, b)
           \/ CommitAssign(c) \/ CommitSimulate(c) \/ ReadResult(c) \/ CommitResult(c)
           \/ WorkerDies(c)
    PROVE  Typed'
<1>0. call[c] \in Call /\ call \in [Calls -> Call] /\ desired \in Desired
  BY DEF Typed, TypeOK
<1>1. ASSUME NEW b \in Benchmarks, TakeJob(c, b)
      PROVE  Typed'
  <2> DEFINE op == IF agent.simulator THEN "simulate" ELSE "assign"
  <2>1. Start(c, op, b, "none", "nobody") /\ UNCHANGED <<agent, task>>
    BY <1>1 DEF TakeJob
  <2>2. op \in Ops /\ op \notin {"profile", "cancel", "sample", "complete", "fail"}
        /\ (op \in {"simulate", "computing", "finish"} => agent.simulator)
    BY DEF Ops
  <2> HIDE DEF op
  <2>3. call' \in [Calls -> Call] /\ Linked'
    BY <2>1, <2>2, LinkedStart
  <2>4. job' \in [Benchmarks -> JobStatuses]
    BY <1>1 DEF TakeJob, JobStatuses, Typed, TypeOK
  <2>5. TypeOK'
    BY <1>1, <2>3, <2>4 DEF TakeJob, JobStatuses, counters, Typed, TypeOK
  <2> QED BY <2>3, <2>5 DEF Typed
<1>2. ASSUME CommitAssign(c)
      PROVE  Typed'
  <2>1. bench' \in [Benchmarks -> Statuses] /\ job' \in [Benchmarks -> JobStatuses]
    BY <1>2 DEF CommitAssign, JobStatuses, Statuses, Typed, TypeOK
  <2> QED BY <1>2, <2>1, TypedEnds DEF CommitAssign, JobStatuses, counters, Typed, TypeOK
<1>3. ASSUME CommitSimulate(c)
      PROVE  Typed'
  <2>1. /\ call[c].op = "simulate"
        /\ call' = [call EXCEPT ![c].op = "computing"]
    BY <1>3 DEF CommitSimulate
  <2>2. /\ call'[c] \in Call /\ call'[c].op = "computing"
        /\ call'[c].for = call[c].for /\ call'[c].b = call[c].b
        /\ \A d \in Calls \ {c} : call'[d] = call[d]
    BY <1>0, <2>1 DEF Call, Ops
  <2>3. call' \in [Calls -> Call]
    BY <1>0, <2>1, <2>2
  <2>4. Linked'
    BY <1>3, <2>1, <2>2, <2>3, LinkedGoes DEF CommitSimulate
  <2>5. bench' \in [Benchmarks -> Statuses]
    BY <1>3 DEF CommitSimulate, Written, Statuses, Typed, TypeOK
  <2>6. TypeOK'
    BY <1>3, <2>3, <2>5 DEF CommitSimulate, counters, Typed, TypeOK
  <2> QED BY <2>4, <2>6 DEF Typed
<1>4. ASSUME ReadResult(c)
      PROVE  Typed'
  <2> DEFINE now == bench[call[c].b]
  <2>1. /\ call[c].op = "computing"
        /\ call' = [call EXCEPT ![c].op = "finish", ![c].read = now, ![c].desired = desired]
    BY <1>4 DEF ReadResult
  <2>2. now \in Statuses
    BY <2>1 DEF Typed, TypeOK, Linked, Reads
  <2> HIDE DEF now
  <2>3. /\ call'[c] \in Call /\ call'[c].op = "finish"
        /\ call'[c].for = call[c].for /\ call'[c].b = call[c].b
        /\ \A d \in Calls \ {c} : call'[d] = call[d]
    BY <1>0, <2>1, <2>2 DEF Call, Ops
  <2>4. call' \in [Calls -> Call]
    BY <1>0, <2>1, <2>3
  <2>5. Linked'
    BY <1>4, <2>1, <2>3, <2>4, LinkedGoes DEF ReadResult
  <2>6. TypeOK'
    BY <1>4, <2>4 DEF ReadResult, server, counters, Typed, TypeOK
  <2> QED BY <2>5, <2>6 DEF Typed
<1>5. ASSUME CommitResult(c)
      PROVE  Typed'
  <2>1. job' \in [Benchmarks -> JobStatuses]
    BY <1>5 DEF CommitResult, JobStatuses, Typed, TypeOK
  <2>2. /\ desired' \in Desired /\ collided' \in BOOLEAN
        /\ bench' \in [Benchmarks -> Statuses]
    <3>1. CASE call[c].read = "cancelled"
      BY <1>5, <3>1 DEF CommitResult, Typed, TypeOK
    <3>2. CASE call[c].read # "cancelled"
      <4>1. Desire(c, "observe")
        BY <1>5, <3>2 DEF CommitResult
      <4>2. bench' \in [Benchmarks -> Statuses]
        BY <1>5, <3>2 DEF CommitResult, Written, Statuses, Typed, TypeOK
      <4> QED BY <4>1, <4>2, ObserveIs, DesireIs
    <3> QED BY <3>1, <3>2
  <2> QED BY <1>5, <2>1, <2>2, TypedEnds DEF CommitResult, JobStatuses, counters, Typed, TypeOK
<1>6. ASSUME WorkerDies(c)
      PROVE  Typed'
  <2>1. mishaps' \in 0..MaxMishaps
    BY <1>6, BoundsAssumption DEF WorkerDies, Mishap, Typed, TypeOK
  <2> QED BY <1>6, <2>1, TypedEnds DEF WorkerDies, server, Typed, TypeOK
<1> QED BY <1>1, <1>2, <1>3, <1>4, <1>5, <1>6

\* A step of the loop, when it waits for no call.
LEMMA LinkedLoop ==
    ASSUME Typed, UNCHANGED call, agent' \in Agent,
           agent'.simulator = agent.simulator, agent'.at # "down",
           \A c \in Calls : call[c].for # "loop",
           task'.at \notin {"none", "done"} => task'.b \in Benchmarks,
           task'.at = task.at \/ task.at \in {"none", "done"}
    PROVE  Linked'
<1>1. \A c \in Calls : Paired(c)' /\ Reads(c)'
  BY DEF Typed, Linked, Paired, Reads, Reporting
<1> QED BY <1>1 DEF Typed, Linked

LEMMA TypedLoop ==
    ASSUME Typed, Loop
    PROVE  Typed'
<1>0. Fits(agent) /\ task \in Task /\ agent.strikes < Strikes
  BY DEF Typed, TypeOK, Fits
<1>1. ASSUME NEW passed \in BOOLEAN, Register(passed)
      PROVE  Typed'
  <2>1. /\ Fits(agent') /\ agent'.strikes = 0 /\ agent'.at = "ready" /\ agent.at = "down"
        /\ agent'.simulator = agent.simulator
    BY <1>1, RegisterIs
  <2>2. mishaps' \in 0..MaxMishaps /\ UNCHANGED <<server, call, reply, task, collided, asked, cancels>>
    BY <1>1, FaultIs DEF Register, Typed
  <2>3. Linked'
    BY <2>1, <2>2, LinkedLoop DEF Fits, Typed, Linked
  <2>4. TypeOK'
    BY <2>1, <2>2, BoundsAssumption DEF Fits, server, Typed, TypeOK
  <2> QED BY <2>3, <2>4 DEF Typed
<1>2. ASSUME Reap
      PROVE  Typed'
  <2>1. task' = NoTask /\ task'.at = "none" /\ task.at = "done" /\ agent' = agent
        /\ agent.at = "ready" /\ UNCHANGED <<server, call, reply, collided, counters>>
    BY <1>2 DEF Reap, NoTask
  <2>2. Linked'
    BY <1>0, <2>1, LinkedLoop DEF Fits, Typed, Linked
  <2>3. TypeOK'
    BY <2>1, ObserveIs DEF server, counters, Typed, TypeOK
  <2> QED BY <2>2, <2>3 DEF Typed
<1>3. ASSUME Heartbeat
      PROVE  Typed'
  <2>1. /\ agent.at = "ready" /\ agent' = [agent EXCEPT !.at = "replied"]
        /\ UNCHANGED <<server, call, task, collided, counters>>
    BY <1>3 DEF Heartbeat
  <2>2. /\ Fits(agent') /\ agent'.at = "replied" /\ agent'.simulator = agent.simulator
        /\ agent'.strikes = agent.strikes
    BY <1>0, <2>1 DEF Fits, Agent
  <2>3. reply' \in Reply
    BY <1>3 DEF Heartbeat, Offered, Reply, Desired, Typed, TypeOK
  <2>4. Linked'
    BY <2>1, <2>2, LinkedLoop DEF Fits, Typed, Linked
  <2>5. TypeOK'
    BY <1>0, <2>1, <2>2, <2>3 DEF Fits, server, counters, Typed, TypeOK
  <2> QED BY <2>4, <2>5 DEF Typed
<1>4. ASSUME AllPosted
      PROVE  Typed'
  <2>1. /\ agent.at = "posting" /\ agent.pending = <<>>
        /\ agent' = [agent EXCEPT !.at = "ready"]
        /\ UNCHANGED <<server, call, reply, task, collided, counters>>
    BY <1>4 DEF AllPosted
  <2>2. /\ Fits(agent') /\ agent'.at = "ready" /\ agent'.simulator = agent.simulator
        /\ agent'.strikes = agent.strikes
    BY <1>0, <2>1 DEF Fits, Agent
  <2>3. Linked'
    BY <2>1, <2>2, LinkedLoop DEF Fits, Typed, Linked
  <2>4. TypeOK'
    BY <1>0, <2>1, <2>2 DEF Fits, server, counters, Typed, TypeOK
  <2> QED BY <2>3, <2>4 DEF Typed
<1>5. ASSUME NEW passed \in BOOLEAN, NEW undone \in BOOLEAN, NEW outside \in BOOLEAN,
             Handle(passed, outside, undone)
      PROVE  Typed'
  <2>1. /\ Fits(agent') /\ agent'.strikes < Strikes
        /\ agent.at = "replied" /\ agent'.at = "posting"
        /\ agent'.simulator = agent.simulator
    BY <1>5, HandleIs
  <2>2. /\ reply' = NoReply
        /\ UNCHANGED <<server, call, collided, asked, cancels>>
    BY <1>5 DEF Handle
  <2>3. mishaps' \in 0..MaxMishaps
    <3>1. mishaps' = mishaps \/ Mishap
      BY <1>5 DEF Handle, Fault
    <3> QED BY <3>1, BoundsAssumption DEF Mishap, Typed, TypeOK
  <2>4. \/ task' = task
        \/ /\ task.at = "none" /\ reply.b # "none"
           /\ task' = [NoTask EXCEPT !.at = "starting", !.b = reply.b]
    BY <1>5 DEF Handle, Busy
  <2>5. /\ task' \in Task
        /\ task' = task \/ (task.at = "none" /\ task'.b \in Benchmarks)
    BY <1>0, <2>4, ObserveIs DEF NoTask, Task, Reply, Typed, TypeOK
  <2>6. Linked'
    BY <2>1, <2>2, <2>5, LinkedLoop DEF Fits, Typed, Linked
  <2>7. TypeOK'
    BY <2>1, <2>2, <2>3, <2>5, ObserveIs DEF Fits, server, Typed, TypeOK
  <2> QED BY <2>6, <2>7 DEF Typed
<1> QED BY <1>1, <1>2, <1>3, <1>4, <1>5 DEF Loop, Verdicts

\* When it starts, has cooled down, or restores at its end, the task waits for
\* nothing.
LEMMA NobodyWaits ==
    ASSUME Typed, task.at \in {"starting", "cooled", "undoing"}
    PROVE  \A c \in Calls : call[c].for # "task"
  BY DEF Typed, Linked, Paired, Reporting

LEMMA BenchmarkingMoves ==
    ASSUME Typed, Benchmarking
    PROVE  /\ TaskMoves /\ (HostInv => HostInv')
           /\ \A c \in Calls : call[c].for # "task"
           /\ UNCHANGED <<server, call, reply, collided, asked, cancels>>
           /\ mishaps' \in 0..MaxMishaps
<1>0. TypeOK /\ mishaps \in 0..MaxMishaps
  BY DEF Typed, TypeOK
<1>1. ASSUME NEW passed \in BOOLEAN, Begin(passed)
      PROVE  /\ TaskMoves /\ (HostInv => HostInv')
             /\ \A c \in Calls : call[c].for # "task"
             /\ UNCHANGED <<server, call, reply, collided, asked, cancels>>
             /\ mishaps' \in 0..MaxMishaps
  <2>1. Restores("starting", "first", passed)
    BY <1>1 DEF Begin
  <2>2. TaskMoves /\ (HostInv => HostInv')
    BY <2>1, RestoresMoves
  <2> QED BY <1>0, <2>1, <2>2, FaultIs DEF Restores, Waiting
<1>2. ASSUME NEW passed \in BOOLEAN, EndBaseline(passed)
      PROVE  /\ TaskMoves /\ (HostInv => HostInv')
             /\ \A c \in Calls : call[c].for # "task"
             /\ UNCHANGED <<server, call, reply, collided, asked, cancels>>
             /\ mishaps' \in 0..MaxMishaps
  <2>1. Restores("baseline", "cooling", passed)
    BY <1>2 DEF EndBaseline
  <2>2. TaskMoves /\ (HostInv => HostInv')
    BY <2>1, RestoresMoves
  <2> QED BY <1>0, <2>1, <2>2, FaultIs DEF Restores, Waiting
<1>3. ASSUME NEW passed \in BOOLEAN, ApplyProfile(passed)
      PROVE  /\ TaskMoves /\ (HostInv => HostInv')
             /\ \A c \in Calls : call[c].for # "task"
             /\ UNCHANGED <<server, call, reply, collided, asked, cancels>>
             /\ mishaps' \in 0..MaxMishaps
  <2>1. \A c \in Calls : call[c].for # "task"
    BY <1>3, NobodyWaits DEF ApplyProfile
  <2> QED BY <1>0, <1>3, <2>1, ApplyMoves, FaultIs DEF ApplyProfile
<1>4. ASSUME NEW passed \in BOOLEAN, Undo(passed)
      PROVE  /\ TaskMoves /\ (HostInv => HostInv')
             /\ \A c \in Calls : call[c].for # "task"
             /\ UNCHANGED <<server, call, reply, collided, asked, cancels>>
             /\ mishaps' \in 0..MaxMishaps
  <2>1. \A c \in Calls : call[c].for # "task"
    BY <1>4, NobodyWaits DEF Undo
  <2> QED BY <1>0, <1>4, <2>1, UndoMoves, FaultIs DEF Undo
<1>5. ASSUME EndOptimized
      PROVE  /\ TaskMoves /\ (HostInv => HostInv')
             /\ \A c \in Calls : call[c].for # "task"
             /\ UNCHANGED <<server, call, reply, collided, asked, cancels>>
             /\ mishaps' \in 0..MaxMishaps
  BY <1>0, <1>5, EndMoves DEF EndOptimized, PhaseMayEnd, Waiting, counters
<1>6. ASSUME Refused
      PROVE  /\ TaskMoves /\ (HostInv => HostInv')
             /\ \A c \in Calls : call[c].for # "task"
             /\ UNCHANGED <<server, call, reply, collided, asked, cancels>>
             /\ mishaps' \in 0..MaxMishaps
  BY <1>0, <1>6, RaisedMoves DEF Refused, Waiting, counters
<1> QED BY <1>1, <1>2, <1>3, <1>4, <1>5, <1>6 DEF Benchmarking

LEMMA TypedBenchmarking ==
    ASSUME Typed, Benchmarking
    PROVE  Typed'
  BY BenchmarkingMoves, TypedTask

\* The agent's calls set out.
LEMMA TypedPosts ==
    ASSUME Typed, NEW c \in Calls, PostEvent(c) \/ Report(c) \/ Post(c)
    PROVE  Typed'
<1>1. CASE PostEvent(c)
  <2>1. /\ Start(c, "event", "none", Head(agent.pending), "loop")
        /\ agent.at = "posting" /\ agent.pending # <<>>
        /\ \A d \in Calls : call[d].for # "loop"
        /\ UNCHANGED <<server, agent, reply, task, collided, counters>>
    BY <1>1 DEF PostEvent
  <2>2. Head(agent.pending) \in Settings \cup {"none"}
    <3>1. agent.pending \in Seq(Settings \cup {"none"})
      BY DEF Typed, TypeOK, Agent
    <3> QED BY <2>1, <3>1
  <2>3. call' \in [Calls -> Call] /\ Linked'
    BY <2>1, <2>2, LinkedStart DEF Ops
  <2> QED BY <2>1, <2>3 DEF server, counters, Typed, TypeOK
<1>2. CASE Report(c)
  <2>1. /\ Start(c, "event", "none", task.effect, "task")
        /\ task.at \in {"first", "cooling", "applying", "undone"}
        /\ \A d \in Calls : call[d].for # "task"
        /\ UNCHANGED <<server, agent, reply, task, collided, counters>>
    BY <1>2 DEF Report, Waiting
  <2>2. task.effect \in Settings \cup {"none"}
    BY DEF Typed, TypeOK, Task
  <2>3. task.at \in Reporting
    BY <2>1 DEF Reporting
  <2>4. call' \in [Calls -> Call] /\ Linked'
    BY <2>1, <2>2, <2>3, LinkedStart DEF Ops
  <2> QED BY <2>1, <2>4 DEF server, counters, Typed, TypeOK
<1>3. CASE Post(c)
  <2> DEFINE op == CASE task.at = "failing" -> "fail"
                     [] task.at = "completing" -> "complete"
                     [] OTHER -> "sample"
  <2>1. /\ Start(c, op, task.b, "none", "task")
        /\ task.at \in {"baseline", "optimized", "failing", "completing"}
        /\ \A d \in Calls : call[d].for # "task"
        /\ Accepts(bench[task.b])
        /\ UNCHANGED <<server, agent, reply, task, collided, counters>>
    BY <1>3 DEF Post, Waiting
  <2>2. \/ op = "fail" /\ task.at = "failing"
        \/ op = "complete" /\ task.at = "completing"
        \/ op = "sample" /\ task.at \in {"baseline", "optimized"}
    <3>1. CASE task.at = "failing"
      <4>1. op = "fail"
        BY <3>1, Zenon
      <4> QED BY <3>1, <4>1
    <3>2. CASE task.at = "completing"
      <4>1. op = "complete"
        BY <3>2, Zenon
      <4> QED BY <3>2, <4>1
    <3>3. CASE task.at \in {"baseline", "optimized"}
      <4>1. task.at # "failing" /\ task.at # "completing"
        BY <3>3
      <4>2. op = "sample"
        BY <4>1, Zenon
      <4> QED BY <3>3, <4>2
    <3> QED BY <2>1, <3>1, <3>2, <3>3
  <2>3. task.b \in Benchmarks /\ bench[task.b] \notin Terminal
    BY <2>1 DEF Accepts, Accepting, Terminal, Typed, Linked
  <2> HIDE DEF op
  <2>4. op \in Ops /\ op \notin {"profile", "simulate", "computing", "finish"}
    BY <2>2 DEF Ops
  <2>5. \/ task.at \in Reporting /\ op # "sample"
        \/ task.at \in {"baseline", "optimized"} /\ op = "sample"
    BY <2>2 DEF Reporting
  <2>6. call' \in [Calls -> Call] /\ Linked'
    BY <2>1, <2>3, <2>4, <2>5, LinkedStart
  <2> QED BY <2>1, <2>6 DEF server, counters, Typed, TypeOK
<1> QED BY <1>1, <1>2, <1>3

\* The gateway answers, whoever waits.
LEMMA AnswerIs ==
    ASSUME Typed, NEW c \in Calls, Answer(c)
    PROVE  /\ call' \in [Calls -> Call] /\ Linked'
           /\ Fits(agent') /\ agent'.strikes < Strikes /\ agent'.simulator = agent.simulator
           /\ agent'.at = agent.at /\ agent'.applied = agent.applied
           /\ task' \in Task
           /\ HostInv => HostInv'
<1>0. /\ call \in [Calls -> Call] /\ Fits(agent) /\ agent.strikes < Strikes /\ task \in Task
      /\ call[c].for \in {"nobody", "loop", "task"}
  BY DEF Typed, TypeOK, Fits, Call
<1>1. /\ call' \in [Calls -> Call] /\ call'[c] = NoCall
      /\ \A d \in Calls \ {c} : call'[d] = call[d]
  BY <1>0, EndIs DEF Answer
<1>2. NoCall.for = "nobody" /\ NoCall.op = "none"
  BY DEF NoCall
<1>3. CASE call[c].for = "loop"
  <2>1. agent' = [agent EXCEPT !.pending = Tail(@)] /\ task' = task
    BY <1>3, Zenon DEF Answer
  <2>2. /\ agent.pending \in Seq(Settings \cup {"none"}) /\ agent.pending # <<>>
        /\ agent.at = "posting" /\ Len(agent.pending) <= MaxPending
    BY <1>0, <1>3 DEF Typed, Linked, Fits, Agent
  <2> DEFINE rest == Tail(agent.pending)
  <2>3. rest \in Seq(Settings \cup {"none"}) /\ Len(rest) <= MaxPending
    <3>1. MaxPending \in Nat /\ Len(agent.pending) \in Nat
      BY <2>2, BoundsAssumption
    <3>2. rest \in Seq(Settings \cup {"none"}) /\ Len(rest) = Len(agent.pending) - 1
      BY <2>2
    <3> HIDE DEF rest
    <3> QED BY <2>2, <3>1, <3>2
  <2>4. agent' = [agent EXCEPT !.pending = rest]
    BY <2>1
  <2> HIDE DEF rest
  <2>5. /\ Fits(agent') /\ agent'.at = agent.at /\ agent'.simulator = agent.simulator
        /\ agent'.setting = agent.setting /\ agent'.file = agent.file
        /\ agent'.active = agent.active /\ agent'.applied = agent.applied
        /\ agent'.rolled = agent.rolled /\ agent'.strikes = agent.strikes
    BY <1>0, <2>3, <2>4 DEF Fits, Agent
  <2>6. \A d \in Calls : call'[d].for # "loop"
    BY <1>1, <1>2, <1>3 DEF Typed, Linked
  <2>7. \A d \in Calls : Paired(d)' /\ Reads(d)'
    BY <1>1, <1>2, <2>1, <2>5 DEF Typed, Linked, Paired, Reads
  <2>8. \A d \in Calls : call'[d].for # "nobody" => call'[d] = call[d]
    BY <1>1, <1>2
  <2>9. Linked'
    BY <2>1, <2>5, <2>6, <2>7, <2>8 DEF Typed, Linked
  <2>10. HostInv => HostInv'
    BY <2>1, <2>5 DEF HostInv, HostOK, Whole, Fair, Off
  <2> QED BY <1>0, <1>1, <2>1, <2>5, <2>9, <2>10
<1>4. CASE call[c].for = "task"
  <2>1. TaskMoves /\ (HostInv => HostInv')
    BY <1>4, AnsweredMoves
  <2>2. \A d \in Calls : call'[d].for # "task"
    BY <1>1, <1>2, <1>4 DEF Typed, Linked
  <2>3. \A d \in Calls : call'[d] = NoCall \/ call'[d] = call[d]
    BY <1>1
  <2>4. Linked'
    BY <2>1, <2>2, <2>3, LinkedTask
  <2>5. /\ Fits(agent') /\ agent'.strikes < Strikes /\ agent'.simulator = agent.simulator
        /\ agent'.at = agent.at /\ agent'.applied = agent.applied
    BY <1>0, <2>1 DEF TaskMoves, Moved, Fits
  <2> QED BY <1>1, <2>1, <2>4, <2>5 DEF TaskMoves
<1>5. CASE call[c].for = "nobody"
  <2>1. call[c].for # "loop" /\ call[c].for # "task"
    BY <1>5
  <2>2. agent' = agent /\ task' = task
    BY <2>1, Zenon DEF Answer
  <2>3. \A d \in Calls : call'[d] = NoCall \/ call'[d] = call[d]
    BY <1>1
  <2>4. Linked'
    BY <2>2, <2>3, LinkedEnds
  <2>5. HostInv => HostInv'
    BY <2>2 DEF HostInv
  <2> QED BY <1>0, <1>1, <2>2, <2>4, <2>5
<1> QED BY <1>0, <1>3, <1>4, <1>5

LEMMA TypedAnswers ==
    ASSUME Typed, NEW c \in Calls,
           CommitEvent(c) \/ (\E success \in BOOLEAN : CommitSample(c, success)) \/ CommitOutcome(c)
    PROVE  Typed' /\ (HostInv => HostInv')
<1>0. Answer(c)
  BY DEF CommitEvent, CommitSample, CommitOutcome
<1>1. /\ call' \in [Calls -> Call] /\ Linked'
      /\ Fits(agent') /\ agent'.strikes < Strikes
      /\ task' \in Task
      /\ HostInv => HostInv'
  BY <1>0, AnswerIs
<1>2. CASE CommitEvent(c)
  <2>1. limit' \in Settings
    <3>1. call[c].profile \in Settings \cup {"none"} /\ limit \in Settings
      BY DEF Typed, TypeOK, Call
    <3> QED BY <1>2, <3>1 DEF CommitEvent, Written
  <2>2. UNCHANGED <<desired, bench, job, reply, collided, asked, cancels, mishaps>>
    BY <1>2 DEF CommitEvent, counters
  <2> QED BY <1>1, <2>1, <2>2 DEF Fits, Typed, TypeOK
<1>3. CASE \E success \in BOOLEAN : CommitSample(c, success)
  <2>1. bench' \in [Benchmarks -> Statuses]
    BY <1>3 DEF CommitSample, Statuses, Typed, TypeOK
  <2>2. UNCHANGED <<desired, limit, job, reply, collided, asked, cancels, mishaps>>
    BY <1>3 DEF CommitSample, counters
  <2> QED BY <1>1, <2>1, <2>2 DEF Fits, Typed, TypeOK
<1>4. CASE CommitOutcome(c)
  <2>1. bench' \in [Benchmarks -> Statuses]
    BY <1>4 DEF CommitOutcome, Statuses, Typed, TypeOK
  <2>2. desired' \in Desired /\ collided' \in BOOLEAN
    BY <1>4, ObserveIs, DesireIs DEF CommitOutcome
  <2>3. UNCHANGED <<limit, job, reply, asked, cancels, mishaps>>
    BY <1>4 DEF CommitOutcome, counters
  <2> QED BY <1>1, <2>1, <2>2, <2>3 DEF Fits, Typed, TypeOK
<1> QED BY <1>2, <1>3, <1>4
-----------------------------------------------------------------------------
(* What goes wrong.                                                        *)

\* A handler ended, or one that nobody waits for any more, or one as it was.
Loosened(c) ==
    /\ call'[c].for \in {call[c].for, "nobody"}
    /\ \/ call'[c].op = "none" /\ call'[c].for = "nobody"
       \/ /\ call'[c].op = call[c].op /\ call'[c].b = call[c].b
          /\ call'[c].read = call[c].read /\ call'[c].profile = call[c].profile

LEMMA LinkedForsaken ==
    ASSUME Typed, \A c \in Calls : Loosened(c),
           \/ UNCHANGED <<agent, task>>
           \/ TaskMoves /\ \A c \in Calls : call'[c].for # "task"
           \/ /\ task' = task /\ agent' = [agent EXCEPT !.at = "ready"]
              /\ \A c \in Calls : call'[c].for # "loop"
    PROVE  Linked'
<1>0. agent \in Agent
  BY DEF Typed, TypeOK
<1>1. \A c \in Calls : call'[c].for # "nobody" => call'[c].for = call[c].for
  BY DEF Loosened
<1>2. \A c, d \in Calls : call'[c].for # "nobody" /\ call'[d].for = call'[c].for => c = d
  BY <1>1 DEF Typed, Linked
<1>3. CASE UNCHANGED <<agent, task>>
  <2>1. \A c \in Calls : Paired(c)' /\ Reads(c)'
    BY <1>3 DEF Typed, Linked, Paired, Reads, Loosened
  <2>2. \A c \in Calls : call'[c].for = "loop" => agent'.at = "posting" /\ agent'.pending # <<>>
    BY <1>1, <1>3 DEF Typed, Linked
  <2>3. /\ task'.at \notin {"none", "done"} => task'.b \in Benchmarks
        /\ agent'.at = "down" => task'.at = "none"
    BY <1>3 DEF Typed, Linked
  <2> QED BY <1>2, <2>1, <2>2, <2>3 DEF Linked
<1>4. CASE TaskMoves /\ \A c \in Calls : call'[c].for # "task"
  <2>1. \A c \in Calls : Paired(c)' /\ Reads(c)'
    BY <1>4 DEF Typed, Linked, Paired, Reads, Loosened, TaskMoves, Moved
  <2>2. task'.b \in Benchmarks /\ agent'.at # "down"
    BY <1>4 DEF Typed, Linked, TaskMoves, Moved
  <2>3. \A d \in Calls : call'[d].for = "loop" => agent'.at = "posting" /\ agent'.pending # <<>>
    BY <1>1, <1>4 DEF Typed, Linked, TaskMoves, Moved
  <2> QED BY <1>2, <2>1, <2>2, <2>3 DEF Linked
<1>5. CASE /\ task' = task /\ agent' = [agent EXCEPT !.at = "ready"]
           /\ \A c \in Calls : call'[c].for # "loop"
  <2>1. agent'.at = "ready" /\ agent'.simulator = agent.simulator
    BY <1>0, <1>5 DEF Agent
  <2>2. \A c \in Calls : Paired(c)' /\ Reads(c)'
    BY <1>5, <2>1 DEF Typed, Linked, Paired, Reads, Loosened
  <2>3. task'.at \notin {"none", "done"} => task'.b \in Benchmarks
    BY <1>5 DEF Typed, Linked
  <2> QED BY <1>2, <1>5, <2>1, <2>2, <2>3 DEF Linked
<1> QED BY <1>3, <1>4, <1>5

LEMMA AbandonIs ==
    ASSUME Typed, NEW c \in Calls, NEW lost \in BOOLEAN, NEW retries \in BOOLEAN,
           Abandon(c, lost, retries)
    PROVE  /\ Typed' /\ (HostInv => HostInv')
<1>0. /\ call \in [Calls -> Call] /\ Fits(agent) /\ agent.strikes < Strikes /\ task \in Task
      /\ call[c].for \in {"loop", "task"}
  BY DEF Abandon, Typed, TypeOK, Fits, Call
<1>1. /\ call' \in [Calls -> Call] /\ call'[c].for = "nobody"
      /\ \A d \in Calls : Loosened(d)
  <2>1. CASE lost
    <3>1. call' = [call EXCEPT ![c] = NoCall]
      BY <2>1 DEF Abandon
    <3>2. NoCall.op = "none" /\ NoCall.for = "nobody" /\ NoCall \in Call
      BY ObserveIs DEF NoCall
    <3> QED BY <1>0, <3>1, <3>2 DEF Loosened
  <2>2. CASE ~lost
    <3>1. call' = Forsaken({c})
      BY <2>2 DEF Abandon
    <3> QED BY <1>0, <3>1, ForsakenIs DEF Loosened
  <2> QED BY <2>1, <2>2
<1>2. mishaps' \in 0..MaxMishaps /\ UNCHANGED <<server, reply, collided, asked, cancels>>
  BY BoundsAssumption DEF Abandon, Mishap, Typed, TypeOK
<1>3. \A d \in Calls : call[d].for = call[c].for => call'[d].for = "nobody"
  BY <1>0, <1>1 DEF Typed, Linked
<1>4. Linked' /\ Fits(agent') /\ agent'.strikes < Strikes /\ task' \in Task
      /\ (HostInv => HostInv')
  <2>1. CASE call[c].for = "loop"
    <3>1. agent' = [agent EXCEPT !.at = "ready"] /\ task' = task
      BY <2>1 DEF Abandon
    <3>2. \A d \in Calls : call'[d].for # "loop"
      BY <1>1, <1>3, <2>1 DEF Loosened
    <3>3. Linked'
      BY <1>1, <3>1, <3>2, LinkedForsaken
    <3>4. /\ Fits(agent') /\ agent'.at = "ready" /\ agent'.strikes = agent.strikes
          /\ agent'.setting = agent.setting /\ agent'.file = agent.file
          /\ agent'.active = agent.active /\ agent'.applied = agent.applied
          /\ agent'.rolled = agent.rolled
      BY <1>0, <3>1 DEF Fits, Agent
    <3>5. agent.at # "down"
      BY <2>1 DEF Typed, Linked
    <3>6. HostInv => HostInv'
      BY <3>1, <3>4, <3>5 DEF HostInv, HostOK, Whole, Fair, Off
    <3> QED BY <1>0, <3>1, <3>3, <3>4, <3>6
  <2>2. CASE call[c].for = "task" /\ retries
    <3>1. UNCHANGED <<agent, task>>
      BY <2>2 DEF Abandon
    <3>2. Linked'
      BY <1>1, <3>1, LinkedForsaken
    <3> QED BY <1>0, <3>1, <3>2 DEF HostInv
  <2>3. CASE call[c].for = "task" /\ ~retries
    <3>1. task' = Raised(task) /\ agent' = agent
      BY <2>3 DEF Abandon
    <3>2. task.at \notin {"none", "done", "undoing"}
      BY <2>3 DEF Typed, Linked, Paired, Reporting
    <3>3. TaskMoves /\ (HostInv => HostInv')
      BY <3>1, <3>2, RaisedMoves
    <3>4. \A d \in Calls : call'[d].for # "task"
      BY <1>1, <1>3, <2>3 DEF Loosened
    <3>5. Linked'
      BY <1>1, <3>3, <3>4, LinkedForsaken
    <3> QED BY <1>0, <3>1, <3>3, <3>5 DEF TaskMoves
  <2> QED BY <1>0, <2>1, <2>2, <2>3
<1>5. TypeOK'
  BY <1>1, <1>2, <1>4 DEF server, Fits, Typed, TypeOK
<1> QED BY <1>4, <1>5 DEF Typed

LEMMA TypedFaulty ==
    ASSUME Typed, Faulty
    PROVE  Typed'
<1>0. mishaps' \in 0..MaxMishaps
  <2>1. mishaps \in 0..MaxMishaps
    BY DEF Typed, TypeOK
  <2>2. Mishap
    BY DEF Faulty, LoseHeartbeat, Crash, HealthRollback, WorkerDies, Abandon, DropJob
  <2> QED BY <2>1, <2>2, BoundsAssumption DEF Mishap
<1>1. ASSUME NEW late \in BOOLEAN, NEW passed \in BOOLEAN, LoseHeartbeat(late, passed)
      PROVE  Typed'
  <2>1. /\ Fits(agent') /\ agent'.strikes = agent.strikes
        /\ agent.at \in {"ready", "replied"} /\ agent'.at = "ready"
        /\ agent'.simulator = agent.simulator
        /\ task' \in Task /\ task'.at = task.at /\ task'.b = task.b
    BY <1>1, HeartbeatLost
  <2>2. reply' = NoReply /\ UNCHANGED <<server, call, collided, asked, cancels>>
    BY <1>1 DEF LoseHeartbeat
  <2>3. Linked'
    BY <2>1, <2>2, LinkedLoop DEF Fits, Typed, Linked
  <2>4. TypeOK'
    BY <1>0, <2>1, <2>2, ObserveIs DEF Fits, server, Typed, TypeOK
  <2> QED BY <2>3, <2>4 DEF Typed
<1>2. ASSUME NEW passed \in BOOLEAN, HealthRollback(passed)
      PROVE  Typed'
  <2>1. /\ Fits(agent') /\ agent'.strikes = agent.strikes
        /\ agent.at = "ready" /\ agent'.at = "ready"
        /\ agent'.simulator = agent.simulator
        /\ task' \in Task /\ task'.at = task.at /\ task'.b = task.b
    BY <1>2, HealthIs
  <2>2. UNCHANGED <<server, call, reply, collided, asked, cancels>>
    BY <1>2 DEF HealthRollback
  <2>3. Linked'
    BY <2>1, <2>2, LinkedLoop DEF Fits, Typed, Linked
  <2>4. TypeOK'
    BY <1>0, <2>1, <2>2 DEF Fits, server, Typed, TypeOK
  <2> QED BY <2>3, <2>4 DEF Typed
<1>3. ASSUME NEW restores \in BOOLEAN, NEW passed \in BOOLEAN, Crash(restores, passed)
      PROVE  Typed'
  <2>1. /\ Fits(agent') /\ agent'.strikes = agent.strikes
        /\ agent'.at = "down" /\ agent'.simulator = agent.simulator
    BY <1>3, CrashIs
  <2>2. /\ reply' = NoReply /\ task' = NoTask /\ task'.at = "none"
        /\ UNCHANGED <<server, collided, asked, cancels>>
    BY <1>3 DEF Crash, NoTask
  <2> DEFINE waited == {c \in Calls : call[c].for # "nobody"}
  <2>3. call' = Forsaken(waited) /\ call \in [Calls -> Call]
    BY <1>3 DEF Crash, Typed, TypeOK
  <2>4. \A c \in Calls : c \notin waited => call[c].for = "nobody"
    OBVIOUS
  <2> HIDE DEF waited
  <2>5. /\ call' \in [Calls -> Call]
        /\ \A c \in Calls : call'[c].for = "nobody" /\ Loosened(c)
    BY <2>3, <2>4, ForsakenIs DEF Loosened
  <2>6. \A c \in Calls : Paired(c)' /\ Reads(c)'
    BY <2>1, <2>5 DEF Typed, Linked, Paired, Reads, Loosened
  <2>7. Linked'
    BY <2>2, <2>5, <2>6 DEF Linked
  <2>8. TypeOK'
    BY <1>0, <2>1, <2>2, <2>5, ObserveIs DEF Fits, server, Typed, TypeOK
  <2> QED BY <2>7, <2>8 DEF Typed
<1> QED BY <1>1, <1>2, <1>3, AbandonIs, TypedWorker, TypedJobs DEF Faulty

LEMMA TypedInit == Init => Typed
<1> SUFFICES ASSUME Init PROVE Typed
  OBVIOUS
<1>0. /\ bench = [b \in Benchmarks |-> "absent"] /\ job = [b \in Benchmarks |-> "none"]
      /\ call = [c \in Calls |-> NoCall] /\ limit = "observe"
      /\ reply = NoReply /\ task = NoTask /\ collided = FALSE
      /\ asked = 0 /\ cancels = 0 /\ mishaps = 0
  BY DEF Init
<1>1. desired \in Desired
  BY DEF Init, Desired, Settings
<1>2. /\ agent \in Agent /\ Len(agent.pending) <= MaxPending /\ agent.strikes < Strikes
      /\ agent.at = "down"
  <2>1. PICK simulator \in BOOLEAN :
          agent = [at |-> "down", simulator |-> simulator, setting |-> "observe", file |-> FALSE,
                   active |-> "observe", applied |-> 0, strikes |-> 0, pending |-> <<>>,
                   rolled |-> 0, broken |-> FALSE]
    BY DEF Init
  <2>2. <<>> \in Seq(Settings \cup {"none"}) /\ Len(<<>>) = 0
    OBVIOUS
  <2> QED BY <2>1, <2>2, ObserveIs, BoundsAssumption DEF Agent
<1>3. /\ bench \in [Benchmarks -> Statuses]
      /\ job \in [Benchmarks -> {"none", "owed", "queued", "running", "cancelled",
                                 "completed", "lost"}]
      /\ call \in [Calls -> Call]
  BY <1>0, ObserveIs DEF Statuses
<1>5. asked \in 0..MaxAsked /\ cancels \in 0..MaxCancels /\ mishaps \in 0..MaxMishaps
  BY <1>0, BoundsAssumption
<1>6. limit \in Settings /\ reply \in Reply /\ task \in Task /\ collided \in BOOLEAN
  BY <1>0, ObserveIs
<1>7. TypeOK
  BY <1>1, <1>2, <1>3, <1>5, <1>6 DEF TypeOK
<1>4. Linked
  BY <1>0 DEF Linked, Paired, Reads, NoCall, NoTask
<1> QED BY <1>4, <1>7 DEF Typed

LEMMA TypedStep == Typed /\ [Next]_vars => Typed'
<1> SUFFICES ASSUME Typed, [Next]_vars PROVE Typed'
  OBVIOUS
<1>1. ASSUME NEW c \in Calls, Handled(c)
      PROVE  Typed'
  BY <1>1, TypedOperators, TypedWorker, TypedAnswers DEF Handled
<1>2. CASE UNCHANGED vars
  BY <1>2 DEF vars, server, counters, Typed, TypeOK, Linked, Paired, Reads
<1> QED BY <1>1, <1>2, TypedJobs, TypedRequested, TypedWorker, TypedPosts, TypedLoop,
           TypedBenchmarking, TypedFaulty DEF Next

\* The variables keep their types: the agent's queue of events within its bound,
\* the strikes below the number that makes it roll back, the counters of the
\* model within theirs.
THEOREM TypeCorrect == Spec => []TypeOK
<1>1. Typed => TypeOK
  BY DEF Typed
<1> QED BY <1>1, TypedInit, TypedStep, PTL DEF Spec
-----------------------------------------------------------------------------
(* The host.                                                               *)

LEMMA HostLoop ==
    ASSUME Typed, HostInv, Loop
    PROVE  HostInv'
<1>0. /\ task \in Task /\ agent \in Agent /\ reply \in Reply
      /\ Whole(agent) /\ (task.disturbed \/ Fair(agent, task)) /\ Off(agent, task)
      /\ agent.at = "down" => task.at = "none"
  BY DEF Typed, TypeOK, Linked, HostInv, HostOK
<1>1. ASSUME NEW passed \in BOOLEAN, Register(passed)
      PROVE  HostInv'
  <2>1. /\ agent.at = "down" /\ agent'.active = "observe" /\ agent'.applied = 0
        /\ agent'.rolled = 0 /\ Whole(agent') /\ task' = task
    BY <1>0, <1>1, RegisterIs DEF Register
  <2> QED BY <1>0, <2>1 DEF HostInv, HostOK, Fair, Off
<1>2. ASSUME Reap
      PROVE  HostInv'
  <2>1. task' = NoTask /\ agent' = agent /\ task.at = "done" /\ NoTask.at = "none"
    BY <1>2 DEF Reap, NoTask
  <2>2. Whole(agent')
    BY <1>0, <2>1
  <2>3. Fair(agent', task')
    BY <2>1 DEF Fair
  <2>4. Off(agent', task')
    BY <1>0, <2>1 DEF Off
  <2> QED BY <2>2, <2>3, <2>4 DEF HostInv, HostOK
<1>3. ASSUME Heartbeat \/ AllPosted
      PROVE  HostInv'
  <2>1. /\ agent.at # "down" /\ task' = task
        /\ \/ agent' = [agent EXCEPT !.at = "replied"]
           \/ agent' = [agent EXCEPT !.at = "ready"]
    BY <1>3 DEF Heartbeat, AllPosted
  <2>2. /\ agent'.setting = agent.setting /\ agent'.file = agent.file
        /\ agent'.active = agent.active /\ agent'.applied = agent.applied
        /\ agent'.rolled = agent.rolled
    BY <1>0, <2>1 DEF Agent
  <2> QED BY <1>0, <2>1, <2>2 DEF HostInv, HostOK, Whole, Fair, Off
<1>4. ASSUME NEW passed \in BOOLEAN, NEW undone \in BOOLEAN, NEW outside \in BOOLEAN,
             Handle(passed, outside, undone)
      PROVE  HostInv'
  <2>1. /\ agent' \in Agent /\ agent.at = "replied" /\ Whole(agent') /\ Follows
    BY <1>0, <1>4, HandleIs DEF Fits
  <2>2. \/ task' = task
        \/ /\ task.at = "none"
           /\ task' = [NoTask EXCEPT !.at = "starting", !.b = reply.b]
    BY <1>4 DEF Handle, Busy
  <2>3. task' = task \/ (task.at = "none" /\ task'.at = "starting")
    BY <2>2 DEF NoTask
  <2>4. agent.rolled \in Nat /\ agent.applied \in Nat /\ reply.version \in Nat
    BY <1>0 DEF Agent, Reply
  <2>5. task'.disturbed \/ Fair(agent', task')
    <3>1. CASE task' = task /\ task.at # "none"
      <4>1. agent'.active = agent.active /\ agent'.setting = agent.setting
        BY <2>1, <3>1 DEF Follows, Busy
      <4> QED BY <1>0, <3>1, <4>1 DEF Fair
    <3>2. CASE task.at = "none"
      BY <2>3, <3>2 DEF Fair
    <3> QED BY <2>3, <3>1, <3>2
  <2>6. Off(agent', task')
    <3>1. CASE agent'.active = agent.active /\ agent'.applied = agent.applied
               /\ agent'.rolled = agent.rolled
      BY <1>0, <2>1, <2>3, <2>4, <3>1 DEF Off
    <3>2. CASE agent.applied < reply.version /\ agent'.applied = reply.version
               /\ agent'.rolled = agent.rolled
      BY <1>0, <2>4, <3>2 DEF Off
    <3>3. CASE agent'.active = "observe" /\ agent'.rolled = agent'.applied
      <4>1. agent'.applied \in Nat
        BY <2>1 DEF Agent
      <4> QED BY <3>3, <4>1 DEF Off
    <3> QED BY <2>1, <3>1, <3>2, <3>3 DEF Follows
  <2> QED BY <2>1, <2>5, <2>6 DEF HostInv, HostOK
<1> QED BY <1>1, <1>2, <1>3, <1>4 DEF Loop, Verdicts

\* The agent's own rollbacks, and the end of its process.
LEMMA HostFaulty ==
    ASSUME Typed, HostInv, Faulty
    PROVE  HostInv'
<1>0. /\ task \in Task /\ agent \in Agent
      /\ Whole(agent) /\ (task.disturbed \/ Fair(agent, task)) /\ Off(agent, task)
      /\ agent.rolled <= agent.applied
      /\ agent.applied \in Nat /\ agent.rolled \in Nat
  BY DEF Typed, TypeOK, Agent, HostInv, HostOK, Off
<1>1. ASSUME NEW late \in BOOLEAN, NEW passed \in BOOLEAN, LoseHeartbeat(late, passed)
      PROVE  HostInv'
  <2>1. /\ Whole(agent') /\ agent.at \in {"ready", "replied"}
        /\ agent'.applied = agent.applied /\ task'.at = task.at
        /\ \/ /\ agent'.active = agent.active /\ agent'.setting = agent.setting
              /\ agent'.rolled = agent.rolled /\ task' = task
           \/ /\ agent'.active = "observe" /\ agent'.rolled = agent.applied
              /\ task.at # "none" => task'.disturbed
    BY <1>0, <1>1, HeartbeatLost
  <2>2. CASE /\ agent'.active = agent.active /\ agent'.setting = agent.setting
             /\ agent'.rolled = agent.rolled /\ task' = task
    BY <1>0, <2>1, <2>2 DEF HostInv, HostOK, Fair, Off
  <2>3. CASE /\ agent'.active = "observe" /\ agent'.rolled = agent.applied
             /\ task.at # "none" => task'.disturbed
    BY <1>0, <2>1, <2>3 DEF HostInv, HostOK, Fair, Off
  <2> QED BY <2>1, <2>2, <2>3
<1>2. ASSUME NEW passed \in BOOLEAN, HealthRollback(passed)
      PROVE  HostInv'
  <2>1. /\ Whole(agent') /\ agent'.active = "observe" /\ agent'.applied = agent.applied
        /\ agent'.rolled = IF agent.active = "observe" THEN agent.rolled ELSE agent.applied
        /\ task'.at = task.at /\ (task.at # "none" => task'.disturbed)
    BY <1>0, <1>2, HealthIs
  <2>2. agent'.rolled <= agent'.applied
    BY <1>0, <2>1
  <2> QED BY <2>1, <2>2 DEF HostInv, HostOK, Fair, Off
<1>3. ASSUME NEW restores \in BOOLEAN, NEW passed \in BOOLEAN, Crash(restores, passed)
      PROVE  HostInv'
  <2>1. /\ Whole(agent') /\ agent'.at = "down" /\ agent'.applied = agent.applied
        /\ agent'.rolled = agent.rolled
    BY <1>0, <1>3, CrashIs
  <2>2. task' = NoTask /\ task'.at = "none"
    BY <1>3 DEF Crash, NoTask
  <2> QED BY <1>0, <2>1, <2>2 DEF HostInv, HostOK, Fair, Off
<1>4. ASSUME NEW c \in Calls, WorkerDies(c)
      PROVE  HostInv'
  BY <1>4 DEF WorkerDies, HostInv
<1>5. ASSUME NEW b \in Benchmarks, DropJob(b)
      PROVE  HostInv'
  BY <1>5 DEF DropJob, HostInv
<1> QED BY <1>1, <1>2, <1>3, <1>4, <1>5, AbandonIs DEF Faulty

LEMMA HostInit == Init => HostInv
<1> SUFFICES ASSUME Init PROVE HostInv
  OBVIOUS
<1>1. PICK simulator \in BOOLEAN :
        agent = [at |-> "down", simulator |-> simulator, setting |-> "observe", file |-> FALSE,
                 active |-> "observe", applied |-> 0, strikes |-> 0, pending |-> <<>>,
                 rolled |-> 0, broken |-> FALSE]
  BY DEF Init
<1>2. task.at = "none"
  BY DEF Init, NoTask
<1> QED BY <1>1, <1>2 DEF HostInv, HostOK, Whole, Fair, Off

LEMMA HostStep == Typed /\ HostInv /\ [Next]_vars => HostInv'
<1> SUFFICES ASSUME Typed, HostInv, [Next]_vars PROVE HostInv'
  OBVIOUS
<1>1. ASSUME UNCHANGED <<agent, task>>
      PROVE  HostInv'
  BY <1>1 DEF HostInv
<1>2. ASSUME NEW c \in Calls, Requested(c)
      PROVE  HostInv'
  BY <1>1, <1>2 DEF Requested, AskProfile, AskCancel
<1>3. ASSUME NEW c \in Calls, Handled(c)
      PROVE  HostInv'
  <2>1. CASE \/ CommitProfile(c) \/ CommitCancel(c) \/ CommitAssign(c) \/ CommitSimulate(c)
             \/ ReadResult(c) \/ CommitResult(c)
    BY <1>1, <2>1 DEF CommitProfile, CommitCancel, CommitAssign, CommitSimulate, ReadResult,
                      CommitResult
  <2>2. CASE CommitEvent(c) \/ (\E success \in BOOLEAN : CommitSample(c, success))
             \/ CommitOutcome(c)
    BY <2>2, TypedAnswers
  <2> QED BY <1>3, <2>1, <2>2 DEF Handled
<1>4. ASSUME NEW c \in Calls,
             PostEvent(c) \/ Report(c) \/ Post(c) \/ \E b \in Benchmarks : TakeJob(c, b)
      PROVE  HostInv'
  BY <1>1, <1>4 DEF PostEvent, Report, Post, TakeJob
<1>5. ASSUME NEW b \in Benchmarks, Create(b) \/ EnqueueJob(b)
      PROVE  HostInv'
  BY <1>1, <1>5 DEF Create, EnqueueJob
<1>6. CASE UNCHANGED vars
  BY <1>1, <1>6 DEF vars
<1> QED BY <1>2, <1>3, <1>4, <1>5, <1>6, HostLoop, BenchmarkingMoves, HostFaulty DEF Next

\* What a benchmark compares is what it says: its baseline is measured on the
\* host as it was, its other phase under its profile, unless the agent restored
\* the host under the task, or could not.
THEOREM Comparison == Spec => []ComparisonIsFair
<1>1. HostInv => ComparisonIsFair
  BY DEF HostInv, HostOK, Fair, ComparisonIsFair
<1> QED BY <1>1, TypedInit, TypedStep, HostInit, HostStep, PTL DEF Spec

\* A version of a profile that the agent has rolled back by itself is not
\* applied again, as long as the agent is not restarted.
THEOREM StaysOff == Spec => []RolledBackStaysOff
<1>1. Typed /\ HostInv => RolledBackStaysOff
  BY DEF HostInv, HostOK, Off, RolledBackStaysOff, Typed, TypeOK, Agent
<1> QED BY <1>1, TypedInit, TypedStep, HostInit, HostStep, PTL DEF Spec
-----------------------------------------------------------------------------
(* The benchmarks.                                                         *)

\* Which steps change the status of a benchmark.
LEMMA BenchChanges ==
    ASSUME Typed, [Next]_vars, bench' # bench
    PROVE  \/ \E b \in Benchmarks : Create(b)
           \/ \E c \in Calls : \/ CommitCancel(c) \/ CommitAssign(c) \/ CommitSimulate(c)
                               \/ CommitResult(c) \/ CommitOutcome(c)
                               \/ \E success \in BOOLEAN : CommitSample(c, success)
<1>1. /\ ~UNCHANGED vars
      /\ \A c \in Calls : /\ ~Requested(c) /\ ~CommitProfile(c) /\ ~ReadResult(c)
                          /\ ~CommitEvent(c)
                          /\ ~PostEvent(c) /\ ~Report(c) /\ ~Post(c)
      /\ \A b \in Benchmarks, c \in Calls : ~TakeJob(c, b)
      /\ \A b \in Benchmarks : ~EnqueueJob(b)
  BY DEF vars, server, Requested, AskProfile, AskCancel, CommitProfile, ReadResult, CommitEvent,
         PostEvent, Report, Post, TakeJob, EnqueueJob
<1>2. ~Loop
  BY DEF server, Loop, Register, Reap, Heartbeat, AllPosted, Handle
<1>3. ~Benchmarking
  BY BenchmarkingMoves DEF server
<1>4. ~Faulty
  BY DEF server, Faulty, LoseHeartbeat, Crash, HealthRollback, WorkerDies, Abandon, DropJob
<1> QED BY <1>1, <1>2, <1>3, <1>4 DEF Next, Handled

LEMMA EndChanges ==
    ASSUME Typed, NEW c \in Calls, End(c), call[c].op # "none"
    PROVE  call' # call
<1>1. call'[c] = NoCall /\ NoCall.op = "none"
  BY EndIs DEF Typed, TypeOK, NoCall
<1> QED BY <1>1

LEMMA FinalStep ==
    ASSUME Typed, [Next]_vars, NEW b \in Benchmarks, bench[b] \in Terminal,
           bench'[b] # bench[b], ~agent.simulator
    PROVE  \E c \in Calls : call[c].b = b /\ call[c].read \notin Terminal /\ call' # call
<1>0. bench \in [Benchmarks -> Statuses]
  BY DEF Typed, TypeOK
<1>1. ASSUME NEW d \in Benchmarks, Create(d)
      PROVE  FALSE
  BY <1>0, <1>1 DEF Create, Terminal
<1>2. ASSUME NEW c \in Calls, CommitCancel(c)
      PROVE  call[c].b = b /\ call[c].read \notin Terminal /\ call' # call
  BY <1>0, <1>2, EndChanges DEF CommitCancel, Typed, Linked, Reads
<1>3. ASSUME NEW c \in Calls, CommitAssign(c)
      PROVE  call[c].b = b /\ call[c].read \notin Terminal /\ call' # call
  <2>1. call[c].op = "assign" /\ End(c)
        /\ bench' = [bench EXCEPT ![call[c].b] = IF call[c].read = "queued" THEN "assigned" ELSE @]
    BY <1>3 DEF CommitAssign
  <2>2. call[c].b = b /\ call[c].read = "queued"
    BY <1>0, <2>1
  <2> QED BY <2>1, <2>2, EndChanges DEF Terminal
<1>4. ASSUME NEW c \in Calls, CommitSimulate(c) \/ CommitResult(c)
      PROVE  FALSE
  BY <1>4 DEF CommitSimulate, CommitResult, Typed, Linked, Reads
<1>5. ASSUME NEW c \in Calls, CommitOutcome(c)
      PROVE  call[c].b = b /\ call[c].read \notin Terminal /\ call' # call
  <2>1. /\ call[c].op \in {"complete", "fail"} /\ End(c) /\ call[c].read \notin Terminal
        /\ \A d \in Benchmarks : d # call[c].b => bench'[d] = bench[d]
    BY <1>0, <1>5 DEF CommitOutcome, Answer, Typed, Linked, Reads
  <2> QED BY <2>1, EndChanges
<1>6. ASSUME NEW c \in Calls, NEW success \in BOOLEAN, CommitSample(c, success)
      PROVE  call[c].b = b /\ call[c].read \notin Terminal /\ call' # call
  <2>1. /\ call[c].op = "sample" /\ End(c) /\ call[c].read \notin Terminal
        /\ \A d \in Benchmarks : d # call[c].b => bench'[d] = bench[d]
    BY <1>0, <1>6 DEF CommitSample, Answer, Typed, Linked, Reads
  <2> QED BY <2>1, EndChanges
<1> QED BY <1>1, <1>2, <1>3, <1>4, <1>5, <1>6, BenchChanges

\* Nothing is changed of a real agent's benchmark that is over, unless by a
\* handler that read its status before it was: the handlers look at the status
\* once, before they wait for the model, and do not look again.
THEOREM Finality == Spec => TerminalIsFinal
<1>1. Typed /\ [Next]_vars =>
        [\A b \in Benchmarks : bench[b] \in Terminal /\ bench'[b] # bench[b] /\ ~agent.simulator =>
            \E c \in Calls : call[c].b = b /\ call[c].read \notin Terminal /\ call' # call]_vars
  BY FinalStep
<1> QED BY <1>1, TypedInit, TypedStep, PTL DEF Spec, TerminalIsFinal
-----------------------------------------------------------------------------
(* What the agent has applied, as long as no two requests took one version. *)

\* The agent has no version that was not asked for, nor has its answer.
Ordered ==
    /\ 1 <= desired.version /\ agent.applied <= desired.version
    /\ agent.at = "replied" =>
         /\ reply.version <= desired.version
         /\ reply.version = desired.version => reply.profile = desired.profile

\* A benchmark that was offered, or has its task, is under way, or there is a
\* version to be applied: who ends a benchmark asks for another profile.
Covered ==
    /\ agent.at = "replied" /\ reply.b # "none" =>
         \/ bench[reply.b] \in Accepting
         \/ reply.version < desired.version /\ agent.applied < desired.version
    /\ task.at \notin {"none", "done"} =>
         bench[task.b] \in Accepting \/ agent.applied < desired.version

Settled ==
    /\ agent.at # "down" /\ agent.applied = desired.version /\ agent.applied # agent.rolled
    /\ ~agent.broken
    /\ \A b \in Benchmarks : bench[b] \notin Accepting
    => agent.active = desired.profile /\ agent.setting = desired.profile

ObeyInv == ~collided => Ordered /\ Covered /\ Settled

Proceeds == \A b \in Benchmarks : bench[b] \in Accepting => bench'[b] \in Accepting

\* A step that leaves the agent with the version it has.
LEMMA ObeyKept ==
    ASSUME Typed, ObeyInv, Proceeds, UNCHANGED <<desired, collided>>,
           agent'.applied = agent.applied,
           agent'.at = "replied" => agent.at = "replied" /\ reply' = reply,
           task'.at \notin {"none", "done"} =>
               task.at \notin {"none", "done"} /\ task'.b = task.b,
           \/ agent'.at = "down"
           \/ agent'.rolled = agent.applied
           \/ /\ agent.at # "down" /\ agent'.active = agent.active
              /\ agent'.rolled = agent.rolled /\ (agent.broken => agent'.broken)
              /\ \/ agent'.setting = agent.setting \/ agent'.broken
                 \/ agent.active = "observe" /\ agent'.setting = "observe"
    PROVE  ObeyInv'
<1> SUFFICES ASSUME ~collided' PROVE (Ordered /\ Covered /\ Settled)'
  BY DEF ObeyInv
<1>1. Ordered /\ Covered /\ Settled
  BY DEF ObeyInv
<1>2. /\ reply.b \in Benchmarks \cup {"none"}
      /\ task.at \notin {"none", "done"} => task.b \in Benchmarks
  BY DEF Typed, TypeOK, Linked, Reply
<1>3. Ordered'
  BY <1>1 DEF Ordered
<1>4. Covered'
  <2>1. agent'.at = "replied" /\ reply'.b # "none" =>
          \/ bench'[reply'.b] \in Accepting
          \/ reply'.version < desired'.version /\ agent'.applied < desired'.version
    BY <1>1, <1>2 DEF Covered, Proceeds
  <2>2. task'.at \notin {"none", "done"} =>
          bench'[task'.b] \in Accepting \/ agent'.applied < desired'.version
    BY <1>1, <1>2 DEF Covered, Proceeds
  <2> QED BY <2>1, <2>2 DEF Covered
<1>5. Settled'
  BY <1>1 DEF Settled, Proceeds
<1> QED BY <1>3, <1>4, <1>5

\* A step that asks for another profile.
LEMMA ObeyDesired ==
    ASSUME Typed, ObeyInv, ~collided' => ~collided /\ desired'.version = desired.version + 1,
           agent'.applied = agent.applied,
           agent'.at = "replied" => agent.at = "replied" /\ reply' = reply
    PROVE  ObeyInv'
<1> SUFFICES ASSUME ~collided' PROVE (Ordered /\ Covered /\ Settled)'
  BY DEF ObeyInv
<1>1. Ordered /\ desired'.version = desired.version + 1
  BY DEF ObeyInv
<1>2. desired.version \in Nat /\ agent.applied \in Nat /\ reply.version \in Nat
  BY DEF Typed, TypeOK, Desired, Agent, Reply
<1>3. /\ agent'.applied < desired'.version /\ 1 <= desired'.version
      /\ agent'.at = "replied" => reply'.version < desired'.version
  BY <1>1, <1>2 DEF Ordered
<1>4. agent'.applied \in Nat /\ desired'.version \in Nat
      /\ (agent'.at = "replied" => reply'.version \in Nat)
  BY <1>1, <1>2
<1>5. Ordered'
  BY <1>3, <1>4 DEF Ordered
<1>6. Covered'
  BY <1>3 DEF Covered
<1>7. Settled'
  BY <1>3, <1>4 DEF Settled
<1> QED BY <1>5, <1>6, <1>7

\* A step of the task: its benchmark is under way, or there is a version to be
\* applied.
LEMMA ObeyTask ==
    ASSUME Typed, ObeyInv, TaskMoves, Proceeds, UNCHANGED <<desired, collided, reply>>
    PROVE  ObeyInv'
<1> SUFFICES ASSUME ~collided' PROVE (Ordered /\ Covered /\ Settled)'
  BY DEF ObeyInv
<1>1. Ordered /\ Covered
  BY DEF ObeyInv
<1>2. /\ agent'.at = agent.at /\ agent'.applied = agent.applied /\ task'.b = task.b
      /\ task.at \notin {"none", "done"} /\ task.b \in Benchmarks
      /\ reply.b \in Benchmarks \cup {"none"}
      /\ desired.version \in Nat /\ agent.applied \in Nat
  BY DEF TaskMoves, Moved, Typed, TypeOK, Linked, Reply, Desired, Agent
<1>3. Ordered'
  BY <1>1, <1>2 DEF Ordered
<1>4. bench'[task.b] \in Accepting \/ agent'.applied < desired'.version
  BY <1>1, <1>2 DEF Covered, Proceeds
<1>5. Covered'
  BY <1>1, <1>2, <1>4 DEF Covered, Proceeds
<1>6. Settled'
  BY <1>2, <1>4 DEF Settled
<1> QED BY <1>3, <1>5, <1>6

LEMMA ObeyAnswered ==
    ASSUME Typed, ObeyInv, NEW c \in Calls, Answer(c), Proceeds,
           UNCHANGED <<desired, collided, reply>>
    PROVE  ObeyInv'
<1>0. call[c].for \in {"nobody", "loop", "task"} /\ agent \in Agent
  BY DEF Typed, TypeOK, Call
<1>1. CASE call[c].for = "task"
  BY <1>1, AnsweredMoves, ObeyTask
<1>2. CASE call[c].for = "loop"
  <2>1. agent' = [agent EXCEPT !.pending = Tail(@)] /\ task' = task
    BY <1>2, Zenon DEF Answer
  <2>2. /\ agent'.at = agent.at /\ agent'.setting = agent.setting
        /\ agent'.active = agent.active /\ agent'.applied = agent.applied
        /\ agent'.rolled = agent.rolled /\ agent'.broken = agent.broken
    BY <1>0, <2>1 DEF Agent
  <2>3. agent.at = "posting"
    BY <1>2 DEF Typed, Linked
  <2> QED BY <2>1, <2>2, <2>3, ObeyKept
<1>3. CASE call[c].for = "nobody"
  <2>1. call[c].for # "loop" /\ call[c].for # "task"
    BY <1>3
  <2>2. agent' = agent /\ task' = task
    BY <2>1, Zenon DEF Answer
  <2> QED BY <2>2, ObeyKept
<1> QED BY <1>0, <1>1, <1>2, <1>3

\* The loop handles the answer to its heartbeat.
LEMMA ObeyHandle ==
    ASSUME Typed, HostInv, ObeyInv, NEW passed \in BOOLEAN, NEW undone \in BOOLEAN,
           NEW outside \in BOOLEAN, Handle(passed, outside, undone)
    PROVE  ObeyInv'
<1> SUFFICES ASSUME ~collided' PROVE (Ordered /\ Covered /\ Settled)'
  BY DEF ObeyInv
<1>1. UNCHANGED <<desired, bench, collided>>
  BY DEF Handle, server
<1>2. Ordered /\ Covered /\ Settled
  BY <1>1 DEF ObeyInv
<1>3. /\ agent.at = "replied" /\ agent'.at = "posting" /\ agent' \in Agent
      /\ (agent.broken => agent'.broken) /\ Follows /\ Whole(agent)
  BY HandleIs DEF Fits, HostInv, HostOK
<1>4. /\ desired.version \in Nat /\ agent.applied \in Nat /\ reply.version \in Nat
      /\ agent'.applied \in Nat
  BY <1>3 DEF Typed, TypeOK, Desired, Agent, Reply
<1>5. \/ task' = task
      \/ /\ task.at = "none" /\ reply.b # "none" /\ task'.b = reply.b
  <2>1. \/ task' = task
        \/ /\ task.at = "none" /\ reply.b # "none"
           /\ task' = [NoTask EXCEPT !.at = "starting", !.b = reply.b]
    BY DEF Handle, Busy
  <2> QED BY <2>1 DEF NoTask
<1>6. agent'.applied = agent.applied \/ agent'.applied = reply.version
  BY <1>3 DEF Follows
<1>7. Ordered'
  BY <1>1, <1>2, <1>3, <1>6 DEF Ordered
<1>8. Covered'
  <2>1. ASSUME task'.at \notin {"none", "done"}
        PROVE  bench'[task'.b] \in Accepting \/ agent'.applied < desired'.version
    <3>1. CASE task' = task
      <4>1. agent'.applied = agent.applied
        BY <1>3, <2>1, <3>1 DEF Follows, Busy
      <4> QED BY <1>1, <1>2, <2>1, <3>1, <4>1 DEF Covered
    <3>2. CASE reply.b # "none" /\ task'.b = reply.b
      BY <1>1, <1>2, <1>3, <1>6, <3>2 DEF Covered
    <3> QED BY <1>5, <3>1, <3>2
  <2> QED BY <1>3, <2>1 DEF Covered
<1>9. Settled'
  <2>1. CASE agent'.active = agent.active /\ agent'.applied = agent.applied
             /\ agent'.setting = agent.setting /\ agent'.rolled = agent.rolled
    BY <1>1, <1>2, <1>3, <2>1 DEF Settled
  <2>2. CASE agent'.active = reply.profile /\ agent'.applied = reply.version
             /\ agent'.setting = reply.profile
    BY <1>1, <1>2, <1>3, <2>2 DEF Settled, Ordered
  <2>3. CASE agent'.rolled = agent'.applied
    BY <2>3 DEF Settled
  <2> QED BY <1>3, <2>1, <2>2, <2>3 DEF Follows
<1> QED BY <1>7, <1>8, <1>9

LEMMA ObeyLoop ==
    ASSUME Typed, HostInv, ObeyInv, Loop
    PROVE  ObeyInv'
<1>0. /\ agent \in Agent /\ reply \in Reply
      /\ desired.version \in Nat /\ agent.applied \in Nat
      /\ agent.at = "down" => task.at = "none"
  BY DEF Typed, TypeOK, Linked, Agent, Desired
<1>1. ASSUME NEW passed \in BOOLEAN, Register(passed)
      PROVE  ObeyInv'
  <2>1. /\ agent.at = "down" /\ agent'.at = "ready" /\ agent'.applied = 0
        /\ UNCHANGED <<desired, bench, reply, task, collided>>
    BY <1>1, RegisterIs DEF Register, server
  <2>2. ~collided' => 1 <= desired.version
    BY <2>1 DEF ObeyInv, Ordered
  <2>3. ~collided' => agent'.applied < desired'.version
    BY <1>0, <2>1, <2>2
  <2> QED BY <1>0, <2>1, <2>2, <2>3 DEF ObeyInv, Ordered, Covered, Settled
<1>2. ASSUME Reap
      PROVE  ObeyInv'
  <2>1. /\ task' = NoTask /\ NoTask.at = "none" /\ agent' = agent /\ agent.at = "ready"
        /\ UNCHANGED <<desired, bench, collided>>
    BY <1>2 DEF Reap, NoTask, server
  <2> QED BY <2>1, ObeyKept DEF Proceeds
<1>3. ASSUME AllPosted
      PROVE  ObeyInv'
  <2>1. /\ agent' = [agent EXCEPT !.at = "ready"] /\ agent.at = "posting"
        /\ UNCHANGED <<desired, bench, task, collided>>
    BY <1>3 DEF AllPosted, server
  <2>2. /\ agent'.at = "ready" /\ agent'.setting = agent.setting
        /\ agent'.active = agent.active /\ agent'.applied = agent.applied
        /\ agent'.rolled = agent.rolled /\ agent'.broken = agent.broken
    BY <1>0, <2>1 DEF Agent
  <2> QED BY <2>1, <2>2, ObeyKept DEF Proceeds
<1>4. ASSUME Heartbeat
      PROVE  ObeyInv'
  <2>1. PICK b \in IF Offered = {} THEN {"none"} ELSE Offered :
          reply' = [profile |-> desired.profile, version |-> desired.version, b |-> b]
    BY <1>4 DEF Heartbeat
  <2>2. b # "none" => bench[b] \in Accepting
    BY DEF Offered
  <2>3. /\ reply'.profile = desired.profile /\ reply'.version = desired.version
        /\ reply'.b # "none" => bench[reply'.b] \in Accepting
    BY <2>1, <2>2
  <2>4. /\ agent' = [agent EXCEPT !.at = "replied"] /\ agent.at = "ready"
        /\ UNCHANGED <<desired, bench, task, collided>>
    BY <1>4 DEF Heartbeat, server
  <2>5. /\ agent'.setting = agent.setting
        /\ agent'.active = agent.active /\ agent'.applied = agent.applied
        /\ agent'.rolled = agent.rolled /\ agent'.broken = agent.broken
    BY <1>0, <2>4 DEF Agent
  <2>6. Ordered => Ordered'
    BY <1>0, <2>3, <2>4, <2>5 DEF Ordered
  <2>7. Covered => Covered'
    BY <2>3, <2>4, <2>5 DEF Covered
  <2>8. Settled => Settled'
    BY <2>4, <2>5 DEF Settled
  <2> QED BY <2>4, <2>6, <2>7, <2>8 DEF ObeyInv
<1> QED BY <1>1, <1>2, <1>3, <1>4, ObeyHandle DEF Loop, Verdicts

LEMMA ObeyFaulty ==
    ASSUME Typed, ObeyInv, HostInv, Faulty
    PROVE  ObeyInv'
<1>0. UNCHANGED <<desired, bench, collided>> /\ Proceeds
  BY DEF Faulty, LoseHeartbeat, Crash, HealthRollback, WorkerDies, Abandon, DropJob, server,
         Proceeds
<1>1. agent \in Agent /\ Whole(agent) /\ task \in Task
  BY DEF Typed, TypeOK, HostInv, HostOK
<1>2. ASSUME NEW late \in BOOLEAN, NEW passed \in BOOLEAN, LoseHeartbeat(late, passed)
      PROVE  ObeyInv'
  <2>1. /\ agent.at \in {"ready", "replied"} /\ agent'.at = "ready"
        /\ agent'.applied = agent.applied /\ (agent.broken => agent'.broken)
        /\ task'.at = task.at /\ task'.b = task.b
        /\ \/ /\ agent'.active = agent.active /\ agent'.setting = agent.setting
              /\ agent'.rolled = agent.rolled
           \/ agent'.rolled = agent.applied
    BY <1>2, HeartbeatLost
  <2> QED BY <1>0, <2>1, ObeyKept
<1>3. ASSUME NEW passed \in BOOLEAN, HealthRollback(passed)
      PROVE  ObeyInv'
  <2>1. /\ agent.at = "ready" /\ agent'.at = "ready"
        /\ agent'.applied = agent.applied /\ (agent.broken => agent'.broken)
        /\ agent'.broken \/ agent'.setting = "observe"
        /\ agent'.active = "observe"
        /\ agent'.rolled = IF agent.active = "observe" THEN agent.rolled ELSE agent.applied
        /\ task'.at = task.at /\ task'.b = task.b
    BY <1>1, <1>3, HealthIs
  <2>2. CASE agent.active = "observe"
    BY <1>0, <2>1, <2>2, ObeyKept
  <2>3. CASE agent.active # "observe"
    BY <1>0, <2>1, <2>3, ObeyKept
  <2> QED BY <2>2, <2>3
<1>4. ASSUME NEW restores \in BOOLEAN, NEW passed \in BOOLEAN, Crash(restores, passed)
      PROVE  ObeyInv'
  <2>1. /\ agent'.at = "down" /\ agent'.applied = agent.applied
        /\ task' = NoTask /\ NoTask.at = "none"
    BY <1>4, CrashIs DEF Crash, NoTask
  <2> QED BY <1>0, <2>1, ObeyKept
<1>5. ASSUME NEW c \in Calls, NEW lost \in BOOLEAN, NEW retries \in BOOLEAN,
             Abandon(c, lost, retries)
      PROVE  ObeyInv'
  <2>0. reply' = reply
    BY <1>5 DEF Abandon
  <2>1. CASE call[c].for = "loop"
    <3>1. agent' = [agent EXCEPT !.at = "ready"] /\ task' = task /\ agent.at = "posting"
      BY <1>5, <2>1 DEF Abandon, Typed, Linked
    <3>2. /\ agent'.at = "ready" /\ agent'.setting = agent.setting
          /\ agent'.active = agent.active /\ agent'.applied = agent.applied
          /\ agent'.rolled = agent.rolled /\ agent'.broken = agent.broken
      BY <1>1, <3>1 DEF Agent
    <3> QED BY <1>0, <3>1, <3>2, ObeyKept
  <2>2. CASE call[c].for # "loop"
    <3>1. /\ agent' = agent /\ call[c].for = "task"
          /\ task' = task \/ task' = Raised(task)
      BY <1>5, <2>2 DEF Abandon, Typed, TypeOK, Call
    <3>2. task.at \notin {"none", "done"} /\ task'.b = task.b
      BY <1>1, <3>1, RaisedIs DEF Typed, Linked, Paired, Reporting
    <3> QED BY <1>0, <2>0, <3>1, <3>2, ObeyKept
  <2> QED BY <2>1, <2>2
<1>6. ASSUME NEW c \in Calls, WorkerDies(c)
      PROVE  ObeyInv'
  BY <1>0, <1>6, ObeyKept DEF WorkerDies
<1>7. ASSUME NEW b \in Benchmarks, DropJob(b)
      PROVE  ObeyInv'
  BY <1>0, <1>7, ObeyKept DEF DropJob
<1> QED BY <1>2, <1>3, <1>4, <1>5, <1>6, <1>7 DEF Faulty

\* The handlers that ask for a profile, and those that move a benchmark.
LEMMA ObeyHandled ==
    ASSUME Typed, ObeyInv, NEW c \in Calls, Handled(c)
    PROVE  ObeyInv'
<1>0. bench \in [Benchmarks -> Statuses] /\ call[c] \in Call
  BY DEF Typed, TypeOK
<1>1. ASSUME NEW p \in Settings, Desire(c, p), agent'.applied = agent.applied,
             agent'.at = "replied" => agent.at = "replied" /\ reply' = reply
      PROVE  ObeyInv'
  <2>1. ~collided' => ~collided /\ desired'.version = desired.version + 1
    BY <1>1, DesireIs
  <2> QED BY <1>1, <2>1, ObeyDesired
<1>2. CASE CommitProfile(c)
  <2>1. call[c].profile \in Settings
    BY <1>2 DEF CommitProfile, Typed, Linked, Reads
  <2> QED BY <1>1, <1>2, <2>1 DEF CommitProfile
<1>3. CASE CommitCancel(c)
  BY <1>1, <1>3, ObserveIs DEF CommitCancel
<1>4. CASE CommitAssign(c)
  <2>1. Proceeds
    BY <1>0, <1>4 DEF CommitAssign, Proceeds, Accepting
  <2> QED BY <1>4, <2>1, ObeyKept DEF CommitAssign
<1>5. CASE CommitSimulate(c)
  <2>1. Proceeds
    BY <1>0, <1>5 DEF CommitSimulate, Proceeds, Accepting, Written
  <2> QED BY <1>5, <2>1, ObeyKept DEF CommitSimulate
<1>6. CASE ReadResult(c)
  <2>1. Proceeds
    BY <1>6 DEF ReadResult, server, Proceeds
  <2> QED BY <1>6, <2>1, ObeyKept DEF ReadResult, server
<1>7. CASE CommitResult(c)
  <2>1. CASE call[c].read = "cancelled"
    <3>1. Proceeds
      BY <1>7, <2>1 DEF CommitResult, Proceeds
    <3> QED BY <1>7, <2>1, <3>1, ObeyKept DEF CommitResult
  <2>2. CASE call[c].read # "cancelled"
    BY <1>1, <1>7, <2>2, ObserveIs DEF CommitResult
  <2> QED BY <2>1, <2>2
<1>8. CASE CommitEvent(c)
  <2>1. Proceeds
    BY <1>8 DEF CommitEvent, Proceeds
  <2> QED BY <1>8, <2>1, ObeyAnswered DEF CommitEvent
<1>9. ASSUME NEW success \in BOOLEAN, CommitSample(c, success)
      PROVE  ObeyInv'
  <2>1. Proceeds
    BY <1>0, <1>9 DEF CommitSample, Proceeds, Accepting
  <2> QED BY <1>9, <2>1, ObeyAnswered DEF CommitSample
<1>10. CASE CommitOutcome(c)
  <2>1. Answer(c) /\ Desire(c, "observe") /\ reply' = reply
    BY <1>10 DEF CommitOutcome
  <2>2. agent'.at = agent.at /\ agent'.applied = agent.applied
    BY <2>1, AnswerIs
  <2> QED BY <1>1, <2>1, <2>2, ObserveIs
<1> QED BY <1>2, <1>3, <1>4, <1>5, <1>6, <1>7, <1>8, <1>9, <1>10 DEF Handled

LEMMA ObeyInit == Init => ObeyInv
<1> SUFFICES ASSUME Init PROVE Ordered /\ Covered /\ Settled
  BY DEF ObeyInv
<1>1. agent.at = "down" /\ agent.applied = 0
  BY DEF Init
<1>2. task.at = "none"
  BY DEF Init, NoTask
<1>3. desired.version = 2
  BY DEF Init
<1> QED BY <1>1, <1>2, <1>3 DEF Ordered, Covered, Settled

LEMMA ObeyStep == Typed /\ HostInv /\ ObeyInv /\ [Next]_vars => ObeyInv'
<1> SUFFICES ASSUME Typed, HostInv, ObeyInv, [Next]_vars PROVE ObeyInv'
  OBVIOUS
<1>1. ASSUME Proceeds, UNCHANGED <<desired, agent, reply, task, collided>>
      PROVE  ObeyInv'
  BY <1>1, ObeyKept
<1>2. ASSUME NEW c \in Calls, Requested(c)
      PROVE  ObeyInv'
  BY <1>1, <1>2 DEF Requested, AskProfile, AskCancel, server, Proceeds
<1>3. ASSUME NEW c \in Calls,
             PostEvent(c) \/ Report(c) \/ Post(c) \/ \E b \in Benchmarks : TakeJob(c, b)
      PROVE  ObeyInv'
  BY <1>1, <1>3 DEF PostEvent, Report, Post, TakeJob, server, Proceeds
<1>4. ASSUME NEW b \in Benchmarks, Create(b) \/ EnqueueJob(b)
      PROVE  ObeyInv'
  <2>1. Proceeds
    BY <1>4 DEF Create, EnqueueJob, Proceeds, Accepting, Typed, TypeOK
  <2> QED BY <1>1, <1>4, <2>1 DEF Create, EnqueueJob
<1>5. CASE UNCHANGED vars
  BY <1>1, <1>5 DEF vars, server, Proceeds
<1>6. CASE Benchmarking
  BY <1>6, BenchmarkingMoves, ObeyTask DEF server, Proceeds
<1> QED BY <1>2, <1>3, <1>4, <1>5, <1>6, ObeyHandled, ObeyLoop, ObeyFaulty DEF Next

\* An agent that has the latest version has the profile that is desired, and its
\* host stands at it, when no benchmark is under way, it has not rolled the
\* version back, no restore has failed, and no two requests took one version.
THEOREM Obedience == Spec => []AppliedIsDesired
<1>1. ObeyInv => AppliedIsDesired
  BY DEF ObeyInv, Settled, AppliedIsDesired
<1> QED BY <1>1, TypedInit, TypedStep, HostInit, HostStep, ObeyInit, ObeyStep, PTL DEF Spec
-----------------------------------------------------------------------------
(* The contract of benchmarks: what was decided of them, and the attempt.  *)

LEMMA OutcomeIs ==
    ASSUME NEW x
    PROVE  /\ x.op = "assign" /\ x.read = "queued" => Outcome(x) = "assigned"
           /\ x.op = "assign" /\ x.read # "queued" => Outcome(x) = "none"
           /\ x.op = "sample" /\ x.read = "assigned" => Outcome(x) = "running"
           /\ x.op = "sample" /\ x.read # "assigned" => Outcome(x) = "none"
           /\ x.op = "complete" => Outcome(x) = "completed"
           /\ x.op = "fail" => Outcome(x) = "failed"
           /\ x.op = "cancel" => Outcome(x) = "cancelled"
           /\ x.op \notin {"assign", "sample", "complete", "fail", "cancel"} => Outcome(x) = "none"
<1>1. x.op = "assign" /\ x.read = "queued" => Outcome(x) = "assigned"
  BY Zenon DEF Outcome
<1>2. x.op = "sample" /\ x.read = "assigned" => Outcome(x) = "running"
  BY Zenon DEF Outcome
<1>3. x.op = "complete" => Outcome(x) = "completed"
  BY Zenon DEF Outcome
<1>4. x.op = "fail" => Outcome(x) = "failed"
  BY Zenon DEF Outcome
<1>5. x.op = "cancel" => Outcome(x) = "cancelled"
  BY Zenon DEF Outcome
<1>6. ASSUME ~(x.op = "assign" /\ x.read = "queued"), ~(x.op = "sample" /\ x.read = "assigned"),
             x.op # "complete", x.op # "fail", x.op # "cancel"
      PROVE  Outcome(x) = "none"
  BY <1>6, Zenon DEF Outcome
<1> QED BY <1>1, <1>2, <1>3, <1>4, <1>5, <1>6

Outcomes == {"assigned", "running", "completed", "failed", "cancelled"}

LEMMA OutcomeType ==
    ASSUME NEW x
    PROVE  Outcome(x) \in Outcomes \cup {"none"}
<1>1. CASE x.op \in {"assign", "sample", "complete", "fail", "cancel"}
  BY <1>1, OutcomeIs DEF Outcomes
<1>2. CASE x.op \notin {"assign", "sample", "complete", "fail", "cancel"}
  BY <1>2, OutcomeIs
<1> QED BY <1>1, <1>2

LEMMA InDecisions ==
    /\ \A d : d \in Decisions <=> \E c \in Calls : /\ Outcome(call[c]) # "none"
                                                  /\ d = <<call[c].b, Outcome(call[c])>>
    /\ \A d : d \in Decisions' <=> \E c \in Calls : /\ Outcome(call'[c]) # "none"
                                                   /\ d = <<call'[c].b, Outcome(call'[c])>>
  BY DEF Decisions, Deciding

LEMMA DecisionsAre ==
    ASSUME NEW c \in Calls, Outcome(call[c]) # "none"
    PROVE  <<call[c].b, Outcome(call[c])>> \in Decisions
  BY InDecisions

\* Handlers that go on with what they have decided.
LEMMA DecisionsStay ==
    ASSUME \A c \in Calls : \/ call'[c].b = call[c].b /\ Outcome(call'[c]) = Outcome(call[c])
                            \/ Outcome(call'[c]) = "none" /\ Outcome(call[c]) = "none"
    PROVE  Decisions' = Decisions
<1>1. \A d : d \in Decisions' <=> d \in Decisions
  BY InDecisions
<1> QED BY <1>1

\* One that starts.
LEMMA DecisionsStart ==
    ASSUME NEW c \in Calls, Outcome(call[c]) = "none",
           \A d \in Calls \ {c} : call'[d] = call[d],
           NEW b \in Benchmarks, call'[c].b = b,
           NEW outcome \in Outcomes, Outcome(call'[c]) = outcome
    PROVE  Decisions' = Decisions \cup {<<b, outcome>>}
<1>1. outcome # "none"
  BY DEF Outcomes
<1>2. \A d : d \in Decisions' <=> d \in Decisions \/ d = <<b, outcome>>
  BY <1>1, InDecisions
<1> QED BY <1>2

\* One that ends.
LEMMA DecisionsEnd ==
    ASSUME NEW c \in Calls, Outcome(call'[c]) = "none",
           \A d \in Calls \ {c} : call'[d] = call[d]
    PROVE  LET x == <<call[c].b, Outcome(call[c])>> IN
           /\ Outcome(call[c]) = "none" => Decisions' = Decisions
           /\ Decisions' \in {Decisions, Decisions \ {x}}
           /\ Decisions' \in {Decisions} \cup {Decisions \ {d} : d \in Decisions}
<1> DEFINE x == <<call[c].b, Outcome(call[c])>>
<1>1. ASSUME NEW d
      PROVE  /\ d \in Decisions' => d \in Decisions
             /\ d \in Decisions /\ d # x => d \in Decisions'
  BY InDecisions
<1>2. Outcome(call[c]) = "none" => Decisions' = Decisions
  BY DecisionsStay
<1> HIDE DEF x
<1>3. Decisions' \in {Decisions, Decisions \ {x}}
  <2>1. CASE x \in Decisions'
    <3>1. Decisions' = Decisions
      BY <1>1, <2>1
    <3> QED BY <3>1
  <2>2. CASE x \notin Decisions'
    <3>1. Decisions' = Decisions \ {x}
      BY <1>1, <2>2
    <3> QED BY <3>1
  <2> QED BY <2>1, <2>2
<1>4. Decisions' \in {Decisions} \cup {Decisions \ {d} : d \in Decisions}
  <2>1. CASE x \in Decisions
    BY <1>3, <2>1
  <2>2. CASE x \notin Decisions
    <3>1. Decisions \ {x} = Decisions
      BY <2>2
    <3> QED BY <1>3, <3>1
  <2> QED BY <2>1, <2>2
<1> QED BY <1>2, <1>3, <1>4 DEF x

LEMMA MeasuredIs ==
    ASSUME NEW t \in Task
    PROVE  LET m == MeasuredPhases(t) IN
           /\ ~t.ok \/ t.at \in {"none", "starting", "first", "failing", "done"} => m = {}
           /\ t.at = "baseline" /\ ~t.sampled => m = {}
           /\ t.at = "baseline" /\ t.ok /\ t.sampled => m = {"baseline"}
           /\ t.at \in {"cooling", "cooled", "applying"} /\ t.ok => m = {"baseline"}
           /\ t.at = "optimized" /\ t.ok /\ ~t.sampled => m = {"baseline"}
           /\ t.at = "optimized" /\ t.ok /\ t.sampled => m = {"baseline", "optimized"}
           /\ t.at \in {"undoing", "undone", "completing"} /\ t.ok => m = {"baseline", "optimized"}
  BY DEF MeasuredPhases, After, Task

\* Where nothing has raised, and of what the attempt is.
Unraised == {"first", "baseline", "cooling", "cooled", "optimized", "completing"}
TaskFits(t) ==
    /\ t.at \in Unraised => t.ok
    /\ t.at \notin {"none", "done"} => t.b # "none"

LEMMA ReportedMeasured ==
    ASSUME NEW t \in Task, TaskFits(t), t.at \in Reporting
    PROVE  LET r == Reported(t) IN
           /\ TaskFits(r)
           /\ r.at = "done" \/ MeasuredPhases(r) \in {{}, MeasuredPhases(t)}
           /\ t.at \in {"first", "cooling"} => MeasuredPhases(r) = MeasuredPhases(t)
           /\ t.at = "completing" => r.at = "done"
           /\ t.at = "failing" => r.at # "done" /\ MeasuredPhases(r) = {}
<1> DEFINE r == Reported(t)
<1>0. r \in Task /\ r.b = t.b
  BY ReportedIs
<1>1. CASE t.at = "first"
  <2>1. r = [t EXCEPT !.at = "baseline", !.sampled = FALSE]
    BY <1>1, Zenon DEF Reported
  <2>2. r.at = "baseline" /\ r.sampled = FALSE /\ r.ok = t.ok
    BY <2>1 DEF Task
  <2> HIDE DEF r
  <2> QED BY <1>0, <1>1, <2>2, MeasuredIs DEF TaskFits, Unraised, r
<1>2. CASE t.at = "cooling"
  <2>1. r = [t EXCEPT !.at = "cooled"]
    BY <1>2, Zenon DEF Reported
  <2>2. r.at = "cooled" /\ r.ok = t.ok
    BY <2>1 DEF Task
  <2> HIDE DEF r
  <2> QED BY <1>0, <1>2, <2>2, MeasuredIs DEF TaskFits, Unraised, r
<1>3. CASE t.at = "applying" /\ t.ok
  <2>1. r = [t EXCEPT !.at = "optimized", !.sampled = FALSE]
    BY <1>3, Zenon DEF Reported
  <2>2. r.at = "optimized" /\ r.sampled = FALSE /\ r.ok = t.ok
    BY <2>1 DEF Task
  <2> HIDE DEF r
  <2> QED BY <1>0, <1>3, <2>2, MeasuredIs DEF TaskFits, Unraised, r
<1>4. CASE t.at = "applying" /\ ~t.ok
  <2>1. r = [t EXCEPT !.at = "failing", !.ok = FALSE]
    BY <1>4, Zenon DEF Reported, Raised
  <2>2. r.at = "failing"
    BY <2>1 DEF Task
  <2> HIDE DEF r
  <2> QED BY <1>0, <1>4, <2>2, MeasuredIs DEF TaskFits, Unraised, r
<1>5. CASE t.at = "failing"
  <2>1. r = [t EXCEPT !.at = "undoing", !.ok = FALSE]
    BY <1>5, Zenon DEF Reported
  <2>2. r.at = "undoing" /\ r.ok = FALSE
    BY <2>1 DEF Task
  <2> HIDE DEF r
  <2> QED BY <1>0, <1>5, <2>2, MeasuredIs DEF TaskFits, Unraised, r
<1>6. CASE t.at = "undone" /\ t.ok
  <2>1. r = [t EXCEPT !.at = "completing"]
    BY <1>6, Zenon DEF Reported
  <2>2. r.at = "completing" /\ r.ok = t.ok
    BY <2>1 DEF Task
  <2> HIDE DEF r
  <2> QED BY <1>0, <1>6, <2>2, MeasuredIs DEF TaskFits, Unraised, r
<1>7. CASE (t.at = "undone" /\ ~t.ok) \/ t.at = "completing"
  <2>1. r = [t EXCEPT !.at = "done"]
    BY <1>7, Zenon DEF Reported
  <2>2. r.at = "done"
    BY <2>1 DEF Task
  <2> HIDE DEF r
  <2> QED BY <1>0, <1>7, <2>2 DEF TaskFits, Unraised, r
<1> QED BY <1>1, <1>2, <1>3, <1>4, <1>5, <1>6, <1>7 DEF Reporting

LEMMA RaisedMeasured ==
    ASSUME NEW t \in Task, TaskFits(t)
    PROVE  LET r == Raised(t) IN
           /\ TaskFits(r)
           /\ r.at = "done" \/ MeasuredPhases(r) = {}
<1> DEFINE early == {"baseline", "cooling", "cooled", "applying", "optimized"}
           r == Raised(t)
<1>0. r \in Task /\ r.b = t.b /\ (r.at = "done" => TaskFits(r))
  BY RaisedIs DEF TaskFits, Unraised
<1>1. CASE t.at \in early
  <2>1. r = [t EXCEPT !.at = "failing", !.ok = FALSE]
    BY <1>1, Zenon DEF Raised
  <2>2. r.at = "failing"
    BY <2>1 DEF Task
  <2> HIDE DEF r
  <2> QED BY <1>0, <1>1, <2>2, MeasuredIs DEF TaskFits, Unraised, r
<1>2. CASE t.at = "failing"
  <2>1. r = [t EXCEPT !.at = "undoing", !.ok = FALSE]
    BY <1>2, Zenon DEF Raised
  <2>2. r.at = "undoing" /\ r.ok = FALSE
    BY <2>1 DEF Task
  <2> HIDE DEF r
  <2> QED BY <1>0, <1>2, <2>2, MeasuredIs DEF TaskFits, Unraised, r
<1>3. CASE t.at \notin early /\ t.at # "failing"
  <2>1. r = [t EXCEPT !.at = "done"]
    BY <1>3, Zenon DEF Raised
  <2>2. r.at = "done"
    BY <2>1 DEF Task
  <2> HIDE DEF r
  <2> QED BY <1>0, <2>2 DEF r
<1> QED BY <1>1, <1>2, <1>3
-----------------------------------------------------------------------------
(* The attempt goes on.                                                    *)

Progresses ==
    \/ Contract!Stay \/ (\E b \in Benchmarks : Contract!Take(b)) \/ Contract!Send
    \/ Contract!Miss \/ (\E phase \in Contract!Phases : Contract!Measure(phase))
    \/ Contract!Spoil \/ Contract!GiveUp \/ Contract!Leave

LEMMA NotSampling ==
    ASSUME \A c \in Calls : call[c].for # "task" \/ call[c].op # "sample"
    PROVE  Sampling = FALSE
  BY DEF Sampling, Waiting

LEMMA SamplesNoMore ==
    ASSUME \A c \in Calls : call'[c].for # "task" \/ call'[c].op # "sample"
    PROVE  Sampling' = FALSE
  BY DEF Sampling, Waiting

\* The task samples where it measures, and nowhere else.
LEMMA QuietTask ==
    ASSUME Typed, task.at \notin {"baseline", "optimized"}
    PROVE  Sampling = FALSE
<1>1. \A c \in Calls : call[c].for # "task" \/ call[c].op # "sample"
  BY DEF Typed, Linked, Paired
<1> QED BY <1>1, NotSampling

LEMMA QuietThen ==
    ASSUME Typed', task'.at \notin {"baseline", "optimized"}
    PROVE  Sampling' = FALSE
<1>1. \A c \in Calls : call'[c].for # "task" \/ call'[c].op # "sample"
  BY DEF Typed, Linked, Paired
<1> QED BY <1>1, SamplesNoMore

LEMMA Stays ==
    ASSUME task' = task,
           \A c \in Calls : call'[c].for = "task" /\ call'[c].op = "sample" <=>
                                call[c].for = "task" /\ call[c].op = "sample"
    PROVE  Contract!Stay
<1>1. Sampling' = Sampling
  BY DEF Sampling, Waiting
<1>2. Attempt' = Attempt /\ Spoiled' = Spoiled /\ MeasuredPhases(task)' = MeasuredPhases(task)
  BY DEF Attempt, Spoiled, Measuring
<1> QED BY <1>1, <1>2 DEF Contract!Stay, Contract!progress

\* A step of the task, and what is left of what it has measured.
LEMMA TaskGoes ==
    ASSUME task \in Task, task' \in Task, task.at \notin {"none", "done"}, task.b # "none",
           task'.b = task.b, task'.at # "none", Sampling' = FALSE,
           \/ task'.at = "done"
           \/ task'.disturbed = task.disturbed
              /\ MeasuredPhases(task') \in {{}, MeasuredPhases(task)}
           \/ task'.disturbed = TRUE /\ MeasuredPhases(task') = MeasuredPhases(task)
              /\ Sampling = FALSE
    PROVE  Progresses
<1>1. Attempt = task.b /\ Spoiled = task.disturbed
  BY DEF Attempt, Spoiled, Measuring, Task
<1>2. CASE task'.at = "done"
  <2>1. Attempt' = "none" /\ Spoiled' = FALSE
    BY <1>2 DEF Attempt, Spoiled, Measuring
  <2>2. MeasuredPhases(task') = {}
    BY <1>2, MeasuredIs
  <2>3. MeasuredPhases(task)' = {}
    BY <2>2
  <2>4. Contract!Leave
    BY <2>1, <2>3 DEF Contract!Leave
  <2> QED BY <2>4 DEF Progresses
<1>3. CASE task'.at # "done"
  <2>1. Attempt' = task.b /\ Spoiled' = task'.disturbed
    BY <1>3 DEF Attempt, Spoiled, Measuring, Task
  <2>2. MeasuredPhases(task)' = MeasuredPhases(task')
    OBVIOUS
  <2>3. CASE task'.disturbed = task.disturbed /\ MeasuredPhases(task') = {}
    <3>1. Contract!GiveUp
      BY <1>1, <2>1, <2>2, <2>3 DEF Contract!GiveUp
    <3> QED BY <3>1 DEF Progresses
  <2>4. CASE task'.disturbed = task.disturbed /\ MeasuredPhases(task') = MeasuredPhases(task)
    <3>1. Contract!Miss
      BY <1>1, <2>1, <2>2, <2>4 DEF Contract!Miss
    <3> QED BY <3>1 DEF Progresses
  <2>5. CASE task'.disturbed = TRUE /\ MeasuredPhases(task') = MeasuredPhases(task)
             /\ Sampling = FALSE
    <3>1. Contract!Spoil
      BY <1>1, <2>1, <2>2, <2>5 DEF Contract!Spoil
    <3> QED BY <3>1 DEF Progresses
  <2> QED BY <1>3, <2>3, <2>4, <2>5
<1> QED BY <1>2, <1>3
-----------------------------------------------------------------------------
(* What the contract's steps rest on.                                      *)

\* A call of the task about its benchmark, from where it makes it.
Tied(c) ==
    call[c].for = "task" =>
        /\ call[c].op \in {"sample", "complete", "fail"} => call[c].b = task.b
        /\ call[c].op = "complete" => task.at = "completing"
        /\ call[c].op = "fail" => task.at = "failing"

\* What is decided is decided of a benchmark.
Named(c) == Outcome(call[c]) # "none" => call[c].b \in Benchmarks

\* Who will ask for a profile has read an earlier version, or the one that is.
Current(c) ==
    call[c].op \in Desiring \cup {"finish"} =>
        /\ call[c].desired.version <= desired.version
        /\ call[c].desired.version = desired.version => call[c].desired = desired

ContractInv ==
    /\ TaskFits(task)
    /\ \A c \in Calls : Tied(c) /\ Named(c)
    /\ ~collided => \A c \in Calls : Current(c)

\* A handler goes on as it is, whoever waits for it, or is none any more.
Onward(c) ==
    \/ call'[c].op = "none" /\ call'[c].for = "nobody"
    \/ /\ call'[c].op = call[c].op /\ call'[c].b = call[c].b /\ call'[c].read = call[c].read
       /\ call'[c].desired = call[c].desired /\ call'[c].for \in {call[c].for, "nobody"}

\* The profile stays as it is, or gets the next version.
Moderate ==
    \/ UNCHANGED <<desired, collided>>
    \/ ~collided' => ~collided /\ desired'.version = desired.version + 1

LEMMA NoneDecided ==
    ASSUME NEW x, x.op \notin {"assign", "sample", "complete", "fail", "cancel"}
    PROVE  Outcome(x) = "none"
  BY OutcomeIs

LEMMA SameDecided ==
    ASSUME NEW x, NEW y, x.op = y.op, x.read = y.read
    PROVE  Outcome(x) = Outcome(y)
<1>1. CASE x.op \in {"assign", "sample", "complete", "fail", "cancel"}
  BY <1>1, OutcomeIs
<1>2. CASE x.op \notin {"assign", "sample", "complete", "fail", "cancel"}
  BY <1>2, NoneDecided
<1> QED BY <1>1, <1>2

LEMMA OnwardDecided ==
    ASSUME NEW c \in Calls, Onward(c)
    PROVE  \/ call'[c].b = call[c].b /\ Outcome(call'[c]) = Outcome(call[c])
           \/ Outcome(call'[c]) = "none"
<1>1. CASE call'[c].op = "none"
  BY <1>1, NoneDecided
<1>2. CASE call'[c].op = call[c].op /\ call'[c].b = call[c].b /\ call'[c].read = call[c].read
  BY <1>2, SameDecided
<1> QED BY <1>1, <1>2 DEF Onward

\* The handler c is another one now, and none of the task's.
LEMMA CurrentKept ==
    ASSUME Typed, ContractInv, Moderate, NEW c \in Calls, Onward(c), ~collided'
    PROVE  Current(c)'
<1>1. /\ desired.version \in Nat /\ call[c].desired.version \in Nat
      /\ ~collided /\ (desired' = desired \/ desired'.version = desired.version + 1)
  BY DEF Typed, TypeOK, Call, Desired, Moderate
<1>2. Current(c)
  BY <1>1 DEF ContractInv
<1>3. call'[c].op = "none" \/ (call'[c].op = call[c].op /\ call'[c].desired = call[c].desired)
  BY DEF Onward
<1>4. CASE call'[c].op = "none"
  BY <1>4 DEF Current, Desiring
<1>5. CASE call'[c].op = call[c].op /\ call'[c].desired = call[c].desired
  BY <1>1, <1>2, <1>5 DEF Current
<1> QED BY <1>3, <1>4, <1>5

LEMMA ContractKept ==
    ASSUME Typed, ContractInv, Moderate, TaskFits(task'), \A c \in Calls : Onward(c),
           \/ task'.at = task.at /\ task'.b = task.b
           \/ \A c \in Calls : call'[c].for # "task"
    PROVE  ContractInv'
<1>1. TaskFits(task)'
  OBVIOUS
<1>2. ASSUME NEW c \in Calls
      PROVE  Tied(c)'
  BY DEF ContractInv, Tied, Onward
<1>3. ASSUME NEW c \in Calls
      PROVE  Named(c)'
  <2>1. Named(c)
    BY DEF ContractInv
  <2>2. Outcome(call[c])' = Outcome(call'[c])
    OBVIOUS
  <2> QED BY <2>1, <2>2, OnwardDecided DEF Named
<1>4. ~collided' => \A c \in Calls : Current(c)'
  BY CurrentKept
<1> QED BY <1>1, <1>2, <1>3, <1>4 DEF ContractInv

LEMMA ContractStart ==
    ASSUME Typed, ContractInv, NEW c \in Calls, NEW op \in Ops,
           NEW b \in Benchmarks \cup {"none"}, NEW wanted \in Settings \cup {"none"},
           NEW for \in {"nobody", "loop", "task"}, Start(c, op, b, wanted, for),
           UNCHANGED <<desired, collided, task>>,
           op \in {"assign", "sample", "complete", "fail", "cancel"} => b \in Benchmarks,
           op # "finish",
           for = "task" =>
               /\ op \in {"sample", "complete", "fail"} => b = task.b
               /\ op = "complete" => task.at = "completing"
               /\ op = "fail" => task.at = "failing"
    PROVE  ContractInv'
<1>0. /\ call \in [Calls -> Call] /\ bench \in [Benchmarks -> Statuses]
      /\ desired \in Desired /\ limit \in Settings
  BY DEF Typed, TypeOK
<1>1. /\ call'[c].op = op /\ call'[c].b = b /\ call'[c].for = for
      /\ op \in Desiring => call'[c].desired = desired
      /\ \A d \in Calls \ {c} : call'[d] = call[d]
  BY <1>0, StartIs
<1>2. Tied(c)'
  BY <1>1 DEF Tied
<1>3. Named(c)'
  <2>1. Outcome(call[c])' = Outcome(call'[c])
    OBVIOUS
  <2> QED BY <1>1, <2>1, NoneDecided DEF Named
<1>4. Current(c)'
  BY <1>0, <1>1 DEF Current, Desired
<1>5. ASSUME NEW d \in Calls \ {c}
      PROVE  Tied(d)' /\ Named(d)' /\ (~collided => Current(d)')
  <2>1. Tied(d) /\ Named(d) /\ (~collided => Current(d)) /\ call'[d] = call[d]
    BY <1>1 DEF ContractInv
  <2>2. Outcome(call[d])' = Outcome(call[d])
    BY <2>1
  <2> QED BY <2>1, <2>2 DEF Tied, Named, Current
<1>6. TaskFits(task)'
  BY DEF ContractInv
<1> QED BY <1>2, <1>3, <1>4, <1>5, <1>6 DEF ContractInv

\* The worker's handler of a simulated benchmark goes on.
LEMMA ContractGoes ==
    ASSUME Typed, ContractInv, NEW c \in Calls,
           call'[c].op \in {"computing", "finish"}, call'[c].for = call[c].for,
           call'[c].op = "finish" => call'[c].desired = desired,
           \A d \in Calls \ {c} : call'[d] = call[d],
           UNCHANGED <<desired, collided, task>>
    PROVE  ContractInv'
<1>1. Tied(c)' /\ Current(c)'
  BY DEF Tied, Current, Desiring, Typed, TypeOK, Desired
<1>2. Named(c)'
  <2>1. Outcome(call[c])' = Outcome(call'[c])
    OBVIOUS
  <2> QED BY <2>1, NoneDecided DEF Named
<1>3. ASSUME NEW d \in Calls \ {c}
      PROVE  Tied(d)' /\ Named(d)' /\ (~collided => Current(d)')
  <2>1. Tied(d) /\ Named(d) /\ (~collided => Current(d)) /\ call'[d] = call[d]
    BY DEF ContractInv
  <2>2. Outcome(call[d])' = Outcome(call[d])
    BY <2>1
  <2> QED BY <2>1, <2>2 DEF Tied, Named, Current
<1>4. TaskFits(task)'
  BY DEF ContractInv
<1> QED BY <1>1, <1>2, <1>3, <1>4 DEF ContractInv

\* What a step of the task by itself does to what it has measured.
Advances ==
    /\ TaskFits(task')
    /\ \/ task'.at = "done"
       \/ task'.disturbed = task.disturbed
          /\ MeasuredPhases(task') \in {{}, MeasuredPhases(task)}
       \/ task'.disturbed = TRUE /\ MeasuredPhases(task') = MeasuredPhases(task)

LEMMA RestoresAdvance ==
    ASSUME Typed, TaskFits(task), NEW passed \in BOOLEAN, NEW from, NEW to,
           \/ from = "starting" /\ to = "first"
           \/ from = "baseline" /\ to = "cooling" /\ task.sampled = TRUE,
           Restores(from, to, passed)
    PROVE  Advances
<1> DEFINE late == task.disturbed \/ ~(passed \/ ~agent.file)
           t == [task EXCEPT !.at = to, !.effect = "none", !.ok = TRUE, !.disturbed = late]
<1>0. task \in Task /\ agent \in Agent /\ task.at = from /\ to \in {"first", "cooling"}
  BY DEF Typed, TypeOK, Restores
<1>1. late \in BOOLEAN /\ (task.disturbed = TRUE => late = TRUE)
  BY <1>0 DEF Task
<1>2. task' = t \/ task' = Reported(t)
  BY DEF Restores, Reports
<1>3. late = task.disturbed \/ late = TRUE
  BY <1>0, <1>1 DEF Task
<1> HIDE DEF late
<1>4. t \in Task /\ t.at = to /\ t.b = task.b /\ t.ok = TRUE /\ t.disturbed = late
  BY <1>0, <1>1 DEF Task
<1> HIDE DEF t
<1>5. TaskFits(t)
  BY <1>0, <1>4 DEF TaskFits, Unraised
<1>6. MeasuredPhases(t) = MeasuredPhases(task)
  <2>1. CASE from = "starting" /\ to = "first"
    BY <1>0, <1>4, <2>1, MeasuredIs
  <2>2. CASE from = "baseline" /\ to = "cooling" /\ task.sampled = TRUE
    <3>1. task.ok
      BY <1>0, <2>2 DEF TaskFits, Unraised
    <3> QED BY <1>0, <1>4, <2>2, <3>1, MeasuredIs
  <2> QED BY <2>1, <2>2
<1>7. /\ TaskFits(Reported(t)) /\ MeasuredPhases(Reported(t)) = MeasuredPhases(t)
      /\ Reported(t).disturbed = t.disturbed
  BY <1>0, <1>4, <1>5, ReportedMeasured, ReportedIs DEF Reporting
<1>8. TaskFits(task') /\ MeasuredPhases(task') = MeasuredPhases(task) /\ task'.disturbed = late
  BY <1>2, <1>4, <1>5, <1>6, <1>7
<1> QED BY <1>3, <1>8 DEF Advances

LEMMA ApplyAdvances ==
    ASSUME Typed, TaskFits(task), NEW passed \in BOOLEAN, ApplyProfile(passed)
    PROVE  Advances
<1> DEFINE effect == IF passed THEN ProfileOf[task.b] ELSE "none"
           t == [task EXCEPT !.at = "applying", !.ok = passed, !.effect = effect]
<1>0. task \in Task /\ task.at = "cooled" /\ task.b \in Benchmarks
  BY DEF Typed, TypeOK, Linked, ApplyProfile
<1>1. task' = t
  BY DEF ApplyProfile, Reports
<1>2. effect \in Settings \cup {"none"}
  BY <1>0, ProfileAssumption DEF Settings
<1> HIDE DEF effect
<1>3. /\ t \in Task /\ t.at = "applying" /\ t.b = task.b /\ t.disturbed = task.disturbed
      /\ t.ok = passed
  BY <1>0, <1>2 DEF Task
<1> HIDE DEF t
<1>4. TaskFits(t) /\ task.ok
  BY <1>0, <1>3 DEF TaskFits, Unraised
<1>5. MeasuredPhases(t) \in {{}, MeasuredPhases(task)}
  BY <1>0, <1>3, <1>4, MeasuredIs
<1> QED BY <1>1, <1>3, <1>4, <1>5 DEF Advances

LEMMA UndoAdvances ==
    ASSUME Typed, TaskFits(task), NEW passed \in BOOLEAN, Undo(passed)
    PROVE  Advances
<1> DEFINE t == [task EXCEPT !.at = "undone", !.effect = "none"]
<1>0. task \in Task /\ task.at = "undoing"
  BY DEF Typed, TypeOK, Undo
<1>1. task' = t \/ task' = Reported(t)
  BY DEF Undo, Reports
<1>2. /\ t \in Task /\ t.at = "undone" /\ t.b = task.b /\ t.disturbed = task.disturbed
      /\ t.ok = task.ok
  BY <1>0 DEF Task
<1> HIDE DEF t
<1>3. TaskFits(t)
  BY <1>0, <1>2 DEF TaskFits, Unraised
<1>4. MeasuredPhases(t) = MeasuredPhases(task)
  BY <1>0, <1>2, MeasuredIs DEF Task
<1>5. /\ TaskFits(Reported(t))
      /\ Reported(t).at = "done" \/ MeasuredPhases(Reported(t)) \in {{}, MeasuredPhases(t)}
      /\ Reported(t).disturbed = t.disturbed
  BY <1>2, <1>3, ReportedMeasured, ReportedIs DEF Reporting
<1> QED BY <1>1, <1>2, <1>3, <1>4, <1>5 DEF Advances

LEMMA RaisedAdvances ==
    ASSUME Typed, TaskFits(task), task' = Raised(task)
    PROVE  Advances
<1>0. task \in Task
  BY DEF Typed, TypeOK
<1>1. /\ TaskFits(Raised(task)) /\ Raised(task).disturbed = task.disturbed
      /\ Raised(task).at = "done" \/ MeasuredPhases(Raised(task)) = {}
  BY <1>0, RaisedMeasured, RaisedIs
<1> QED BY <1>1 DEF Advances

LEMMA BenchmarkingAdvances ==
    ASSUME Typed, TaskFits(task), Benchmarking
    PROVE  Advances
<1>0. task \in Task
  BY DEF Typed, TypeOK
<1>1. ASSUME NEW passed \in BOOLEAN, Begin(passed)
      PROVE  Advances
  BY <1>1, RestoresAdvance DEF Begin
<1>2. ASSUME NEW passed \in BOOLEAN, EndBaseline(passed)
      PROVE  Advances
  <2>1. task.sampled = TRUE
    BY <1>0, <1>2 DEF EndBaseline, PhaseMayEnd, Task
  <2> QED BY <1>2, <2>1, RestoresAdvance DEF EndBaseline
<1>3. CASE EndOptimized
  <2>1. /\ task.at = "optimized" /\ task.sampled /\ task' = [task EXCEPT !.at = "undoing"]
    BY <1>3 DEF EndOptimized, PhaseMayEnd
  <2>2. /\ task' \in Task /\ task'.at = "undoing" /\ task'.b = task.b
        /\ task'.disturbed = task.disturbed /\ task'.ok = task.ok
    BY <1>0, <2>1 DEF Task
  <2>3. task.ok /\ TaskFits(task')
    BY <2>1, <2>2 DEF TaskFits, Unraised
  <2>4. MeasuredPhases(task') = MeasuredPhases(task)
    BY <1>0, <2>1, <2>2, <2>3, MeasuredIs
  <2> QED BY <2>2, <2>3, <2>4 DEF Advances
<1>4. CASE Refused
  BY <1>4, RaisedAdvances DEF Refused
<1> QED BY <1>1, <1>2, <1>3, <1>4, ApplyAdvances, UndoAdvances DEF Benchmarking

\* An answer leaves the task where it fits.
LEMMA AnswerFits ==
    ASSUME Typed, TaskFits(task), NEW c \in Calls, Answer(c)
    PROVE  /\ TaskFits(task')
           /\ call[c].for # "task" => task' = task
           /\ \A d \in Calls : Onward(d)
           /\ call[c].for = "task" => \A d \in Calls : call'[d].for # "task"
<1>0. /\ call \in [Calls -> Call] /\ task \in Task /\ Paired(c)
      /\ call[c].for \in {"nobody", "loop", "task"}
  BY DEF Typed, TypeOK, Linked, Call
<1>1. call'[c] = NoCall /\ \A d \in Calls \ {c} : call'[d] = call[d]
  BY <1>0, EndIs DEF Answer
<1>2. \A d \in Calls : Onward(d)
  BY <1>1 DEF Onward, NoCall
<1>3. call[c].for = "task" => \A d \in Calls : call'[d].for # "task"
  BY <1>1 DEF NoCall, Typed, Linked
<1>4. CASE call[c].for = "loop"
  <2>1. task' = task
    BY <1>4, Zenon DEF Answer
  <2> QED BY <1>2, <1>3, <1>4, <2>1
<1>5. CASE call[c].for = "nobody"
  <2>1. call[c].for # "loop" /\ call[c].for # "task"
    BY <1>5
  <2>2. task' = task
    BY <2>1, Zenon DEF Answer
  <2> QED BY <1>2, <1>3, <1>5, <2>2
<1>6. CASE call[c].for = "task" /\ call[c].op = "sample"
  <2>1. task' = [task EXCEPT !.sampled = TRUE]
    BY <1>6, Zenon DEF Answer
  <2>2. task'.at = task.at /\ task'.b = task.b /\ task'.ok = task.ok
    BY <1>0, <2>1 DEF Task
  <2>3. TaskFits(task')
    BY <2>2 DEF TaskFits
  <2> QED BY <1>2, <1>3, <1>6, <2>3
<1>7. CASE call[c].for = "task" /\ call[c].op # "sample"
  <2>1. task' = Reported(task)
    BY <1>7, Zenon DEF Answer
  <2>2. task.at \in Reporting
    BY <1>0, <1>7 DEF Paired
  <2>3. TaskFits(task')
    BY <1>0, <2>1, <2>2, ReportedMeasured
  <2> QED BY <1>2, <1>3, <1>7, <2>3
<1> QED BY <1>0, <1>4, <1>5, <1>6, <1>7

LEMMA ContractInit == Init => ContractInv
<1> SUFFICES ASSUME Init PROVE ContractInv
  OBVIOUS
<1>1. task.at = "none" /\ call = [c \in Calls |-> NoCall]
  BY DEF Init, NoTask
<1>2. \A c \in Calls : call[c].op = "none"
  BY <1>1 DEF NoCall
<1>3. TaskFits(task)
  BY <1>1 DEF TaskFits, Unraised
<1>4. \A c \in Calls : Tied(c) /\ Named(c) /\ Current(c)
  BY <1>2, NoneDecided DEF Tied, Named, Current, Desiring
<1> QED BY <1>3, <1>4 DEF ContractInv

LEMMA EndOnward ==
    ASSUME Typed, NEW c \in Calls, End(c)
    PROVE  \A d \in Calls : Onward(d)
<1>1. call'[c] = NoCall /\ \A d \in Calls \ {c} : call'[d] = call[d]
  BY EndIs DEF Typed, TypeOK
<1> QED BY <1>1 DEF Onward, NoCall

LEMMA DesireModerate ==
    ASSUME Typed, NEW c \in Calls, NEW p \in Settings, Desire(c, p)
    PROVE  Moderate
  BY DesireIs DEF Moderate

LEMMA ContractHandled ==
    ASSUME Typed, ContractInv, NEW c \in Calls, Handled(c)
    PROVE  ContractInv'
<1>0. TaskFits(task) /\ call \in [Calls -> Call]
  BY DEF ContractInv, Typed, TypeOK
<1>1. ASSUME End(c), task' = task, Moderate
      PROVE  ContractInv'
  BY <1>0, <1>1, EndOnward, ContractKept
<1>2. ASSUME Answer(c), Moderate
      PROVE  ContractInv'
  <2>1. /\ TaskFits(task') /\ \A d \in Calls : Onward(d)
        /\ task' = task \/ \A d \in Calls : call'[d].for # "task"
    BY <1>0, <1>2, AnswerFits
  <2> QED BY <1>2, <2>1, ContractKept
<1>3. CASE CommitProfile(c)
  <2>1. call[c].profile \in Settings
    BY <1>3 DEF CommitProfile, Typed, Linked, Reads
  <2> QED BY <1>1, <1>3, <2>1, DesireModerate DEF CommitProfile
<1>4. CASE CommitCancel(c)
  BY <1>1, <1>4, ObserveIs, DesireModerate DEF CommitCancel
<1>5. CASE CommitAssign(c)
  BY <1>1, <1>5 DEF CommitAssign, Moderate
<1>6. CASE CommitSimulate(c)
  <2>1. call' = [call EXCEPT ![c].op = "computing"]
    BY <1>6 DEF CommitSimulate
  <2>2. /\ call'[c].op = "computing" /\ call'[c].for = call[c].for
        /\ \A d \in Calls \ {c} : call'[d] = call[d]
    BY <1>0, <2>1 DEF Call
  <2> QED BY <1>6, <2>2, ContractGoes DEF CommitSimulate
<1>7. CASE ReadResult(c)
  <2> DEFINE now == bench[call[c].b]
  <2>1. call' = [call EXCEPT ![c].op = "finish", ![c].read = now, ![c].desired = desired]
    BY <1>7 DEF ReadResult
  <2> HIDE DEF now
  <2>2. /\ call'[c].op = "finish" /\ call'[c].for = call[c].for /\ call'[c].desired = desired
        /\ \A d \in Calls \ {c} : call'[d] = call[d]
    BY <1>0, <2>1 DEF Call
  <2> QED BY <1>7, <2>2, ContractGoes DEF ReadResult, server
<1>8. CASE CommitResult(c)
  <2>1. CASE call[c].read = "cancelled"
    BY <1>1, <1>8, <2>1 DEF CommitResult, Moderate
  <2>2. CASE call[c].read # "cancelled"
    BY <1>1, <1>8, <2>2, ObserveIs, DesireModerate DEF CommitResult
  <2> QED BY <2>1, <2>2
<1>9. CASE CommitEvent(c)
  BY <1>2, <1>9 DEF CommitEvent, Moderate
<1>10. ASSUME NEW success \in BOOLEAN, CommitSample(c, success)
       PROVE  ContractInv'
  BY <1>2, <1>10 DEF CommitSample, Moderate
<1>11. CASE CommitOutcome(c)
  BY <1>2, <1>11, ObserveIs, DesireModerate DEF CommitOutcome
<1> QED BY <1>3, <1>4, <1>5, <1>6, <1>7, <1>8, <1>9, <1>10, <1>11 DEF Handled

LEMMA ContractRequested ==
    ASSUME Typed, ContractInv, NEW c \in Calls,
           Requested(c) \/ \E b \in Benchmarks : TakeJob(c, b)
    PROVE  ContractInv'
<1>1. ASSUME NEW p \in Settings, AskProfile(c, p)
      PROVE  ContractInv'
  <2>1. Start(c, "profile", "none", p, "nobody") /\ UNCHANGED <<desired, collided, task>>
    BY <1>1 DEF AskProfile, server
  <2> QED BY <2>1, ContractStart DEF Ops
<1>2. ASSUME NEW b \in Benchmarks, AskCancel(c, b)
      PROVE  ContractInv'
  <2>1. Start(c, "cancel", b, "none", "nobody") /\ UNCHANGED <<desired, collided, task>>
    BY <1>2 DEF AskCancel, server
  <2> QED BY <2>1, ContractStart DEF Ops
<1>3. ASSUME NEW b \in Benchmarks, TakeJob(c, b)
      PROVE  ContractInv'
  <2>1. CASE agent.simulator
    <3>1. Start(c, "simulate", b, "none", "nobody") /\ UNCHANGED <<desired, collided, task>>
      BY <1>3, <2>1 DEF TakeJob
    <3> QED BY <3>1, ContractStart DEF Ops
  <2>2. CASE ~agent.simulator
    <3>1. Start(c, "assign", b, "none", "nobody") /\ UNCHANGED <<desired, collided, task>>
      BY <1>3, <2>2 DEF TakeJob
    <3> QED BY <3>1, ContractStart DEF Ops
  <2> QED BY <2>1, <2>2
<1> QED BY <1>1, <1>2, <1>3 DEF Requested

\* What the agent posts for its task, and with what.
LEMMA PostIs ==
    ASSUME Typed, NEW c \in Calls, Post(c)
    PROVE  \E op \in {"fail", "complete", "sample"} :
             /\ Start(c, op, task.b, "none", "task")
             /\ op = "fail" => task.at = "failing"
             /\ op = "complete" => task.at = "completing"
             /\ op = "sample" => task.at \in {"baseline", "optimized"}
             /\ task.b \in Benchmarks /\ bench[task.b] \in Accepting
             /\ \A d \in Calls : call[d].for # "task"
             /\ UNCHANGED <<server, agent, reply, task, collided, counters>>
<1> DEFINE op == CASE task.at = "failing" -> "fail"
                   [] task.at = "completing" -> "complete"
                   [] OTHER -> "sample"
<1>1. /\ Start(c, op, task.b, "none", "task")
      /\ task.at \in {"baseline", "optimized", "failing", "completing"}
      /\ \A d \in Calls : call[d].for # "task"
      /\ bench[task.b] \in Accepting
      /\ UNCHANGED <<server, agent, reply, task, collided, counters>>
  BY DEF Post, Waiting, Accepts
<1>2. task.at = "failing" => op = "fail"
  BY Zenon
<1>3. task.at = "completing" => op = "complete"
  <2>1. task.at = "completing" => task.at # "failing"
    OBVIOUS
  <2> QED BY <2>1, Zenon
<1>4. task.at # "failing" /\ task.at # "completing" => op = "sample"
  BY Zenon
<1> HIDE DEF op
<1>5. op \in {"fail", "complete", "sample"}
  BY <1>2, <1>3, <1>4
<1>6. /\ op = "fail" => task.at = "failing"
      /\ op = "complete" => task.at = "completing"
      /\ op = "sample" => task.at \in {"baseline", "optimized"}
  BY <1>1, <1>2, <1>3, <1>4
<1>7. task.b \in Benchmarks
  BY <1>1 DEF Typed, Linked
<1> QED BY <1>1, <1>5, <1>6, <1>7

LEMMA ContractPosts ==
    ASSUME Typed, ContractInv, NEW c \in Calls, PostEvent(c) \/ Report(c) \/ Post(c)
    PROVE  ContractInv'
<1>1. CASE PostEvent(c)
  <2>1. Start(c, "event", "none", Head(agent.pending), "loop") /\ agent.pending # <<>>
        /\ UNCHANGED <<desired, collided, task>>
    BY <1>1 DEF PostEvent, server
  <2>2. Head(agent.pending) \in Settings \cup {"none"}
    <3>1. agent.pending \in Seq(Settings \cup {"none"})
      BY DEF Typed, TypeOK, Agent
    <3> QED BY <2>1, <3>1
  <2> QED BY <2>1, <2>2, ContractStart DEF Ops
<1>2. CASE Report(c)
  <2>1. Start(c, "event", "none", task.effect, "task") /\ UNCHANGED <<desired, collided, task>>
    BY <1>2 DEF Report, server
  <2>2. task.effect \in Settings \cup {"none"}
    BY DEF Typed, TypeOK, Task
  <2> QED BY <2>1, <2>2, ContractStart DEF Ops
<1>3. CASE Post(c)
  <2>1. PICK op \in {"fail", "complete", "sample"} :
             /\ Start(c, op, task.b, "none", "task")
             /\ op = "fail" => task.at = "failing"
             /\ op = "complete" => task.at = "completing"
             /\ task.b \in Benchmarks
             /\ UNCHANGED <<desired, collided, task>>
    BY <1>3, PostIs DEF server
  <2>2. op \in Ops
    BY DEF Ops
  <2> QED BY <2>1, <2>2, ContractStart
<1> QED BY <1>1, <1>2, <1>3

LEMMA ContractLoop ==
    ASSUME Typed, ContractInv, Loop \/ Benchmarking
    PROVE  ContractInv'
<1>0. /\ TaskFits(task) /\ UNCHANGED <<call, desired, collided>>
  BY BenchmarkingMoves DEF ContractInv, Loop, Register, Reap, Heartbeat, AllPosted, Handle, server
<1>1. Moderate /\ \A c \in Calls : Onward(c)
  BY <1>0 DEF Moderate, Onward
<1>2. CASE Benchmarking
  <2>1. TaskFits(task') /\ \A c \in Calls : call'[c].for # "task"
    BY <1>0, <1>2, BenchmarkingMoves, BenchmarkingAdvances DEF Advances
  <2> QED BY <1>1, <2>1, ContractKept
<1>3. ASSUME task' = task
      PROVE  ContractInv'
  BY <1>0, <1>1, <1>3, ContractKept
<1>4. CASE Reap
  <2>1. task.at = "done" /\ task' = NoTask
    BY <1>4 DEF Reap
  <2>2. TaskFits(task')
    BY <2>1 DEF TaskFits, Unraised, NoTask
  <2>3. \A c \in Calls : call'[c].for # "task"
    BY <1>0, <2>1 DEF Typed, Linked, Paired, Reporting
  <2> QED BY <1>1, <2>2, <2>3, ContractKept
<1>5. ASSUME NEW passed \in BOOLEAN, NEW outside \in BOOLEAN, NEW undone \in BOOLEAN,
             Handle(passed, outside, undone)
      PROVE  ContractInv'
  <2>1. \/ task' = task
        \/ /\ task.at = "none" /\ reply.b # "none"
           /\ task' = [NoTask EXCEPT !.at = "starting", !.b = reply.b]
    BY <1>5 DEF Handle, Busy
  <2>2. CASE task' = task
    BY <1>3, <2>2
  <2>3. CASE /\ task.at = "none" /\ reply.b # "none"
             /\ task' = [NoTask EXCEPT !.at = "starting", !.b = reply.b]
    <3>1. TaskFits(task')
      BY <2>3 DEF TaskFits, Unraised, NoTask
    <3>2. \A c \in Calls : call'[c].for # "task"
      BY <1>0, <2>3 DEF Typed, Linked, Paired, Reporting
    <3> QED BY <1>1, <3>1, <3>2, ContractKept
  <2> QED BY <2>1, <2>2, <2>3
<1>6. CASE Heartbeat \/ AllPosted \/ \E passed \in BOOLEAN : Register(passed)
  BY <1>3, <1>6 DEF Heartbeat, AllPosted, Register
<1> QED BY <1>2, <1>4, <1>5, <1>6 DEF Loop, Verdicts

\* What is left of a call that is lost, or nobody waits for any more.
LEMMA AbandonOnward ==
    ASSUME Typed, NEW c \in Calls, NEW lost \in BOOLEAN, NEW retries \in BOOLEAN,
           Abandon(c, lost, retries)
    PROVE  /\ call'[c].for = "nobody" /\ \A d \in Calls \ {c} : call'[d] = call[d]
           /\ \A d \in Calls : Onward(d)
           /\ ~lost => /\ call'[c].op = call[c].op /\ call'[c].b = call[c].b
                       /\ call'[c].read = call[c].read
           /\ lost => call'[c].op = "none"
<1>0. call \in [Calls -> Call]
  BY DEF Typed, TypeOK
<1>1. CASE lost
  <2>1. call' = [call EXCEPT ![c] = NoCall]
    BY <1>1 DEF Abandon
  <2> QED BY <1>0, <1>1, <2>1 DEF Onward, NoCall
<1>2. CASE ~lost
  <2>1. call' = Forsaken({c})
    BY <1>2 DEF Abandon
  <2> QED BY <1>0, <1>2, <2>1, ForsakenIs DEF Onward
<1> QED BY <1>1, <1>2

LEMMA ContractFaulty ==
    ASSUME Typed, ContractInv, Faulty
    PROVE  ContractInv'
<1>0. /\ TaskFits(task) /\ UNCHANGED <<desired, collided>> /\ task \in Task
      /\ call \in [Calls -> Call]
  BY DEF ContractInv, Faulty, LoseHeartbeat, Crash, HealthRollback, WorkerDies, Abandon, DropJob,
         server, Typed, TypeOK
<1>1. Moderate
  BY <1>0 DEF Moderate
<1>2. ASSUME NEW late \in BOOLEAN, NEW passed \in BOOLEAN,
             LoseHeartbeat(late, passed) \/ HealthRollback(passed)
      PROVE  ContractInv'
  <2>1. call' = call /\ (task' = task \/ task' = [task EXCEPT !.disturbed = TRUE])
    BY <1>2 DEF LoseHeartbeat, HealthRollback
  <2>2. task'.at = task.at /\ task'.b = task.b /\ TaskFits(task')
    BY <1>0, <2>1 DEF Task, TaskFits, Unraised
  <2>3. \A c \in Calls : Onward(c)
    BY <2>1 DEF Onward
  <2> QED BY <1>1, <2>2, <2>3, ContractKept
<1>3. ASSUME NEW restores \in BOOLEAN, NEW passed \in BOOLEAN, Crash(restores, passed)
      PROVE  ContractInv'
  <2> DEFINE waited == {c \in Calls : call[c].for # "nobody"}
  <2>1. call' = Forsaken(waited) /\ task' = NoTask
    BY <1>3 DEF Crash
  <2>2. \A c \in Calls : c \notin waited => call[c].for = "nobody"
    OBVIOUS
  <2> HIDE DEF waited
  <2>3. \A c \in Calls : Onward(c) /\ call'[c].for # "task"
    BY <1>0, <2>1, <2>2, ForsakenIs DEF Onward
  <2>4. TaskFits(task')
    BY <2>1 DEF TaskFits, Unraised, NoTask
  <2> QED BY <1>1, <2>3, <2>4, ContractKept
<1>4. ASSUME NEW c \in Calls, NEW lost \in BOOLEAN, NEW retries \in BOOLEAN,
             Abandon(c, lost, retries)
      PROVE  ContractInv'
  <2>1. call'[c].for = "nobody" /\ (\A d \in Calls \ {c} : call'[d] = call[d])
        /\ \A d \in Calls : Onward(d)
    BY <1>4, AbandonOnward
  <2>2. CASE task' = task
    BY <1>0, <1>1, <2>1, <2>2, ContractKept
  <2>3. CASE task' = Raised(task) /\ call[c].for = "task"
    <3>1. TaskFits(task')
      BY <1>0, <2>3, RaisedMeasured
    <3>2. \A d \in Calls : call'[d].for # "task"
      BY <2>1, <2>3 DEF Typed, Linked
    <3> QED BY <1>1, <2>1, <3>1, <3>2, ContractKept
  <2>4. task' = task \/ (task' = Raised(task) /\ call[c].for = "task")
    BY <1>4 DEF Abandon, Typed, TypeOK, Call
  <2> QED BY <2>2, <2>3, <2>4
<1>5. ASSUME NEW c \in Calls, WorkerDies(c)
      PROVE  ContractInv'
  BY <1>0, <1>1, <1>5, EndOnward, ContractKept DEF WorkerDies
<1>6. ASSUME NEW b \in Benchmarks, DropJob(b)
      PROVE  ContractInv'
  <2>1. task' = task /\ \A c \in Calls : Onward(c)
    BY <1>6 DEF DropJob, Onward
  <2> QED BY <1>0, <1>1, <2>1, ContractKept
<1> QED BY <1>2, <1>3, <1>4, <1>5, <1>6 DEF Faulty

LEMMA ContractStep == Typed /\ ContractInv /\ [Next]_vars => ContractInv'
<1> SUFFICES ASSUME Typed, ContractInv, [Next]_vars PROVE ContractInv'
  OBVIOUS
<1>1. ASSUME UNCHANGED <<call, task, desired, collided>>
      PROVE  ContractInv'
  <2>1. TaskFits(task') /\ Moderate /\ \A c \in Calls : Onward(c)
    BY <1>1 DEF ContractInv, Moderate, Onward
  <2> QED BY <1>1, <2>1, ContractKept
<1>2. ASSUME NEW b \in Benchmarks, Create(b) \/ EnqueueJob(b)
      PROVE  ContractInv'
  BY <1>1, <1>2 DEF Create, EnqueueJob
<1>3. CASE UNCHANGED vars
  BY <1>1, <1>3 DEF vars, server
<1> QED BY <1>2, <1>3, ContractHandled, ContractRequested, ContractPosts, ContractLoop,
           ContractFaulty DEF Next
-----------------------------------------------------------------------------
(* The contract of benchmarks, step by step.                               *)

Dropped == Decisions' \in {Decisions} \cup {Decisions \ {d} : d \in Decisions}

\* The attempt goes on and nothing is written.
LEMMA GoesOn ==
    ASSUME Progresses, Dropped, UNCHANGED <<bench, desired, collided>>,
           agent' \in Agent, agent'.simulator = agent.simulator
    PROVE  Contract!Next
<1>1. Contract!Go
  BY DEF Progresses, Dropped, Contract!Go, Contract!Phases
<1>2. agent'.setting \in Contract!Settings
  BY DEF Agent, Settings, Contract!Settings
<1> QED BY <1>1, <1>2 DEF Contract!Next

\* A step of the contract that says what the host does not.
LEMMA StepIs ==
    ASSUME agent' \in Agent, agent'.simulator = agent.simulator,
           \/ \E b \in Benchmarks : Contract!Submit(b) \/ Contract!Simulate(b)
           \/ \E b \in Benchmarks, outcome \in Outcomes :
                 Contract!Decide(b, outcome) \/ Contract!Write(b, outcome)
           \/ Contract!Go \/ Contract!Ask
    PROVE  Contract!Next
<1>1. agent'.setting \in Contract!Settings
  BY DEF Agent, Settings, Contract!Settings
<1>2. Contract!Outcomes = Outcomes
  BY DEF Contract!Outcomes, Contract!Over, Outcomes
<1> QED BY <1>1, <1>2 DEF Contract!Next

\* Who asks for a profile gets it, under a version nobody has seen, unless two
\* have taken one version.
LEMMA Wants ==
    ASSUME Typed, ContractInv, NEW c \in Calls, call[c].op \in Desiring \cup {"finish"},
           NEW p \in Settings, Desire(c, p)
    PROVE  Contract!Want(p)
<1> DEFINE read == call[c].desired
<1>1. /\ desired \in Desired /\ read \in Desired /\ collided \in BOOLEAN
      /\ desired' \in Desired /\ collided' \in BOOLEAN
  BY DesireIs DEF Typed, TypeOK, Call
<1>2. /\ desired' = [profile |-> Written(desired.profile, read.profile, p),
                     version |-> read.version + 1]
      /\ collided' = (collided \/ read.version # desired.version)
  BY DEF Desire
<1>3. collided => collided'
  BY <1>2
<1>4. ASSUME ~collided'
      PROVE  desired' = [profile |-> p, version |-> desired.version + 1]
  <2>1. ~collided /\ read.version = desired.version
    BY <1>2, <1>4
  <2>2. read = desired
    BY <2>1 DEF ContractInv, Current
  <2>3. Written(desired.profile, read.profile, p) = p
    BY <2>2 DEF Written
  <2> QED BY <1>2, <2>1, <2>3
<1>5. desired' \in [profile : Contract!Settings, version : Nat]
  BY <1>1 DEF Desired, Settings, Contract!Settings
<1> QED BY <1>1, <1>3, <1>4, <1>5 DEF Contract!Want

\* A handler that nobody's task waits for ends, with what it had decided.
LEMMA EndStays ==
    ASSUME Typed, NEW c \in Calls, End(c), task' = task, call[c].for # "task"
    PROVE  Contract!Stay
<1>1. call'[c] = NoCall /\ \A d \in Calls \ {c} : call'[d] = call[d]
  BY EndIs DEF Typed, TypeOK
<1> QED BY <1>1, Stays DEF NoCall

LEMMA EndDecisions ==
    ASSUME Typed, NEW c \in Calls, End(c)
    PROVE  /\ Dropped
           /\ Outcome(call[c]) = "none" => Decisions' = Decisions
           /\ Decisions' \in {Decisions, Decisions \ {<<call[c].b, Outcome(call[c])>>}}
<1>1. call'[c] = NoCall /\ \A d \in Calls \ {c} : call'[d] = call[d]
  BY EndIs DEF Typed, TypeOK
<1>2. Outcome(call'[c]) = "none"
  BY <1>1, NoneDecided DEF NoCall
<1> QED BY <1>1, <1>2, DecisionsEnd DEF Dropped

\* What a handler has decided is among the decisions.
LEMMA Decided ==
    ASSUME ContractInv, NEW c \in Calls, Outcome(call[c]) # "none"
    PROVE  /\ call[c].b \in Benchmarks /\ Outcome(call[c]) \in Outcomes
           /\ <<call[c].b, Outcome(call[c])>> \in Decisions
<1>1. call[c].b \in Benchmarks
  BY DEF ContractInv, Named
<1>2. Outcome(call[c]) \in Outcomes
  BY OutcomeType
<1> QED BY <1>1, <1>2, DecisionsAre

\* A handler writes what it has decided.
LEMMA Writes ==
    ASSUME Typed, ContractInv, NEW c \in Calls, End(c),
           NEW outcome \in Outcomes, Outcome(call[c]) = outcome,
           bench' = [bench EXCEPT ![call[c].b] = outcome],
           \/ outcome \in Terminal /\ Desire(c, "observe")
              /\ call[c].op \in Desiring
           \/ outcome \notin Terminal /\ UNCHANGED <<desired, collided>>,
           \/ Contract!Stay
           \/ outcome = "running" /\ Attempt = call[c].b
              /\ \E phase \in Contract!Phases : Contract!Measure(phase)
           \/ outcome = "completed" /\ Contract!Leave
    PROVE  Contract!Write(call[c].b, outcome)
<1>0. outcome # "none"
  BY DEF Outcomes
<1>1. <<call[c].b, outcome>> \in Decisions
  BY <1>0, Decided
<1>2. Decisions' \in {Decisions, Decisions \ {<<call[c].b, outcome>>}}
  BY EndDecisions
<1>3. Contract!Over = Terminal
  BY DEF Contract!Over, Terminal
<1>4. IF outcome \in Contract!Over THEN Contract!Want("observe")
      ELSE UNCHANGED <<desired, collided>>
  BY <1>3, Wants, ObserveIs
<1> QED BY <1>1, <1>2, <1>4 DEF Contract!Write

\* A handler starts that decides nothing, or what it is allowed to.
LEMMA StartDecisions ==
    ASSUME Typed, NEW c \in Calls, NEW op \in Ops, NEW b \in Benchmarks \cup {"none"},
           NEW wanted \in Settings \cup {"none"}, NEW for \in {"nobody", "loop", "task"},
           Start(c, op, b, wanted, for)
    PROVE  /\ Outcome(call'[c]) = "none" => Decisions' = Decisions
           /\ \A outcome \in Outcomes :
                b \in Benchmarks /\ Outcome(call'[c]) = outcome =>
                    Decisions' = Decisions \cup {<<b, outcome>>}
           /\ call'[c].op = op /\ call'[c].b = b /\ call'[c].for = for
           /\ call'[c].read = IF b = "none" THEN "absent" ELSE bench[b]
           /\ \A d \in Calls \ {c} : call'[d] = call[d]
           /\ call[c].op = "none"
<1>0. /\ call \in [Calls -> Call] /\ bench \in [Benchmarks -> Statuses]
      /\ desired \in Desired /\ limit \in Settings
  BY DEF Typed, TypeOK
<1>1. /\ call[c].op = "none" /\ call'[c].op = op /\ call'[c].b = b /\ call'[c].for = for
      /\ call'[c].read = IF b = "none" THEN "absent" ELSE bench[b]
      /\ \A d \in Calls \ {c} : call'[d] = call[d]
  BY <1>0, StartIs
<1>2. Outcome(call[c]) = "none"
  BY <1>1, NoneDecided
<1>3. Outcome(call'[c]) = "none" => Decisions' = Decisions
  BY <1>1, <1>2, DecisionsStay
<1>4. ASSUME NEW outcome \in Outcomes, b \in Benchmarks, Outcome(call'[c]) = outcome
      PROVE  Decisions' = Decisions \cup {<<b, outcome>>}
  BY <1>1, <1>2, <1>4, DecisionsStart
<1> QED BY <1>1, <1>3, <1>4

\* An answer that the task does not wait for.
LEMMA AnswerOutside ==
    ASSUME Typed, ContractInv, NEW c \in Calls, Answer(c), call[c].for # "task"
    PROVE  Contract!Stay
<1>1. task' = task /\ End(c)
  BY AnswerFits DEF ContractInv, Answer
<1> QED BY <1>1, EndStays

\* The answer to a sample: its phase is measured, on the host as it should be.
LEMMA AnswerSample ==
    ASSUME Typed, HostInv, ContractInv, NEW c \in Calls, Answer(c), call[c].for = "task",
           call[c].op = "sample"
    PROVE  /\ Attempt = call[c].b
           /\ \E phase \in Contract!Phases : Contract!Measure(phase)
<1>0. /\ call \in [Calls -> Call] /\ task \in Task /\ task.at \in {"baseline", "optimized"}
      /\ call[c].b = task.b /\ TaskFits(task)
  BY DEF Typed, TypeOK, Linked, Paired, ContractInv, Tied
<1>1. task' = [task EXCEPT !.sampled = TRUE]
  BY Zenon DEF Answer
<1>2. /\ task' \in Task /\ task'.at = task.at /\ task'.b = task.b /\ task'.ok = task.ok
      /\ task'.disturbed = task.disturbed /\ task'.sampled = TRUE /\ task.ok
  BY <1>0, <1>1 DEF Task, TaskFits, Unraised
<1>3. /\ Attempt = task.b /\ Attempt' = Attempt /\ Spoiled' = Spoiled
      /\ Spoiled = task.disturbed
  BY <1>0, <1>2 DEF Attempt, Spoiled, Measuring, Task
<1>4. Sampling = TRUE
  BY <1>0 DEF Sampling, Waiting
<1>5. Sampling' = FALSE
  <2>1. \A d \in Calls : call'[d].for # "task" \/ call'[d].op # "sample"
    BY AnswerFits DEF ContractInv
  <2> QED BY <2>1, SamplesNoMore
<1>6. MeasuredPhases(task)' = MeasuredPhases(task')
  OBVIOUS
<1>7. CASE task.at = "baseline"
  <2>1. MeasuredPhases(task') = {"baseline"} /\ MeasuredPhases(task) \in {{}, {"baseline"}}
    BY <1>0, <1>2, <1>7, MeasuredIs
  <2>2. MeasuredPhases(task)' = MeasuredPhases(task) \cup {"baseline"}
    BY <1>6, <2>1
  <2>3. task.disturbed \/ agent.setting = "observe"
    BY <1>7 DEF HostInv, HostOK, Fair
  <2>4. Contract!Measure("baseline")
    BY <1>0, <1>3, <1>4, <1>5, <2>2, <2>3 DEF Contract!Measure, Task
  <2> QED BY <1>0, <1>3, <2>4 DEF Contract!Phases
<1>8. CASE task.at = "optimized"
  <2>1. /\ MeasuredPhases(task') = {"baseline", "optimized"}
        /\ MeasuredPhases(task) \in {{"baseline"}, {"baseline", "optimized"}}
    BY <1>0, <1>2, <1>8, MeasuredIs
  <2>2. /\ MeasuredPhases(task)' = MeasuredPhases(task) \cup {"optimized"}
        /\ "baseline" \in MeasuredPhases(task)
    BY <1>6, <2>1
  <2>3. task.disturbed \/ agent.setting = ProfileOf[task.b]
    BY <1>8 DEF HostInv, HostOK, Fair
  <2>4. Contract!Measure("optimized")
    BY <1>0, <1>3, <1>4, <1>5, <2>2, <2>3 DEF Contract!Measure, Task
  <2> QED BY <1>0, <1>3, <2>4 DEF Contract!Phases
<1> QED BY <1>0, <1>7, <1>8

\* The answer to a report: the benchmark's end is the attempt's, its failure is
\* not the end yet.
LEMMA AnswerReport ==
    ASSUME Typed, ContractInv, NEW c \in Calls, Answer(c), call[c].for = "task",
           call[c].op # "sample"
    PROVE  /\ Progresses
           /\ call[c].op = "complete" => Contract!Leave
           /\ call[c].op = "fail" => Contract!Stay
<1>0. /\ task \in Task /\ task.at \in Reporting /\ TaskFits(task)
      /\ task.at \notin {"none", "done"} /\ task.b # "none"
      /\ call[c].op = "complete" => task.at = "completing"
      /\ call[c].op = "fail" => task.at = "failing"
  BY DEF Typed, TypeOK, Linked, Paired, ContractInv, Tied, TaskFits, Reporting
<1>1. task' = Reported(task)
  <2>1. call[c].for # "loop"
    OBVIOUS
  <2> QED BY Zenon, <2>1 DEF Answer
<1>2. /\ task' \in Task /\ task'.b = task.b /\ task'.disturbed = task.disturbed
      /\ task'.at # "none"
      /\ task'.at = "done" \/ MeasuredPhases(task') \in {{}, MeasuredPhases(task)}
      /\ task.at = "completing" => task'.at = "done"
      /\ task.at = "failing" => task'.at # "done" /\ MeasuredPhases(task') = {}
  BY <1>0, <1>1, ReportedIs, ReportedMeasured
<1>3. Sampling' = FALSE /\ Sampling = FALSE
  <2>1. \A d \in Calls : call'[d].for # "task" \/ call'[d].op # "sample"
    BY AnswerFits DEF ContractInv
  <2>2. task.at \notin {"baseline", "optimized"}
    BY <1>0 DEF Reporting
  <2> QED BY <2>1, <2>2, SamplesNoMore, QuietTask
<1>4. Progresses
  BY <1>0, <1>2, <1>3, TaskGoes
<1>5. MeasuredPhases(task)' = MeasuredPhases(task')
  OBVIOUS
<1>6. CASE call[c].op = "complete"
  <2>1. task'.at = "done"
    BY <1>0, <1>2, <1>6
  <2>2. MeasuredPhases(task') = {}
    BY <1>2, <2>1, MeasuredIs
  <2>3. Attempt' = "none" /\ Spoiled' = FALSE
    BY <2>1 DEF Attempt, Spoiled, Measuring
  <2>4. Contract!Leave
    BY <1>3, <1>5, <2>2, <2>3 DEF Contract!Leave
  <2> QED BY <1>4, <1>6, <2>4
<1>7. CASE call[c].op = "fail"
  <2>1. task.at = "failing" /\ task'.at # "done" /\ MeasuredPhases(task') = {}
    BY <1>0, <1>2, <1>7
  <2>2. MeasuredPhases(task) = {}
    BY <1>0, <2>1, MeasuredIs
  <2>3. Attempt' = Attempt /\ Spoiled' = Spoiled
    BY <1>2, <2>1 DEF Attempt, Spoiled, Measuring
  <2>4. Contract!Stay
    BY <1>3, <1>5, <2>1, <2>2, <2>3 DEF Contract!Stay, Contract!progress
  <2> QED BY <1>4, <1>7, <2>4
<1> QED BY <1>4, <1>6, <1>7

LEMMA ImplementsAnswer ==
    ASSUME Typed, HostInv, ContractInv, Typed', NEW c \in Calls,
           CommitEvent(c) \/ (\E success \in BOOLEAN : CommitSample(c, success)) \/ CommitOutcome(c)
    PROVE  Contract!Next
<1>0. /\ Answer(c) /\ End(c) /\ agent' \in Agent /\ agent'.simulator = agent.simulator
      /\ call[c].for \in {"nobody", "loop", "task"} /\ bench \in [Benchmarks -> Statuses]
  BY AnswerIs DEF CommitEvent, CommitSample, CommitOutcome, Answer, Fits, Typed, TypeOK, Call
<1>1. Progresses
  <2>1. CASE call[c].for # "task"
    BY <1>0, <2>1, AnswerOutside DEF Progresses
  <2>2. CASE call[c].for = "task" /\ call[c].op = "sample"
    BY <1>0, <2>2, AnswerSample DEF Progresses
  <2>3. CASE call[c].for = "task" /\ call[c].op # "sample"
    BY <1>0, <2>3, AnswerReport
  <2> QED BY <2>1, <2>2, <2>3
<1>2. Dropped
  BY <1>0, EndDecisions
<1>3. ASSUME UNCHANGED <<bench, desired, collided>>
      PROVE  Contract!Next
  BY <1>0, <1>1, <1>2, <1>3, GoesOn
<1>4. CASE CommitEvent(c)
  BY <1>3, <1>4 DEF CommitEvent
<1>5. ASSUME NEW success \in BOOLEAN, CommitSample(c, success)
      PROVE  Contract!Next
  <2>1. CASE success /\ call[c].read = "assigned"
    <3>1. /\ Outcome(call[c]) = "running" /\ bench' = [bench EXCEPT ![call[c].b] = "running"]
          /\ UNCHANGED <<desired, collided>> /\ call[c].op = "sample"
      BY <1>5, <2>1, OutcomeIs DEF CommitSample
    <3>2. \/ Contract!Stay
          \/ /\ Attempt = call[c].b
             /\ \E phase \in Contract!Phases : Contract!Measure(phase)
      BY <1>0, <3>1, AnswerOutside, AnswerSample
    <3>3. "running" \in Outcomes /\ "running" \notin Terminal
      BY DEF Outcomes, Terminal
    <3>4. Contract!Write(call[c].b, "running")
      BY <1>0, <3>1, <3>2, <3>3, Writes
    <3>5. call[c].b \in Benchmarks
      BY <3>1, <3>3, Decided DEF Outcomes
    <3> QED BY <1>0, <3>3, <3>4, <3>5, StepIs
  <2>2. CASE ~(success /\ call[c].read = "assigned")
    BY <1>3, <1>5, <2>2 DEF CommitSample
  <2> QED BY <2>1, <2>2
<1>6. CASE CommitOutcome(c)
  <2> DEFINE outcome == IF call[c].op = "fail" THEN "failed" ELSE "completed"
  <2>1. /\ Outcome(call[c]) = outcome /\ bench' = [bench EXCEPT ![call[c].b] = outcome]
        /\ Desire(c, "observe") /\ call[c].op \in {"complete", "fail"}
    BY <1>6, OutcomeIs DEF CommitOutcome
  <2>2. outcome \in Outcomes /\ outcome \in Terminal /\ outcome # "none"
        /\ (call[c].op = "complete" => outcome = "completed")
    BY DEF Outcomes, Terminal
  <2> HIDE DEF outcome
  <2>3. Contract!Stay \/ (outcome = "completed" /\ Contract!Leave)
    BY <1>0, <2>1, <2>2, AnswerOutside, AnswerReport
  <2>4. call[c].op \in Desiring
    BY <2>1 DEF Desiring
  <2>5. Contract!Write(call[c].b, outcome)
    BY <1>0, <2>1, <2>2, <2>3, <2>4, Writes
  <2>6. call[c].b \in Benchmarks
    BY <2>1, <2>2, Decided
  <2> QED BY <1>0, <2>2, <2>5, <2>6, StepIs
<1> QED BY <1>4, <1>5, <1>6

\* Steps of handlers, of calls and of jobs leave the agent alone.
LEMMA GoesQuietly ==
    ASSUME Typed, UNCHANGED <<agent, bench, desired, collided>>, Contract!Stay, Dropped
    PROVE  Contract!Next
<1>1. agent' \in Agent /\ agent'.simulator = agent.simulator
  BY DEF Typed, TypeOK
<1> QED BY <1>1, GoesOn DEF Progresses

LEMMA Undecided ==
    ASSUME Decisions' = Decisions
    PROVE  Dropped
  BY DEF Dropped

\* The operators and the worker.
LEMMA ImplementsHandled ==
    ASSUME Typed, ContractInv, NEW c \in Calls,
           \/ CommitProfile(c) \/ CommitCancel(c) \/ CommitAssign(c) \/ CommitSimulate(c)
           \/ ReadResult(c) \/ CommitResult(c) \/ WorkerDies(c)
    PROVE  Contract!Next
<1>0. /\ call[c] \in Call /\ call \in [Calls -> Call] /\ bench \in [Benchmarks -> Statuses]
      /\ agent \in Agent
  BY DEF Typed, TypeOK
<1>1. agent' = agent /\ task' = task
  BY DEF CommitProfile, CommitCancel, CommitAssign, CommitSimulate, ReadResult, CommitResult,
         WorkerDies
<1>2. agent' \in Agent /\ agent'.simulator = agent.simulator
  BY <1>0, <1>1
<1>3. ASSUME End(c), call[c].op # "sample"
      PROVE  Contract!Stay
  <2>1. call'[c] = NoCall /\ \A d \in Calls \ {c} : call'[d] = call[d]
    BY <1>0, <1>3, EndIs
  <2> QED BY <1>1, <1>3, <2>1, Stays DEF NoCall
<1>4. ASSUME End(c), call[c].op # "sample", UNCHANGED <<bench, desired, collided>>
      PROVE  Contract!Next
  BY <1>1, <1>3, <1>4, EndDecisions, GoesQuietly
<1>5. CASE CommitProfile(c)
  <2>1. /\ call[c].profile \in Settings /\ call[c].op = "profile" /\ End(c)
        /\ Desire(c, call[c].profile) /\ bench' = bench
    BY <1>5 DEF CommitProfile, Typed, Linked, Reads
  <2>2. Contract!Want(call[c].profile) /\ Contract!Stay
    BY <1>3, <2>1, Wants DEF Desiring
  <2>3. Outcome(call[c]) = "none"
    BY <2>1, NoneDecided
  <2>4. Decisions' = Decisions
    BY <2>1, <2>3, EndDecisions
  <2>5. Contract!Ask
    BY <2>1, <2>2, <2>4 DEF Contract!Ask, Settings, Contract!Settings
  <2> QED BY <1>2, <2>5, StepIs
<1>6. CASE CommitCancel(c)
  <2>1. /\ call[c].op = "cancel" /\ End(c) /\ Desire(c, "observe")
        /\ bench' = [bench EXCEPT ![call[c].b] = "cancelled"]
    BY <1>6 DEF CommitCancel
  <2>2. Outcome(call[c]) = "cancelled" /\ call[c].op \in Desiring
    BY <2>1, OutcomeIs DEF Desiring
  <2>3. "cancelled" \in Outcomes /\ "cancelled" \in Terminal
    BY DEF Outcomes, Terminal
  <2>4. Contract!Stay
    BY <1>3, <2>1
  <2>5. Contract!Write(call[c].b, "cancelled")
    BY <2>1, <2>2, <2>3, <2>4, Writes
  <2>6. call[c].b \in Benchmarks
    BY <2>2, Decided
  <2> QED BY <1>2, <2>3, <2>5, <2>6, StepIs
<1>7. CASE CommitAssign(c)
  <2>1. /\ call[c].op = "assign" /\ End(c) /\ UNCHANGED <<desired, collided>>
        /\ bench' = [bench EXCEPT ![call[c].b] = IF call[c].read = "queued" THEN "assigned" ELSE @]
    BY <1>7 DEF CommitAssign
  <2>2. Contract!Stay
    BY <1>3, <2>1
  <2>3. CASE call[c].read = "queued"
    <3>1. Outcome(call[c]) = "assigned" /\ bench' = [bench EXCEPT ![call[c].b] = "assigned"]
      BY <2>1, <2>3, OutcomeIs
    <3>2. "assigned" \in Outcomes /\ "assigned" \notin Terminal
      BY DEF Outcomes, Terminal
    <3>3. Contract!Write(call[c].b, "assigned")
      BY <2>1, <2>2, <3>1, <3>2, Writes
    <3>4. call[c].b \in Benchmarks
      BY <3>1, Decided
    <3> QED BY <1>2, <3>2, <3>3, <3>4, StepIs
  <2>4. CASE call[c].read # "queued"
    <3>1. bench' = bench
      BY <1>0, <2>1, <2>4
    <3> QED BY <1>4, <2>1, <3>1
  <2> QED BY <2>3, <2>4
<1>8. CASE CommitSimulate(c)
  <2> DEFINE b == call[c].b
             how == Written(bench[b], call[c].read, "running")
  <2>1. /\ call[c].op = "simulate" /\ agent.simulator /\ b \in Benchmarks
        /\ call' = [call EXCEPT ![c].op = "computing"]
        /\ bench' = [bench EXCEPT ![b] = how] /\ UNCHANGED <<desired, collided>>
    BY <1>8 DEF CommitSimulate, Typed, Linked, Reads
  <2>2. how \in {"running", "completed", bench[b]}
    BY DEF Written
  <2>3. /\ call'[c].op = "computing" /\ call'[c].for = call[c].for
        /\ \A d \in Calls \ {c} : call'[d] = call[d]
    BY <1>0, <2>1 DEF Call
  <2>4. Contract!Stay
    BY <1>1, <2>1, <2>3, Stays
  <2>5. Decisions' = Decisions
    BY <2>1, <2>3, NoneDecided, DecisionsStay
  <2> HIDE DEF how, b
  <2>6. Contract!Simulate(b)
    BY <2>1, <2>2, <2>4, <2>5 DEF Contract!Simulate
  <2> QED BY <1>2, <2>1, <2>6, StepIs
<1>9. CASE ReadResult(c)
  <2> DEFINE now == bench[call[c].b]
  <2>1. /\ call[c].op = "computing" /\ UNCHANGED <<bench, desired, collided>>
        /\ call' = [call EXCEPT ![c].op = "finish", ![c].read = now, ![c].desired = desired]
    BY <1>9 DEF ReadResult, server
  <2> HIDE DEF now
  <2>2. /\ call'[c].op = "finish" /\ call'[c].for = call[c].for
        /\ \A d \in Calls \ {c} : call'[d] = call[d]
    BY <1>0, <2>1 DEF Call
  <2>3. Contract!Stay
    BY <1>1, <2>1, <2>2, Stays
  <2>4. Decisions' = Decisions
    BY <2>1, <2>2, NoneDecided, DecisionsStay
  <2> QED BY <1>1, <2>1, <2>3, <2>4, Undecided, GoesQuietly
<1>10. CASE CommitResult(c)
  <2> DEFINE b == call[c].b
             how == Written(bench[b], call[c].read, "completed")
  <2>1. call[c].op = "finish" /\ End(c) /\ agent.simulator /\ b \in Benchmarks
    BY <1>10 DEF CommitResult, Typed, Linked, Reads
  <2>2. CASE call[c].read = "cancelled"
    BY <1>4, <1>10, <2>1, <2>2 DEF CommitResult
  <2>3. CASE call[c].read # "cancelled"
    <3>1. bench' = [bench EXCEPT ![b] = how] /\ Desire(c, "observe")
      BY <1>10, <2>3 DEF CommitResult
    <3>2. how \in {"running", "completed", bench[b]}
      BY DEF Written
    <3>3. Contract!Want("observe") /\ Contract!Stay
      BY <1>3, <2>1, <3>1, ObserveIs, Wants
    <3>4. Decisions' = Decisions
      BY <2>1, NoneDecided, EndDecisions
    <3> HIDE DEF how, b
    <3>5. Contract!Simulate(b)
      BY <2>1, <3>1, <3>2, <3>3, <3>4 DEF Contract!Simulate
    <3> QED BY <1>2, <2>1, <3>5, StepIs
  <2> QED BY <2>2, <2>3
<1>11. CASE WorkerDies(c)
  <2>1. End(c) /\ call[c].op # "sample" /\ UNCHANGED <<bench, desired, collided>>
    BY <1>11 DEF WorkerDies, server
  <2> QED BY <1>4, <2>1
<1> QED BY <1>5, <1>6, <1>7, <1>8, <1>9, <1>10, <1>11

\* A handler starts, for nobody, for the loop or for the task.
LEMMA ImplementsStart ==
    ASSUME Typed, NEW c \in Calls, NEW op \in Ops, NEW b \in Benchmarks \cup {"none"},
           NEW wanted \in Settings \cup {"none"}, NEW for \in {"nobody", "loop", "task"},
           Start(c, op, b, wanted, for), UNCHANGED <<agent, task, bench, desired, collided>>,
           op # "sample",
           op \in {"assign", "cancel", "complete", "fail"} => b \in Benchmarks,
           op = "cancel" => Contract!Permits(b, "cancelled"),
           op = "complete" => Contract!Permits(b, "completed"),
           op = "fail" => Contract!Permits(b, "failed")
    PROVE  Contract!Next
<1>1. /\ Outcome(call'[c]) = "none" => Decisions' = Decisions
      /\ \A outcome \in Outcomes :
           b \in Benchmarks /\ Outcome(call'[c]) = outcome =>
               Decisions' = Decisions \cup {<<b, outcome>>}
      /\ call'[c].op = op /\ call[c].op = "none"
      /\ call'[c].read = IF b = "none" THEN "absent" ELSE bench[b]
      /\ \A d \in Calls \ {c} : call'[d] = call[d]
  BY StartDecisions
<1>2. Contract!Stay
  BY <1>1, Stays
<1>3. agent' \in Agent /\ agent'.simulator = agent.simulator
  BY DEF Typed, TypeOK
<1>4. ASSUME NEW outcome \in Outcomes, b \in Benchmarks, Outcome(call'[c]) = outcome,
             outcome # "running", Contract!Permits(b, outcome)
      PROVE  Contract!Next
  <2>1. Decisions' = Decisions \cup {<<b, outcome>>}
    BY <1>1, <1>4
  <2>2. Contract!Decide(b, outcome)
    BY <1>2, <1>4, <2>1 DEF Contract!Decide
  <2> QED BY <1>3, <1>4, <2>2, StepIs
<1>5. ASSUME Outcome(call'[c]) = "none"
      PROVE  Contract!Next
  BY <1>1, <1>2, <1>5, Undecided, GoesQuietly
<1>6. CASE op = "cancel"
  <2>1. Outcome(call'[c]) = "cancelled" /\ "cancelled" \in Outcomes
    BY <1>1, <1>6, OutcomeIs DEF Outcomes
  <2> QED BY <1>4, <1>6, <2>1
<1>7. CASE op = "complete"
  <2>1. Outcome(call'[c]) = "completed" /\ "completed" \in Outcomes
    BY <1>1, <1>7, OutcomeIs DEF Outcomes
  <2> QED BY <1>4, <1>7, <2>1
<1>8. CASE op = "fail"
  <2>1. Outcome(call'[c]) = "failed" /\ "failed" \in Outcomes
    BY <1>1, <1>8, OutcomeIs DEF Outcomes
  <2> QED BY <1>4, <1>8, <2>1
<1>9. CASE op = "assign" /\ call'[c].read = "queued"
  <2>1. Outcome(call'[c]) = "assigned" /\ "assigned" \in Outcomes
    BY <1>1, <1>9, OutcomeIs DEF Outcomes
  <2>2. bench[b] = "queued"
    BY <1>1, <1>9
  <2>3. Contract!Permits(b, "assigned")
    BY <2>2 DEF Contract!Permits
  <2> QED BY <1>4, <1>9, <2>1, <2>3
<1>10. CASE op = "assign" /\ call'[c].read # "queued"
  <2>1. Outcome(call'[c]) = "none"
    BY <1>1, <1>10, OutcomeIs
  <2> QED BY <1>5, <2>1
<1>11. CASE op \notin {"assign", "cancel", "complete", "fail"}
  <2>1. Outcome(call'[c]) = "none"
    BY <1>1, <1>11, NoneDecided
  <2> QED BY <1>5, <2>1
<1> QED BY <1>6, <1>7, <1>8, <1>9, <1>10, <1>11

LEMMA ImplementsRequested ==
    ASSUME Typed, NEW c \in Calls, Requested(c) \/ \E b \in Benchmarks : TakeJob(c, b)
    PROVE  Contract!Next
<1>1. ASSUME NEW p \in Settings, AskProfile(c, p)
      PROVE  Contract!Next
  <2>1. /\ Start(c, "profile", "none", p, "nobody")
        /\ UNCHANGED <<agent, task, bench, desired, collided>>
    BY <1>1 DEF AskProfile, server
  <2> QED BY <2>1, ImplementsStart DEF Ops
<1>2. ASSUME NEW b \in Benchmarks, AskCancel(c, b)
      PROVE  Contract!Next
  <2>1. /\ Start(c, "cancel", b, "none", "nobody")
        /\ bench[b] \in Statuses /\ bench[b] \notin Terminal \cup {"absent"}
        /\ UNCHANGED <<agent, task, bench, desired, collided>>
    BY <1>2 DEF AskCancel, server, Typed, TypeOK
  <2>2. Contract!Permits(b, "cancelled")
    BY <2>1 DEF Contract!Permits, Contract!UnderWay, Statuses, Terminal
  <2> QED BY <2>1, <2>2, ImplementsStart DEF Ops
<1>3. ASSUME NEW b \in Benchmarks, TakeJob(c, b)
      PROVE  Contract!Next
  <2>1. CASE agent.simulator
    <3>1. /\ Start(c, "simulate", b, "none", "nobody")
          /\ UNCHANGED <<agent, task, bench, desired, collided>>
      BY <1>3, <2>1 DEF TakeJob
    <3> QED BY <3>1, ImplementsStart DEF Ops
  <2>2. CASE ~agent.simulator
    <3>1. /\ Start(c, "assign", b, "none", "nobody")
          /\ UNCHANGED <<agent, task, bench, desired, collided>>
      BY <1>3, <2>2 DEF TakeJob
    <3> QED BY <3>1, ImplementsStart DEF Ops
  <2> QED BY <2>1, <2>2
<1> QED BY <1>1, <1>2, <1>3 DEF Requested

\* The agent's calls set out.  A sample may be one that sets its benchmark to
\* running; who reports the benchmark's end has measured what it compares.
LEMMA ImplementsPosts ==
    ASSUME Typed, ContractInv, NEW c \in Calls, PostEvent(c) \/ Report(c) \/ Post(c)
    PROVE  Contract!Next
<1>0. task \in Task /\ TaskFits(task) /\ agent \in Agent
  BY DEF Typed, TypeOK, ContractInv
<1>1. CASE PostEvent(c)
  <2>1. /\ Start(c, "event", "none", Head(agent.pending), "loop") /\ agent.pending # <<>>
        /\ UNCHANGED <<agent, task, bench, desired, collided>>
    BY <1>1 DEF PostEvent, server
  <2>2. Head(agent.pending) \in Settings \cup {"none"}
    <3>1. agent.pending \in Seq(Settings \cup {"none"})
      BY <1>0 DEF Agent
    <3> QED BY <2>1, <3>1
  <2> QED BY <2>1, <2>2, ImplementsStart DEF Ops
<1>2. CASE Report(c)
  <2>1. /\ Start(c, "event", "none", task.effect, "task")
        /\ UNCHANGED <<agent, task, bench, desired, collided>>
    BY <1>2 DEF Report, server
  <2>2. task.effect \in Settings \cup {"none"}
    BY <1>0 DEF Task
  <2> QED BY <2>1, <2>2, ImplementsStart DEF Ops
<1>3. CASE Post(c)
  <2>1. PICK op \in {"fail", "complete", "sample"} :
             /\ Start(c, op, task.b, "none", "task")
             /\ op = "fail" => task.at = "failing"
             /\ op = "complete" => task.at = "completing"
             /\ op = "sample" => task.at \in {"baseline", "optimized"}
             /\ task.b \in Benchmarks /\ bench[task.b] \in Accepting
             /\ \A d \in Calls : call[d].for # "task"
             /\ UNCHANGED <<agent, task, bench, desired, collided>>
    BY <1>3, PostIs DEF server
  <2>2. op \in Ops /\ task.at \notin {"none", "done"}
    BY <2>1 DEF Ops
  <2>3. Attempt = task.b /\ bench[task.b] \in Contract!UnderWay
    BY <2>1, <2>2 DEF Attempt, Measuring, Accepting, Contract!UnderWay
  <2>4. CASE op = "fail"
    <3>1. Contract!Permits(task.b, "failed")
      BY <2>3 DEF Contract!Permits
    <3> QED BY <2>1, <2>2, <2>4, <3>1, ImplementsStart
  <2>5. CASE op = "complete"
    <3>1. task.at = "completing" /\ task.ok
      BY <1>0, <2>1, <2>5 DEF TaskFits, Unraised
    <3>2. MeasuredPhases(task) = Contract!Phases
      BY <1>0, <3>1, MeasuredIs DEF Contract!Phases
    <3>3. Contract!Permits(task.b, "completed")
      BY <2>3, <3>2 DEF Contract!Permits
    <3> QED BY <2>1, <2>2, <2>5, <3>3, ImplementsStart
  <2>6. CASE op = "sample"
    <3>1. /\ Outcome(call'[c]) = "none" => Decisions' = Decisions
          /\ \A outcome \in Outcomes :
               Outcome(call'[c]) = outcome =>
                   Decisions' = Decisions \cup {<<task.b, outcome>>}
          /\ call'[c].op = "sample" /\ call'[c].for = "task"
          /\ call'[c].read = IF task.b = "none" THEN "absent" ELSE bench[task.b]
      BY <2>1, <2>2, <2>6, StartDecisions
    <3>2. Sampling = FALSE
      BY <2>1, NotSampling
    <3>3. Sampling' = TRUE
      BY <3>1 DEF Sampling, Waiting
    <3>4. Attempt' = Attempt /\ Spoiled' = Spoiled /\ Attempt # "none"
          /\ MeasuredPhases(task)' = MeasuredPhases(task)
      BY <1>0, <2>1, <2>2, <2>3 DEF Attempt, Spoiled, Measuring, TaskFits
    <3>5. Contract!Send
      BY <3>2, <3>3, <3>4 DEF Contract!Send
    <3>6. CASE call'[c].read = "assigned"
      <4>1. Outcome(call'[c]) = "running" /\ "running" \in Outcomes
        BY <3>1, <3>6, OutcomeIs DEF Outcomes
      <4>2. bench[task.b] = "assigned"
        BY <3>1, <3>6
      <4>3. Contract!Permits(task.b, "running")
        BY <2>3, <4>2 DEF Contract!Permits
      <4>4. Contract!Decide(task.b, "running")
        BY <2>1, <3>1, <3>5, <4>1, <4>3 DEF Contract!Decide
      <4> QED BY <1>0, <2>1, <4>1, <4>4, StepIs
    <3>7. CASE call'[c].read # "assigned"
      <4>1. Outcome(call'[c]) = "none"
        BY <3>1, <3>7, OutcomeIs
      <4>2. Progresses /\ Dropped
        BY <3>1, <3>5, <4>1, Undecided DEF Progresses
      <4> QED BY <1>0, <2>1, <4>2, GoesOn
    <3> QED BY <3>6, <3>7
  <2> QED BY <2>4, <2>5, <2>6
<1> QED BY <1>1, <1>2, <1>3

\* The loop: it takes a benchmark when it has none.
LEMMA ImplementsLoop ==
    ASSUME Typed, Typed', Loop
    PROVE  Contract!Next
<1>0. /\ UNCHANGED <<call, bench, desired, collided>> /\ agent \in Agent /\ agent' \in Agent
      /\ task \in Task /\ task' \in Task
  BY DEF Loop, Register, Reap, Heartbeat, AllPosted, Handle, server, Typed, TypeOK
<1>1. agent'.simulator = agent.simulator
  <2>1. ASSUME NEW passed \in BOOLEAN, Register(passed)
        PROVE  agent'.simulator = agent.simulator
    BY <2>1, RegisterIs
  <2>2. CASE Reap \/ Heartbeat \/ AllPosted
    BY <1>0, <2>2 DEF Reap, Heartbeat, AllPosted, Agent
  <2>3. ASSUME NEW passed \in BOOLEAN, NEW outside \in BOOLEAN, NEW undone \in BOOLEAN,
               Handle(passed, outside, undone)
        PROVE  agent'.simulator = agent.simulator
    BY <2>3, HandleIs
  <2> QED BY <2>1, <2>2, <2>3 DEF Loop, Verdicts
<1>2. Dropped
  <2>1. Decisions' = Decisions
    BY <1>0, DecisionsStay
  <2> QED BY <2>1, Undecided
<1>3. ASSUME Progresses
      PROVE  Contract!Next
  BY <1>0, <1>1, <1>2, <1>3, GoesOn
<1>4. ASSUME task' = task
      PROVE  Contract!Next
  BY <1>0, <1>3, <1>4, Stays DEF Progresses
<1>5. MeasuredPhases(task)' = MeasuredPhases(task')
  OBVIOUS
<1>6. CASE Reap
  <2>1. task.at = "done" /\ task'.at = "none"
    BY <1>6 DEF Reap, NoTask
  <2>2. MeasuredPhases(task) = {} /\ MeasuredPhases(task') = {}
    BY <1>0, <2>1, MeasuredIs
  <2>3. Attempt = "none" /\ Attempt' = "none" /\ Spoiled = FALSE /\ Spoiled' = FALSE
    BY <2>1 DEF Attempt, Spoiled, Measuring
  <2>4. Sampling' = FALSE
    BY <2>1, QuietThen
  <2>5. Contract!Leave
    BY <1>5, <2>2, <2>3, <2>4 DEF Contract!Leave
  <2> QED BY <1>3, <2>5 DEF Progresses
<1>7. ASSUME NEW passed \in BOOLEAN, NEW outside \in BOOLEAN, NEW undone \in BOOLEAN,
             Handle(passed, outside, undone)
      PROVE  Contract!Next
  <2>1. \/ task' = task
        \/ /\ task.at = "none" /\ reply.b # "none"
           /\ task' = [NoTask EXCEPT !.at = "starting", !.b = reply.b]
    BY <1>7 DEF Handle, Busy
  <2>2. CASE task' = task
    BY <1>4, <2>2
  <2>3. CASE /\ task.at = "none" /\ reply.b # "none"
             /\ task' = [NoTask EXCEPT !.at = "starting", !.b = reply.b]
    <3>1. /\ task'.at = "starting" /\ task'.b = reply.b /\ task'.disturbed = FALSE
          /\ reply.b \in Benchmarks
      BY <2>3 DEF NoTask, Typed, TypeOK, Reply
    <3>2. MeasuredPhases(task') = {}
      BY <1>0, <3>1, MeasuredIs
    <3>3. Attempt = "none" /\ Attempt' = reply.b /\ Spoiled' = FALSE
      BY <2>3, <3>1 DEF Attempt, Spoiled, Measuring
    <3>4. Sampling' = FALSE
      BY <3>1, QuietThen
    <3>5. Contract!Take(reply.b)
      BY <1>5, <3>2, <3>3, <3>4 DEF Contract!Take
    <3> QED BY <1>3, <3>1, <3>5 DEF Progresses
  <2> QED BY <2>1, <2>2, <2>3
<1>8. CASE Heartbeat \/ AllPosted \/ \E passed \in BOOLEAN : Register(passed)
  BY <1>4, <1>8 DEF Heartbeat, AllPosted, Register
<1> QED BY <1>6, <1>7, <1>8 DEF Loop, Verdicts

\* The task's own steps.
LEMMA ImplementsTask ==
    ASSUME Typed, ContractInv, Benchmarking
    PROVE  Contract!Next
<1>0. /\ TaskMoves /\ Advances /\ task \in Task
      /\ \A c \in Calls : call[c].for # "task"
      /\ UNCHANGED <<call, bench, desired, collided>>
  BY BenchmarkingMoves, BenchmarkingAdvances DEF ContractInv, server, Typed, TypeOK
<1>1. Sampling = FALSE /\ Sampling' = FALSE
  BY <1>0, NotSampling, SamplesNoMore
<1>2. task.b # "none"
  BY <1>0 DEF TaskMoves, ContractInv, TaskFits
<1>3. Progresses
  BY <1>0, <1>1, <1>2, TaskGoes DEF TaskMoves, Advances
<1>4. Dropped
  BY <1>0, DecisionsStay, Undecided
<1> QED BY <1>0, <1>3, <1>4, GoesOn DEF TaskMoves, Moved

\* A rollback of the agent's own, whatever the task does.
LEMMA DisturbedGoes ==
    ASSUME Typed, ContractInv, task' = task \/ (Busy /\ task' = [task EXCEPT !.disturbed = TRUE]),
           call' = call
    PROVE  Progresses
<1>0. task \in Task
  BY DEF Typed, TypeOK
<1>1. CASE task' = task
  BY <1>1, Stays DEF Progresses
<1>2. CASE Busy /\ task' = [task EXCEPT !.disturbed = TRUE]
  <2>1. /\ task' \in Task /\ task'.at = task.at /\ task'.b = task.b /\ task'.ok = task.ok
        /\ task'.sampled = task.sampled /\ task'.disturbed = TRUE /\ task.at # "none"
    BY <1>0, <1>2 DEF Task, Busy
  <2>2. MeasuredPhases(task)' = MeasuredPhases(task)
    BY <2>1 DEF MeasuredPhases
  <2>3. Sampling' = Sampling /\ Attempt' = Attempt
    BY <1>2, <2>1 DEF Sampling, Waiting, Attempt, Measuring
  <2>4. CASE task.at = "done"
    <3>1. Spoiled' = Spoiled
      BY <2>1, <2>4 DEF Spoiled, Measuring
    <3>2. Contract!Stay
      BY <2>2, <2>3, <3>1 DEF Contract!Stay, Contract!progress
    <3> QED BY <3>2 DEF Progresses
  <2>5. CASE task.at # "done"
    <3>1. Spoiled' = TRUE
      BY <2>1, <2>5 DEF Spoiled, Measuring
    <3>2. Attempt # "none"
      BY <2>1, <2>5 DEF Attempt, Measuring, ContractInv, TaskFits
    <3>3. Contract!Spoil
      BY <2>2, <2>3, <3>1, <3>2 DEF Contract!Spoil
    <3> QED BY <3>3 DEF Progresses
  <2> QED BY <2>4, <2>5
<1> QED BY <1>1, <1>2

LEMMA ImplementsFaulty ==
    ASSUME Typed, ContractInv, Typed', Faulty
    PROVE  Contract!Next
<1>0. /\ UNCHANGED <<bench, desired, collided>> /\ call \in [Calls -> Call]
      /\ agent \in Agent /\ agent' \in Agent /\ task \in Task /\ task' \in Task /\ TaskFits(task)
  BY DEF Faulty, LoseHeartbeat, Crash, HealthRollback, WorkerDies, Abandon, DropJob, server,
         Typed, TypeOK, ContractInv
<1>1. ASSUME NEW late \in BOOLEAN, NEW passed \in BOOLEAN,
             LoseHeartbeat(late, passed) \/ HealthRollback(passed)
      PROVE  Contract!Next
  <2>1. /\ task' = task \/ (Busy /\ task' = [task EXCEPT !.disturbed = TRUE])
        /\ call' = call
    BY <1>1 DEF LoseHeartbeat, HealthRollback
  <2>2. Progresses
    BY <2>1, DisturbedGoes
  <2>3. Dropped
    BY <2>1, DecisionsStay, Undecided
  <2>4. agent'.simulator = agent.simulator
    BY <1>1, HeartbeatLost, HealthIs
  <2> QED BY <1>0, <2>2, <2>3, <2>4, GoesOn
<1>2. ASSUME NEW restores \in BOOLEAN, NEW passed \in BOOLEAN, Crash(restores, passed)
      PROVE  Contract!Next
  <2>1. call' = Forsaken({c \in Calls : call[c].for # "nobody"}) /\ task' = NoTask
    BY <1>2 DEF Crash
  <2>2. task'.at = "none"
    BY <2>1 DEF NoTask
  <2>3. Sampling' = FALSE
    BY <2>2, QuietThen
  <2>4. MeasuredPhases(task') = {}
    BY <1>0, <2>2, MeasuredIs
  <2>5. MeasuredPhases(task)' = {}
    BY <2>4
  <2>6. Attempt' = "none" /\ Spoiled' = FALSE
    BY <2>2 DEF Attempt, Spoiled, Measuring
  <2>7. Progresses
    BY <2>3, <2>5, <2>6 DEF Contract!Leave, Progresses
  <2>8. \A c \in Calls : call'[c].op = call[c].op /\ call'[c].read = call[c].read
                         /\ call'[c].b = call[c].b
    BY <1>0, <2>1, ForsakenIs
  <2>9. \A c \in Calls : Outcome(call'[c]) = Outcome(call[c])
    BY <2>8, SameDecided
  <2>10. Dropped
    BY <2>8, <2>9, DecisionsStay, Undecided
  <2>11. agent'.simulator = agent.simulator
    BY <1>2, CrashIs
  <2> QED BY <1>0, <2>7, <2>10, <2>11, GoesOn
<1>3. ASSUME NEW c \in Calls, NEW lost \in BOOLEAN, NEW retries \in BOOLEAN,
             Abandon(c, lost, retries)
      PROVE  Contract!Next
  <2>1. /\ call'[c].for = "nobody" /\ \A d \in Calls \ {c} : call'[d] = call[d]
        /\ ~lost => /\ call'[c].op = call[c].op /\ call'[c].b = call[c].b
                    /\ call'[c].read = call[c].read
        /\ lost => call'[c].op = "none"
    BY <1>3, AbandonOnward
  <2>2. Dropped
    <3>1. CASE lost
      <4>1. Outcome(call'[c]) = "none"
        BY <2>1, <3>1, NoneDecided
      <4> QED BY <2>1, <4>1, DecisionsEnd DEF Dropped
    <3>2. CASE ~lost
      <4>1. Outcome(call'[c]) = Outcome(call[c])
        BY <2>1, <3>2, SameDecided
      <4> QED BY <2>1, <3>2, <4>1, DecisionsStay, Undecided
    <3> QED BY <3>1, <3>2
  <2>3. CASE call[c].for = "loop"
    <3>1. agent' = [agent EXCEPT !.at = "ready"] /\ task' = task
      BY <1>3, <2>3 DEF Abandon
    <3>2. agent'.simulator = agent.simulator
      BY <1>0, <3>1 DEF Agent
    <3>3. Progresses
      BY <2>1, <2>3, <3>1, Stays DEF Progresses
    <3> QED BY <1>0, <2>2, <3>2, <3>3, GoesOn
  <2>4. CASE call[c].for = "task"
    <3>1. agent' = agent /\ (task' = task \/ task' = Raised(task))
      BY <1>3, <2>4 DEF Abandon
    <3>2. \A d \in Calls : call'[d].for # "task"
      BY <2>1, <2>4 DEF Typed, Linked
    <3>3. Sampling' = FALSE
      BY <3>2, SamplesNoMore
    <3>4. task.at \notin {"none", "done"} /\ task.b # "none"
      BY <1>0, <2>4 DEF Typed, Linked, Paired, Reporting, TaskFits
    <3>5. CASE task' = task
      <4>1. Progresses
        BY <1>0, <3>3, <3>4, <3>5, TaskGoes
      <4> QED BY <1>0, <2>2, <3>1, <4>1, GoesOn
    <3>6. CASE task' = Raised(task)
      <4>1. /\ task'.b = task.b /\ task'.at # "none" /\ task'.disturbed = task.disturbed
            /\ task'.at = "done" \/ MeasuredPhases(task') = {}
        BY <1>0, <3>6, RaisedIs, RaisedMeasured
      <4>2. Progresses
        BY <1>0, <3>3, <3>4, <4>1, TaskGoes
      <4> QED BY <1>0, <2>2, <3>1, <4>2, GoesOn
    <3> QED BY <3>1, <3>5, <3>6
  <2>5. call[c].for \in {"loop", "task"}
    BY <1>3 DEF Abandon, Typed, TypeOK, Call
  <2> QED BY <2>3, <2>4, <2>5
<1>4. ASSUME NEW b \in Benchmarks, DropJob(b)
      PROVE  Contract!Next
  <2>1. UNCHANGED <<agent, task, call>>
    BY <1>4 DEF DropJob
  <2>2. Contract!Stay /\ Dropped
    BY <2>1, Stays, DecisionsStay, Undecided
  <2> QED BY <1>0, <2>1, <2>2, GoesQuietly
<1> QED BY <1>1, <1>2, <1>3, <1>4, ImplementsHandled DEF Faulty

LEMMA ImplementsJobs ==
    ASSUME Typed, NEW b \in Benchmarks, Create(b) \/ EnqueueJob(b)
    PROVE  Contract!Next
<1>0. /\ UNCHANGED <<agent, task, call, desired, collided>>
      /\ agent' \in Agent /\ agent'.simulator = agent.simulator
  BY DEF Create, EnqueueJob, Typed, TypeOK
<1>1. Contract!Stay /\ Decisions' = Decisions
  BY <1>0, Stays, DecisionsStay
<1>2. CASE Create(b)
  <2>1. bench[b] = "absent" /\ bench' = [bench EXCEPT ![b] = "queued"]
    BY <1>2 DEF Create
  <2>2. Contract!Submit(b)
    BY <1>0, <1>1, <2>1 DEF Contract!Submit
  <2> QED BY <1>0, <2>2, StepIs
<1>3. CASE EnqueueJob(b)
  BY <1>0, <1>1, <1>3, Undecided, GoesQuietly DEF EnqueueJob
<1> QED BY <1>2, <1>3

LEMMA ImplementsStep ==
    Typed /\ HostInv /\ ContractInv /\ Typed' /\ [Next]_vars => Contract!Next
<1> SUFFICES ASSUME Typed, HostInv, ContractInv, Typed', [Next]_vars PROVE Contract!Next
  OBVIOUS
<1>1. CASE UNCHANGED vars
  <2>1. UNCHANGED <<agent, task, call, bench, desired, collided>>
    BY <1>1 DEF vars, server
  <2>2. Contract!Stay /\ Dropped
    BY <2>1, Stays, DecisionsStay, Undecided
  <2> QED BY <2>1, <2>2, GoesQuietly
<1>2. ASSUME NEW c \in Calls, Handled(c)
      PROVE  Contract!Next
  BY <1>2, ImplementsHandled, ImplementsAnswer DEF Handled
<1> QED BY <1>1, <1>2, ImplementsJobs, ImplementsRequested, ImplementsPosts, ImplementsLoop,
           ImplementsTask, ImplementsFaulty DEF Next

LEMMA ImplementsInit == Init => Contract!Init
<1> SUFFICES ASSUME Init PROVE Contract!Init
  OBVIOUS
<1>1. /\ task.at = "none" /\ \A c \in Calls : call[c].op = "none"
      /\ bench = [b \in Benchmarks |-> "absent"] /\ collided = FALSE
      /\ task \in Task
  BY ObserveIs DEF Init, NoTask, NoCall
<1>2. /\ agent.setting = "observe" /\ agent.simulator \in BOOLEAN
  BY DEF Init
<1>3. desired \in [profile : Contract!Settings, version : Nat]
  BY DEF Init, Contract!Settings
<1>4. Sampling = FALSE
  BY <1>1, NotSampling
<1>5. MeasuredPhases(task) = {}
  BY <1>1, MeasuredIs
<1>6. Attempt = "none" /\ Spoiled = FALSE
  BY <1>1 DEF Attempt, Spoiled, Measuring
<1>7. Decisions = {}
  <2>1. \A c \in Calls : Outcome(call[c]) = "none"
    BY <1>1, NoneDecided
  <2> QED BY <2>1, InDecisions
<1> QED BY <1>1, <1>2, <1>3, <1>4, <1>5, <1>6, <1>7 DEF Contract!Init

\* A comparison is completed only when an attempt has measured both of its phases
\* on the host where each belongs, the agent's own rollbacks and failed restores
\* excepted; every status follows a decision that was allowed when it was taken;
\* and who ends a benchmark takes its profile back.
THEOREM BenchmarksKeepTheContract == Spec => ImplementsContract
<1>1. Typed /\ HostInv /\ ContractInv /\ Typed' /\ [Next]_vars => [Contract!Next]_(Contract!vars)
  BY ImplementsStep
<1> QED BY <1>1, TypedInit, TypedStep, HostInit, HostStep, ContractInit, ContractStep,
           ImplementsInit, PTL DEF Spec, ImplementsContract, Contract!Spec
=============================================================================
