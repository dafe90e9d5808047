------------------------ MODULE GatewayRequestProofs ------------------------
(***************************************************************************)
(* Proofs about GatewayRequest, for any requests, endpoints, tiers, slots  *)
(* and permits.                                                            *)
(***************************************************************************)
EXTENDS GatewayRequest, FiniteSetTheorems, TLAPS

\* The types, with counters that are not yet known to stay above zero.
Typed ==
    /\ pc \in [Requests -> Places]
    /\ eligible \in [Requests -> SUBSET Endpoints]
    /\ fallback \in Endpoints
    /\ callee \in [Requests -> Endpoints]
    /\ purpose \in [Requests -> Purposes]
    /\ late \in SUBSET Requests
    /\ called \in [Requests -> [Endpoints -> Nat]]
    /\ draft \in [Requests -> Rows]
    /\ row \in [Requests -> Rows]
    /\ answer \in [Requests -> {"none", "error", "cache", "body", "chunks", "done"}]
    /\ active \in [Endpoints -> Int]
    /\ permits \in Int
    /\ leaked \in SUBSET Requests
    /\ abandoned \in SUBSET Requests
    /\ stalled \in SUBSET Requests
    /\ crashes \in 0..MaxCrashes

\* Where a request is once its stream is accepted, and where it calls.
Open == {"accepted", "starting", "streaming", "cancelled", "broken", "finishing"}
Live == {"preflight", "opening", "first", "completed"} \cup Open
Trying == {"invoke", "waiting", "calling", "answered", "preflight", "opening", "first"}

\* A row that accounts for an answer.
Recorded(x) ==
    /\ x.status = "completed" /\ x.impact
    /\ x.cached \/ \E n \in 1..2 : /\ x.attempts[n].endpoint = x.selected
                                   /\ x.attempts[n].status = "completed"
                                   /\ x.attempts[n].passed

\* An answer was given at the end, or the first chunks of a live stream were, ...
AnswerFits(r) ==
    /\ answer[r] \in {"body", "done", "cache"} => pc[r] = "over" /\ Recorded(row[r])
    /\ answer[r] # "none" => pc[r] \in (Open \ {"accepted", "starting"}) \cup {"over", "completed"}
    /\ answer[r] \in {"chunks", "done"} => row[r].selected \notin Specialized

\* ... of what the session, or the database, has on record.
DraftFits(r) ==
    /\ pc[r] \in {"hit", "committing"} => Recorded(draft[r])
    /\ pc[r] \in {"cached", "replaying", "completed"} => Recorded(row[r])
    /\ pc[r] = "failing" => draft[r].status = "failed"

\* A live stream never has a specialized endpoint to go to.
LiveFits(r) ==
    /\ pc[r] \in Live => /\ eligible[r] \cap Specialized = {}
                         /\ callee[r] \in eligible[r]
                         /\ draft[r].selected = callee[r]
    /\ pc[r] \in Open \cup {"completed"} => row[r].selected = callee[r]

\* What has been called: at first the selected endpoint, then the fallback.
CallsFit(r) ==
    /\ pc[r] \in {"idle", "received"} =>
           purpose[r] = "selected" /\ \A e \in Endpoints : called[r][e] = 0
    /\ pc[r] \in {"invoke", "preflight"} => called[r][callee[r]] = 0
    /\ pc[r] \in Trying => callee[r] \in eligible[r]
    /\ \A e \in Endpoints : called[r][e] <= 1 /\ (called[r][e] > 0 => e \in eligible[r])
    /\ purpose[r] # "selected" => callee[r] = fallback
    /\ purpose[r] = "selected" => \A e \in Endpoints : called[r][e] > 0 => e = callee[r]
    /\ \A e, f \in Endpoints \ {fallback} : called[r][e] > 0 /\ called[r][f] > 0 => e = f

\* A row is left "routing" only where nothing will happen to it.
EndFits(r) == row[r].status = "routing" => pc[r] \in Open \/ r \in abandoned

Fits(r) == AnswerFits(r) /\ DraftFits(r) /\ LiveFits(r) /\ CallsFit(r) /\ EndFits(r)

\* The counters are what they count: slots are held in calls, permits by streams
\* that are sent or lost with those never started.
Callers(e) == {r \in Requests : pc[r] \in Calling /\ callee[r] = e}
Senders == {r \in Requests : pc[r] \in Sending}
Slotted == \A e \in Endpoints : active[e] = Cardinality(Callers(e)) /\ active[e] <= Slots
Permitted ==
    /\ permits = Cardinality(Senders) + Cardinality(leaked) /\ permits <= MaxStreams
    /\ \A r \in leaked : pc[r] = "over"

IInv == Typed /\ (\A r \in Requests : Fits(r)) /\ Slotted /\ Permitted
-----------------------------------------------------------------------------
Ways == {"none", "failed", "completed", "streaming"} \cup StreamEnds
Errors == Codes \cup StreamEnds \cup {"none"}
Ends == {"absent", "routing", "completed", "failed"} \cup StreamEnds

\* A row with another status, selection or impact is a row.
LEMMA RowUpdates ==
    ASSUME NEW x \in Rows, NEW s \in Ends, NEW e \in Endpoints, NEW i \in BOOLEAN
    PROVE  /\ [x EXCEPT !.status = s] \in Rows
           /\ [x EXCEPT !.selected = e] \in Rows
           /\ [x EXCEPT !.status = s, !.impact = i] \in Rows
           /\ [x EXCEPT !.selected = e, !.status = s] \in Rows
           /\ [x EXCEPT !.selected = e, !.status = s, !.impact = i] \in Rows
           /\ [x EXCEPT !.status = s, !.selected = e, !.cached = i, !.impact = i] \in Rows
BY DEF Rows, Ends

LEMMA AbsentIsRow == Absent \in Rows /\ Absent.status = "absent"
BY DEF Absent, Rows, Attempts, NoAttempt

\* An attempt changes nothing else of the row.
LEMMA AttemptedType ==
    ASSUME Typed, NEW r \in Requests, NEW way \in Ways, NEW error \in Errors
    PROVE  /\ Attempted(r, way, error) \in Rows
           /\ Attempted(r, way, error).status = draft[r].status
           /\ Attempted(r, way, error).selected = draft[r].selected
<1>1. draft[r] \in Rows /\ callee[r] \in Endpoints
  BY DEF Typed
<1>2. [endpoint |-> callee[r], status |-> way, error |-> error, passed |-> FALSE] \in Attempts
  BY <1>1 DEF Attempts, Ways, Errors
<1>3. QED
  BY <1>1, <1>2 DEF Attempted, Rows

\* So does an output, which leaves an attempt at the endpoint called.
LEMMA AnsweredType ==
    ASSUME Typed, NEW r \in Requests, NEW passes \in BOOLEAN
    PROVE  /\ Answered(r, passes) \in Rows
           /\ Answered(r, passes).status = draft[r].status
           /\ Answered(r, passes).selected = draft[r].selected
           /\ \E n \in 1..2 : Answered(r, passes).attempts[n] =
                  [endpoint |-> callee[r], status |-> "completed", error |-> "none",
                   passed |-> passes]
<1>1. draft[r] \in Rows /\ callee[r] \in Endpoints
  BY DEF Typed
<1>2. [endpoint |-> callee[r], status |-> "completed", error |-> "none", passed |-> passes]
          \in Attempts
  BY <1>1 DEF Attempts
<1>3. QED
  BY <1>1, <1>2 DEF Answered, Rows

\* A completed row with a passed output at the endpoint called is accounted for.
LEMMA AnsweredIsRecorded ==
    ASSUME Typed, NEW r \in Requests
    PROVE  /\ Recorded([Answered(r, TRUE) EXCEPT !.selected = callee[r],
                                                 !.status = "completed", !.impact = TRUE])
           /\ draft[r].selected = callee[r] =>
                  Recorded([Answered(r, TRUE) EXCEPT !.status = "completed", !.impact = TRUE])
<1>1. PICK n \in 1..2 : Answered(r, TRUE).attempts[n] =
          [endpoint |-> callee[r], status |-> "completed", error |-> "none", passed |-> TRUE]
  BY AnsweredType
<1>2. Answered(r, TRUE) \in Rows /\ Answered(r, TRUE).selected = draft[r].selected
  BY AnsweredType
<1>3. ASSUME NEW x \in Rows, x.attempts[n].endpoint = x.selected, x.status = "completed",
             x.impact, x.attempts[n].status = "completed", x.attempts[n].passed
      PROVE  Recorded(x)
  BY <1>3 DEF Recorded
<1>4. /\ Answered(r, TRUE).attempts[n].endpoint = callee[r]
      /\ Answered(r, TRUE).attempts[n].status = "completed"
      /\ Answered(r, TRUE).attempts[n].passed
  <2>1. ASSUME NEW a, a = [endpoint |-> callee[r], status |-> "completed", error |-> "none",
                           passed |-> TRUE]
        PROVE  a.endpoint = callee[r] /\ a.status = "completed" /\ a.passed
    BY <2>1
  <2>2. QED
    BY <1>1, <2>1
<1>5. callee[r] \in Endpoints
  BY DEF Typed
<1>6. Recorded([Answered(r, TRUE) EXCEPT !.selected = callee[r], !.status = "completed",
                                         !.impact = TRUE])
  <2> DEFINE x == [Answered(r, TRUE) EXCEPT !.selected = callee[r], !.status = "completed",
                                            !.impact = TRUE]
  <2>1. x \in Rows
    BY <1>2, <1>5, RowUpdates DEF Ends
  <2>2. /\ x.selected = callee[r] /\ x.status = "completed" /\ x.impact
        /\ x.attempts = Answered(r, TRUE).attempts
    BY <1>2 DEF Rows
  <2> HIDE DEF x
  <2>3. Recorded(x)
    BY <2>1, <2>2, <1>3, <1>4
  <2> QED
    BY <2>3 DEF x
<1>7. ASSUME draft[r].selected = callee[r]
      PROVE  Recorded([Answered(r, TRUE) EXCEPT !.status = "completed", !.impact = TRUE])
  <2> DEFINE x == [Answered(r, TRUE) EXCEPT !.status = "completed", !.impact = TRUE]
  <2>1. x \in Rows
    BY <1>2, <1>5, RowUpdates DEF Ends
  <2>2. /\ x.selected = callee[r] /\ x.status = "completed" /\ x.impact
        /\ x.attempts = Answered(r, TRUE).attempts
    BY <1>2, <1>7 DEF Rows
  <2> HIDE DEF x
  <2>3. Recorded(x)
    BY <2>1, <2>2, <1>3, <1>4
  <2> QED
    BY <2>3 DEF x
<1>8. QED
  BY <1>6, <1>7
-----------------------------------------------------------------------------
LEMMA EndTyped ==
    ASSUME Typed, NEW r \in Requests, End(r)
    PROVE  pc' \in [Requests -> Places] /\ draft' \in [Requests -> Rows]
BY AbsentIsRow DEF End, Typed, Places

LEMMA ReleasedTyped ==
    ASSUME Typed, NEW r \in Requests
    PROVE  Released(r) \in [Endpoints -> Int]
BY DEF Typed, Released

\* A failed call leaves a row, and the request in one of three places.
LEMMA CallFailsTyped ==
    ASSUME Typed, NEW r \in Requests, NEW error \in Codes, NEW again \in {"invoke", "preflight"},
           CallFails(r, error, again)
    PROVE  /\ pc' \in [Requests -> Places] /\ draft' \in [Requests -> Rows]
           /\ purpose' \in [Requests -> Purposes] /\ callee' \in [Requests -> Endpoints]
           /\ active' \in [Endpoints -> Int]
<1> DEFINE x == Attempted(r, "failed", error)
<1>1. x \in Rows
  BY AttemptedType DEF Ways, Errors
<1>2. fallback \in Endpoints
  BY DEF Typed
<1>3. [x EXCEPT !.selected = fallback] \in Rows /\ [x EXCEPT !.status = "failed"] \in Rows
  BY <1>1, <1>2, RowUpdates DEF Ends
<1>4. active' \in [Endpoints -> Int]
  BY ReleasedTyped DEF CallFails
<1>5. CASE MayFallBack(r) /\ error \in Retryable
  <2>1. /\ purpose' = [purpose EXCEPT ![r] = "transport_fallback"]
        /\ callee' = [callee EXCEPT ![r] = fallback]
        /\ draft' = [draft EXCEPT ![r] = [x EXCEPT !.selected = fallback]]
        /\ pc' = [pc EXCEPT ![r] = again]
    BY <1>5 DEF CallFails
  <2> HIDE DEF x
  <2>2. QED
    BY <1>2, <1>3, <1>4, <2>1 DEF Typed, Places, Purposes
<1>6. CASE ~(MayFallBack(r) /\ error \in Retryable)
  <2>1. /\ purpose' = purpose /\ callee' = callee
        /\ draft' = [draft EXCEPT ![r] = [x EXCEPT !.status = "failed"]]
        /\ pc' = [pc EXCEPT ![r] = "failing"]
    BY <1>6 DEF CallFails
  <2> HIDE DEF x
  <2>2. QED
    BY <1>3, <1>4, <2>1 DEF Typed, Places
<1>7. QED
  BY <1>5, <1>6

LEMMA TypedInit == Init => Typed
<1> SUFFICES ASSUME Init PROVE Typed
  OBVIOUS
<1>1. QED
  BY AbsentIsRow, NoneAssumption, BoundAssumption DEF Init, Typed, Places, Purposes
-----------------------------------------------------------------------------
\* Every step keeps the types: what the gateway does by itself, ...
LEMMA TypedStepOf ==
    ASSUME Typed, NEW r \in Requests, Step(r)
    PROVE  Typed'
<1> USE DEF Typed, routeVars, poolVars
<1>1. CASE Hit(r)
  <2>1. PICK e \in Endpoints :
            draft' = [draft EXCEPT ![r] = [@ EXCEPT !.status = "completed", !.selected = e,
                                                    !.cached = TRUE, !.impact = TRUE]]
    BY <1>1 DEF Hit
  <2>2. [draft[r] EXCEPT !.status = "completed", !.selected = e, !.cached = TRUE,
                         !.impact = TRUE] \in Rows
    BY RowUpdates DEF Ends
  <2>3. draft' \in [Requests -> Rows]
    BY <2>1, <2>2
  <2>4. QED
    BY <1>1, <2>3 DEF Hit, Places
<1>2. CASE NoEndpoint(r)
  <2>1. [draft[r] EXCEPT !.status = "failed"] \in Rows
    BY NoneAssumption, RowUpdates DEF Ends
  <2>2. draft' = [draft EXCEPT ![r] = [draft[r] EXCEPT !.status = "failed"]]
    BY <1>2 DEF NoEndpoint
  <2>3. draft' \in [Requests -> Rows]
    BY <2>1, <2>2
  <2>4. QED
    BY <1>2, <2>3 DEF NoEndpoint, Places
<1>3. ASSUME NEW open \in SUBSET Endpoints, NEW dirty \in BOOLEAN, NEW live \in BOOLEAN,
             Route(r, open, dirty, live)
      PROVE  Typed'
  <2>1. Reserved(open, dirty) \in SUBSET Endpoints /\ Preferred(open, dirty) \in SUBSET Endpoints
    BY DEF Reserved, Preferred
  <2>2. PICK e \in Preferred(open, dirty) :
            /\ callee' = [callee EXCEPT ![r] = e]
            /\ draft' = [draft EXCEPT ![r].selected = e]
    BY <1>3 DEF Route
  <2>3. e \in Endpoints
    BY <2>1
  <2>4. [draft[r] EXCEPT !.selected = e] \in Rows
    BY <2>3, RowUpdates DEF Ends
  <2>5. draft' \in [Requests -> Rows]
    <3>1. draft' = [draft EXCEPT ![r] = [draft[r] EXCEPT !.selected = e]]
      BY <2>2
    <3>2. QED
      BY <2>4, <3>1
  <2>6. callee' \in [Requests -> Endpoints]
    BY <2>2, <2>3
  <2>7. eligible' \in [Requests -> SUBSET Endpoints]
    BY <1>3, <2>1 DEF Route
  <2>8. QED
    BY <1>3, <2>5, <2>6, <2>7 DEF Route, Places
<1>4. ASSUME NEW stream \in BOOLEAN, CommitHit(r, stream) PROVE Typed'
  BY <1>4, EndTyped DEF CommitHit, Places
<1>5. ASSUME NEW place \in {"waiting", "opening"}, Call(r, place) PROVE Typed'
  BY <1>5 DEF Call, Places
<1>6. CASE InvokeLate(r)
  BY <1>6, CallFailsTyped DEF InvokeLate, CallFails, Codes, Retryable
<1>7. CASE Acquire(r)
  BY <1>7 DEF Acquire, Places, Calling
<1>8. CASE TimesOut(r)
  BY <1>8, CallFailsTyped DEF TimesOut, CallFails, Codes, Retryable
<1>9. CASE Accepted(r)
  <2> DEFINE x == [Answered(r, TRUE) EXCEPT !.selected = callee[r], !.status = "completed",
                                            !.impact = TRUE]
  <2>1. x \in Rows
    BY AnsweredType, RowUpdates DEF Ends
  <2>2. draft' = [draft EXCEPT ![r] = x]
    BY <1>9 DEF Accepted
  <2>3. draft' \in [Requests -> Rows]
    BY <2>1, <2>2
  <2>4. QED
    BY <1>9, <2>3 DEF Accepted, Places
<1>10. ASSUME NEW enabled \in BOOLEAN, Rejected(r, enabled) PROVE Typed'
  <2> DEFINE x == Answered(r, FALSE)
  <2>1. x \in Rows /\ [x EXCEPT !.selected = callee[r], !.status = "failed"] \in Rows
    BY AnsweredType, RowUpdates DEF Ends
  <2>2. CASE enabled /\ MayFallBack(r) /\ fallback \in Frontier
    <3>1. /\ purpose' = [purpose EXCEPT ![r] = "quality_fallback"]
          /\ callee' = [callee EXCEPT ![r] = fallback]
          /\ draft' = [draft EXCEPT ![r] = x]
          /\ pc' = [pc EXCEPT ![r] = "invoke"]
      BY <1>10, <2>2 DEF Rejected
    <3> HIDE DEF x
    <3>2. QED
      BY <1>10, <2>1, <3>1 DEF Rejected, Places, Purposes
  <2>3. CASE ~(enabled /\ MayFallBack(r) /\ fallback \in Frontier)
    <3>1. /\ draft' = [draft EXCEPT ![r] =
                 [x EXCEPT !.selected = callee[r], !.status = "failed"]]
          /\ pc' = [pc EXCEPT ![r] = "failing"]
          /\ UNCHANGED <<purpose, callee>>
      BY <1>10, <2>3 DEF Rejected
    <3> HIDE DEF x
    <3>2. QED
      BY <1>10, <2>1, <3>1 DEF Rejected, Places
  <2>4. QED
    BY <2>2, <2>3
<1>11. CASE Invalid(r)
  <2> DEFINE x == IF purpose[r] = "quality_fallback" THEN draft[r]
                  ELSE Attempted(r, "failed", "upstream_invalid_response")
  <2>1. x \in Rows
    BY AttemptedType DEF Ways, Errors, Codes
  <2>2. [x EXCEPT !.status = "failed"] \in Rows
    BY <2>1, NoneAssumption, RowUpdates DEF Ends
  <2>3. draft' = [draft EXCEPT ![r] = [x EXCEPT !.status = "failed"]]
    BY <1>11 DEF Invalid
  <2>4. draft' \in [Requests -> Rows]
    BY <2>2, <2>3
  <2>5. QED
    BY <1>11, <2>4 DEF Invalid, Places
<1>12. CASE Commit(r)
  BY <1>12, EndTyped DEF Commit
<1>13. CASE Admit(r)
  BY <1>13 DEF Admit, Places, Calling, Sending
<1>14. CASE Refuse(r)
  BY <1>14, EndTyped, ReleasedTyped DEF Refuse
<1>15. CASE Replay(r)
  BY <1>15, EndTyped, ReleasedTyped DEF Replay, Close
<1>16. CASE StartStream(r)
  BY <1>16 DEF StartStream, Places, Calling
<1>17. CASE LeaveUpstream(r, "broken")
  BY <1>17, ReleasedTyped DEF LeaveUpstream, Places, Sending
<1>18. CASE RecordEnd(r)
  <2> DEFINE end == IF pc[r] = "cancelled" THEN "client_cancelled" ELSE "partial_stream_error"
             x == Attempted(r, end, end)
  <2>1. end \in Ways /\ end \in Errors /\ end \in Ends
    BY DEF Ways, Errors, Ends, StreamEnds
  <2> HIDE DEF end
  <2>2. x \in Rows
    BY <2>1, AttemptedType
  <2>3. [x EXCEPT !.status = end] \in Rows
    BY <2>1, <2>2, NoneAssumption, RowUpdates
  <2>4. row' = [row EXCEPT ![r] = [x EXCEPT !.status = end]]
    BY <1>18 DEF RecordEnd, end
  <2>5. row' \in [Requests -> Rows]
    BY <2>3, <2>4
  <2>6. QED
    BY <1>18, <2>5, EndTyped, ReleasedTyped DEF RecordEnd, Close
<1>19. CASE CompleteStream(r)
  <2> DEFINE x == [Answered(r, TRUE) EXCEPT !.status = "completed", !.impact = TRUE]
  <2>1. x \in Rows
    BY AnsweredType, RowUpdates DEF Ends
  <2>2. row' = [row EXCEPT ![r] = x]
    BY <1>19 DEF CompleteStream
  <2>3. row' \in [Requests -> Rows]
    BY <2>1, <2>2
  <2>4. QED
    BY <1>19, <2>3 DEF CompleteStream, Places, Sending
<1>20. ASSUME NEW sent \in BOOLEAN, SendDone(r, sent) PROVE Typed'
  BY <1>20, EndTyped, ReleasedTyped DEF SendDone, Close
<1>21. QED
  BY <1>1, <1>2, <1>3, <1>4, <1>5, <1>6, <1>7, <1>8, <1>9, <1>10, <1>11, <1>12, <1>13, <1>14,
     <1>15, <1>16, <1>17, <1>18, <1>19, <1>20 DEF Step, Invoke, Preflight

\* ... what others do to it, ...
LEMMA TypedStepOutside ==
    ASSUME Typed, NEW r \in Requests, Outside(r) \/ Deadline(r)
    PROVE  Typed'
<1> USE DEF Typed, routeVars, poolVars
<1>1. CASE Receive(r)
  <2>1. [draft[r] EXCEPT !.status = "routing"] \in Rows
    BY NoneAssumption, RowUpdates DEF Ends
  <2>2. draft' = [draft EXCEPT ![r] = [draft[r] EXCEPT !.status = "routing"]]
    BY <1>1 DEF Receive
  <2>3. draft' \in [Requests -> Rows]
    BY <2>1, <2>2
  <2>4. QED
    BY <1>1, <2>3 DEF Receive, Places
<1>2. ASSUME NEW error \in Codes, ProviderFails(r, error) PROVE Typed'
  BY <1>2, CallFailsTyped DEF ProviderFails, CallFails
<1>3. CASE ProviderAnswers(r)
  BY <1>3, ReleasedTyped DEF ProviderAnswers, Places
<1>4. CASE FirstChunk(r)
  <2>1. Attempted(r, "streaming", "none") \in Rows
    BY AttemptedType DEF Ways, Errors
  <2>2. draft' \in [Requests -> Rows]
    BY <1>4, <2>1 DEF FirstChunk
  <2>3. row' \in [Requests -> Rows]
    BY <1>4, <2>2 DEF FirstChunk
  <2>4. QED
    BY <1>4, <2>2, <2>3 DEF FirstChunk, Places, Calling
<1>5. ASSUME NEW place \in {"finishing", "cancelled"}, LeaveUpstream(r, place) PROVE Typed'
  BY <1>5, ReleasedTyped DEF LeaveUpstream, Places, Sending
<1>6. CASE NeverStarts(r)
  BY <1>6, EndTyped, ReleasedTyped DEF NeverStarts
<1>7. CASE DropStream(r)
  BY <1>7, EndTyped, ReleasedTyped DEF DropStream, Close
<1>8. CASE Raise(r)
  BY <1>8, EndTyped, ReleasedTyped DEF Raise
<1>9. CASE RecordFails(r)
  BY <1>9, EndTyped, ReleasedTyped DEF RecordFails, Close
<1>10. CASE Deadline(r) \/ Stall(r)
  BY <1>10 DEF Deadline, Stall
<1>11. QED
  BY <1>1, <1>2, <1>3, <1>4, <1>5, <1>6, <1>7, <1>8, <1>9, <1>10 DEF Outside

\* ... and a restart.
LEMMA TypedStep ==
    ASSUME Typed, [Next]_vars
    PROVE  Typed'
<1>1. CASE Crash
  <2>1. draft' \in [Requests -> Rows]
    BY <1>1, AbsentIsRow DEF Crash
  <2>2. pc' \in [Requests -> Places]
    BY <1>1 DEF Crash, Places
  <2>3. QED
    BY <1>1, <2>1, <2>2, BoundAssumption DEF Crash, Typed, routeVars
<1>2. CASE UNCHANGED vars
  BY <1>2 DEF vars, routeVars, poolVars, Typed
<1>3. QED
  BY <1>1, <1>2, TypedStepOf, TypedStepOutside DEF Next, AllOver
-----------------------------------------------------------------------------
\* What the step of one request leaves alone of another one.
Untouched(q) ==
    /\ pc'[q] = pc[q] /\ eligible'[q] = eligible[q] /\ callee'[q] = callee[q]
    /\ purpose'[q] = purpose[q] /\ called'[q] = called[q] /\ draft'[q] = draft[q]
    /\ row'[q] = row[q] /\ answer'[q] = answer[q]
    /\ fallback' = fallback
    /\ q \in abandoned => q \in abandoned'

LEMMA UntouchedFits ==
    ASSUME NEW q \in Requests, Fits(q), Untouched(q)
    PROVE  Fits(q)'
<1> USE DEF Untouched
<1>1. AnswerFits(q)' /\ DraftFits(q)' /\ EndFits(q)'
  BY DEF Fits, AnswerFits, DraftFits, EndFits, Recorded
<1>2. LiveFits(q)'
  BY DEF Fits, LiveFits
<1>3. CallsFit(q)'
  BY DEF Fits, CallsFit
<1>4. QED
  BY <1>1, <1>2, <1>3 DEF Fits

LEMMA OthersUntouchedByEnd ==
    ASSUME Typed, NEW r \in Requests, End(r), NEW q \in Requests, q # r
    PROVE  pc'[q] = pc[q] /\ draft'[q] = draft[q]
BY DEF Typed, End

LEMMA OthersUntouchedByFailure ==
    ASSUME Typed, NEW r \in Requests, NEW error, NEW again, CallFails(r, error, again),
           NEW q \in Requests, q # r
    PROVE  Untouched(q)
<1>1. CASE MayFallBack(r) /\ error \in Retryable
  BY <1>1 DEF CallFails, Typed, Untouched
<1>2. CASE ~(MayFallBack(r) /\ error \in Retryable)
  BY <1>2 DEF CallFails, Typed, Untouched
<1>3. QED
  BY <1>1, <1>2

LEMMA OthersUntouched ==
    ASSUME Typed, NEW r \in Requests, Step(r) \/ Deadline(r) \/ Outside(r),
           NEW q \in Requests, q # r
    PROVE  Untouched(q)
<1> USE DEF Typed, routeVars, poolVars, Untouched
<1>1. CASE Hit(r) \/ NoEndpoint(r) \/ Receive(r) \/ Accepted(r) \/ Invalid(r)
  BY <1>1 DEF Hit, NoEndpoint, Receive, Accepted, Invalid
<1>2. ASSUME NEW open, NEW dirty, NEW live, Route(r, open, dirty, live) PROVE Untouched(q)
  BY <1>2 DEF Route
<1>3. ASSUME NEW stream, CommitHit(r, stream) PROVE Untouched(q)
  BY <1>3, OthersUntouchedByEnd DEF CommitHit
<1>4. ASSUME NEW place, Call(r, place) PROVE Untouched(q)
  BY <1>4 DEF Call
<1>5. CASE InvokeLate(r) \/ TimesOut(r)
  BY <1>5, OthersUntouchedByFailure DEF InvokeLate, TimesOut
<1>6. ASSUME NEW error, ProviderFails(r, error) PROVE Untouched(q)
  BY <1>6, OthersUntouchedByFailure DEF ProviderFails
<1>7. CASE \/ Acquire(r) \/ ProviderAnswers(r) \/ Deadline(r) \/ Stall(r) \/ Admit(r)
           \/ StartStream(r)
  BY <1>7 DEF Acquire, ProviderAnswers, Deadline, Stall, Admit, StartStream
<1>8. ASSUME NEW enabled, Rejected(r, enabled) PROVE Untouched(q)
  <2>1. CASE enabled /\ MayFallBack(r) /\ fallback \in Frontier
    BY <1>8, <2>1 DEF Rejected
  <2>2. CASE ~(enabled /\ MayFallBack(r) /\ fallback \in Frontier)
    BY <1>8, <2>2 DEF Rejected
  <2>3. QED
    BY <2>1, <2>2
<1>9. CASE Commit(r) \/ Raise(r) \/ Refuse(r) \/ NeverStarts(r)
  BY <1>9, OthersUntouchedByEnd DEF Commit, Raise, Refuse, NeverStarts
<1>10. ASSUME NEW place, LeaveUpstream(r, place) PROVE Untouched(q)
  BY <1>10 DEF LeaveUpstream
<1>11. CASE FirstChunk(r) \/ CompleteStream(r)
  BY <1>11 DEF FirstChunk, CompleteStream
<1>12. CASE Replay(r) \/ DropStream(r) \/ RecordEnd(r) \/ RecordFails(r)
  BY <1>12, OthersUntouchedByEnd DEF Replay, DropStream, RecordEnd, RecordFails, Close
<1>13. ASSUME NEW sent, SendDone(r, sent) PROVE Untouched(q)
  BY <1>13, OthersUntouchedByEnd DEF SendDone, Close
<1> HIDE DEF Typed, routeVars, poolVars, Untouched
<1>14. CASE Step(r)
  BY <1>14, <1>1, <1>2, <1>3, <1>4, <1>5, <1>7, <1>8, <1>9, <1>10, <1>11, <1>12, <1>13
  DEF Step, Invoke, Preflight
<1>15. CASE Outside(r)
  BY <1>15, <1>1, <1>6, <1>7, <1>9, <1>10, <1>11, <1>12 DEF Outside
<1>16. QED
  BY <1>7, <1>14, <1>15
-----------------------------------------------------------------------------
\* A step that calls nothing and chooses nothing.
CallsKept(r) ==
    /\ callee'[r] = callee[r] /\ purpose'[r] = purpose[r] /\ eligible'[r] = eligible[r]
    /\ called'[r] = called[r] /\ fallback' = fallback

\* The request goes on from a call, or is done with calling.
LEMMA CallsStayFit ==
    ASSUME NEW r \in Requests, CallsFit(r), CallsKept(r),
           pc'[r] \notin {"idle", "received", "invoke", "preflight"},
           pc'[r] \in Trying => pc[r] \in Trying
    PROVE  CallsFit(r)'
BY DEF CallsFit, CallsKept

\* A request that is over promises nothing more than its answer and its row.
LEMMA OverFits ==
    ASSUME Typed, NEW r \in Requests, Fits(r), End(r), CallsKept(r),
           AnswerFits(r)', row'[r].status = "routing" => r \in abandoned'
    PROVE  Fits(r)'
<1>1. pc'[r] = "over"
  BY DEF End, Typed
<1>2. CallsFit(r)'
  BY <1>1, CallsStayFit DEF Trying, Fits
<1>3. QED
  BY <1>1, <1>2 DEF Fits, DraftFits, LiveFits, EndFits, Live, Open

\* So does one whose stream ended without a word: nothing it has changes.
LEMMA SilentEndFits ==
    ASSUME Typed, NEW r \in Requests, Fits(r), End(r), CallsKept(r),
           row'[r] = row[r], answer'[r] \in {answer[r], "error"},
           abandoned \subseteq abandoned', pc[r] \in Open => r \in abandoned'
    PROVE  Fits(r)'
<1>1. pc'[r] = "over"
  BY DEF End, Typed
<1>2. AnswerFits(r)'
  BY <1>1 DEF Fits, AnswerFits, Recorded, Open
<1>3. row'[r].status = "routing" => r \in abandoned'
  BY DEF Fits, EndFits
<1>4. QED
  BY <1>2, <1>3, OverFits

\* One that is given up earlier has nothing to promise either.
LEMMA FailingFits ==
    ASSUME Typed, NEW r \in Requests, Fits(r), CallsKept(r),
           pc[r] \in Trying \cup {"received"}, pc'[r] = "failing",
           draft'[r].status = "failed", row'[r] = row[r], answer'[r] = answer[r],
           abandoned' = abandoned
    PROVE  Fits(r)'
<1>1. CallsFit(r)'
  BY CallsStayFit DEF Trying, Fits
<1>2. AnswerFits(r)' /\ EndFits(r)'
  BY DEF Fits, AnswerFits, EndFits, Trying, Open
<1>3. DraftFits(r)' /\ LiveFits(r)'
  BY DEF DraftFits, LiveFits, Live, Open
<1>4. QED
  BY <1>1, <1>2, <1>3 DEF Fits

\* A failed call goes on at the fallback, which was eligible, or gives up.
LEMMA CallFailsFits ==
    ASSUME Typed, NEW r \in Requests, Fits(r), NEW error \in Codes,
           NEW again \in {"invoke", "preflight"}, CallFails(r, error, again),
           pc[r] \in Trying, again = "preflight" <=> pc[r] \in Live
    PROVE  Fits(r)'
<1> DEFINE x == Attempted(r, "failed", error)
<1>1. x \in Rows /\ x.status = draft[r].status /\ x.selected = draft[r].selected
  BY AttemptedType DEF Ways, Errors
<1>2. CASE MayFallBack(r) /\ error \in Retryable
  <2>1. /\ purpose' = [purpose EXCEPT ![r] = "transport_fallback"]
        /\ callee' = [callee EXCEPT ![r] = fallback]
        /\ draft' = [draft EXCEPT ![r] = [x EXCEPT !.selected = fallback]]
        /\ pc' = [pc EXCEPT ![r] = again]
        /\ eligible' = eligible /\ fallback' = fallback /\ called' = called /\ row' = row
        /\ answer' = answer /\ abandoned' = abandoned
    BY <1>2 DEF CallFails
  <2> HIDE DEF x
  <2>2. /\ pc'[r] = again /\ purpose'[r] = "transport_fallback" /\ callee'[r] = fallback
        /\ draft'[r].selected = fallback
    BY <1>1, <2>1 DEF Typed, Rows
  <2>3. purpose[r] = "selected" /\ fallback # callee[r] /\ fallback \in eligible[r]
    BY <1>2 DEF MayFallBack
  <2>4. called[r][fallback] = 0
    BY <2>3 DEF Fits, CallsFit, Typed
  <2>5. CallsFit(r)'
    <3>1. \A e, f \in Endpoints \ {fallback} :
              called'[r][e] > 0 /\ called'[r][f] > 0 => e = f
      BY <2>1, <2>3 DEF Fits, CallsFit
    <3>2. QED
      BY <2>1, <2>2, <2>3, <2>4, <3>1 DEF Fits, CallsFit
  <2>6. LiveFits(r)'
    BY <2>1, <2>2, <2>3 DEF Fits, LiveFits, Live, Open
  <2>7. AnswerFits(r)' /\ DraftFits(r)' /\ EndFits(r)'
    BY <2>1, <2>2 DEF Fits, AnswerFits, DraftFits, EndFits, Trying, Open
  <2>8. QED
    BY <2>5, <2>6, <2>7 DEF Fits
<1>3. CASE ~(MayFallBack(r) /\ error \in Retryable)
  <2>1. /\ purpose' = purpose /\ callee' = callee
        /\ draft' = [draft EXCEPT ![r] = [x EXCEPT !.status = "failed"]]
        /\ pc' = [pc EXCEPT ![r] = "failing"]
        /\ eligible' = eligible /\ fallback' = fallback /\ called' = called /\ row' = row
        /\ answer' = answer /\ abandoned' = abandoned
    BY <1>3 DEF CallFails
  <2> HIDE DEF x
  <2>2. pc'[r] = "failing" /\ draft'[r].status = "failed"
    BY <1>1, <2>1 DEF Typed, Rows
  <2>3. QED
    BY <2>1, <2>2, FailingFits DEF CallsKept
<1>4. QED
  BY <1>2, <1>3
-----------------------------------------------------------------------------
\* Every step of a request keeps it fitting: up to its calls, ...
LEMMA FitsStepRoute ==
    ASSUME Typed, NEW r \in Requests, Fits(r),
           \/ Receive(r) \/ Hit(r) \/ NoEndpoint(r)
           \/ \E open \in SUBSET Endpoints, dirty, live \in BOOLEAN : Route(r, open, dirty, live)
           \/ \E stream \in BOOLEAN : CommitHit(r, stream)
    PROVE  Fits(r)'
<1> USE DEF routeVars, poolVars
<1>1. CASE Receive(r)
  <2>1. pc'[r] = "received" /\ pc[r] = "idle"
    BY <1>1 DEF Receive, Typed
  <2>2. CallsFit(r)'
    BY <1>1, <2>1 DEF Receive, Fits, CallsFit, Trying
  <2>3. AnswerFits(r)' /\ DraftFits(r)' /\ LiveFits(r)' /\ EndFits(r)'
    BY <1>1, <2>1 DEF Receive, Fits, AnswerFits, DraftFits, LiveFits, EndFits, Live, Open
  <2>4. QED
    BY <2>2, <2>3 DEF Fits
<1>2. CASE Hit(r)
  <2>1. pc'[r] = "hit" /\ pc[r] = "received"
    BY <1>2 DEF Hit, Typed
  <2>2. PICK e \in Endpoints :
            draft' = [draft EXCEPT ![r] = [@ EXCEPT !.status = "completed", !.selected = e,
                                                    !.cached = TRUE, !.impact = TRUE]]
    BY <1>2 DEF Hit
  <2>3. Recorded(draft'[r])
    BY <2>2 DEF Typed, Rows, Recorded
  <2>4. CallsFit(r)'
    BY <1>2, <2>1, CallsStayFit DEF Hit, CallsKept, Fits, Trying
  <2>5. AnswerFits(r)' /\ DraftFits(r)' /\ LiveFits(r)' /\ EndFits(r)'
    BY <1>2, <2>1, <2>3
    DEF Hit, Fits, AnswerFits, DraftFits, LiveFits, EndFits, Live, Open, Recorded
  <2>6. QED
    BY <2>4, <2>5 DEF Fits
<1>3. CASE NoEndpoint(r)
  <2>1. pc'[r] = "failing" /\ pc[r] = "received" /\ draft'[r].status = "failed"
    BY <1>3 DEF NoEndpoint, Typed, Rows
  <2>2. QED
    BY <1>3, <2>1, FailingFits DEF NoEndpoint, CallsKept
<1>4. ASSUME NEW open \in SUBSET Endpoints, NEW dirty \in BOOLEAN, NEW live \in BOOLEAN,
             Route(r, open, dirty, live)
      PROVE  Fits(r)'
  <2>1. PICK e \in Preferred(open, dirty) :
            /\ live => e \notin Specialized
            /\ callee' = [callee EXCEPT ![r] = e]
            /\ draft' = [draft EXCEPT ![r].selected = e]
    BY <1>4 DEF Route
  <2>2. e \in Reserved(open, dirty) /\ Reserved(open, dirty) \in SUBSET Endpoints
    BY DEF Preferred, Reserved
  <2>3. live => Reserved(open, dirty) \cap Specialized = {}
    BY <2>1 DEF Preferred, Reserved
  <2>4. /\ callee'[r] = e /\ draft'[r].selected = e /\ eligible'[r] = Reserved(open, dirty)
        /\ pc[r] = "received" /\ pc'[r] = IF live THEN "preflight" ELSE "invoke"
    BY <1>4, <2>1 DEF Route, Typed, Rows
  <2>5. purpose[r] = "selected" /\ \A f \in Endpoints : called[r][f] = 0
    BY <2>4 DEF Fits, CallsFit
  <2>6. CallsFit(r)'
    BY <1>4, <2>2, <2>4, <2>5 DEF Route, CallsFit, Trying
  <2>7. LiveFits(r)'
    BY <2>2, <2>3, <2>4 DEF LiveFits, Live, Open
  <2>8. AnswerFits(r)' /\ DraftFits(r)' /\ EndFits(r)'
    BY <1>4, <2>4 DEF Route, Fits, AnswerFits, DraftFits, EndFits, Open
  <2>9. QED
    BY <2>6, <2>7, <2>8 DEF Fits
<1>5. ASSUME NEW stream \in BOOLEAN, CommitHit(r, stream) PROVE Fits(r)'
  <2>1. row'[r] = draft[r] /\ Recorded(draft[r]) /\ draft[r].status # "routing"
    BY <1>5 DEF CommitHit, Typed, Fits, DraftFits, Recorded
  <2>2. CallsKept(r)
    BY <1>5 DEF CommitHit, CallsKept
  <2>3. CASE stream
    <3>1. pc[r] = "hit" /\ pc'[r] = "cached" /\ answer'[r] = answer[r]
      BY <1>5, <2>3 DEF CommitHit, Typed
    <3>2. CallsFit(r)'
      BY <2>2, <3>1, CallsStayFit DEF Fits, Trying
    <3>3. AnswerFits(r)' /\ DraftFits(r)' /\ LiveFits(r)' /\ EndFits(r)'
      BY <2>1, <3>1 DEF Fits, AnswerFits, DraftFits, LiveFits, EndFits, Live, Open
    <3>4. QED
      BY <3>2, <3>3 DEF Fits
  <2>4. CASE ~stream
    <3>1. End(r) /\ answer'[r] = "cache" /\ pc'[r] = "over"
      BY <1>5, <2>4 DEF CommitHit, Typed, End
    <3>2. AnswerFits(r)'
      BY <2>1, <3>1 DEF AnswerFits
    <3>3. QED
      BY <2>1, <2>2, <3>1, <3>2, OverFits
  <2>5. QED
    BY <2>3, <2>4
<1>6. QED
  BY <1>1, <1>2, <1>3, <1>4, <1>5

\* ... in its calls, ...
LEMMA FitsStepCall ==
    ASSUME Typed, NEW r \in Requests, Fits(r),
           \/ Invoke(r) \/ InvokeLate(r) \/ Preflight(r) \/ Acquire(r) \/ TimesOut(r)
           \/ (\E error \in Codes : ProviderFails(r, error)) \/ ProviderAnswers(r)
    PROVE  Fits(r)'
<1> USE DEF routeVars, poolVars
<1>1. CASE Invoke(r) \/ Preflight(r)
  <2>1. /\ \/ pc[r] = "invoke" /\ pc'[r] = "waiting"
           \/ pc[r] = "preflight" /\ pc'[r] = "opening"
        /\ called' = [called EXCEPT ![r][callee[r]] = @ + 1]
        /\ UNCHANGED <<eligible, fallback, callee, purpose, draft, row, answer, abandoned>>
    BY <1>1 DEF Invoke, Preflight, Call, Typed
  <2>2. /\ callee[r] \in Endpoints /\ called[r] \in [Endpoints -> Nat]
        /\ called[r][callee[r]] = 0
    BY <2>1 DEF Typed, Fits, CallsFit
  <2>3. called'[r] = [called[r] EXCEPT ![callee[r]] = @ + 1]
    BY <2>1 DEF Typed
  <2>4. /\ called'[r][callee[r]] = 1
        /\ \A e \in Endpoints : e # callee[r] => called'[r][e] = called[r][e]
    BY <2>2, <2>3
  <2>5. \A e, f \in Endpoints \ {fallback} : called'[r][e] > 0 /\ called'[r][f] > 0 => e = f
    BY <2>1, <2>4 DEF Fits, CallsFit
  <2>6. CallsFit(r)'
    <3>1. callee[r] \in eligible[r]
      BY <2>1 DEF Fits, CallsFit, Trying
    <3>2. QED
      BY <2>1, <2>2, <2>4, <2>5, <3>1 DEF Fits, CallsFit
  <2>7. AnswerFits(r)' /\ DraftFits(r)' /\ LiveFits(r)' /\ EndFits(r)'
    BY <2>1 DEF Fits, AnswerFits, DraftFits, LiveFits, EndFits, Live, Open
  <2>8. QED
    BY <2>6, <2>7 DEF Fits
<1>2. CASE InvokeLate(r)
  BY <1>2, CallFailsFits DEF InvokeLate, Codes, Retryable, Trying, Live, Open
<1>3. CASE Acquire(r) \/ ProviderAnswers(r)
  <2>1. /\ CallsKept(r) /\ UNCHANGED <<draft, row, answer, abandoned>>
        /\ \/ pc[r] = "waiting" /\ pc'[r] = "calling"
           \/ pc[r] = "opening" /\ pc'[r] = "first"
           \/ pc[r] = "calling" /\ pc'[r] = "answered"
    BY <1>3 DEF Acquire, ProviderAnswers, CallsKept, Typed
  <2>2. CallsFit(r)'
    BY <2>1, CallsStayFit DEF Fits, Trying
  <2>3. AnswerFits(r)' /\ DraftFits(r)' /\ LiveFits(r)' /\ EndFits(r)'
    BY <2>1 DEF CallsKept, Fits, AnswerFits, DraftFits, LiveFits, EndFits, Live, Open
  <2>4. QED
    BY <2>2, <2>3 DEF Fits
<1>4. CASE TimesOut(r)
  BY <1>4, CallFailsFits DEF TimesOut, Codes, Retryable, Trying, Live, Open
<1>5. ASSUME NEW error \in Codes, ProviderFails(r, error) PROVE Fits(r)'
  BY <1>5, CallFailsFits DEF ProviderFails, Trying, Live, Open
<1>6. QED
  BY <1>1, <1>2, <1>3, <1>4, <1>5
-----------------------------------------------------------------------------
\* ... with an answer that is not streamed, ...
LEMMA FitsStepAnswer ==
    ASSUME Typed, NEW r \in Requests, Fits(r),
           \/ Accepted(r) \/ (\E enabled \in BOOLEAN : Rejected(r, enabled)) \/ Invalid(r)
           \/ Commit(r) \/ Raise(r) \/ Deadline(r) \/ Stall(r)
    PROVE  Fits(r)'
<1> USE DEF routeVars, poolVars
<1>1. CASE Accepted(r)
  <2>1. /\ CallsKept(r) /\ UNCHANGED <<row, answer, abandoned>>
        /\ pc[r] = "answered" /\ pc'[r] = "committing"
    BY <1>1 DEF Accepted, CallsKept, Typed
  <2>2. Recorded(draft'[r])
    <3>1. draft'[r] = [Answered(r, TRUE) EXCEPT !.selected = callee[r], !.status = "completed",
                                                !.impact = TRUE]
      BY <1>1 DEF Accepted, Typed
    <3>2. QED
      BY <3>1, AnsweredIsRecorded
  <2>3. CallsFit(r)'
    BY <2>1, CallsStayFit DEF Fits, Trying
  <2>4. DraftFits(r)' /\ LiveFits(r)'
    BY <2>1, <2>2 DEF DraftFits, LiveFits, Live, Open, Recorded
  <2>5. AnswerFits(r)' /\ EndFits(r)'
    BY <2>1 DEF Fits, AnswerFits, EndFits, Open
  <2>6. QED
    BY <2>3, <2>4, <2>5 DEF Fits
<1>2. ASSUME NEW enabled \in BOOLEAN, Rejected(r, enabled) PROVE Fits(r)'
  <2> DEFINE x == Answered(r, FALSE)
  <2>1. x \in Rows
    BY AnsweredType
  <2>2. CASE enabled /\ MayFallBack(r) /\ fallback \in Frontier
    <3>1. /\ purpose' = [purpose EXCEPT ![r] = "quality_fallback"]
          /\ callee' = [callee EXCEPT ![r] = fallback]
          /\ pc' = [pc EXCEPT ![r] = "invoke"]
          /\ UNCHANGED <<eligible, fallback, called, row, answer, abandoned>>
          /\ pc[r] = "answered"
      BY <1>2, <2>2 DEF Rejected
    <3>2. pc'[r] = "invoke" /\ purpose'[r] = "quality_fallback" /\ callee'[r] = fallback
      BY <3>1 DEF Typed
    <3>3. purpose[r] = "selected" /\ fallback # callee[r] /\ fallback \in eligible[r]
      BY <2>2 DEF MayFallBack
    <3>4. called[r][fallback] = 0
      BY <3>3 DEF Fits, CallsFit, Typed
    <3>5. \A e, f \in Endpoints \ {fallback} :
              called'[r][e] > 0 /\ called'[r][f] > 0 => e = f
      BY <3>1, <3>3 DEF Fits, CallsFit
    <3>6. CallsFit(r)'
      BY <3>1, <3>2, <3>3, <3>4, <3>5 DEF Fits, CallsFit
    <3>7. AnswerFits(r)' /\ DraftFits(r)' /\ LiveFits(r)' /\ EndFits(r)'
      BY <3>1, <3>2 DEF Fits, AnswerFits, DraftFits, LiveFits, EndFits, Live, Open
    <3>8. QED
      BY <3>6, <3>7 DEF Fits
  <2>3. CASE ~(enabled /\ MayFallBack(r) /\ fallback \in Frontier)
    <3>1. /\ draft' = [draft EXCEPT ![r] =
                 [x EXCEPT !.selected = callee[r], !.status = "failed"]]
          /\ pc' = [pc EXCEPT ![r] = "failing"]
          /\ UNCHANGED <<purpose, callee, eligible, fallback, called, row, answer, abandoned>>
          /\ pc[r] = "answered"
      BY <1>2, <2>3 DEF Rejected
    <3> HIDE DEF x
    <3>2. pc'[r] = "failing" /\ draft'[r].status = "failed"
      BY <2>1, <3>1 DEF Typed, Rows
    <3>3. QED
      BY <3>1, <3>2, FailingFits DEF CallsKept, Trying
  <2>4. QED
    BY <2>2, <2>3
<1>3. CASE Invalid(r)
  <2> DEFINE x == IF purpose[r] = "quality_fallback" THEN draft[r]
                  ELSE Attempted(r, "failed", "upstream_invalid_response")
  <2>1. x \in Rows
    BY AttemptedType DEF Ways, Errors, Codes, Typed
  <2>2. draft' = [draft EXCEPT ![r] = [x EXCEPT !.status = "failed"]]
    BY <1>3 DEF Invalid, Typed
  <2> HIDE DEF x
  <2>3. pc'[r] = "failing" /\ pc[r] = "answered" /\ draft'[r].status = "failed"
    BY <1>3, <2>1, <2>2 DEF Invalid, Typed, Rows
  <2>4. QED
    BY <1>3, <2>3, FailingFits DEF Invalid, CallsKept, Trying
<1>4. CASE Commit(r)
  <2>1. CallsKept(r) /\ End(r) /\ row'[r] = draft[r] /\ pc'[r] = "over"
    BY <1>4 DEF Commit, CallsKept, End, Typed
  <2>2. CASE pc[r] = "committing"
    <3>1. answer'[r] = "body" /\ Recorded(draft[r]) /\ draft[r].status # "routing"
      BY <1>4, <2>2 DEF Commit, Typed, Fits, DraftFits, Recorded
    <3>2. AnswerFits(r)'
      BY <2>1, <3>1 DEF AnswerFits
    <3>3. QED
      BY <2>1, <3>1, <3>2, OverFits
  <2>3. CASE pc[r] = "failing"
    <3>1. answer'[r] = "error" /\ draft[r].status = "failed"
      BY <1>4, <2>3 DEF Commit, Typed, Fits, DraftFits
    <3>2. AnswerFits(r)'
      BY <2>1, <3>1 DEF AnswerFits
    <3>3. QED
      BY <2>1, <3>1, <3>2, OverFits
  <2>4. QED
    BY <1>4, <2>2, <2>3 DEF Commit
<1>5. CASE Raise(r)
  <2>1. /\ End(r) /\ CallsKept(r) /\ row' = row /\ abandoned' = abandoned
        /\ answer'[r] = "error" /\ pc[r] \notin Open
    BY <1>5 DEF Raise, CallsKept, Typed, Open
  <2>2. QED
    BY <2>1, SilentEndFits
<1>6. CASE Deadline(r) \/ Stall(r)
  <2>1. Untouched(r)
    BY <1>6 DEF Deadline, Stall, Untouched
  <2>2. QED
    BY <2>1, UntouchedFits
<1>7. QED
  BY <1>1, <1>2, <1>3, <1>4, <1>5, <1>6

\* ... or with a stream, ...
LEMMA FitsStepStream ==
    ASSUME Typed, NEW r \in Requests, Fits(r),
           \/ FirstChunk(r) \/ Admit(r) \/ Refuse(r) \/ NeverStarts(r) \/ Replay(r)
           \/ StartStream(r)
           \/ \E place \in {"finishing", "cancelled", "broken"} : LeaveUpstream(r, place)
           \/ DropStream(r)
    PROVE  Fits(r)'
<1> USE DEF routeVars, poolVars
<1>1. CASE FirstChunk(r)
  <2>1. /\ draft'[r] = Attempted(r, "streaming", "none") /\ row'[r] = draft'[r]
        /\ pc[r] = "first" /\ pc'[r] = "accepted"
        /\ CallsKept(r) /\ UNCHANGED <<answer, abandoned>>
    BY <1>1 DEF FirstChunk, CallsKept, Typed
  <2>2. draft'[r].selected = draft[r].selected
    BY <2>1, AttemptedType DEF Ways, Errors
  <2>3. CallsFit(r)'
    BY <2>1, CallsStayFit DEF Fits, Trying
  <2>4. LiveFits(r)'
    BY <2>1, <2>2 DEF Fits, LiveFits, Live, Open, CallsKept
  <2>5. AnswerFits(r)' /\ DraftFits(r)' /\ EndFits(r)'
    BY <2>1 DEF Fits, AnswerFits, DraftFits, EndFits, Open
  <2>6. QED
    BY <2>3, <2>4, <2>5 DEF Fits
<1>2. CASE \/ Admit(r) \/ StartStream(r)
           \/ \E place \in {"finishing", "cancelled", "broken"} : LeaveUpstream(r, place)
  <2>1. /\ CallsKept(r) /\ UNCHANGED <<draft, row, abandoned>>
        /\ \/ pc[r] = "cached" /\ pc'[r] = "replaying"
           \/ pc[r] = "accepted" /\ pc'[r] = "starting"
           \/ /\ pc[r] \in {"starting", "streaming"}
              /\ pc'[r] \in {"streaming", "finishing", "cancelled", "broken"}
        /\ \/ answer'[r] = answer[r]
           \/ answer'[r] = "chunks" /\ pc[r] = "starting" /\ pc'[r] = "streaming"
    BY <1>2 DEF Admit, StartStream, LeaveUpstream, CallsKept, Typed
  <2>2. CallsFit(r)'
    BY <2>1, CallsStayFit DEF Fits, Trying
  <2>3. DraftFits(r)' /\ LiveFits(r)' /\ EndFits(r)'
    BY <2>1 DEF CallsKept, Fits, DraftFits, LiveFits, EndFits, Live, Open
  <2>4. AnswerFits(r)'
    <3>1. pc[r] = "starting" => row[r].selected \notin Specialized
      BY DEF Fits, LiveFits, Live, Open
    <3>2. QED
      BY <2>1, <3>1 DEF Fits, AnswerFits, Open
  <2>5. QED
    BY <2>2, <2>3, <2>4 DEF Fits
<1>3. CASE Refuse(r) \/ NeverStarts(r)
  <2>1. /\ End(r) /\ CallsKept(r) /\ row' = row /\ answer'[r] \in {answer[r], "error"}
        /\ abandoned \subseteq abandoned' /\ (pc[r] \in Open => r \in abandoned')
    BY <1>3 DEF Refuse, NeverStarts, CallsKept, Typed, Open
  <2>2. QED
    BY <2>1, SilentEndFits
<1>4. CASE DropStream(r)
  <2>1. /\ End(r) /\ CallsKept(r) /\ row' = row /\ answer' = answer
        /\ abandoned \subseteq abandoned' /\ (pc[r] \in Open => r \in abandoned')
    BY <1>4 DEF DropStream, Close, CallsKept, Open
  <2>2. QED
    BY <2>1, SilentEndFits
<1>5. CASE Replay(r)
  <2>1. /\ End(r) /\ CallsKept(r) /\ row' = row /\ answer'[r] = "cache"
        /\ abandoned' = abandoned /\ pc'[r] = "over"
    BY <1>5 DEF Replay, Close, CallsKept, End, Typed
  <2>2. Recorded(row[r])
    BY <1>5 DEF Replay, Fits, DraftFits
  <2>3. AnswerFits(r)'
    BY <2>1, <2>2 DEF AnswerFits
  <2>4. QED
    BY <2>1, <2>2, <2>3, OverFits DEF Recorded
<1>6. QED
  BY <1>1, <1>2, <1>3, <1>4, <1>5

\* ... whose end is recorded.
LEMMA FitsStepFinish ==
    ASSUME Typed, NEW r \in Requests, Fits(r),
           \/ RecordEnd(r) \/ RecordFails(r) \/ CompleteStream(r)
           \/ \E sent \in BOOLEAN : SendDone(r, sent)
    PROVE  Fits(r)'
<1> USE DEF routeVars, poolVars
<1>1. CASE RecordEnd(r)
  <2> DEFINE end == IF pc[r] = "cancelled" THEN "client_cancelled" ELSE "partial_stream_error"
             x == Attempted(r, end, end)
  <2>1. end \in StreamEnds
    BY DEF StreamEnds
  <2>2. row'[r] = [x EXCEPT !.status = end]
    BY <1>1 DEF RecordEnd, Typed
  <2>3. x \in Rows /\ x.selected = draft[r].selected
    BY <2>1, AttemptedType DEF Ways, Errors
  <2> HIDE DEF end, x
  <2>4. row'[r].status # "routing" /\ row'[r].selected = draft[r].selected
    BY <2>1, <2>2, <2>3 DEF Rows, StreamEnds
  <2>5. /\ End(r) /\ CallsKept(r) /\ answer' = answer /\ abandoned' = abandoned
        /\ pc[r] \in {"cancelled", "broken"} /\ pc'[r] = "over"
    BY <1>1 DEF RecordEnd, Close, CallsKept, End, Typed
  <2>6. draft[r].selected \notin Specialized
    BY <2>5 DEF Fits, LiveFits, Live, Open
  <2>7. answer[r] \notin {"body", "done", "cache"}
    BY <2>5 DEF Fits, AnswerFits
  <2>8. AnswerFits(r)'
    BY <2>4, <2>5, <2>6, <2>7 DEF AnswerFits
  <2>9. QED
    BY <2>4, <2>5, <2>8, OverFits
<1>2. CASE RecordFails(r)
  <2>1. /\ End(r) /\ CallsKept(r) /\ row' = row /\ answer' = answer
        /\ abandoned' = abandoned \cup {r}
    BY <1>2 DEF RecordFails, Close, CallsKept
  <2>2. QED
    BY <2>1, SilentEndFits
<1>3. CASE CompleteStream(r)
  <2> DEFINE x == [Answered(r, TRUE) EXCEPT !.status = "completed", !.impact = TRUE]
  <2>1. /\ row'[r] = x /\ CallsKept(r) /\ UNCHANGED <<draft, answer, abandoned>>
        /\ pc[r] = "finishing" /\ pc'[r] = "completed"
    BY <1>3 DEF CompleteStream, CallsKept, Typed
  <2>2. draft[r].selected = callee[r]
    BY <2>1 DEF Fits, LiveFits, Live, Open
  <2>3. Recorded(x)
    BY <2>2, AnsweredIsRecorded
  <2>4. x.selected = callee[r]
    BY <2>2, AnsweredType DEF Rows
  <2> HIDE DEF x
  <2>5. CallsFit(r)'
    BY <2>1, CallsStayFit DEF Fits, Trying
  <2>6. LiveFits(r)' /\ DraftFits(r)' /\ EndFits(r)'
    BY <2>1, <2>3, <2>4
    DEF Fits, LiveFits, DraftFits, EndFits, Live, Open, CallsKept, Recorded
  <2>7. AnswerFits(r)'
    <3>1. answer[r] \notin {"body", "done", "cache"}
      BY <2>1 DEF Fits, AnswerFits
    <3>2. x.selected \notin Specialized
      BY <2>1, <2>4 DEF Fits, LiveFits, Live, Open
    <3>3. QED
      BY <2>1, <3>1, <3>2 DEF AnswerFits
  <2>8. QED
    BY <2>5, <2>6, <2>7 DEF Fits
<1>4. ASSUME NEW sent \in BOOLEAN, SendDone(r, sent) PROVE Fits(r)'
  <2>1. /\ End(r) /\ CallsKept(r) /\ row' = row /\ answer'[r] \in {answer[r], "done"}
        /\ abandoned' = abandoned /\ pc[r] = "completed" /\ pc'[r] = "over"
    BY <1>4 DEF SendDone, Close, CallsKept, End, Typed
  <2>2. Recorded(row[r]) /\ row[r].selected \notin Specialized
    BY <2>1 DEF Fits, DraftFits, LiveFits, Live
  <2>3. AnswerFits(r)'
    BY <2>1, <2>2 DEF AnswerFits
  <2>4. QED
    BY <2>1, <2>2, <2>3, OverFits DEF Recorded
<1>5. QED
  BY <1>1, <1>2, <1>3, <1>4
-----------------------------------------------------------------------------
LEMMA Finite ==
    ASSUME NEW S, S \subseteq Requests
    PROVE  IsFiniteSet(S) /\ Cardinality(S) \in Nat
BY BoundAssumption, FS_Subset, FS_CardinalityType

\* The slots: who waits for one may enter, who holds one leaves it behind.
Others(r) == \A q \in Requests \ {r} : pc'[q] = pc[q] /\ callee'[q] = callee[q]

LEMMA CallersStay ==
    ASSUME Slotted, NEW r \in Requests, Others(r), active' = active,
           pc'[r] \in Calling <=> pc[r] \in Calling,
           pc[r] \in Calling => callee'[r] = callee[r]
    PROVE  Slotted'
<1>1. \A e \in Endpoints : Callers(e)' = Callers(e)
  BY DEF Callers, Others
<1>2. QED
  BY <1>1 DEF Slotted

LEMMA CallerLeaves ==
    ASSUME Typed, Slotted, NEW r \in Requests, Others(r), active' = Released(r),
           pc'[r] \notin Calling
    PROVE  Slotted'
<1> SUFFICES ASSUME NEW e \in Endpoints
             PROVE  active'[e] = Cardinality(Callers(e)') /\ active'[e] <= Slots
  BY DEF Slotted
<1>1. active[e] = Cardinality(Callers(e)) /\ active[e] <= Slots /\ active[e] \in Int
  BY DEF Slotted, Typed
<1>2. CASE r \in Callers(e)
  <2>1. Callers(e)' = Callers(e) \ {r}
    BY DEF Callers, Others
  <2>2. active'[e] = active[e] - 1
    BY <1>2 DEF Released, Callers, Typed
  <2>3. Callers(e) \subseteq Requests
    BY DEF Callers
  <2>4. Cardinality(Callers(e)') = Cardinality(Callers(e)) - 1
    BY <1>2, <2>1, <2>3, Finite, FS_RemoveElement
  <2>5. QED
    BY <1>1, <2>2, <2>4, BoundAssumption
<1>3. CASE r \notin Callers(e)
  <2>1. Callers(e)' = Callers(e)
    BY <1>3 DEF Callers, Others
  <2>2. active'[e] = active[e]
    BY <1>1, <1>3 DEF Released, Callers, Typed
  <2>3. QED
    BY <1>1, <2>1, <2>2
<1>4. QED
  BY <1>2, <1>3

LEMMA CallerEnters ==
    ASSUME Typed, Slotted, NEW r \in Requests, Acquire(r)
    PROVE  Slotted'
<1> SUFFICES ASSUME NEW e \in Endpoints
             PROVE  active'[e] = Cardinality(Callers(e)') /\ active'[e] <= Slots
  BY DEF Slotted
<1>1. active[e] = Cardinality(Callers(e)) /\ active[e] <= Slots /\ active[e] \in Int
  BY DEF Slotted, Typed
<1>2. /\ pc[r] \notin Calling /\ pc'[r] \in Calling /\ callee' = callee
      /\ active[callee[r]] < Slots /\ Others(r)
      /\ active' = [active EXCEPT ![callee[r]] = @ + 1]
  BY DEF Acquire, Calling, Typed, Others, routeVars
<1>3. CASE e = callee[r]
  <2>1. Callers(e)' = Callers(e) \cup {r} /\ r \notin Callers(e)
    BY <1>2, <1>3 DEF Callers, Others
  <2>2. Callers(e) \subseteq Requests
    BY DEF Callers
  <2>3. Cardinality(Callers(e)') = Cardinality(Callers(e)) + 1
    BY <2>1, <2>2, Finite, FS_AddElement
  <2>4. active'[e] = active[e] + 1
    BY <1>2, <1>3 DEF Typed
  <2>5. QED
    BY <1>1, <1>2, <1>3, <2>3, <2>4, BoundAssumption
<1>4. CASE e # callee[r]
  <2>1. Callers(e)' = Callers(e)
    BY <1>2, <1>4 DEF Callers, Others
  <2>2. active'[e] = active[e]
    BY <1>2, <1>4 DEF Typed
  <2>3. QED
    BY <1>1, <2>1, <2>2
<1>5. QED
  BY <1>3, <1>4

\* The permits: taken by streams that start, given back when they end.
LEMMA SendersStay ==
    ASSUME Typed, Permitted, NEW r \in Requests, Others(r), pc[r] # "over",
           permits' = permits, leaked' = leaked,
           pc'[r] \in Sending <=> pc[r] \in Sending
    PROVE  Permitted'
<1>1. Senders' = Senders
  BY DEF Senders, Others
<1>2. \A q \in leaked : pc'[q] = "over"
  BY DEF Permitted, Others, Typed
<1>3. QED
  BY <1>1, <1>2 DEF Permitted

LEMMA SenderEnters ==
    ASSUME Typed, Permitted, NEW r \in Requests, Admit(r)
    PROVE  Permitted'
<1>1. /\ pc[r] \notin Sending \cup {"over"} /\ pc'[r] \in Sending /\ Others(r)
      /\ permits' = permits + 1 /\ permits < MaxStreams /\ leaked' = leaked
  BY DEF Admit, Sending, Typed, Others, routeVars
<1>2. Senders' = Senders \cup {r} /\ r \notin Senders
  BY <1>1 DEF Senders, Others
<1>3. Senders \subseteq Requests /\ leaked \subseteq Requests
  BY DEF Senders, Typed
<1>4. Cardinality(Senders') = Cardinality(Senders) + 1
  BY <1>2, <1>3, Finite, FS_AddElement
<1>5. \A q \in leaked : pc'[q] = "over"
  BY <1>1 DEF Permitted, Others, Typed
<1>6. Cardinality(Senders) \in Nat /\ Cardinality(leaked) \in Nat
  BY <1>3, Finite
<1>7. /\ permits = Cardinality(Senders) + Cardinality(leaked)
      /\ permits < MaxStreams /\ permits \in Int /\ MaxStreams \in Nat
  BY <1>1, BoundAssumption DEF Permitted, Typed
<1>8. permits' = Cardinality(Senders') + Cardinality(leaked') /\ permits' <= MaxStreams
  BY <1>1, <1>4, <1>6, <1>7
<1>9. QED
  BY <1>1, <1>5, <1>8 DEF Permitted

LEMMA SenderLeaves ==
    ASSUME Typed, Permitted, NEW r \in Requests, Others(r), pc[r] \in Sending, pc'[r] = "over",
           \/ permits' = permits - 1 /\ leaked' = leaked
           \/ permits' = permits /\ leaked' = leaked \cup {r}
    PROVE  Permitted'
<1>1. Senders' = Senders \ {r} /\ r \in Senders
  BY DEF Senders, Others, Sending
<1>2. Senders \subseteq Requests /\ leaked \subseteq Requests /\ r \notin leaked
  BY DEF Senders, Typed, Permitted, Sending
<1>3. Cardinality(Senders') = Cardinality(Senders) - 1
  BY <1>1, <1>2, Finite, FS_RemoveElement
<1>4. Cardinality(leaked \cup {r}) = Cardinality(leaked) + 1
  BY <1>2, Finite, FS_AddElement
<1>5. \A q \in leaked' : pc'[q] = "over"
  BY DEF Permitted, Others, Typed
<1>6. Cardinality(Senders) \in Nat /\ Cardinality(leaked) \in Nat
  BY <1>2, Finite
<1>7. CASE permits' = permits - 1 /\ leaked' = leaked
  BY <1>3, <1>5, <1>6, <1>7, BoundAssumption DEF Permitted, Typed
<1>8. CASE permits' = permits /\ leaked' = leaked \cup {r}
  <2>1. permits' = Cardinality(Senders') + Cardinality(leaked') /\ permits' <= MaxStreams
    <3>1. Cardinality(leaked') = Cardinality(leaked) + 1
      BY <1>4, <1>8
    <3>2. QED
      BY <1>3, <1>6, <1>8, <3>1 DEF Permitted
  <2>2. QED
    BY <1>5, <2>1 DEF Permitted
<1>9. QED
  BY <1>7, <1>8
-----------------------------------------------------------------------------
\* Every step keeps the count of slots, ...
LEMMA OthersStay ==
    ASSUME Typed, NEW r \in Requests, Step(r) \/ Deadline(r) \/ Outside(r)
    PROVE  Others(r)
BY OthersUntouched DEF Untouched, Others

LEMMA SlottedStep ==
    ASSUME Typed, Slotted, NEW r \in Requests, Step(r) \/ Deadline(r) \/ Outside(r)
    PROVE  Slotted'
<1>1. Others(r)
  BY OthersStay
<1> USE DEF routeVars, poolVars, Calling
<1> DEFINE Same == /\ active' = active /\ (pc'[r] \in Calling <=> pc[r] \in Calling)
                   /\ (pc[r] \in Calling => callee'[r] = callee[r])
           Left == active' = Released(r) /\ pc'[r] \notin Calling
<1>2. (Same \/ Left) => Slotted'
  <2>1. CASE Same
    BY <1>1, <2>1, CallersStay
  <2>2. CASE Left
    BY <1>1, <2>2, CallerLeaves
  <2>3. QED
    BY <2>1, <2>2
<1>3. CASE \/ Hit(r) \/ NoEndpoint(r) \/ Receive(r) \/ Accepted(r) \/ Invalid(r) \/ Deadline(r)
           \/ Stall(r)
  BY <1>2, <1>3 DEF Hit, NoEndpoint, Receive, Accepted, Invalid, Deadline, Stall, Typed
<1>4. ASSUME NEW open, NEW dirty, NEW live, Route(r, open, dirty, live) PROVE Slotted'
  BY <1>2, <1>4 DEF Route, Typed
<1>5. ASSUME NEW stream, CommitHit(r, stream) PROVE Slotted'
  <2>1. Same
    BY <1>5 DEF CommitHit, End, Typed
  <2>2. QED
    BY <1>2, <2>1
<1>6. CASE Invoke(r) \/ Preflight(r)
  BY <1>2, <1>6 DEF Invoke, Preflight, Call, Typed
<1>7. ASSUME NEW error, NEW again \in {"invoke", "preflight"}, CallFails(r, error, again)
      PROVE  Slotted'
  <2>1. Left
    BY <1>7 DEF CallFails, Typed
  <2>2. QED
    BY <1>2, <2>1
<1>8. CASE InvokeLate(r) \/ TimesOut(r)
  BY <1>7, <1>8 DEF InvokeLate, TimesOut
<1>9. ASSUME NEW error, ProviderFails(r, error) PROVE Slotted'
  BY <1>7, <1>9 DEF ProviderFails
<1>10. CASE Acquire(r)
  BY <1>10, CallerEnters
<1>11. ASSUME NEW enabled, Rejected(r, enabled) PROVE Slotted'
  <2>1. pc[r] = "answered" /\ pc'[r] \in {"invoke", "failing"} /\ active' = active
    BY <1>11 DEF Rejected, Typed
  <2>2. QED
    BY <1>2, <2>1
<1>12. CASE ProviderAnswers(r) \/ (\E place \in {"finishing", "cancelled", "broken"} :
                                       LeaveUpstream(r, place))
  BY <1>2, <1>12 DEF ProviderAnswers, LeaveUpstream, Typed
<1>13. CASE Commit(r)
  BY <1>2, <1>13 DEF Commit, End, Typed
<1>14. CASE Raise(r) \/ Refuse(r) \/ NeverStarts(r)
  BY <1>2, <1>14 DEF Raise, Refuse, NeverStarts, End, Typed
<1>15. CASE FirstChunk(r) \/ StartStream(r) \/ Admit(r) \/ CompleteStream(r)
  BY <1>2, <1>15 DEF FirstChunk, StartStream, Admit, CompleteStream, Typed
<1>16. CASE Replay(r) \/ DropStream(r) \/ RecordEnd(r) \/ RecordFails(r)
  BY <1>2, <1>16 DEF Replay, DropStream, RecordEnd, RecordFails, Close, End, Typed
<1>17. ASSUME NEW sent, SendDone(r, sent) PROVE Slotted'
  BY <1>2, <1>17 DEF SendDone, Close, End, Typed
<1>18. CASE Step(r)
  BY <1>18, <1>3, <1>4, <1>5, <1>6, <1>8, <1>10, <1>11, <1>12, <1>13, <1>14, <1>15, <1>16,
     <1>17 DEF Step
<1>19. CASE Outside(r)
  BY <1>19, <1>3, <1>9, <1>12, <1>14, <1>15, <1>16 DEF Outside
<1>20. QED
  BY <1>3, <1>18, <1>19

\* ... and that of permits.
LEMMA PermittedStep ==
    ASSUME Typed, Permitted, NEW r \in Requests, Step(r) \/ Deadline(r) \/ Outside(r)
    PROVE  Permitted'
<1>1. Others(r)
  BY OthersStay
<1> USE DEF routeVars, poolVars, Sending
<1> DEFINE Same == /\ pc[r] # "over" /\ permits' = permits /\ leaked' = leaked
                   /\ pc'[r] \in Sending <=> pc[r] \in Sending
           Left == /\ pc[r] \in Sending /\ pc'[r] = "over"
                   /\ \/ permits' = permits - 1 /\ leaked' = leaked
                      \/ permits' = permits /\ leaked' = leaked \cup {r}
<1>2. (Same \/ Left) => Permitted'
  <2>1. CASE Same
    BY <1>1, <2>1, SendersStay
  <2>2. CASE Left
    BY <1>1, <2>2, SenderLeaves
  <2>3. QED
    BY <2>1, <2>2
<1>3. CASE \/ Hit(r) \/ NoEndpoint(r) \/ Receive(r) \/ Accepted(r) \/ Invalid(r) \/ Deadline(r)
           \/ Stall(r)
  BY <1>2, <1>3 DEF Hit, NoEndpoint, Receive, Accepted, Invalid, Deadline, Stall, Typed
<1>4. ASSUME NEW open, NEW dirty, NEW live, Route(r, open, dirty, live) PROVE Permitted'
  BY <1>2, <1>4 DEF Route, Typed
<1>5. ASSUME NEW stream, CommitHit(r, stream) PROVE Permitted'
  <2>1. Same
    BY <1>5 DEF CommitHit, End, Typed
  <2>2. QED
    BY <1>2, <2>1
<1>6. CASE Invoke(r) \/ Preflight(r)
  BY <1>2, <1>6 DEF Invoke, Preflight, Call, Typed
<1>7. ASSUME NEW error, NEW again \in {"invoke", "preflight"}, CallFails(r, error, again),
             pc[r] \in Trying
      PROVE  Permitted'
  <2>1. Same
    BY <1>7 DEF CallFails, Typed, Trying
  <2>2. QED
    BY <1>2, <2>1
<1>8. CASE InvokeLate(r) \/ TimesOut(r)
  BY <1>7, <1>8 DEF InvokeLate, TimesOut, Trying
<1>9. ASSUME NEW error, ProviderFails(r, error) PROVE Permitted'
  BY <1>7, <1>9 DEF ProviderFails, Trying
<1>10. CASE Admit(r)
  BY <1>10, SenderEnters
<1>11. ASSUME NEW enabled, Rejected(r, enabled) PROVE Permitted'
  <2>1. /\ pc[r] = "answered" /\ pc'[r] \in {"invoke", "failing"}
        /\ permits' = permits /\ leaked' = leaked
    BY <1>11 DEF Rejected, Typed
  <2>2. QED
    BY <1>2, <2>1
<1>12. CASE \/ ProviderAnswers(r) \/ Acquire(r) \/ FirstChunk(r) \/ StartStream(r)
            \/ \E place \in {"finishing", "cancelled", "broken"} : LeaveUpstream(r, place)
  <2>1. Same
    BY <1>12
    DEF ProviderAnswers, Acquire, FirstChunk, StartStream, LeaveUpstream, Typed
  <2>2. QED
    BY <1>2, <2>1
<1>13. CASE CompleteStream(r)
  BY <1>2, <1>13 DEF CompleteStream, Typed
<1>14. CASE Commit(r) \/ Raise(r) \/ Refuse(r)
  BY <1>2, <1>14 DEF Commit, Raise, Refuse, End, Typed
<1>15. CASE NeverStarts(r)
  BY <1>2, <1>15 DEF NeverStarts, End, Typed
<1>16. CASE Replay(r) \/ DropStream(r) \/ RecordEnd(r) \/ RecordFails(r)
  BY <1>2, <1>16 DEF Replay, DropStream, RecordEnd, RecordFails, Close, End, Typed
<1>17. ASSUME NEW sent, SendDone(r, sent) PROVE Permitted'
  BY <1>2, <1>17 DEF SendDone, Close, End, Typed
<1>18. CASE Step(r)
  BY <1>18, <1>3, <1>4, <1>5, <1>6, <1>8, <1>10, <1>11, <1>12, <1>13, <1>14, <1>16, <1>17
  DEF Step
<1>19. CASE Outside(r)
  BY <1>19, <1>3, <1>9, <1>12, <1>14, <1>15, <1>16 DEF Outside
<1>20. QED
  BY <1>3, <1>18, <1>19
-----------------------------------------------------------------------------
\* A restart leaves only what is on record, and nothing taken.
LEMMA CrashFits ==
    ASSUME Typed, NEW r \in Requests, Fits(r), Crash
    PROVE  Fits(r)'
<1> USE DEF routeVars
<1>1. pc'[r] = IF pc[r] = "idle" THEN "idle" ELSE "over"
  BY DEF Crash
<1>2. row' = row /\ answer' = answer /\ CallsKept(r)
  BY DEF Crash, CallsKept
<1>3. EndFits(r)'
  BY DEF Crash, EndFits
<1>4. CallsFit(r)'
  BY <1>1, <1>2 DEF CallsKept, Fits, CallsFit, Trying
<1>5. AnswerFits(r)' /\ DraftFits(r)' /\ LiveFits(r)'
  BY <1>1, <1>2 DEF Fits, AnswerFits, DraftFits, LiveFits, Live, Open, Recorded
<1>6. QED
  BY <1>3, <1>4, <1>5 DEF Fits

LEMMA CrashCounted ==
    ASSUME Typed, Crash
    PROVE  Slotted' /\ Permitted'
<1>1. \A r \in Requests : pc'[r] \in {"idle", "over"}
  BY DEF Crash
<1>2. Senders' = {} /\ \A e \in Endpoints : Callers(e)' = {}
  BY <1>1 DEF Senders, Callers, Sending, Calling
<1>3. /\ permits' = 0 /\ leaked' = {} /\ \A e \in Endpoints : active'[e] = 0
  BY DEF Crash
<1>4. Slotted'
  BY <1>2, <1>3, FS_EmptySet, BoundAssumption DEF Slotted
<1>5. Permitted'
  BY <1>2, <1>3, FS_EmptySet, BoundAssumption DEF Permitted
<1>6. QED
  BY <1>4, <1>5

LEMMA IInvInit == Init => IInv
<1> SUFFICES ASSUME Init PROVE IInv
  OBVIOUS
<1>1. Typed
  BY TypedInit
<1>2. ASSUME NEW r \in Requests PROVE Fits(r)
  <2>1. /\ pc[r] = "idle" /\ answer[r] = "none" /\ row[r] = Absent /\ purpose[r] = "selected"
        /\ \A e \in Endpoints : called[r][e] = 0
    BY DEF Init
  <2>2. AnswerFits(r) /\ DraftFits(r) /\ LiveFits(r) /\ EndFits(r)
    BY <2>1, AbsentIsRow DEF AnswerFits, DraftFits, LiveFits, EndFits, Live, Open
  <2>3. CallsFit(r)
    BY <2>1 DEF CallsFit, Trying
  <2>4. QED
    BY <2>2, <2>3 DEF Fits
<1>3. Senders = {} /\ \A e \in Endpoints : Callers(e) = {}
  BY DEF Init, Senders, Callers, Sending, Calling
<1>4. Slotted /\ Permitted
  <2>1. /\ \A e \in Endpoints : active[e] = 0
        /\ permits = 0 /\ leaked = {}
    BY DEF Init
  <2>2. Cardinality({}) = 0
    BY FS_EmptySet
  <2>3. QED
    BY <1>3, <2>1, <2>2, BoundAssumption DEF Slotted, Permitted
<1>5. QED
  BY <1>1, <1>2, <1>4 DEF IInv

LEMMA IInvStep == IInv /\ [Next]_vars => IInv'
<1> SUFFICES ASSUME IInv, [Next]_vars PROVE IInv'
  OBVIOUS
<1>1. Typed'
  BY TypedStep DEF IInv
<1>2. Typed /\ Slotted /\ Permitted /\ \A r \in Requests : Fits(r)
  BY DEF IInv
<1>3. ASSUME NEW r \in Requests, Step(r) \/ Deadline(r) \/ Outside(r)
      PROVE  IInv'
  <2>1. Fits(r)'
    BY <1>2, <1>3, FitsStepRoute, FitsStepCall, FitsStepAnswer, FitsStepStream,
       FitsStepFinish DEF Step, Outside
  <2>2. \A q \in Requests \ {r} : Fits(q)'
    BY <1>2, <1>3, OthersUntouched, UntouchedFits
  <2>3. Slotted' /\ Permitted'
    BY <1>2, <1>3, SlottedStep, PermittedStep
  <2>4. QED
    BY <1>1, <2>1, <2>2, <2>3 DEF IInv
<1>4. CASE Crash
  BY <1>1, <1>2, <1>4, CrashFits, CrashCounted DEF IInv
<1>5. CASE UNCHANGED vars
  <2>1. \A r \in Requests : Fits(r)'
    BY <1>2, <1>5, UntouchedFits DEF vars, routeVars, poolVars, Untouched
  <2>2. Slotted' /\ Permitted'
    BY <1>5 DEF vars, routeVars, poolVars, IInv, Slotted, Permitted, Callers, Senders
  <2>3. QED
    BY <1>1, <2>1, <2>2 DEF IInv
<1>6. QED
  BY <1>3, <1>4, <1>5 DEF Next, AllOver

LEMMA IInvHolds == Spec => []IInv
  BY IInvInit, IInvStep, PTL DEF Spec
-----------------------------------------------------------------------------
\* Types, among them that no endpoint ever serves more calls than its limit
\* and no more permits are out than there are (EndpointLimiter, stream_connections).
THEOREM TypeCorrect == Spec => []TypeOK
<1>1. IInv => TypeOK
  <2> SUFFICES ASSUME IInv PROVE TypeOK
    OBVIOUS
  <2>1. active \in [Endpoints -> 0..Slots]
    <3>1. ASSUME NEW e \in Endpoints PROVE active[e] \in 0..Slots
      <4>1. Cardinality(Callers(e)) \in Nat
        BY Finite DEF Callers
      <4>2. QED
        BY <4>1, BoundAssumption DEF IInv, Slotted, Permitted
    <3>2. QED
      BY <3>1 DEF IInv, Typed
  <2>2. permits \in 0..MaxStreams
    <3>1. Cardinality(Senders) \in Nat /\ Cardinality(leaked) \in Nat
      BY Finite DEF Senders, IInv, Typed
    <3>2. QED
      BY <3>1, BoundAssumption DEF IInv, Slotted, Permitted
  <2>3. QED
    BY <2>1, <2>2 DEF IInv, Typed, TypeOK
<1>2. QED
  BY <1>1, IInvHolds, PTL

\* Whoever has an answer has a committed, completed row with its impact and a
\* verified attempt (chat_completions, live_events, _complete_cache_hit).
THEOREM AnswersOnRecord == Spec => []AnswersAreOnRecord
<1>1. IInv => AnswersAreOnRecord
  BY DEF IInv, Fits, AnswerFits, Recorded, AnswersAreOnRecord
<1>2. QED
  BY <1>1, IInvHolds, PTL

\* No chunk of a specialized endpoint is streamed, not even of a fallback
\* (requires_post_validator, select_candidate).
THEOREM SpecializedVerified == Spec => []SpecializedIsVerified
<1>1. IInv => SpecializedIsVerified
  BY DEF IInv, Fits, AnswerFits, SpecializedIsVerified
<1>2. QED
  BY <1>1, IInvHolds, PTL

\* No endpoint is called twice for a request, none that was excluded, and only
\* the required fallback besides the selected one (chat, preflight_stream,
\* chat_completions).
THEOREM CallsBounded == Spec => []CallsAreBounded
<1>1. IInv => CallsAreBounded
  BY DEF IInv, Fits, CallsFit, CallsAreBounded
<1>2. QED
  BY <1>1, IInvHolds, PTL

\* Slots and permits are exactly those of the calls and streams there are, and
\* of the streams that were never started (EndpointLimiter.slot, limited).
THEOREM ResourcesReturned == Spec => []ResourcesAreReturned
<1>1. IInv => ResourcesAreReturned
  BY DEF IInv, Slotted, Permitted, Callers, Senders, ResourcesAreReturned
<1>2. QED
  BY <1>1, IInvHolds, PTL

\* A stream that ends leaves no row behind that is still "routing", unless it was
\* abandoned (update_stream_failure, live_events).
THEOREM StreamEndsRecorded == Spec => []StreamEndsAreRecorded
<1>1. IInv => StreamEndsAreRecorded
  BY DEF IInv, Fits, EndFits, Open, StreamEndsAreRecorded
<1>2. QED
  BY <1>1, IInvHolds, PTL
-----------------------------------------------------------------------------
\* The audit trail.  Until a request is answered or its stream accepted nothing is
\* recorded of it; a stream is recorded as its session has it.
Which(r) == IF purpose[r] = "selected" THEN 1 ELSE 2
Before == {"idle", "received", "hit", "failing", "committing"} \cup Trying

RowFits(r) ==
    /\ pc[r] \in Before => row[r].status = "absent"
    /\ pc[r] \in {"cached", "replaying"} => row[r].cached
    /\ pc[r] \in Open => /\ row[r].status = "routing" /\ row[r] = draft[r]
                         /\ row[r].attempts[Which(r)].endpoint = callee[r]

SessionFits(r) ==
    /\ pc[r] \in {"idle", "received", "hit"} =>
           \A n \in 1..2 : draft[r].attempts[n].endpoint = None
    /\ pc[r] = "hit" => draft[r].cached /\ draft[r].selected \in Endpoints
    /\ pc[r] = "committing" => ~draft[r].cached /\ draft[r].selected \in Endpoints
    /\ pc[r] \in {"idle", "received", "failing"} \cup Trying \cup Open =>
           draft[r].cached = FALSE /\ draft[r].impact = FALSE
    /\ pc[r] \in {"received"} \cup Trying => draft[r].status = "routing"

ToldFits(r) ==
    /\ pc[r] \in {"streaming", "broken", "finishing", "completed"} => answer[r] = "chunks"
    /\ pc[r] = "cancelled" => answer[r] \in {"none", "chunks"}

Trailed(r) == RowFits(r) /\ SessionFits(r) /\ ToldFits(r)
AuditInv == \A r \in Requests : Trailed(r)

\* What an attempt, and an output, leave in a row.
LEMMA AttemptedRoute ==
    ASSUME Typed, NEW r \in Requests, NEW way \in Ways, NEW error \in Errors
    PROVE  LET x == Attempted(r, way, error)
           IN  /\ x.cached = draft[r].cached /\ x.impact = draft[r].impact
               /\ \A n \in 1..2 : x.attempts[n].endpoint =
                      IF n = Which(r) THEN callee[r] ELSE draft[r].attempts[n].endpoint
<1>1. draft[r] \in Rows
  BY DEF Typed
<1>2. QED
  BY <1>1 DEF Attempted, Rows, Attempts, Which

LEMMA AnsweredRoute ==
    ASSUME Typed, NEW r \in Requests, NEW passes \in BOOLEAN
    PROVE  LET x == Answered(r, passes)
           IN  /\ x.cached = draft[r].cached /\ x.impact = draft[r].impact
               /\ \A n \in 1..2 : x.attempts[n].endpoint =
                      IF n = Which(r) THEN callee[r] ELSE draft[r].attempts[n].endpoint
<1>1. draft[r] \in Rows
  BY DEF Typed
<1>2. QED
  BY <1>1 DEF Answered, Rows, Attempts, Which

\* A request that is over owes nothing more.
LEMMA OverTrailed ==
    ASSUME Typed, NEW r \in Requests, End(r)
    PROVE  Trailed(r)'
<1>1. pc'[r] = "over"
  BY DEF End, Typed
<1>2. QED
  BY <1>1 DEF Trailed, RowFits, SessionFits, ToldFits, Before, Trying, Open

\* On its way to an answer, a request records nothing.
LEMMA UnderWayTrailed ==
    ASSUME NEW r \in Requests, Trailed(r), pc[r] \in Before,
           row'[r] = row[r], answer'[r] = answer[r],
           pc'[r] \in {"failing"} \cup Trying,
           draft'[r].cached = FALSE, draft'[r].impact = FALSE,
           pc'[r] \in Trying => draft'[r].status = "routing"
    PROVE  Trailed(r)'
<1>1. RowFits(r)'
  BY DEF Trailed, RowFits, Before, Trying, Open
<1>2. SessionFits(r)' /\ ToldFits(r)'
  BY DEF SessionFits, ToldFits, Trying, Open
<1>3. QED
  BY <1>1, <1>2 DEF Trailed

LEMMA CallFailsTrailed ==
    ASSUME Typed, NEW r \in Requests, Trailed(r), NEW error \in Codes,
           NEW again \in {"invoke", "preflight"}, CallFails(r, error, again), pc[r] \in Trying
    PROVE  Trailed(r)'
<1> DEFINE x == Attempted(r, "failed", error)
<1>1. x \in Rows
  BY AttemptedType DEF Ways, Errors
<1>2. /\ x.cached = draft[r].cached /\ x.impact = draft[r].impact
      /\ x.status = draft[r].status
  BY AttemptedType, AttemptedRoute DEF Ways, Errors
<1>3. draft[r].cached = FALSE /\ draft[r].impact = FALSE /\ draft[r].status = "routing"
  BY DEF Trailed, SessionFits
<1>4. /\ \/ draft' = [draft EXCEPT ![r] = [x EXCEPT !.selected = fallback]]
            /\ pc' = [pc EXCEPT ![r] = again]
         \/ draft' = [draft EXCEPT ![r] = [x EXCEPT !.status = "failed"]]
            /\ pc' = [pc EXCEPT ![r] = "failing"]
      /\ row' = row /\ answer' = answer
  BY DEF CallFails
<1> HIDE DEF x
<1>5. /\ draft'[r].cached = FALSE /\ draft'[r].impact = FALSE
      /\ pc'[r] \in Trying => draft'[r].status = "routing"
  <2> DEFINE y == [x EXCEPT !.selected = fallback]
             z == [x EXCEPT !.status = "failed"]
  <2>1. /\ y.cached = x.cached /\ y.impact = x.impact /\ y.status = x.status
        /\ z.cached = x.cached /\ z.impact = x.impact
    BY <1>1 DEF Rows
  <2>2. \/ draft'[r] = y
        \/ draft'[r] = z /\ pc'[r] = "failing"
    BY <1>4 DEF Typed
  <2> HIDE DEF y, z
  <2>3. QED
    BY <1>2, <1>3, <2>1, <2>2 DEF Trying
<1>6. pc'[r] \in {"failing"} \cup Trying
  BY <1>4 DEF Typed, Trying
<1>7. QED
  BY <1>4, <1>5, <1>6, UnderWayTrailed DEF Before
-----------------------------------------------------------------------------
\* Every step of a request keeps its trail: before an answer, ...
LEMMA TrailedStepBefore ==
    ASSUME Typed, NEW r \in Requests, Fits(r), Trailed(r),
           \/ Receive(r) \/ Hit(r) \/ NoEndpoint(r) \/ Deadline(r)
           \/ \E open \in SUBSET Endpoints, dirty, live \in BOOLEAN : Route(r, open, dirty, live)
           \/ Invoke(r) \/ InvokeLate(r) \/ Preflight(r) \/ Acquire(r) \/ TimesOut(r)
           \/ (\E error \in Codes : ProviderFails(r, error)) \/ ProviderAnswers(r)
    PROVE  Trailed(r)'
<1> USE DEF routeVars, poolVars
<1>1. draft[r] \in Rows
  BY DEF Typed
<1>2. CASE Receive(r)
  <2>1. /\ pc[r] = "idle" /\ pc'[r] = "received" /\ row' = row /\ answer' = answer
        /\ draft'[r] = [draft[r] EXCEPT !.status = "routing"]
    BY <1>2 DEF Receive, Typed
  <2>2. /\ draft'[r].cached = draft[r].cached /\ draft'[r].impact = draft[r].impact
        /\ draft'[r].attempts = draft[r].attempts /\ draft'[r].status = "routing"
    BY <1>1, <2>1 DEF Rows
  <2>3. RowFits(r)' /\ ToldFits(r)'
    BY <2>1 DEF Trailed, RowFits, ToldFits, Before, Trying, Open
  <2>4. SessionFits(r)'
    BY <2>1, <2>2 DEF Trailed, SessionFits, Trying, Open
  <2>5. QED
    BY <2>3, <2>4 DEF Trailed
<1>3. CASE Hit(r)
  <2>1. PICK e \in Endpoints :
            draft' = [draft EXCEPT ![r] = [@ EXCEPT !.status = "completed", !.selected = e,
                                                    !.cached = TRUE, !.impact = TRUE]]
    BY <1>3 DEF Hit
  <2>2. /\ draft'[r].cached = TRUE /\ draft'[r].selected = e
        /\ draft'[r].attempts = draft[r].attempts
    BY <1>1, <2>1 DEF Typed, Rows
  <2>3. pc[r] = "received" /\ pc'[r] = "hit" /\ row' = row /\ answer' = answer
    BY <1>3 DEF Hit, Typed
  <2>4. RowFits(r)' /\ ToldFits(r)'
    BY <2>3 DEF Trailed, RowFits, ToldFits, Before, Trying, Open
  <2>5. SessionFits(r)'
    BY <2>2, <2>3 DEF Trailed, SessionFits, Trying, Open
  <2>6. QED
    BY <2>4, <2>5 DEF Trailed
<1>4. CASE NoEndpoint(r)
  <2>1. /\ pc[r] = "received" /\ pc'[r] = "failing" /\ row' = row /\ answer' = answer
        /\ draft'[r] = [draft[r] EXCEPT !.status = "failed"]
    BY <1>4 DEF NoEndpoint, Typed
  <2>2. draft'[r].cached = draft[r].cached /\ draft'[r].impact = draft[r].impact
    BY <1>1, <2>1 DEF Rows
  <2>3. draft[r].cached = FALSE /\ draft[r].impact = FALSE
    BY <2>1 DEF Trailed, SessionFits
  <2>4. QED
    BY <2>1, <2>2, <2>3, UnderWayTrailed DEF Before, Trying
<1>5. ASSUME NEW open \in SUBSET Endpoints, NEW dirty \in BOOLEAN, NEW live \in BOOLEAN,
             Route(r, open, dirty, live)
      PROVE  Trailed(r)'
  <2>1. PICK e \in Preferred(open, dirty) : draft' = [draft EXCEPT ![r].selected = e]
    BY <1>5 DEF Route
  <2>2. /\ pc[r] = "received" /\ pc'[r] \in Trying /\ row' = row /\ answer' = answer
        /\ draft'[r] = [draft[r] EXCEPT !.selected = e]
    BY <1>5, <2>1 DEF Route, Typed, Trying
  <2>3. /\ draft'[r].cached = draft[r].cached /\ draft'[r].impact = draft[r].impact
        /\ draft'[r].status = draft[r].status
    BY <1>1, <2>2 DEF Rows
  <2>4. draft[r].cached = FALSE /\ draft[r].impact = FALSE /\ draft[r].status = "routing"
    BY <2>2 DEF Trailed, SessionFits
  <2>5. QED
    BY <2>2, <2>3, <2>4, UnderWayTrailed DEF Before
<1>6. CASE Invoke(r) \/ Preflight(r) \/ Acquire(r) \/ ProviderAnswers(r) \/ Deadline(r)
  <2>1. /\ row' = row /\ answer' = answer /\ draft' = draft
        /\ pc[r] \in Trying /\ pc'[r] \in Trying
    BY <1>6 DEF Invoke, Preflight, Call, Acquire, ProviderAnswers, Deadline, Typed, Trying
  <2>2. draft[r].cached = FALSE /\ draft[r].impact = FALSE /\ draft[r].status = "routing"
    BY <2>1 DEF Trailed, SessionFits
  <2>3. QED
    BY <2>1, <2>2, UnderWayTrailed DEF Before
<1>7. CASE InvokeLate(r)
  BY <1>7, CallFailsTrailed DEF InvokeLate, Codes, Retryable, Trying
<1>8. CASE TimesOut(r)
  BY <1>8, CallFailsTrailed DEF TimesOut, Codes, Retryable, Trying
<1>9. ASSUME NEW error \in Codes, ProviderFails(r, error) PROVE Trailed(r)'
  BY <1>9, CallFailsTrailed DEF ProviderFails, Trying
<1>10. QED
  BY <1>2, <1>3, <1>4, <1>5, <1>6, <1>7, <1>8, <1>9

\* ... with one that is whole, ...
LEMMA TrailedStepAnswer ==
    ASSUME Typed, NEW r \in Requests, Fits(r), Trailed(r),
           \/ Accepted(r) \/ (\E enabled \in BOOLEAN : Rejected(r, enabled)) \/ Invalid(r)
           \/ \E stream \in BOOLEAN : CommitHit(r, stream)
    PROVE  Trailed(r)'
<1> USE DEF routeVars, poolVars
<1>1. draft[r] \in Rows /\ callee[r] \in Endpoints /\ fallback \in Endpoints
  BY DEF Typed
<1>2. pc[r] = "answered" =>
          draft[r].cached = FALSE /\ draft[r].impact = FALSE /\ draft[r].status = "routing"
  BY DEF Trailed, SessionFits, Trying
<1>3. CASE Accepted(r)
  <2> DEFINE x == Answered(r, TRUE)
  <2>1. x \in Rows /\ x.cached = draft[r].cached
    BY AnsweredType, AnsweredRoute
  <2>2. /\ draft'[r] = [x EXCEPT !.selected = callee[r], !.status = "completed",
                                 !.impact = TRUE]
        /\ pc[r] = "answered" /\ pc'[r] = "committing" /\ row' = row /\ answer' = answer
    BY <1>3 DEF Accepted, Typed
  <2> HIDE DEF x
  <2>3. draft'[r].cached = FALSE /\ draft'[r].selected \in Endpoints
    BY <1>1, <1>2, <2>1, <2>2 DEF Rows
  <2>4. RowFits(r)' /\ ToldFits(r)'
    BY <2>2 DEF Trailed, RowFits, ToldFits, Before, Trying, Open
  <2>5. SessionFits(r)'
    BY <2>2, <2>3 DEF SessionFits, Trying, Open
  <2>6. QED
    BY <2>4, <2>5 DEF Trailed
<1>4. ASSUME NEW enabled \in BOOLEAN, Rejected(r, enabled) PROVE Trailed(r)'
  <2> DEFINE x == Answered(r, FALSE)
  <2>1. /\ x \in Rows /\ x.cached = draft[r].cached /\ x.impact = draft[r].impact
        /\ x.status = draft[r].status
    BY AnsweredType, AnsweredRoute
  <2>2. /\ pc[r] = "answered" /\ row' = row /\ answer' = answer
        /\ \/ pc'[r] = "invoke" /\ draft'[r] = x
           \/ /\ pc'[r] = "failing"
              /\ draft'[r] = [x EXCEPT !.selected = callee[r], !.status = "failed"]
    BY <1>4 DEF Rejected, Typed
  <2> HIDE DEF x
  <2>3. /\ draft'[r].cached = FALSE /\ draft'[r].impact = FALSE
        /\ pc'[r] \in Trying => draft'[r].status = "routing"
    BY <1>1, <1>2, <2>1, <2>2 DEF Rows, Trying
  <2>4. QED
    BY <2>2, <2>3, UnderWayTrailed DEF Before, Trying
<1>5. CASE Invalid(r)
  <2> DEFINE x == IF purpose[r] = "quality_fallback" THEN draft[r]
                  ELSE Attempted(r, "failed", "upstream_invalid_response")
  <2>1. x \in Rows /\ x.cached = draft[r].cached /\ x.impact = draft[r].impact
    BY <1>1, AttemptedType, AttemptedRoute DEF Ways, Errors, Codes
  <2>2. draft' = [draft EXCEPT ![r] = [x EXCEPT !.status = "failed"]]
    BY <1>5 DEF Invalid, Typed
  <2>3. /\ pc[r] = "answered" /\ pc'[r] = "failing" /\ row' = row /\ answer' = answer
    BY <1>5 DEF Invalid, Typed
  <2> HIDE DEF x
  <2>4. draft'[r].cached = FALSE /\ draft'[r].impact = FALSE
    BY <1>2, <2>1, <2>2, <2>3 DEF Rows, Typed
  <2>5. QED
    BY <2>3, <2>4, UnderWayTrailed DEF Before, Trying
<1>6. ASSUME NEW stream \in BOOLEAN, CommitHit(r, stream) PROVE Trailed(r)'
  <2>1. CASE stream
    <3>1. pc[r] = "hit" /\ pc'[r] = "cached" /\ row'[r] = draft[r]
      BY <1>6, <2>1 DEF CommitHit, Typed
    <3>2. QED
      BY <3>1 DEF Trailed, RowFits, SessionFits, ToldFits, Before, Trying, Open
  <2>2. CASE ~stream
    BY <1>6, <2>2, OverTrailed DEF CommitHit
  <2>3. QED
    BY <2>1, <2>2
<1>7. QED
  BY <1>3, <1>4, <1>5, <1>6

\* ... with one that is streamed, and at its end.
LEMMA TrailedStepStream ==
    ASSUME Typed, NEW r \in Requests, Fits(r), Trailed(r),
           \/ FirstChunk(r) \/ Admit(r) \/ StartStream(r) \/ CompleteStream(r)
           \/ \E place \in {"finishing", "cancelled", "broken"} : LeaveUpstream(r, place)
           \/ Commit(r) \/ Raise(r) \/ Refuse(r) \/ NeverStarts(r) \/ Replay(r)
           \/ DropStream(r) \/ RecordEnd(r) \/ RecordFails(r) \/ Stall(r)
           \/ \E sent \in BOOLEAN : SendDone(r, sent)
    PROVE  Trailed(r)'
<1> USE DEF routeVars, poolVars
<1>1. CASE FirstChunk(r)
  <2> DEFINE x == Attempted(r, "streaming", "none")
  <2>1. /\ x \in Rows /\ x.status = draft[r].status
        /\ x.cached = draft[r].cached /\ x.impact = draft[r].impact
        /\ x.attempts[Which(r)].endpoint = callee[r]
    BY AttemptedType, AttemptedRoute DEF Ways, Errors, Which
  <2>2. /\ pc[r] = "first" /\ pc'[r] = "accepted" /\ draft'[r] = x /\ row'[r] = x
        /\ purpose' = purpose /\ callee' = callee
    BY <1>1 DEF FirstChunk, Typed
  <2> HIDE DEF x
  <2>3. draft[r].status = "routing" /\ draft[r].cached = FALSE /\ draft[r].impact = FALSE
    BY <2>2 DEF Trailed, SessionFits, Trying
  <2>4. RowFits(r)'
    BY <2>1, <2>2, <2>3 DEF RowFits, Before, Trying, Open, Which
  <2>5. SessionFits(r)' /\ ToldFits(r)'
    BY <2>1, <2>2, <2>3 DEF SessionFits, ToldFits, Trying, Open
  <2>6. QED
    BY <2>4, <2>5 DEF Trailed
<1>2. CASE Admit(r) /\ pc[r] = "cached"
  <2>1. pc'[r] = "replaying" /\ row' = row
    BY <1>2 DEF Admit, Typed
  <2>2. QED
    BY <1>2, <2>1 DEF Trailed, RowFits, SessionFits, ToldFits, Before, Trying, Open
<1>3. CASE \/ Admit(r) /\ pc[r] = "accepted"
           \/ StartStream(r)
           \/ \E place \in {"finishing", "cancelled", "broken"} : LeaveUpstream(r, place)
  <2>1. /\ pc[r] \in Open /\ pc'[r] \in Open
        /\ UNCHANGED <<row, draft, purpose, callee>>
    BY <1>3 DEF Admit, StartStream, LeaveUpstream, Typed, Open
  <2>2. /\ \/ pc'[r] = "starting"
           \/ pc'[r] = "streaming" /\ answer'[r] = "chunks"
           \/ pc[r] = "streaming" /\ answer' = answer
           \/ pc[r] = "starting" /\ pc'[r] = "cancelled" /\ answer' = answer
    BY <1>3 DEF Admit, StartStream, LeaveUpstream, Typed
  <2>3. RowFits(r)' /\ SessionFits(r)'
    BY <2>1 DEF Trailed, RowFits, SessionFits, Before, Trying, Open, Which
  <2>4. ToldFits(r)'
    BY <2>1, <2>2 DEF Trailed, ToldFits, Fits, AnswerFits, Open
  <2>5. QED
    BY <2>3, <2>4 DEF Trailed
<1>4. CASE CompleteStream(r)
  <2>1. pc[r] = "finishing" /\ pc'[r] = "completed" /\ answer' = answer
    BY <1>4 DEF CompleteStream, Typed
  <2>2. QED
    BY <2>1 DEF Trailed, RowFits, SessionFits, ToldFits, Before, Trying, Open
<1>5. CASE \/ Commit(r) \/ Raise(r) \/ Refuse(r) \/ NeverStarts(r) \/ Replay(r)
           \/ DropStream(r) \/ RecordEnd(r) \/ RecordFails(r)
           \/ \E sent \in BOOLEAN : SendDone(r, sent)
  <2>1. End(r)
    BY <1>5
    DEF Commit, Raise, Refuse, NeverStarts, Replay, DropStream, RecordEnd, RecordFails,
        SendDone, Close
  <2>2. QED
    BY <2>1, OverTrailed
<1>6. CASE Stall(r)
  BY <1>6 DEF Stall, Trailed, RowFits, SessionFits, ToldFits, Which
<1>7. QED
  BY <1>1, <1>2, <1>3, <1>4, <1>5, <1>6 DEF Admit

LEMMA AuditInvStep ==
    ASSUME IInv, AuditInv, [Next]_vars
    PROVE  AuditInv'
<1>1. Typed /\ \A r \in Requests : Fits(r) /\ Trailed(r)
  BY DEF IInv, AuditInv
<1>2. ASSUME NEW r \in Requests, Step(r) \/ Deadline(r) \/ Outside(r)
      PROVE  AuditInv'
  <2>1. Trailed(r)'
    BY <1>1, <1>2, TrailedStepBefore, TrailedStepAnswer, TrailedStepStream DEF Step, Outside
  <2>2. \A q \in Requests \ {r} : Trailed(q)'
    <3>1. \A q \in Requests \ {r} : Untouched(q)
      BY <1>1, <1>2, OthersUntouched
    <3>2. QED
      BY <1>1, <3>1
      DEF Untouched, Trailed, RowFits, SessionFits, ToldFits, Which
  <2>3. QED
    BY <2>1, <2>2 DEF AuditInv
<1>3. CASE Crash
  <2>1. SUFFICES ASSUME NEW r \in Requests PROVE Trailed(r)'
    BY DEF AuditInv
  <2>2. pc'[r] = (IF pc[r] = "idle" THEN "idle" ELSE "over") /\ row' = row /\ draft'[r] = Absent
    BY <1>3 DEF Crash
  <2>3. /\ \A n \in 1..2 : Absent.attempts[n].endpoint = None
        /\ Absent.cached = FALSE /\ Absent.impact = FALSE
    BY DEF Absent, NoAttempt
  <2>4. QED
    BY <1>1, <2>2, <2>3
    DEF Trailed, RowFits, SessionFits, ToldFits, Before, Trying, Open
<1>4. CASE UNCHANGED vars
  BY <1>1, <1>4
  DEF vars, routeVars, poolVars, AuditInv, Trailed, RowFits, SessionFits, ToldFits, Which
<1>5. QED
  BY <1>2, <1>3, <1>4 DEF Next, AllOver

LEMMA AuditInvInit == Init => AuditInv
<1> SUFFICES ASSUME Init, NEW r \in Requests PROVE Trailed(r)
  BY DEF AuditInv
<1>1. pc[r] = "idle" /\ row[r] = Absent /\ draft[r] = Absent
  BY DEF Init
<1>2. /\ \A n \in 1..2 : Absent.attempts[n].endpoint = None
      /\ Absent.cached = FALSE /\ Absent.impact = FALSE /\ Absent.status = "absent"
  BY DEF Absent, NoAttempt
<1>3. QED
  BY <1>1, <1>2 DEF Trailed, RowFits, SessionFits, ToldFits, Before, Trying, Open
-----------------------------------------------------------------------------
\* What a row says in the trail.
Tried(x) == [n \in 1..2 |-> x.attempts[n].endpoint]

LEMMA EntryOf ==
    ASSUME NEW x \in Rows, NEW done \in BOOLEAN, x.impact = done,
           x.status = "completed" <=> done
    PROVE  /\ Entry(x) = Audit!Entry(x.status, x.cached, x.selected, Tried(x))
           /\ Tried(x) \in Audit!Routes
<1>1. x.impact = (x.status = "completed")
  OBVIOUS
<1>2. Tried(x) \in Audit!Routes
  BY DEF Tried, Audit!Routes, Rows, Attempts
<1>3. QED
  BY <1>1, <1>2 DEF Entry, Audit!Entry, Tried

\* A step that writes one row writes one record.
LEMMA OneRecord ==
    ASSUME Typed, NEW r \in Requests, NEW x, row' = [row EXCEPT ![r] = x]
    PROVE  [q \in Requests |-> Entry(row[q])]' =
               [[q \in Requests |-> Entry(row[q])] EXCEPT ![r] = Entry(x)]
BY DEF Typed

\* A whole answer, or a failure, is recorded with what the session has.
LEMMA CommitIsAnswer ==
    ASSUME Typed, NEW r \in Requests, Fits(r), Trailed(r), Commit(r)
    PROVE  Audit!Answer(r) \/ Audit!Fail(r)
<1> DEFINE T == [q \in Requests |-> Entry(row[q])]
           x == draft[r]
<1>1. /\ row' = [row EXCEPT ![r] = x] /\ x \in Rows
      /\ answer' = [answer EXCEPT ![r] = IF pc[r] = "committing" THEN "body" ELSE "error"]
      /\ pc[r] \in {"failing", "committing"}
  BY DEF Commit, Typed
<1>2. row[r].status = "absent" /\ answer[r] = "none"
  BY <1>1 DEF Trailed, RowFits, Before, Fits, AnswerFits, Open
<1>3. T[r].status = "absent"
  BY <1>2 DEF Entry
<1>4. Audit!Unheard(r)
  BY <1>2, <1>3 DEF Audit!Unheard
<1>5. T' = [T EXCEPT ![r] = Entry(x)]
  BY <1>1, OneRecord
<1>6. CASE pc[r] = "committing"
  <2>1. /\ x.status = "completed" /\ x.impact = TRUE /\ x.cached = FALSE
        /\ x.selected \in Endpoints
    BY <1>1, <1>6 DEF Fits, DraftFits, Recorded, Trailed, SessionFits, Rows
  <2>2. Entry(x) = Audit!Entry("completed", FALSE, x.selected, Tried(x))
        /\ Tried(x) \in Audit!Routes
    BY <1>1, <2>1, EntryOf
  <2>3. \E n \in 1..2 : x.attempts[n].endpoint = x.selected
    BY <1>6, <2>1 DEF Fits, DraftFits, Recorded
  <2>4. Audit!Among(x.selected, Tried(x))
    BY <2>3 DEF Audit!Among, Tried
  <2>5. answer' = [answer EXCEPT ![r] = "body"]
    BY <1>1, <1>6
  <2>6. Audit!Record(r, Audit!Entry("completed", FALSE, x.selected, Tried(x)))
    BY <1>5, <2>2 DEF Audit!Record
  <2>7. QED
    BY <1>4, <2>1, <2>2, <2>4, <2>5, <2>6 DEF Audit!Answer, Audit!Tell
<1>7. CASE pc[r] = "failing"
  <2>1. x.status = "failed" /\ x.impact = FALSE /\ x.cached = FALSE
    BY <1>7 DEF Fits, DraftFits, Trailed, SessionFits
  <2>2. Entry(x) = Audit!Entry("failed", FALSE, x.selected, Tried(x))
        /\ Tried(x) \in Audit!Routes
    BY <1>1, <2>1, EntryOf
  <2>3. x.selected \in Endpoints \cup {None}
    BY <1>1 DEF Rows
  <2>4. answer' = [answer EXCEPT ![r] = "error"]
    BY <1>1, <1>7
  <2>5. Audit!Record(r, Audit!Entry("failed", FALSE, x.selected, Tried(x)))
    BY <1>5, <2>2 DEF Audit!Record
  <2>6. QED
    BY <1>4, <2>2, <2>3, <2>4, <2>5 DEF Audit!Fail, Audit!Tell
<1>8. QED
  BY <1>1, <1>6, <1>7

LEMMA CommitHitIsHit ==
    ASSUME Typed, NEW r \in Requests, Fits(r), Trailed(r),
           NEW stream \in BOOLEAN, CommitHit(r, stream)
    PROVE  Audit!Hit(r)
<1> DEFINE T == [q \in Requests |-> Entry(row[q])]
           x == draft[r]
<1>1. /\ row' = [row EXCEPT ![r] = x] /\ x \in Rows /\ pc[r] = "hit"
      /\ answer' = [answer EXCEPT ![r] = "cache"] \/ answer' = answer
  BY DEF CommitHit, Typed
<1>2. row[r].status = "absent" /\ answer[r] = "none"
  BY <1>1 DEF Trailed, RowFits, Before, Fits, AnswerFits, Open
<1>3. T[r].status = "absent"
  BY <1>2 DEF Entry
<1>4. Audit!Unheard(r)
  BY <1>2, <1>3 DEF Audit!Unheard
<1>5. T' = [T EXCEPT ![r] = Entry(x)]
  BY <1>1, OneRecord
<1>6. /\ x.status = "completed" /\ x.impact = TRUE /\ x.cached = TRUE
      /\ x.selected \in Endpoints
  BY <1>1 DEF Fits, DraftFits, Recorded, Trailed, SessionFits, Rows
<1>7. Tried(x) = Audit!Untried
  BY <1>1 DEF Trailed, SessionFits, Tried, Audit!Untried
<1>8. Entry(x) = Audit!Entry("completed", TRUE, x.selected, Audit!Untried)
  BY <1>1, <1>6, <1>7, EntryOf
<1>9. Audit!Record(r, Audit!Entry("completed", TRUE, x.selected, Audit!Untried))
  BY <1>5, <1>8 DEF Audit!Record
<1>10. QED
  BY <1>1, <1>4, <1>6, <1>9 DEF Audit!Hit, Audit!Tell

\* The first chunk opens a record, ...
LEMMA FirstChunkIsOpen ==
    ASSUME Typed, NEW r \in Requests, Fits(r), Trailed(r), FirstChunk(r)
    PROVE  Audit!Open(r)
<1> DEFINE T == [q \in Requests |-> Entry(row[q])]
           x == Attempted(r, "streaming", "none")
<1>1. /\ row' = [row EXCEPT ![r] = x] /\ answer' = answer /\ pc[r] = "first"
  BY DEF FirstChunk, Typed
<1>2. row[r].status = "absent" /\ answer[r] = "none"
  BY <1>1 DEF Trailed, RowFits, Before, Trying, Fits, AnswerFits, Open
<1>3. T[r].status = "absent"
  BY <1>2 DEF Entry
<1>4. Audit!Unheard(r)
  BY <1>2, <1>3 DEF Audit!Unheard
<1>5. T' = [T EXCEPT ![r] = Entry(x)]
  BY <1>1, OneRecord
<1>6. /\ draft[r].status = "routing" /\ draft[r].impact = FALSE /\ draft[r].cached = FALSE
      /\ draft[r].selected = callee[r] /\ callee[r] \in Endpoints
  BY <1>1 DEF Trailed, SessionFits, Trying, Fits, LiveFits, Live, Typed
<1>7. /\ x \in Rows /\ x.status = "routing" /\ x.impact = FALSE /\ x.cached = FALSE
      /\ x.selected = callee[r] /\ x.attempts[Which(r)].endpoint = callee[r]
  BY <1>6, AttemptedType, AttemptedRoute DEF Ways, Errors, Which
<1> HIDE DEF x
<1>8. Entry(x) = Audit!Entry("routing", FALSE, x.selected, Tried(x))
      /\ Tried(x) \in Audit!Routes
  BY <1>7, EntryOf
<1>9. Audit!Among(x.selected, Tried(x))
  BY <1>7 DEF Audit!Among, Tried, Which
<1>10. Audit!Record(r, Audit!Entry("routing", FALSE, x.selected, Tried(x)))
  BY <1>5, <1>8 DEF Audit!Record
<1>11. QED
  BY <1>1, <1>4, <1>6, <1>7, <1>8, <1>9, <1>10 DEF Audit!Open

\* ... which is closed when the stream has ended, naming the same endpoints.
LEMMA CloseIsClose ==
    ASSUME Typed, NEW r \in Requests, Fits(r), Trailed(r), pc[r] \in Open, NEW x \in Rows,
           NEW how \in {"completed", "partial_stream_error", "client_cancelled"},
           row' = [row EXCEPT ![r] = x], answer' = answer,
           answer[r] = "chunks" \/ (answer[r] = "none" /\ how = "client_cancelled"),
           x.status = how, x.cached = draft[r].cached, x.selected = draft[r].selected,
           NEW done \in BOOLEAN, x.impact = done, how = "completed" <=> done,
           \A n \in 1..2 : x.attempts[n].endpoint =
               IF n = Which(r) THEN callee[r] ELSE draft[r].attempts[n].endpoint
    PROVE  Audit!Close(r)
<1> DEFINE T == [q \in Requests |-> Entry(row[q])]
<1>1. /\ row[r].status = "routing" /\ row[r] = draft[r]
      /\ row[r].attempts[Which(r)].endpoint = callee[r]
  BY DEF Trailed, RowFits
<1>2. Tried(x) = Tried(row[r])
  <2>1. \A n \in 1..2 : x.attempts[n].endpoint = row[r].attempts[n].endpoint
    BY <1>1
  <2>2. QED
    BY <2>1 DEF Tried
<1>3. /\ T[r].status = "routing" /\ T[r].cached = x.cached /\ T[r].selected = x.selected
      /\ T[r].tried = Tried(x)
  <2>1. T[r] = Entry(row[r])
    OBVIOUS
  <2>2. Entry(row[r]).tried = Tried(row[r])
    BY DEF Entry, Tried
  <2>3. /\ Entry(row[r]).status = row[r].status /\ Entry(row[r]).cached = row[r].cached
        /\ Entry(row[r]).selected = row[r].selected
    BY DEF Entry
  <2>4. QED
    BY <1>1, <1>2, <2>1, <2>2, <2>3
<1>4. T' = [T EXCEPT ![r] = Entry(x)]
  BY OneRecord
<1>5. Entry(x) = Audit!Entry(how, x.cached, x.selected, Tried(x))
  BY EntryOf
<1>6. T' = [T EXCEPT ![r] = Audit!Entry(how, T[r].cached, T[r].selected, T[r].tried)]
  BY <1>3, <1>4, <1>5
<1>7. QED
  BY <1>3, <1>6 DEF Audit!Close

LEMMA StreamEndIsClose ==
    ASSUME Typed, NEW r \in Requests, Fits(r), Trailed(r), RecordEnd(r) \/ CompleteStream(r)
    PROVE  Audit!Close(r)
<1>1. draft[r] \in Rows /\ (draft[r].impact = FALSE \/ pc[r] \notin Open)
  BY DEF Typed, Trailed, SessionFits
<1>2. CASE RecordEnd(r)
  <2> DEFINE end == IF pc[r] = "cancelled" THEN "client_cancelled" ELSE "partial_stream_error"
             y == Attempted(r, end, end)
             x == [y EXCEPT !.status = end]
  <2>1. /\ end \in StreamEnds
        /\ end \in {"completed", "partial_stream_error", "client_cancelled"}
        /\ end # "completed"
    BY DEF StreamEnds
  <2>2. /\ row' = [row EXCEPT ![r] = x] /\ answer' = answer
        /\ pc[r] \in {"cancelled", "broken"} /\ pc[r] \in Open
    BY <1>2 DEF RecordEnd, Open
  <2>3. answer[r] = "chunks" \/ (answer[r] = "none" /\ end = "client_cancelled")
    BY <2>2 DEF Trailed, ToldFits
  <2>4. /\ y \in Rows /\ y.selected = draft[r].selected
        /\ y.cached = draft[r].cached /\ y.impact = draft[r].impact
        /\ \A n \in 1..2 : y.attempts[n].endpoint =
               IF n = Which(r) THEN callee[r] ELSE draft[r].attempts[n].endpoint
    BY <2>1, AttemptedType, AttemptedRoute DEF Ways, Errors
  <2> HIDE DEF y, end
  <2>5. x \in Rows
    BY <2>1, <2>4, NoneAssumption, RowUpdates DEF Ends
  <2>6. /\ x.status = end /\ x.selected = y.selected /\ x.cached = y.cached
        /\ x.impact = y.impact /\ x.attempts = y.attempts
    BY <2>4 DEF Rows
  <2> HIDE DEF x
  <2>7. x.impact = FALSE
    BY <1>1, <2>2, <2>4, <2>6
  <2>8. QED
    BY <2>1, <2>2, <2>3, <2>4, <2>5, <2>6, <2>7, CloseIsClose
<1>3. CASE CompleteStream(r)
  <2> DEFINE y == Answered(r, TRUE)
             x == [y EXCEPT !.status = "completed", !.impact = TRUE]
  <2>1. /\ row' = [row EXCEPT ![r] = x] /\ answer' = answer
        /\ pc[r] = "finishing" /\ pc[r] \in Open
    BY <1>3 DEF CompleteStream, Open
  <2>2. answer[r] = "chunks"
    BY <2>1 DEF Trailed, ToldFits
  <2>3. /\ y \in Rows /\ y.selected = draft[r].selected /\ y.cached = draft[r].cached
        /\ \A n \in 1..2 : y.attempts[n].endpoint =
               IF n = Which(r) THEN callee[r] ELSE draft[r].attempts[n].endpoint
    BY AnsweredType, AnsweredRoute
  <2> HIDE DEF y
  <2>4. x \in Rows
    BY <2>3, NoneAssumption, RowUpdates DEF Ends
  <2>5. /\ x.status = "completed" /\ x.selected = y.selected /\ x.cached = y.cached
        /\ x.impact = TRUE /\ x.attempts = y.attempts
    BY <2>3 DEF Rows
  <2> HIDE DEF x
  <2>6. QED
    BY <2>1, <2>2, <2>3, <2>4, <2>5, CloseIsClose
<1>4. QED
  BY <1>2, <1>3

\* What is only said to the client.
LEMMA TellingIsTelling ==
    ASSUME Typed, NEW r \in Requests, Fits(r), Trailed(r), row' = row,
           \/ Raise(r) \/ Refuse(r) \/ Replay(r) \/ StartStream(r) \/ SendDone(r, TRUE)
    PROVE  Audit!Begin(r) \/ Audit!Done(r) \/ Audit!Replay(r) \/ Audit!Refuse(r)
<1> DEFINE T == [q \in Requests |-> Entry(row[q])]
<1>1. T' = T
  OBVIOUS
<1>2. T[r].status = row[r].status /\ T[r].cached = row[r].cached
  BY DEF Entry
<1> USE DEF Trailed, RowFits, Fits, AnswerFits, Open, Audit!Tell
<1>3. CASE Raise(r)
  <2>1. pc[r] \in Before /\ answer' = [answer EXCEPT ![r] = "error"]
    BY <1>3 DEF Raise, Before, Trying
  <2>2. row[r].status = "absent" /\ answer[r] = "none"
    BY <2>1 DEF Before, Trying
  <2>3. Audit!Refuse(r)
    BY <1>1, <1>2, <2>1, <2>2 DEF Audit!Refuse
  <2>4. QED
    BY <2>3
<1>4. CASE Refuse(r)
  <2>1. pc[r] \in {"cached", "accepted"} /\ answer' = [answer EXCEPT ![r] = "error"]
    BY <1>4 DEF Refuse
  <2>2. (row[r].status = "routing" \/ row[r].cached) /\ answer[r] = "none"
    BY <2>1
  <2>3. Audit!Refuse(r)
    BY <1>1, <1>2, <2>1, <2>2 DEF Audit!Refuse
  <2>4. QED
    BY <2>3
<1>5. CASE Replay(r)
  <2>1. pc[r] = "replaying" /\ answer' = [answer EXCEPT ![r] = "cache"]
    BY <1>5 DEF Replay
  <2>2. row[r].cached /\ answer[r] = "none"
    BY <2>1
  <2>3. Audit!Replay(r)
    BY <1>1, <1>2, <2>1, <2>2 DEF Audit!Replay
  <2>4. QED
    BY <2>3
<1>6. CASE StartStream(r)
  <2>1. pc[r] = "starting" /\ answer' = [answer EXCEPT ![r] = "chunks"]
    BY <1>6 DEF StartStream
  <2>2. row[r].status = "routing" /\ answer[r] = "none"
    BY <2>1
  <2>3. Audit!Begin(r)
    BY <1>1, <1>2, <2>1, <2>2 DEF Audit!Begin
  <2>4. QED
    BY <2>3
<1>7. CASE SendDone(r, TRUE)
  <2>1. pc[r] = "completed" /\ answer' = [answer EXCEPT ![r] = "done"]
    BY <1>7 DEF SendDone
  <2>2. row[r].status = "completed" /\ answer[r] = "chunks"
    BY <2>1 DEF DraftFits, Recorded, ToldFits
  <2>3. Audit!Done(r)
    BY <1>1, <1>2, <2>1, <2>2 DEF Audit!Done
  <2>4. QED
    BY <2>3
<1>8. QED
  BY <1>3, <1>4, <1>5, <1>6, <1>7

LEMMA AuditStep ==
    ASSUME IInv, AuditInv, [Next]_vars
    PROVE  [Audit!Next]_(Audit!vars)
<1> DEFINE Goal == [Audit!Next]_(Audit!vars)
<1> SUFFICES Goal
  OBVIOUS
<1>1. (row' = row /\ answer' = answer) => Goal
  BY DEF Audit!vars
<1>2. ASSUME NEW r \in Requests,
             \/ Audit!Answer(r) \/ Audit!Hit(r) \/ Audit!Fail(r) \/ Audit!Open(r)
             \/ Audit!Close(r) \/ Audit!Begin(r) \/ Audit!Done(r) \/ Audit!Replay(r)
             \/ Audit!Refuse(r)
      PROVE  Goal
  BY <1>2 DEF Audit!Next
<1>3. Typed /\ \A r \in Requests : Fits(r) /\ Trailed(r)
  BY DEF IInv, AuditInv
<1> HIDE DEF Goal
<1> USE DEF routeVars, poolVars
<1>4. ASSUME NEW r \in Requests,
             \/ Receive(r) \/ Hit(r) \/ NoEndpoint(r) \/ Deadline(r) \/ Stall(r)
             \/ \E open \in SUBSET Endpoints, dirty, live \in BOOLEAN : Route(r, open, dirty, live)
             \/ Invoke(r) \/ Preflight(r) \/ Acquire(r) \/ ProviderAnswers(r)
             \/ Accepted(r) \/ (\E enabled \in BOOLEAN : Rejected(r, enabled)) \/ Invalid(r)
      PROVE  Goal
  BY <1>1, <1>4
  DEF Receive, Hit, NoEndpoint, Deadline, Stall, Route, Invoke, Preflight, Call, Acquire,
      ProviderAnswers, Accepted, Rejected, Invalid
<1>5. ASSUME NEW r \in Requests,
             \/ InvokeLate(r) \/ TimesOut(r) \/ (\E error \in Codes : ProviderFails(r, error))
      PROVE  Goal
  BY <1>1, <1>5 DEF InvokeLate, TimesOut, ProviderFails, CallFails
<1>6. ASSUME NEW r \in Requests,
             \/ Admit(r) \/ NeverStarts(r) \/ DropStream(r) \/ RecordFails(r)
             \/ SendDone(r, FALSE)
             \/ \E place \in {"finishing", "cancelled", "broken"} : LeaveUpstream(r, place)
      PROVE  Goal
  <2>1. SendDone(r, FALSE) => row' = row /\ answer' = answer
    BY <1>3 DEF SendDone, Typed
  <2>2. QED
    BY <1>1, <1>6, <2>1 DEF Admit, NeverStarts, DropStream, RecordFails, LeaveUpstream
<1>7. ASSUME NEW r \in Requests, Commit(r) PROVE Goal
  BY <1>2, <1>3, <1>7, CommitIsAnswer
<1>8. ASSUME NEW r \in Requests, NEW stream \in BOOLEAN, CommitHit(r, stream) PROVE Goal
  BY <1>2, <1>3, <1>8, CommitHitIsHit
<1>9. ASSUME NEW r \in Requests, FirstChunk(r) PROVE Goal
  BY <1>2, <1>3, <1>9, FirstChunkIsOpen
<1>10. ASSUME NEW r \in Requests, RecordEnd(r) \/ CompleteStream(r) PROVE Goal
  BY <1>2, <1>3, <1>10, StreamEndIsClose
<1>11. ASSUME NEW r \in Requests,
              \/ Raise(r) \/ Refuse(r) \/ Replay(r) \/ StartStream(r) \/ SendDone(r, TRUE)
       PROVE  Goal
  <2>1. row' = row
    BY <1>11 DEF Raise, Refuse, Replay, StartStream, SendDone
  <2>2. QED
    BY <1>2, <1>3, <1>11, <2>1, TellingIsTelling
<1>12. ASSUME NEW r \in Requests, Step(r) PROVE Goal
  BY <1>12, <1>4, <1>5, <1>6, <1>7, <1>8, <1>9, <1>10, <1>11 DEF Step
<1>13. ASSUME NEW r \in Requests, Outside(r) PROVE Goal
  BY <1>13, <1>4, <1>5, <1>6, <1>9, <1>11 DEF Outside
<1>14. CASE Crash
  BY <1>1, <1>14 DEF Crash
<1>15. CASE UNCHANGED vars
  BY <1>1, <1>15 DEF vars
<1>16. QED
  BY <1>4, <1>12, <1>13, <1>14, <1>15 DEF Next, AllOver

\* The committed rows are the audit trail of what clients were told: a record is
\* final once it says how a request ended, a stream keeps the endpoints it was
\* opened with, and who was refused finds no model's answer on record
\* (chat_completions, _complete_cache_hit, live_events, update_stream_failure).
THEOREM RowsAreAuditTrail == Spec => ImplementsAudit
<1>1. Init => Audit!Init
  <2> SUFFICES ASSUME Init PROVE Audit!Init
    OBVIOUS
  <2>1. row = [r \in Requests |-> Absent] /\ answer = [r \in Requests |-> "none"]
    BY DEF Init
  <2>2. Entry(Absent) = Audit!Entry("absent", FALSE, None, Audit!Untried)
    BY DEF Entry, Absent, NoAttempt, Audit!Entry, Audit!Untried
  <2>3. [r \in Requests |-> Entry(row[r])] =
            [r \in Requests |-> Audit!Entry("absent", FALSE, None, Audit!Untried)]
    BY <2>1, <2>2
  <2>4. QED
    BY <2>1, <2>3 DEF Audit!Init
<1>2. Spec => []AuditInv
  <2>1. IInv /\ AuditInv /\ [Next]_vars => AuditInv'
    BY AuditInvStep
  <2>2. QED
    BY <2>1, AuditInvInit, IInvHolds, PTL DEF Spec
<1>3. IInv /\ AuditInv /\ [Next]_vars => [Audit!Next]_(Audit!vars)
  BY AuditStep
<1>4. QED
  BY <1>1, <1>2, <1>3, IInvHolds, PTL DEF Spec, ImplementsAudit, Audit!Spec
=============================================================================
