--------------------------- MODULE GatewayRequest ---------------------------
(***************************************************************************)
(* The life of one chat completion in the gateway (api/gateway.py), for    *)
(* several requests at a time: cache hit, routing, the call of the selected *)
(* endpoint, the one fallback, verification, the audit row, and the answer, *)
(* whole or as a live stream.  Requests share the slots of the endpoints   *)
(* (EndpointLimiter) and the permits of the open streams.                  *)
(*                                                                         *)
(* A request that is not streamed live writes its row, attempts and impact  *)
(* in one transaction that ends with the request; draft is that            *)
(* transaction, row what is committed.  A live stream commits a row that is *)
(* still "routing" before its first chunk and finishes it afterwards.      *)
(***************************************************************************)
EXTENDS Integers, FiniteSets

CONSTANTS
    Requests,
    Endpoints,      \* the endpoints of the logical model
    Specialized,    \* those of quality tier "specialized"
    Frontier,       \* those of quality tier "frontier"
    Slots,          \* concurrency_target of an endpoint
    MaxStreams,     \* settings.max_sse_connections
    MaxCrashes,     \* bound: restarts of the gateway
    None

ASSUME TierAssumption == /\ Specialized \subseteq Endpoints
                         /\ Frontier \subseteq Endpoints \ Specialized
ASSUME NoneAssumption == Endpoints # {} /\ None \notin Endpoints
ASSUME BoundAssumption == /\ Slots \in Nat \ {0}
                          /\ MaxStreams \in Nat \ {0}
                          /\ MaxCrashes \in Nat
                          /\ IsFiniteSet(Requests)

VARIABLES
    pc,             \* where a request is
    eligible,       \* endpoints its snapshots do not exclude
    fallback,       \* required_fallback_endpoint_id of the logical model
    callee,         \* the endpoint called, or called last
    purpose,        \* purpose of the attempt that is made
    late,           \* requests whose deadline has passed
    called,         \* how often a request has called an endpoint
    draft,          \* its row and attempts as its session has them
    row,            \* its row and attempts as committed
    answer,         \* what the client has got
    active,         \* calls in an endpoint's limiter
    permits,        \* permits of stream_connections taken
    leaked,         \* requests that will not give theirs back
    abandoned,      \* requests whose stream ended without being recorded
    stalled,        \* requests whose client, still connected, reads no more
    crashes

routeVars == <<eligible, fallback, callee, purpose>>
poolVars == <<active, permits, leaked>>
vars == <<pc, routeVars, late, called, draft, row, answer, poolVars, abandoned, stalled,
          crashes>>

Purposes == {"selected", "transport_fallback", "quality_fallback"}

\* "upstream_error" stands for rate_limit_error and upstream_transport_error too.
Retryable == {"upstream_timeout", "upstream_error"}
Codes == Retryable \cup {"upstream_invalid_response"}     \* the last for all others
StreamEnds == {"client_cancelled", "partial_stream_error"}

Attempts == [endpoint : Endpoints \cup {None},
             status : {"none", "failed", "completed", "streaming"} \cup StreamEnds,
             error : Codes \cup StreamEnds \cup {"none"},
             passed : BOOLEAN]                              \* quality_verdict
Rows == [status : {"absent", "routing", "completed", "failed"} \cup StreamEnds,
         selected : Endpoints \cup {None},
         cached : BOOLEAN,
         impact : BOOLEAN,
         attempts : [1..2 -> Attempts]]

\* Where a request holds a slot of its callee, and where a stream permit.
Calling == {"calling", "first", "accepted", "starting", "streaming"}
Sending == {"replaying", "starting", "streaming", "cancelled", "broken", "finishing",
            "completed"}
Places == {"idle", "received", "hit", "cached", "invoke", "waiting", "answered",
           "failing", "committing", "preflight", "opening", "over"} \cup Calling \cup Sending

TypeOK ==
    /\ pc \in [Requests -> Places]
    /\ eligible \in [Requests -> SUBSET Endpoints]
    /\ fallback \in Endpoints
    /\ callee \in [Requests -> Endpoints]
    /\ purpose \in [Requests -> Purposes]
    /\ late \in SUBSET Requests
    /\ called \in [Requests -> [Endpoints -> Nat]]
    /\ draft \in [Requests -> Rows]
    /\ row \in [Requests -> Rows]
    /\ answer \in [Requests -> {"none", "error", "cache", "body", "chunks", "done"}]
    /\ active \in [Endpoints -> 0..Slots]
    /\ permits \in 0..MaxStreams
    /\ leaked \in SUBSET Requests
    /\ abandoned \in SUBSET Requests
    /\ stalled \in SUBSET Requests
    /\ crashes \in 0..MaxCrashes

NoAttempt == [endpoint |-> None, status |-> "none", error |-> "none", passed |-> FALSE]
Absent == [status |-> "absent", selected |-> None, cached |-> FALSE, impact |-> FALSE,
           attempts |-> [n \in 1..2 |-> NoAttempt]]

Init ==
    /\ pc = [r \in Requests |-> "idle"]
    /\ eligible = [r \in Requests |-> {}]
    /\ fallback \in Endpoints
    /\ callee = [r \in Requests |-> fallback]
    /\ purpose = [r \in Requests |-> "selected"]
    /\ late = {}
    /\ called = [r \in Requests |-> [e \in Endpoints |-> 0]]
    /\ draft = [r \in Requests |-> Absent]
    /\ row = [r \in Requests |-> Absent]
    /\ answer = [r \in Requests |-> "none"]
    /\ active = [e \in Endpoints |-> 0]
    /\ permits = 0 /\ leaked = {}
    /\ abandoned = {} /\ stalled = {}
    /\ crashes = 0

\* The request is over, and its session with it.
End(r) ==
    /\ pc' = [pc EXCEPT ![r] = "over"]
    /\ draft' = [draft EXCEPT ![r] = Absent]

\* The row of r with the attempt that is being made ...
Attempted(r, status, error) ==
    [draft[r] EXCEPT !.attempts[IF purpose[r] = "selected" THEN 1 ELSE 2] =
        [endpoint |-> callee[r], status |-> status, error |-> error, passed |-> FALSE]]

\* ... and has brought an output, which passes verification or not.
Answered(r, passes) ==
    [draft[r] EXCEPT !.attempts[IF purpose[r] = "selected" THEN 1 ELSE 2] =
        [endpoint |-> callee[r], status |-> "completed", error |-> "none", passed |-> passes]]

\* Mutant: a stream keeps its slot when it ends.
SlotKept(r) == [active EXCEPT ![callee[r]] = @ - (IF pc[r] = "calling" THEN 1 ELSE 0)]

\* The slots once r is out of the call it is in, if it is in one.
Released(r) == [active EXCEPT ![callee[r]] = @ - (IF pc[r] \in Calling THEN 1 ELSE 0)]
-----------------------------------------------------------------------------
(* Arrival, the cache, routing.                                            *)

Receive(r) ==
    /\ pc[r] = "idle"
    /\ pc' = [pc EXCEPT ![r] = "received"]
    /\ draft' = [draft EXCEPT ![r].status = "routing"]
    /\ UNCHANGED <<routeVars, late, called, row, answer, poolVars, abandoned, stalled, crashes>>

\* exact_get or semantic_find has an answer: _complete_cache_hit.
Hit(r) ==
    /\ pc[r] = "received"
    /\ \E e \in Endpoints :
           draft' = [draft EXCEPT ![r] = [@ EXCEPT !.status = "completed", !.selected = e,
                                                   !.cached = TRUE, !.impact = TRUE]]
    /\ pc' = [pc EXCEPT ![r] = "hit"]
    /\ UNCHANGED <<routeVars, late, called, row, answer, poolVars, abandoned, stalled, crashes>>

\* A streamed answer still needs a permit.
CommitHit(r, stream) ==
    /\ pc[r] = "hit"
    /\ row' = [row EXCEPT ![r] = draft[r]]
    /\ IF stream
       THEN pc' = [pc EXCEPT ![r] = "cached"] /\ UNCHANGED <<draft, answer>>
       ELSE End(r) /\ answer' = [answer EXCEPT ![r] = "cache"]
    /\ UNCHANGED <<routeVars, late, called, poolVars, abandoned, stalled, crashes>>

\* select_candidate: what it selects from among the endpoints open to the
\* request, whose scores are left open, and ...
Preferred(open, dirty) ==
    IF dirty /\ open \cap Specialized # {} THEN open \cap Specialized
    ELSE IF ~dirty /\ open \ Specialized # {} THEN open \ Specialized
    ELSE open

\* Mutant: specialized endpoints are passed over, yet not excluded.
Passed(open, dirty) == open

\* ... the endpoints whose snapshot has no reason to exclude them.  (Of a
\* request of high risk or complexity only frontier endpoints are open.)
Reserved(open, dirty) ==
    IF ~dirty /\ open \ Specialized # {} THEN open \ Specialized ELSE open

\* Routing.  A stream is live when the classification is confident and neither
\* endpoint nor task asks for a validator.  Endpoints can be patched under a
\* logical model, so that the fallback may be of any tier.
Route(r, open, dirty, live) ==
    /\ pc[r] = "received"
    /\ open # {}
    /\ eligible' = [eligible EXCEPT ![r] = Reserved(open, dirty)]
    /\ \E e \in Preferred(open, dirty) :
           /\ live => e \notin Specialized
           /\ callee' = [callee EXCEPT ![r] = e]
           /\ draft' = [draft EXCEPT ![r].selected = e]
    /\ pc' = [pc EXCEPT ![r] = IF live THEN "preflight" ELSE "invoke"]
    /\ UNCHANGED <<fallback, purpose, late, called, row, answer, poolVars, abandoned,
                   stalled, crashes>>

\* No endpoint is open to the request; likewise every path that fails it.
NoEndpoint(r) ==
    /\ pc[r] = "received"
    /\ draft' = [draft EXCEPT ![r].status = "failed"]
    /\ pc' = [pc EXCEPT ![r] = "failing"]
    /\ UNCHANGED <<routeVars, late, called, row, answer, poolVars, abandoned, stalled, crashes>>
-----------------------------------------------------------------------------
(* Calls of endpoints.                                                     *)

\* Mutant: the fallback may be the endpoint that just failed.
Again(r) == purpose[r] = "selected" /\ fallback \in eligible[r]

\* The second attempt is made at the required fallback, if it is another
\* endpoint and was eligible.
MayFallBack(r) ==
    /\ purpose[r] = "selected"
    /\ fallback # callee[r]
    /\ fallback \in eligible[r]

\* The call raised a ProviderError: a second attempt from place again, or the
\* end.  (A failed quality fallback leaves the first endpoint selected.)
CallFails(r, error, again) ==
    /\ IF MayFallBack(r) /\ error \in Retryable
       THEN /\ purpose' = [purpose EXCEPT ![r] = "transport_fallback"]
            /\ callee' = [callee EXCEPT ![r] = fallback]
            /\ draft' = [draft EXCEPT ![r] =
                   [Attempted(r, "failed", error) EXCEPT !.selected = fallback]]
            /\ pc' = [pc EXCEPT ![r] = again]
       ELSE /\ draft' = [draft EXCEPT ![r] =
                   [Attempted(r, "failed", error) EXCEPT !.status = "failed"]]
            /\ pc' = [pc EXCEPT ![r] = "failing"]
            /\ UNCHANGED <<purpose, callee>>
    /\ active' = Released(r)
    /\ UNCHANGED <<eligible, fallback, called, row, answer, permits, leaked,
                   abandoned, stalled, crashes>>

Call(r, place) ==
    /\ called' = [called EXCEPT ![r][callee[r]] = @ + 1]
    /\ pc' = [pc EXCEPT ![r] = place]
    /\ UNCHANGED <<routeVars, late, draft, row, answer, poolVars, abandoned, stalled, crashes>>

\* invoke and chat: one deadline for all attempts of a request ...
Invoke(r) == pc[r] = "invoke" /\ r \notin late /\ Call(r, "waiting")
InvokeLate(r) ==
    /\ pc[r] = "invoke" /\ r \in late
    /\ CallFails(r, "upstream_timeout", "invoke")
    /\ UNCHANGED late

\* ... and preflight_stream: a timeout of its own for each attempt.
Preflight(r) == pc[r] = "preflight" /\ Call(r, "opening")

Deadline(r) ==
    /\ pc[r] \in {"invoke", "waiting", "calling"}
    /\ late' = late \cup {r}
    /\ r \notin late
    /\ UNCHANGED <<pc, routeVars, called, draft, row, answer, poolVars,
                   abandoned, stalled, crashes>>

\* Mutant: the limit is checked before the wait, and not after it.
AcquireUnchecked(r) ==
    /\ pc[r] \in {"waiting", "opening"}
    /\ active' = [active EXCEPT ![callee[r]] = @ + 1]
    /\ pc' = [pc EXCEPT ![r] = IF @ = "waiting" THEN "calling" ELSE "first"]
    /\ UNCHANGED <<routeVars, late, called, draft, row, answer, permits, leaked, abandoned,
                   stalled, crashes>>

\* EndpointLimiter.slot
Acquire(r) ==
    /\ pc[r] \in {"waiting", "opening"}
    /\ active[callee[r]] < Slots
    /\ active' = [active EXCEPT ![callee[r]] = @ + 1]
    /\ pc' = [pc EXCEPT ![r] = IF @ = "waiting" THEN "calling" ELSE "first"]
    /\ UNCHANGED <<routeVars, late, called, draft, row, answer, permits, leaked, abandoned,
                   stalled, crashes>>

\* Mutant: preflight_stream has no timeout.
OnlyCallsTimeOut(r) ==
    /\ pc[r] \in {"waiting", "calling"} /\ r \in late
    /\ CallFails(r, "upstream_timeout", "invoke")
    /\ UNCHANGED late

\* Waiting for a slot counts against the timeout like the call itself.
TimesOut(r) ==
    /\ \/ pc[r] \in {"waiting", "calling"} /\ r \in late
          /\ CallFails(r, "upstream_timeout", "invoke")
       \/ pc[r] \in {"opening", "first"} /\ CallFails(r, "upstream_timeout", "preflight")
    /\ UNCHANGED late

ProviderFails(r, error) ==
    /\ \/ pc[r] \in {"waiting", "calling"} /\ CallFails(r, error, "invoke")
       \/ pc[r] \in {"opening", "first"} /\ CallFails(r, error, "preflight")
    /\ UNCHANGED late

ProviderAnswers(r) ==
    /\ pc[r] = "calling"
    /\ active' = Released(r)
    /\ pc' = [pc EXCEPT ![r] = "answered"]
    /\ UNCHANGED <<routeVars, late, called, draft, row, answer, permits, leaked, abandoned,
                   stalled, crashes>>
-----------------------------------------------------------------------------
(* Answers that are not streamed live.                                     *)

\* verify_output, or a tool call that was allowed, lets the answer through.
Accepted(r) ==
    /\ pc[r] = "answered"
    /\ draft' = [draft EXCEPT ![r] =
           [Answered(r, TRUE) EXCEPT !.selected = callee[r], !.status = "completed",
                                     !.impact = TRUE]]
    /\ pc' = [pc EXCEPT ![r] = "committing"]
    /\ UNCHANGED <<routeVars, late, called, row, answer, poolVars, abandoned, stalled, crashes>>

\* The output does not pass.  A policy with quality_fallback_enabled tries the
\* fallback, when that is a frontier endpoint and no attempt was made there.
Rejected(r, enabled) ==
    /\ pc[r] = "answered"
    /\ IF enabled /\ MayFallBack(r) /\ fallback \in Frontier
       THEN /\ purpose' = [purpose EXCEPT ![r] = "quality_fallback"]
            /\ callee' = [callee EXCEPT ![r] = fallback]
            /\ draft' = [draft EXCEPT ![r] = Answered(r, FALSE)]
            /\ pc' = [pc EXCEPT ![r] = "invoke"]
       ELSE /\ draft' = [draft EXCEPT ![r] =
                   [Answered(r, FALSE) EXCEPT !.selected = callee[r], !.status = "failed"]]
            /\ pc' = [pc EXCEPT ![r] = "failing"]
            /\ UNCHANGED <<purpose, callee>>
    /\ UNCHANGED <<eligible, fallback, late, called, row, answer, poolVars,
                   abandoned, stalled, crashes>>

\* A completion without choices; of a quality fallback no attempt is written.
Invalid(r) ==
    /\ pc[r] = "answered"
    /\ draft' = [draft EXCEPT ![r] =
           [(IF purpose[r] = "quality_fallback" THEN @
             ELSE Attempted(r, "failed", "upstream_invalid_response"))
            EXCEPT !.status = "failed"]]
    /\ pc' = [pc EXCEPT ![r] = "failing"]
    /\ UNCHANGED <<routeVars, late, called, row, answer, poolVars, abandoned, stalled, crashes>>

\* The transaction ends, after its events were published.
Commit(r) ==
    /\ pc[r] \in {"failing", "committing"}
    /\ row' = [row EXCEPT ![r] = draft[r]]
    /\ answer' = [answer EXCEPT ![r] = IF pc[r] = "committing" THEN "body" ELSE "error"]
    /\ End(r)
    /\ UNCHANGED <<routeVars, late, called, poolVars, abandoned, stalled, crashes>>

\* An exception nobody handles, from Redis or PostgreSQL: nothing is committed.
\* (The cache stores before it commits; see ResponseCache.)
Raise(r) ==
    /\ pc[r] \in {"received", "hit", "failing", "committing", "first"}
    /\ active' = Released(r)
    /\ answer' = [answer EXCEPT ![r] = "error"]
    /\ End(r)
    /\ UNCHANGED <<routeVars, late, called, row, permits, leaked, abandoned, stalled, crashes>>
-----------------------------------------------------------------------------
(* Streams.                                                                *)

\* The first chunk: row and attempt are committed as they stand.
FirstChunk(r) ==
    /\ pc[r] = "first"
    /\ draft' = [draft EXCEPT ![r] = Attempted(r, "streaming", "none")]
    /\ row' = [row EXCEPT ![r] = draft'[r]]
    /\ pc' = [pc EXCEPT ![r] = "accepted"]
    /\ UNCHANGED <<routeVars, late, called, answer, poolVars, abandoned, stalled, crashes>>

\* _stream_response.  Nothing iterates a live stream it refuses: the upstream is
\* closed with its iterator, the row stays as it is.
Admit(r) ==
    /\ pc[r] \in {"cached", "accepted"}
    /\ permits < MaxStreams
    /\ permits' = permits + 1
    /\ pc' = [pc EXCEPT ![r] = IF @ = "cached" THEN "replaying" ELSE "starting"]
    /\ UNCHANGED <<routeVars, late, called, draft, row, answer, active, leaked, abandoned,
                   stalled, crashes>>
Refuse(r) ==
    /\ pc[r] \in {"cached", "accepted"}
    /\ permits = MaxStreams
    /\ active' = Released(r)
    /\ abandoned' = IF pc[r] = "accepted" THEN abandoned \cup {r} ELSE abandoned
    /\ answer' = [answer EXCEPT ![r] = "error"]
    /\ End(r)
    /\ UNCHANGED <<routeVars, late, called, row, permits, leaked, stalled, crashes>>

\* The end of the generator limited(): its finally clause gives the permit back.
Close(r) ==
    /\ End(r)
    /\ permits' = permits - 1
    /\ active' = Released(r)
    /\ UNCHANGED <<routeVars, late, called, leaked, crashes>>

\* The client is gone before the generator was first asked: a generator that
\* never ran runs no finally clause.
NeverStarts(r) ==
    /\ pc[r] \in {"replaying", "starting"}
    /\ leaked' = leaked \cup {r}
    /\ abandoned' = IF pc[r] = "starting" THEN abandoned \cup {r} ELSE abandoned
    /\ active' = Released(r)
    /\ End(r)
    /\ UNCHANGED <<routeVars, late, called, row, answer, permits, stalled, crashes>>

\* _completion_sse, to its end or until the client leaves.
Replay(r) ==
    /\ pc[r] = "replaying" /\ r \notin stalled
    /\ answer' = [answer EXCEPT ![r] = "cache"]
    /\ Close(r)
    /\ UNCHANGED <<row, abandoned, stalled>>

StartStream(r) ==
    /\ pc[r] = "starting"
    /\ answer' = [answer EXCEPT ![r] = "chunks"]
    /\ pc' = [pc EXCEPT ![r] = "streaming"]
    /\ UNCHANGED <<routeVars, late, called, draft, row, poolVars, abandoned, stalled, crashes>>

\* The upstream is through (finishing) or fails or times out (broken), or
\* is_disconnected or a CancelledError tells that the client left (cancelled).
LeaveUpstream(r, place) ==
    /\ r \notin stalled
    /\ pc[r] = "streaming" \/ (pc[r] = "starting" /\ place = "cancelled")
    /\ active' = Released(r)
    /\ pc' = [pc EXCEPT ![r] = place]
    /\ UNCHANGED <<routeVars, late, called, draft, row, answer, permits, leaked, abandoned,
                   stalled, crashes>>

\* The client stops reading: the generator stays at its yield, slot and permit
\* are kept, and no timeout covers it.  (A client that reads on, however late,
\* has not stopped.)
Stall(r) ==
    /\ pc[r] \in {"replaying", "streaming", "completed"} /\ r \notin stalled
    /\ stalled' = stalled \cup {r}
    /\ UNCHANGED <<pc, routeVars, late, called, draft, row, answer, poolVars, abandoned,
                   crashes>>

\* The server drops the generator at a yield, when a client it waits for is gone
\* at last: GeneratorExit is no Exception.
DropStream(r) ==
    /\ pc[r] = "streaming" \/ (pc[r] \in {"replaying", "completed"} /\ r \in stalled)
    /\ abandoned' = IF pc[r] = "streaming" THEN abandoned \cup {r} ELSE abandoned
    /\ stalled' = stalled \ {r}
    /\ Close(r)
    /\ UNCHANGED <<row, answer>>

\* Mutant: a stream that breaks is reported to the client only.
Unrecorded(r) ==
    /\ pc[r] \in {"cancelled", "broken"}
    /\ row' = [row EXCEPT ![r] = IF pc[r] = "broken" THEN @ ELSE
           [Attempted(r, "client_cancelled", "client_cancelled")
            EXCEPT !.status = "client_cancelled"]]
    /\ Close(r)
    /\ UNCHANGED <<answer, abandoned, stalled>>

\* update_stream_failure, in a session of its own.
RecordEnd(r) ==
    /\ pc[r] \in {"cancelled", "broken"}
    /\ LET end == IF pc[r] = "cancelled" THEN "client_cancelled" ELSE "partial_stream_error"
       IN  row' = [row EXCEPT ![r] = [Attempted(r, end, end) EXCEPT !.status = end]]
    /\ Close(r)
    /\ UNCHANGED <<answer, abandoned, stalled>>

\* That update, or the one of a stream that is through, does not come about:
\* the database is away, or the request is cancelled while it runs.
RecordFails(r) ==
    /\ pc[r] \in {"cancelled", "broken", "finishing"}
    /\ abandoned' = abandoned \cup {r}
    /\ Close(r)
    /\ UNCHANGED <<row, answer, stalled>>

\* Mutant: [DONE] is sent with the last chunk.
DoneEarly(r) ==
    /\ pc[r] = "finishing"
    /\ answer' = [answer EXCEPT ![r] = "done"]
    /\ pc' = [pc EXCEPT ![r] = "completed"]
    /\ UNCHANGED <<routeVars, late, called, draft, row, poolVars, abandoned, stalled, crashes>>

\* The stream is through: row, attempt, impact and cache entry in one commit.
CompleteStream(r) ==
    /\ pc[r] = "finishing"
    /\ row' = [row EXCEPT ![r] = [Answered(r, TRUE) EXCEPT !.status = "completed",
                                                                  !.impact = TRUE]]
    /\ pc' = [pc EXCEPT ![r] = "completed"]
    /\ UNCHANGED <<routeVars, late, called, draft, answer, poolVars,
                   abandoned, stalled, crashes>>

\* Mutant: an event that fails after the commit is recorded as a broken stream.
EventFails(r, sent) ==
    /\ pc[r] = "completed" /\ r \notin stalled
    /\ answer' = [answer EXCEPT ![r] = IF sent THEN "done" ELSE @]
    /\ row' = [row EXCEPT ![r].status = IF sent THEN @ ELSE "partial_stream_error"]
    /\ Close(r)
    /\ UNCHANGED <<abandoned, stalled>>

\* route.completed, then [DONE]; or the event fails, or the client is gone.
SendDone(r, sent) ==
    /\ pc[r] = "completed" /\ r \notin stalled
    /\ answer' = [answer EXCEPT ![r] = IF sent THEN "done" ELSE @]
    /\ Close(r)
    /\ UNCHANGED <<row, abandoned, stalled>>
-----------------------------------------------------------------------------
\* The gateway is restarted.  Nobody looks for rows it left "routing".
Crash ==
    /\ crashes < MaxCrashes
    /\ crashes' = crashes + 1
    /\ pc' = [r \in Requests |-> IF pc[r] = "idle" THEN "idle" ELSE "over"]
    /\ draft' = [r \in Requests |-> Absent]
    /\ abandoned' = abandoned \cup {r \in Requests : row[r].status = "routing"}
    /\ active' = [e \in Endpoints |-> 0]
    /\ permits' = 0 /\ leaked' = {} /\ stalled' = {}
    /\ UNCHANGED <<routeVars, late, called, row, answer>>

\* What the gateway does without anybody else's doing.
Step(r) ==
    \/ Hit(r) \/ NoEndpoint(r)
    \/ \E open \in SUBSET Endpoints, dirty, live \in BOOLEAN : Route(r, open, dirty, live)
    \/ \E stream \in BOOLEAN : CommitHit(r, stream)
    \/ Invoke(r) \/ InvokeLate(r) \/ Preflight(r) \/ Acquire(r) \/ TimesOut(r)
    \/ Accepted(r) \/ (\E enabled \in BOOLEAN : Rejected(r, enabled)) \/ Invalid(r)
    \/ Commit(r)
    \/ Admit(r) \/ Refuse(r) \/ Replay(r) \/ StartStream(r)
    \/ LeaveUpstream(r, "broken")
    \/ RecordEnd(r) \/ CompleteStream(r)
    \/ \E sent \in BOOLEAN : SendDone(r, sent)

\* What providers, clients, PostgreSQL and Redis may do.
Outside(r) ==
    \/ Receive(r)
    \/ \E error \in Codes : ProviderFails(r, error)
    \/ ProviderAnswers(r) \/ FirstChunk(r)
    \/ \E place \in {"finishing", "cancelled"} : LeaveUpstream(r, place)
    \/ NeverStarts(r) \/ Stall(r) \/ DropStream(r)
    \/ Raise(r) \/ RecordFails(r)

\* Every request has come and is over.
AllOver == (\A r \in Requests : pc[r] = "over") /\ UNCHANGED vars

Next ==
    \/ \E r \in Requests : Step(r) \/ Deadline(r) \/ Outside(r)
    \/ Crash
    \/ AllOver

Spec == Init /\ [][Next]_vars

\* The event loop serves every request, and timers fire: the deadline of a
\* request, its timeouts and those of a stream's chunks.  Providers need never do
\* anything, and a client that does not read stops only its own request.  (A
\* stream sends finitely many chunks.)
Fairness == \A r \in Requests : WF_vars(Step(r)) /\ WF_vars(Deadline(r))

FairSpec == Spec /\ Fairness
-----------------------------------------------------------------------------
(* Properties.                                                             *)

\* Whoever was answered, with JSON, [DONE] or from the cache, has a committed
\* row that says so, with its impact and, unless the cache answered, a
\* completed attempt at the endpoint the row names, whose output passed
\* verification (chat_completions commits before it answers; live_events
\* before [DONE]).
AnswersAreOnRecord ==
    \A r \in Requests : answer[r] \in {"body", "done", "cache"} =>
        /\ row[r].status = "completed" /\ row[r].impact
        /\ row[r].cached \/ \E n \in 1..2 :
               /\ row[r].attempts[n].endpoint = row[r].selected
               /\ row[r].attempts[n].status = "completed"
               /\ row[r].attempts[n].passed

\* Nothing a specialized endpoint says is streamed before it was verified, not
\* even as the fallback of a live stream (requires_post_validator looks at the
\* selected endpoint only; select_candidate leaves no specialized fallback).
SpecializedIsVerified ==
    \A r \in Requests : answer[r] \in {"chunks", "done"} => row[r].selected \notin Specialized

\* No endpoint is called twice for a request, none that was excluded is called,
\* and only the required fallback is called besides the selected endpoint.
CallsAreBounded ==
    \A r \in Requests :
        /\ \A e \in Endpoints : called[r][e] <= 1 /\ (called[r][e] > 0 => e \in eligible[r])
        /\ \A e, f \in Endpoints \ {fallback} :
               called[r][e] > 0 /\ called[r][f] > 0 => e = f

\* However a call or stream ends, its slot and its permit come back.  (Only the
\* permit of a stream that was never started does not.)
ResourcesAreReturned ==
    /\ \A e \in Endpoints :
           active[e] = Cardinality({r \in Requests : pc[r] \in Calling /\ callee[r] = e})
    /\ permits = Cardinality({r \in Requests : pc[r] \in Sending}) + Cardinality(leaked)

\* A request that is over is recorded as such unless its stream was abandoned:
\* refused, dropped by the server, not updated, or cut off by a restart.
StreamEndsAreRecorded ==
    \A r \in Requests : pc[r] = "over" /\ row[r].status = "routing" => r \in abandoned

\* With an eligible fallback that is another endpoint, a timeout of the selected
\* endpoint leads to a call of the fallback ("timeout/rate-limit/transport
\* fallback", docs/spec-implementation-matrix.md:14).
TimeoutFallsBack ==
    \A r \in Requests :
        LET first == row[r].attempts[1]
        IN  /\ row[r].status = "failed" /\ first.error = "upstream_timeout"
            /\ first.endpoint # None /\ called[r][first.endpoint] > 0
            /\ fallback \in eligible[r] \ {first.endpoint}
            => called[r][fallback] > 0

\* The committed rows are the audit trail of what clients were told, in the sense
\* of RequestAudit: a record is final once it says how a request ended, a stream
\* is recorded with the endpoints tried before its first chunk and with its
\* outcome afterwards, and nobody hears of a failure after a success, or the
\* other way round (chat_completions, live_events, update_stream_failure).
Entry(x) == [status |-> x.status, cached |-> x.cached, impact |-> x.impact,
             selected |-> x.selected, tried |-> [n \in 1..2 |-> x.attempts[n].endpoint]]

Audit == INSTANCE RequestAudit
            WITH record <- [r \in Requests |-> Entry(row[r])], told <- answer

ImplementsAudit == Audit!Spec

\* Every request comes to an end, whatever providers do, and whatever the clients
\* of other requests do with the slots and permits they share, unless its own
\* client stays connected and reads no more: for that nothing in the code has a
\* timeout (the one of live_events is around anext, not around its yield).
RequestsEnd == \A r \in Requests : pc[r] = "received" ~> pc[r] = "over" \/ r \in stalled
=============================================================================
