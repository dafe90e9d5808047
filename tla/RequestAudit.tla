---------------------------- MODULE RequestAudit ----------------------------
(***************************************************************************)
(* What the audit trail of the gateway owes a client and an auditor,       *)
(* without endpoints' slots, deadlines or sessions.                        *)
(*                                                                         *)
(* A request is recorded once, with its answer, or, when it is streamed,   *)
(* twice: before the first chunk and once the stream has ended.  The second *)
(* time only says how it ended.  Who is told that a request failed finds   *)
(* no answer of a model recorded for it, and what was answered whole is    *)
(* recorded as completed, with its impact and the endpoint that gave it.   *)
(***************************************************************************)
EXTENDS Integers

CONSTANTS Requests, Endpoints, None

VARIABLES
    record,     \* what an auditor finds
    told        \* what the client has got

vars == <<record, told>>

Entry(status, cached, selected, tried) ==
    [status |-> status, cached |-> cached, impact |-> status = "completed",
     selected |-> selected, tried |-> tried]

Untried == [n \in 1..2 |-> None]
Routes == [1..2 -> Endpoints \cup {None}]

Init ==
    /\ record = [r \in Requests |-> Entry("absent", FALSE, None, Untried)]
    /\ told = [r \in Requests |-> "none"]

Tell(r, answer) == told' = [told EXCEPT ![r] = answer]

Unheard(r) == record[r].status = "absent" /\ told[r] = "none"

Record(r, entry) == record' = [record EXCEPT ![r] = entry]

\* The endpoint an answer is put down to is one of those that were tried.
Among(selected, tried) == \E n \in 1..2 : tried[n] = selected

\* A whole answer of an endpoint ...
Answer(r) ==
    /\ Unheard(r)
    /\ Tell(r, "body")
    /\ \E tried \in Routes, selected \in Endpoints :
           Among(selected, tried) /\ Record(r, Entry("completed", FALSE, selected, tried))

\* ... or of the cache, for which nothing is tried and which is sent at once
\* or later, or the failure to find one.
Hit(r) ==
    /\ Unheard(r)
    /\ Tell(r, "cache") \/ UNCHANGED told
    /\ \E selected \in Endpoints : Record(r, Entry("completed", TRUE, selected, Untried))
Fail(r) ==
    /\ Unheard(r)
    /\ Tell(r, "error")
    /\ \E tried \in Routes, selected \in Endpoints \cup {None} :
           Record(r, Entry("failed", FALSE, selected, tried))

Open(r) ==
    /\ Unheard(r)
    /\ UNCHANGED told
    /\ \E tried \in Routes, selected \in Endpoints :
           Among(selected, tried) /\ Record(r, Entry("routing", FALSE, selected, tried))

\* A stream that has begun ends in one of three ways; before, it can only be
\* cancelled.  One that was refused is never touched again.
Close(r) ==
    /\ record[r].status = "routing"
    /\ \E how \in {"completed", "partial_stream_error", "client_cancelled"} :
           /\ told[r] = "chunks" \/ (told[r] = "none" /\ how = "client_cancelled")
           /\ record' = [record EXCEPT ![r] =
                  Entry(how, @.cached, @.selected, @.tried)]
    /\ UNCHANGED told

Begin(r) ==
    /\ record[r].status = "routing" /\ told[r] = "none"
    /\ Tell(r, "chunks") /\ UNCHANGED record
Done(r) ==
    /\ record[r].status = "completed" /\ told[r] = "chunks"
    /\ Tell(r, "done") /\ UNCHANGED record
Replay(r) ==
    /\ record[r].cached /\ told[r] = "none"
    /\ Tell(r, "cache") /\ UNCHANGED record

\* Nothing was said yet, and no answer of a model is on record.
Refuse(r) ==
    /\ record[r].status \in {"absent", "routing"} \/ record[r].cached
    /\ told[r] = "none"
    /\ Tell(r, "error") /\ UNCHANGED record

Next == \E r \in Requests :
    \/ Answer(r) \/ Hit(r) \/ Fail(r) \/ Open(r) \/ Close(r)
    \/ Begin(r) \/ Done(r) \/ Replay(r) \/ Refuse(r)

Spec == Init /\ [][Next]_vars
=============================================================================
