---------------------------- MODULE ResponseCache ----------------------------
(***************************************************************************)
(* The response cache of the gateway: exact entries live twice, as a row   *)
(* of cache_entries and as the Redis value of their fingerprint.  Requests *)
(* look up and store (cache/service.py, called by api/gateway.py),         *)
(* operators invalidate (api/control.py), the worker's cleanup job deletes *)
(* and evicts (jobs/handlers.py).  Each is a database transaction with     *)
(* Redis commands in the middle of it, so each is several steps here.      *)
(*                                                                         *)
(* A key stands for workspace, namespace version and fingerprint.  Rows    *)
(* are read as committed: what a transaction writes is its own until it    *)
(* commits.                                                                *)
(***************************************************************************)
EXTENDS Integers, FiniteSets

CONSTANTS
    Keys,           \* workspace, namespace and fingerprint of a request
    Entries,        \* ids of cache entries; the bound on rows in use at once
    Requests,       \* requests in flight
    MaxEntries,     \* settings.cache_max_entries
    None

ASSUME NoneAssumption == None \notin Entries
ASSUME CapacityAssumption == MaxEntries \in Nat /\ IsFiniteSet(Entries)

VARIABLES
    row,            \* cache_entries as committed: no row, active or invalidated
    key,            \* the key of an entry
    expired,        \* entries whose expires_at has passed
    redis,          \* the entry whose completion Redis holds for a key
    pc,             \* where a request is
    want,           \* the key of a request
    old,            \* the row a request found, and will re-set or replace
    new,            \* the row a request will insert
    op,             \* the operator's invalidation: where it is
    chosen,         \* the rows it has read
    job,            \* the cleanup job: where it is
    todo,           \* entries whose Redis value it has still to delete
    purge,          \* the expired rows it read, deleted by it
    evict           \* the rows it marks because of the capacity

rowVars == <<row, key, expired>>
requestVars == <<pc, want, old, new>>
opVars == <<op, chosen>>
jobVars == <<job, todo, purge, evict>>
vars == <<rowVars, redis, requestVars, opVars, jobVars>>

TypeOK ==
    /\ row \in [Entries -> {"none", "active", "invalidated"}]
    /\ key \in [Entries -> Keys]
    /\ expired \in SUBSET Entries
    /\ redis \in [Keys -> Entries \cup {None}]
    /\ pc \in [Requests -> {"idle", "answered", "found", "expired", "fresh", "storing"}]
    /\ want \in [Requests -> Keys]
    /\ old \in [Requests -> Entries \cup {None}]
    /\ new \in [Requests -> Entries \cup {None}]
    /\ op \in {"idle", "read", "deleted"}
    /\ chosen \in SUBSET Entries
    /\ job \in {"idle", "read", "purged"}
    /\ todo \in SUBSET Entries
    /\ purge \in SUBSET Entries
    /\ evict \in SUBSET Entries
    /\ \A r \in Requests : pc[r] \in {"found", "expired"} => old[r] # None

Init ==
    /\ row = [e \in Entries |-> "none"]
    /\ key \in [Entries -> Keys]
    /\ expired = {}
    /\ redis = [k \in Keys |-> None]
    /\ pc = [r \in Requests |-> "idle"]
    /\ want \in [Requests -> Keys]
    /\ old = [r \in Requests |-> None]
    /\ new = [r \in Requests |-> None]
    /\ op = "idle" /\ chosen = {}
    /\ job = "idle" /\ todo = {} /\ purge = {} /\ evict = {}

Active == {e \in Entries : row[e] = "active"}
Invalidated == {e \in Entries : row[e] = "invalidated"}

\* Requests inside store_entry hold the advisory lock of their key until their
\* transaction ends, and the row lock of the expired row they have marked.
InStore(r) == pc[r] \in {"found", "expired", "fresh", "storing"}
LocksRow(r, e) == old[r] = e /\ pc[r] \in {"fresh", "storing"}

\* Mutant: the advisory lock is not taken.
Unlocked(k) == TRUE

LockFree(k) == \A r \in Requests : InStore(r) => want[r] # k

\* Ids nothing refers to any more.
Unused == {e \in Entries : /\ row[e] = "none"
                           /\ \A k \in Keys : redis[k] # e
                           /\ \A r \in Requests : old[r] # e /\ new[r] # e
                           /\ e \notin chosen \cup todo \cup purge \cup evict}
InFlight == {r \in Requests : pc[r] # "idle"}
-----------------------------------------------------------------------------
(* Requests.                                                               *)

\* exact_get finds nothing and the provider answers well enough to be stored.
\* (A hit, and an answer that is not stored, change nothing here.)  Bound: a
\* request only misses while there is an id for its entry.
Miss(r, k) ==
    /\ pc[r] = "idle"
    /\ redis[k] = None
    /\ Cardinality(InFlight) < Cardinality(Unused)
    /\ pc' = [pc EXCEPT ![r] = "answered"]
    /\ want' = [want EXCEPT ![r] = k]
    /\ UNCHANGED <<rowVars, redis, old, new, opVars, jobVars>>

\* Mutant: only an unexpired row is remembered.
LockAndForget(r) ==
    /\ pc[r] = "answered"
    /\ LockFree(want[r])
    /\ \/ \E e \in Active :
              /\ key[e] = want[r]
              /\ old' = [old EXCEPT ![r] = IF e \in expired THEN None ELSE e]
              /\ pc' = [pc EXCEPT ![r] = IF e \in expired THEN "expired" ELSE "found"]
       \/ /\ \A e \in Active : key[e] # want[r]
          /\ pc' = [pc EXCEPT ![r] = "fresh"]
          /\ UNCHANGED old
    /\ UNCHANGED <<rowVars, redis, want, new, opVars, jobVars>>

\* pg_advisory_xact_lock, then the SELECT of the active row of the key.
LockAndRead(r) ==
    /\ pc[r] = "answered"
    /\ LockFree(want[r])
    /\ \/ \E e \in Active :
              /\ key[e] = want[r]
              /\ old' = [old EXCEPT ![r] = e]
              /\ pc' = [pc EXCEPT ![r] = IF e \in expired THEN "expired" ELSE "found"]
       \/ /\ \A e \in Active : key[e] # want[r]
          /\ pc' = [pc EXCEPT ![r] = "fresh"]
          /\ UNCHANGED old
    /\ UNCHANGED <<rowVars, redis, want, new, opVars, jobVars>>

\* An unexpired row is put back into Redis as it was read.
ResetFound(r) ==
    /\ pc[r] = "found"
    /\ redis' = [redis EXCEPT ![want[r]] = old[r]]
    /\ old' = [old EXCEPT ![r] = None]
    /\ pc' = [pc EXCEPT ![r] = "storing"]
    /\ UNCHANGED <<rowVars, want, new, opVars, jobVars>>

\* The UPDATE that marks an expired row waits for the cleanup that deletes it,
\* and fails when that has committed.
RetireExpired(r) ==
    /\ pc[r] = "expired"
    /\ job = "purged" => old[r] \notin purge
    /\ row[old[r]] # "none"
    /\ pc' = [pc EXCEPT ![r] = "fresh"]
    /\ UNCHANGED <<rowVars, redis, want, old, new, opVars, jobVars>>

\* The new entry goes to Redis before its row is committed.
SetFresh(r) ==
    /\ pc[r] = "fresh"
    /\ \E e \in Unused :
           /\ new' = [new EXCEPT ![r] = e]
           /\ key' = [key EXCEPT ![e] = want[r]]
           /\ redis' = [redis EXCEPT ![want[r]] = e]
           /\ expired' = expired \ {e}
    /\ pc' = [pc EXCEPT ![r] = "storing"]
    /\ UNCHANGED <<row, want, old, opVars, jobVars>>

EndRequest(r) ==
    /\ pc' = [pc EXCEPT ![r] = "idle"]
    /\ old' = [old EXCEPT ![r] = None]
    /\ new' = [new EXCEPT ![r] = None]
    /\ UNCHANGED <<key, expired, redis, want, opVars, jobVars>>

CommitStore(r) ==
    /\ pc[r] = "storing"
    /\ row' = [e \in Entries |-> IF e = new[r] THEN "active"
                              ELSE IF e = old[r] THEN "invalidated" ELSE row[e]]
    /\ EndRequest(r)

\* The request fails, or its process dies, before the commit: publishing its
\* events, the flush above or the commit raise.  Redis keeps what it was told.
FailRequest(r) ==
    /\ pc[r] # "idle"
    /\ UNCHANGED row
    /\ EndRequest(r)
-----------------------------------------------------------------------------
(* The operator's invalidations, one at a time.                            *)

\* invalidate_entry reads one row of any state, invalidate_cache the active
\* rows of a scope, after the count its preview showed.
ReadChosen ==
    /\ op = "idle"
    /\ \E S \in (SUBSET Active) \cup {{e} : e \in Invalidated} :
           /\ S # {}
           /\ chosen' = S
    /\ op' = "read"
    /\ UNCHANGED <<rowVars, redis, requestVars, jobVars>>

DeleteChosen ==
    /\ op = "read"
    /\ redis' = [k \in Keys |-> IF \E e \in chosen : key[e] = k THEN None ELSE redis[k]]
    /\ op' = "deleted"
    /\ UNCHANGED <<rowVars, requestVars, chosen, jobVars>>

\* The UPDATEs wait for row locks; with a row gone they fail, all of them.
CommitChosen ==
    /\ op = "deleted"
    /\ \A e \in chosen : \A r \in Requests : ~LocksRow(r, e)
    /\ job = "purged" => chosen \cap purge = {}
    /\ row' = IF \A e \in chosen : row[e] # "none"
              THEN [e \in Entries |-> IF e \in chosen THEN "invalidated" ELSE row[e]]
              ELSE row
    /\ op' = "idle" /\ chosen' = {}
    /\ UNCHANGED <<key, expired, redis, requestVars, jobVars>>
-----------------------------------------------------------------------------
(* The cleanup job; the worker runs one at a time.                         *)

\* Mutant: invalidated rows are left to their time to live.
ReadOnlyExpired ==
    /\ job = "idle"
    /\ purge' = {e \in expired : row[e] # "none"}
    /\ todo' = purge'
    /\ job' = "read"
    /\ UNCHANGED <<rowVars, redis, requestVars, opVars, evict>>

ReadExpired ==
    /\ job = "idle"
    /\ purge' = {e \in expired : row[e] # "none"}
    /\ todo' = purge' \cup Invalidated
    /\ job' = "read"
    /\ UNCHANGED <<rowVars, redis, requestVars, opVars, evict>>

DeleteKey(e) ==
    /\ job # "idle" /\ e \in todo
    /\ redis' = [redis EXCEPT ![key[e]] = None]
    /\ todo' = todo \ {e}
    /\ UNCHANGED <<rowVars, requestVars, opVars, job, purge, evict>>

\* The DELETE waits for row locks.  The count, and the rows chosen for
\* eviction (which of the active ones is left open), are read after it.
PurgeAndEvict ==
    /\ job = "read" /\ todo = {}
    /\ \A e \in purge : \A r \in Requests : ~LocksRow(r, e)
    /\ \E S \in SUBSET (Active \ purge) :
           /\ Cardinality(Active \ (purge \cup S)) <= MaxEntries
           /\ S # {} => Cardinality(Active \ (purge \cup S)) = MaxEntries
           /\ evict' = S
           /\ todo' = S
    /\ job' = "purged"
    /\ UNCHANGED <<rowVars, redis, requestVars, opVars, purge>>

CommitCleanup ==
    /\ job = "purged" /\ todo = {}
    /\ \A e \in evict : \A r \in Requests : ~LocksRow(r, e)
    /\ row' = [e \in Entries |-> IF e \in purge THEN "none"
                              ELSE IF e \in evict THEN "invalidated" ELSE row[e]]
    /\ job' = "idle" /\ purge' = {} /\ evict' = {}
    /\ UNCHANGED <<key, expired, redis, requestVars, opVars, todo>>

\* The job raises or its worker dies; it is run again later.
FailCleanup ==
    /\ job # "idle"
    /\ job' = "idle" /\ todo' = {} /\ purge' = {} /\ evict' = {}
    /\ UNCHANGED <<rowVars, redis, requestVars, opVars>>
-----------------------------------------------------------------------------
(* Time.                                                                   *)

Expire(e) ==
    /\ e \notin expired
    /\ row[e] # "none"
    /\ expired' = expired \cup {e}
    /\ UNCHANGED <<row, key, redis, requestVars, opVars, jobVars>>

\* Redis drops a value at its time to live, a minute late at most (max(60, ...)),
\* or earlier, with its memory.
RedisExpires(k) ==
    /\ redis[k] # None
    /\ redis' = [redis EXCEPT ![k] = None]
    /\ UNCHANGED <<rowVars, requestVars, opVars, jobVars>>

Store(r) == \/ LockAndRead(r) \/ ResetFound(r) \/ RetireExpired(r)
            \/ SetFresh(r) \/ CommitStore(r) \/ FailRequest(r)
Invalidate == ReadChosen \/ DeleteChosen \/ CommitChosen
Cleanup == ReadExpired \/ (\E e \in Entries : DeleteKey(e)) \/ PurgeAndEvict \/ CommitCleanup

Next ==
    \/ \E r \in Requests, k \in Keys : Miss(r, k)
    \/ \E r \in Requests : Store(r)
    \/ Invalidate
    \/ Cleanup \/ FailCleanup
    \/ \E e \in Entries : Expire(e)
    \/ \E k \in Keys : RedisExpires(k)

Spec == Init /\ [][Next]_vars

\* Transactions end, the periodic job is run again and again, and does not fail
\* for ever before it reaches the same entry.  Nothing makes a value expire.
Fairness ==
    /\ \A r \in Requests : WF_vars(Store(r))
    /\ WF_vars(Cleanup)
    /\ \A e \in Entries : SF_vars(DeleteKey(e))

FairSpec == Spec /\ Fairness
-----------------------------------------------------------------------------
(* Properties.                                                             *)

\* The rows a request's commit would leave active: the unique index
\* uq_cache_active_fingerprint must never refuse an answer already paid for.
Pending(r) == {new[r]} \ {None}
Replaced == {old[r] : r \in {q \in Requests : pc[q] \in {"fresh", "storing"}}}

\* However requests for one key, invalidations and cleanups interleave, a key
\* has at most one active row, counting those about to be inserted and not
\* those about to be replaced (store_entry's advisory lock).
OneActiveEntry ==
    LET standing == (Active \ Replaced) \cup UNION {Pending(r) : r \in Requests}
    IN  \A e, f \in standing : key[e] = key[f] => e = f

\* "The entry will no longer be eligible for exact or semantic hits": an
\* invalidated row is never what Redis answers with (invalidate_entry deletes
\* the value before it commits; store_entry may put it back).
InvalidatedIsNotHit == \A k \in Keys : redis[k] \notin Invalidated

\* An invalidated answer that a concurrent store put back into Redis is
\* dropped, without waiting for any time to live, by the cleanup job, which
\* deletes the values of invalidated rows too.
Resurrected(e) == row[e] = "invalidated" /\ redis[key[e]] = e
StaleIsDropped == \A e \in Entries : Resurrected(e) ~> ~Resurrected(e)
=============================================================================
