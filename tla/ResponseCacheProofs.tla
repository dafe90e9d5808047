------------------------- MODULE ResponseCacheProofs -------------------------
(***************************************************************************)
(* Proofs about ResponseCache, for any keys, entries, requests and         *)
(* capacity.                                                               *)
(***************************************************************************)
EXTENDS ResponseCache, TLAPS

\* One request at a time is inside store_entry for a key.
Exclusive == \A p, q \in Requests : InStore(p) /\ InStore(q) /\ want[p] = want[q] => p = q

\* The committed rows alone never compete for a key, ...
Distinct == \A e, f \in Active : key[e] = key[f] => e = f

\* ... an entry is pending only on the way to its commit, under its key, ...
PendingFits == \A r \in Requests : new[r] # None => pc[r] = "storing" /\ key[new[r]] = want[r]

\* ... and a request about to insert has seen every active row of its key.
HasSeen(r) == \/ pc[r] \in {"expired", "fresh"}
              \/ pc[r] = "storing" /\ new[r] # None
NothingUnseen ==
    \A r \in Requests : HasSeen(r) => \A e \in Active : key[e] = want[r] => e = old[r]

IInv == TypeOK /\ Exclusive /\ Distinct /\ PendingFits /\ NothingUnseen
-----------------------------------------------------------------------------
\* Every step keeps the types.
LEMMA TypeStep ==
    ASSUME TypeOK, [Next]_vars
    PROVE  TypeOK'
<1> USE NoneAssumption DEF TypeOK
<1>1. ASSUME NEW r \in Requests, NEW k \in Keys, Miss(r, k) PROVE TypeOK'
  BY <1>1 DEF Miss, rowVars, opVars, jobVars
<1>2. ASSUME NEW r \in Requests, LockAndRead(r) PROVE TypeOK'
  BY <1>2 DEF LockAndRead, Active, rowVars, opVars, jobVars
<1>3. ASSUME NEW r \in Requests, ResetFound(r) PROVE TypeOK'
  BY <1>3 DEF ResetFound, rowVars, opVars, jobVars
<1>4. ASSUME NEW r \in Requests, RetireExpired(r) PROVE TypeOK'
  BY <1>4 DEF RetireExpired, rowVars, opVars, jobVars
<1>5. ASSUME NEW r \in Requests, SetFresh(r) PROVE TypeOK'
  BY <1>5 DEF SetFresh, Unused, opVars, jobVars
<1>6. ASSUME NEW r \in Requests, CommitStore(r) PROVE TypeOK'
  <2>1. row' \in [Entries -> {"none", "active", "invalidated"}]
    BY <1>6 DEF CommitStore
  <2>2. QED
    BY <1>6, <2>1 DEF CommitStore, EndRequest, opVars, jobVars
<1>7. ASSUME NEW r \in Requests, FailRequest(r) PROVE TypeOK'
  BY <1>7 DEF FailRequest, EndRequest, opVars, jobVars
<1>8. CASE ReadChosen
  <2>1. PICK S \in (SUBSET Active) \cup {{e} : e \in Invalidated} : chosen' = S
    BY <1>8 DEF ReadChosen
  <2>2. S \in SUBSET Entries
    BY DEF Active, Invalidated
  <2>3. QED
    BY <1>8, <2>1, <2>2 DEF ReadChosen, rowVars, requestVars, jobVars
<1>9. CASE DeleteChosen
  BY <1>9 DEF DeleteChosen, rowVars, requestVars, jobVars
<1>10. CASE CommitChosen
  BY <1>10 DEF CommitChosen, requestVars, jobVars
<1>11. CASE ReadExpired
  BY <1>11 DEF ReadExpired, Invalidated, rowVars, requestVars, opVars
<1>12. ASSUME NEW e \in Entries, DeleteKey(e) PROVE TypeOK'
  BY <1>12 DEF DeleteKey, rowVars, requestVars, opVars
<1>13. CASE PurgeAndEvict
  BY <1>13 DEF PurgeAndEvict, Active, rowVars, requestVars, opVars
<1>14. CASE CommitCleanup
  <2>1. row' \in [Entries -> {"none", "active", "invalidated"}]
    BY <1>14 DEF CommitCleanup
  <2>2. QED
    BY <1>14, <2>1 DEF CommitCleanup, requestVars, opVars
<1>15. CASE FailCleanup
  BY <1>15 DEF FailCleanup, rowVars, requestVars, opVars
<1>16. ASSUME NEW e \in Entries, Expire(e) PROVE TypeOK'
  BY <1>16 DEF Expire, requestVars, opVars, jobVars
<1>17. ASSUME NEW k \in Keys, RedisExpires(k) PROVE TypeOK'
  BY <1>17 DEF RedisExpires, rowVars, requestVars, opVars, jobVars
<1>18. CASE UNCHANGED vars
  BY <1>18 DEF vars, rowVars, requestVars, opVars, jobVars
<1>19. QED
  BY <1>1, <1>2, <1>3, <1>4, <1>5, <1>6, <1>7, <1>8, <1>9, <1>10, <1>11, <1>12, <1>13,
      <1>14, <1>15, <1>16, <1>17, <1>18 DEF Next, Store, Invalidate, Cleanup
-----------------------------------------------------------------------------
\* Rows leave the active ones, and requests and keys stand still: the steps of
\* the operator, of the cleanup job and of time.
RowsOnlyLeave == Active' \subseteq Active /\ UNCHANGED <<key, requestVars>>

LEMMA LeavingKeeps ==
    ASSUME IInv, TypeOK', RowsOnlyLeave
    PROVE  IInv'
<1> USE DEF IInv, RowsOnlyLeave, requestVars
<1>1. Exclusive'
  BY DEF Exclusive, InStore
<1>2. Distinct'
  BY DEF Distinct
<1>3. PendingFits'
  BY DEF PendingFits
<1>4. NothingUnseen'
  BY DEF NothingUnseen, HasSeen
<1>5. QED
  BY <1>1, <1>2, <1>3, <1>4

LEMMA OthersOnlyLeave ==
    ASSUME TypeOK,
           \/ Invalidate \/ Cleanup \/ FailCleanup
           \/ \E e \in Entries : Expire(e)
           \/ \E k \in Keys : RedisExpires(k)
           \/ UNCHANGED vars
    PROVE  RowsOnlyLeave
<1> USE DEF TypeOK, RowsOnlyLeave, Active
<1>1. CASE ReadChosen
  BY <1>1 DEF ReadChosen, rowVars, requestVars
<1>2. CASE DeleteChosen
  BY <1>2 DEF DeleteChosen, rowVars, requestVars
<1>3. CASE CommitChosen
  BY <1>3 DEF CommitChosen, requestVars
<1>4. CASE ReadExpired
  BY <1>4 DEF ReadExpired, rowVars, requestVars
<1>5. CASE \E e \in Entries : DeleteKey(e)
  BY <1>5 DEF DeleteKey, rowVars, requestVars
<1>6. CASE PurgeAndEvict
  BY <1>6 DEF PurgeAndEvict, rowVars, requestVars
<1>7. CASE CommitCleanup
  BY <1>7 DEF CommitCleanup, requestVars
<1>8. CASE FailCleanup
  BY <1>8 DEF FailCleanup, rowVars, requestVars
<1>9. CASE \E e \in Entries : Expire(e)
  BY <1>9 DEF Expire, requestVars
<1>10. CASE \E k \in Keys : RedisExpires(k)
  BY <1>10 DEF RedisExpires, rowVars, requestVars
<1>11. CASE UNCHANGED vars
  BY <1>11 DEF vars, rowVars, requestVars
<1>12. QED
  BY <1>1, <1>2, <1>3, <1>4, <1>5, <1>6, <1>7, <1>8, <1>9, <1>10, <1>11
      DEF Invalidate, Cleanup
-----------------------------------------------------------------------------
\* The steps of a request that write no row.
LEMMA RequestKeeps ==
    ASSUME IInv, TypeOK', NEW r \in Requests,
           \/ \E k \in Keys : Miss(r, k)
           \/ LockAndRead(r) \/ ResetFound(r) \/ RetireExpired(r) \/ FailRequest(r)
    PROVE  IInv'
<1> USE NoneAssumption DEF IInv, TypeOK, rowVars
<1>1. CASE \E k \in Keys : Miss(r, k)
  BY <1>1 DEF Miss, Exclusive, InStore, Distinct, Active, PendingFits, NothingUnseen, HasSeen
<1>2. CASE LockAndRead(r)
  <2>1. Exclusive'
    BY <1>2 DEF LockAndRead, LockFree, Exclusive, InStore
  <2>2. Distinct' /\ PendingFits'
    BY <1>2 DEF LockAndRead, Distinct, Active, PendingFits
  <2>3. NothingUnseen'
    BY <1>2 DEF LockAndRead, NothingUnseen, HasSeen, Active, Distinct, PendingFits
  <2>4. QED
    BY <2>1, <2>2, <2>3
<1>3. CASE ResetFound(r)
  BY <1>3 DEF ResetFound, Exclusive, InStore, Distinct, Active, PendingFits, NothingUnseen,
      HasSeen
<1>4. CASE RetireExpired(r)
  BY <1>4 DEF RetireExpired, Exclusive, InStore, Distinct, Active, PendingFits,
      NothingUnseen, HasSeen
<1>5. CASE FailRequest(r)
  BY <1>5 DEF FailRequest, EndRequest, Exclusive, InStore, Distinct, Active, PendingFits,
      NothingUnseen, HasSeen
<1>6. QED
  BY <1>1, <1>2, <1>3, <1>4, <1>5

\* The id of a new entry is nobody else's.
LEMMA SetFreshKeeps ==
    ASSUME IInv, TypeOK', NEW r \in Requests, SetFresh(r)
    PROVE  IInv'
<1> USE NoneAssumption DEF IInv, TypeOK
<1>1. PICK e \in Unused : /\ new' = [new EXCEPT ![r] = e]
                          /\ key' = [key EXCEPT ![e] = want[r]]
  BY DEF SetFresh
<1>2. /\ e \in Entries /\ e \notin Active
      /\ \A q \in Requests : old[q] # e /\ new[q] # e
  BY <1>1 DEF Unused, Active
<1>3. /\ pc[r] = "fresh" /\ pc' = [pc EXCEPT ![r] = "storing"]
      /\ row' = row /\ want' = want /\ old' = old
  BY DEF SetFresh
<1>4. Active' = Active /\ \A f \in Active : key'[f] = key[f]
  BY <1>1, <1>2, <1>3 DEF Active
<1>5. Exclusive'
  BY <1>3 DEF Exclusive, InStore
<1>6. Distinct'
  BY <1>4 DEF Distinct
<1>7. PendingFits'
  BY <1>1, <1>2, <1>3 DEF PendingFits
<1>8. NothingUnseen'
  <2>1. \A q \in Requests : HasSeen(q)' => HasSeen(q)
    BY <1>1, <1>3 DEF HasSeen
  <2>2. QED
    BY <1>3, <1>4, <2>1 DEF NothingUnseen
<1>9. QED
  BY <1>5, <1>6, <1>7, <1>8

\* The row a commit makes active takes the place of the only one there was.
LEMMA CommitKeeps ==
    ASSUME IInv, TypeOK', NEW r \in Requests, CommitStore(r)
    PROVE  IInv'
<1> USE NoneAssumption DEF IInv, TypeOK
<1>1. /\ pc[r] = "storing" /\ pc' = [pc EXCEPT ![r] = "idle"]
      /\ old' = [old EXCEPT ![r] = None] /\ new' = [new EXCEPT ![r] = None]
      /\ key' = key /\ want' = want
  BY DEF CommitStore, EndRequest
<1>2. \A e \in Active' : e = new[r] \/ (e \in Active /\ e # old[r])
  BY DEF CommitStore, Active
<1>3. ASSUME new[r] # None, NEW e \in Active', e # new[r], key[e] = want[r] PROVE FALSE
  BY <1>1, <1>2, <1>3 DEF NothingUnseen, HasSeen
<1>4. Exclusive'
  BY <1>1 DEF Exclusive, InStore
<1>5. Distinct'
  <2>1. \A e \in Active' : e = new[r] => new[r] # None /\ key[e] = want[r]
    BY DEF Active, PendingFits
  <2>2. QED
    BY <1>1, <1>2, <1>3, <2>1 DEF Distinct
<1>6. PendingFits'
  BY <1>1 DEF PendingFits
<1>7. NothingUnseen'
  <2>1. SUFFICES ASSUME NEW q \in Requests, HasSeen(q)', NEW e \in Active', key[e] = want[q]
                 PROVE  e = old'[q]
    BY <1>1 DEF NothingUnseen
  <2>2. q # r /\ HasSeen(q) /\ old'[q] = old[q] /\ InStore(q)
    BY <1>1, <2>1 DEF HasSeen, InStore
  <2>3. CASE e = new[r]
    <3>1. new[r] # None
      BY <2>1, <2>3 DEF Active
    <3>2. want[q] = want[r]
      BY <2>1, <2>3, <3>1 DEF PendingFits
    <3>3. QED
      BY <1>1, <2>2, <3>2 DEF Exclusive, InStore
  <2>4. CASE e \in Active
    BY <2>1, <2>2, <2>4 DEF NothingUnseen
  <2>5. QED
    BY <1>2, <2>3, <2>4
<1>8. QED
  BY <1>4, <1>5, <1>6, <1>7
-----------------------------------------------------------------------------
LEMMA InvariantInit == ASSUME Init PROVE IInv
<1> USE NoneAssumption DEF Init
<1>1. TypeOK
  BY DEF TypeOK
<1>2. QED
  BY <1>1 DEF IInv, Exclusive, InStore, Distinct, Active, PendingFits, NothingUnseen, HasSeen

LEMMA InvariantStep == ASSUME IInv, [Next]_vars PROVE IInv'
<1>1. TypeOK'
  BY TypeStep DEF IInv
<1>2. CASE \E r \in Requests : \/ \E k \in Keys : Miss(r, k)
                               \/ LockAndRead(r) \/ ResetFound(r)
                               \/ RetireExpired(r) \/ FailRequest(r)
  BY <1>1, <1>2, RequestKeeps
<1>3. CASE \E r \in Requests : SetFresh(r)
  BY <1>1, <1>3, SetFreshKeeps
<1>4. CASE \E r \in Requests : CommitStore(r)
  BY <1>1, <1>4, CommitKeeps
<1>5. CASE \/ Invalidate \/ Cleanup \/ FailCleanup
           \/ \E e \in Entries : Expire(e)
           \/ \E k \in Keys : RedisExpires(k)
           \/ UNCHANGED vars
  BY <1>1, <1>5, OthersOnlyLeave, LeavingKeeps DEF IInv
<1>6. QED
  BY <1>2, <1>3, <1>4, <1>5 DEF Next, Store

\* No two entries ever compete: active rows by Distinct, an active row and a
\* pending one by NothingUnseen, two pending ones by Exclusive.
LEMMA InvariantImplies == ASSUME IInv PROVE OneActiveEntry
<1> USE NoneAssumption DEF IInv, TypeOK
<1> DEFINE standing == (Active \ Replaced) \cup UNION {Pending(r) : r \in Requests}
<1>1. SUFFICES ASSUME NEW e \in standing, NEW f \in standing, key[e] = key[f] PROVE e = f
  BY DEF OneActiveEntry
<1>2. ASSUME NEW r \in Requests, NEW g \in Pending(r)
      PROVE  g = new[r] /\ HasSeen(r) /\ InStore(r) /\ key[g] = want[r] /\ g \in Entries
  BY <1>2 DEF Pending, PendingFits, HasSeen, InStore
<1>3. ASSUME NEW r \in Requests, NEW g \in Pending(r), NEW h \in Active \ Replaced,
             key[g] = key[h]
      PROVE  FALSE
  <2>1. h = old[r]
    BY <1>2, <1>3 DEF NothingUnseen
  <2>2. pc[r] = "storing"
    BY <1>3 DEF Pending, PendingFits
  <2>3. old[r] \in Replaced
    BY <2>2 DEF Replaced
  <2>4. QED
    BY <1>3, <2>1, <2>3
<1>4. CASE e \in Active \ Replaced /\ f \in Active \ Replaced
  BY <1>1, <1>4 DEF Distinct
<1>5. ASSUME NEW p \in Requests, NEW q \in Requests, e \in Pending(p), f \in Pending(q)
      PROVE  e = f
  <2>1. want[p] = want[q] /\ InStore(p) /\ InStore(q)
    BY <1>1, <1>2, <1>5
  <2>2. p = q
    BY <2>1 DEF Exclusive
  <2>3. QED
    BY <1>2, <1>5, <2>2
<1>6. QED
  BY <1>1, <1>3, <1>4, <1>5
-----------------------------------------------------------------------------
\* The types, for any constants.
THEOREM TypeCorrect == Spec => []TypeOK
<1>1. Init => TypeOK
  BY InvariantInit DEF IInv
<1>2. TypeOK /\ [Next]_vars => TypeOK'
  BY TypeStep
<1>3. QED
  BY <1>1, <1>2, PTL DEF Spec

\* The unique index never refuses a row: for any number of requests, entries
\* and keys the advisory lock of store_entry keeps a key to one active row.
THEOREM KeysHaveOneEntry == Spec => []OneActiveEntry
<1>1. Init => IInv
  BY InvariantInit
<1>2. IInv /\ [Next]_vars => IInv'
  BY InvariantStep
<1>3. IInv => OneActiveEntry
  BY InvariantImplies
<1>4. QED
  BY <1>1, <1>2, <1>3, PTL DEF Spec
=============================================================================
