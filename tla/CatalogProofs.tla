--------------------------- MODULE CatalogProofs ---------------------------
(***************************************************************************)
(* Proofs about Catalog, for any endpoints, policies, bounds, any number   *)
(* of requests under way and finitely many models:                         *)
(*  - TypeCorrect, the type invariant;                                     *)
(*  - ModelsAreComplete: a model can be routed with what its row names;    *)
(*  - AnswersAreCurrent: no answer from before an edit is served.          *)
(* The types need to know that what a request is about is there (Asked).   *)
(* The other two rest on what a request that is not behind has read: it    *)
(* still holds, as every commit that could disturb it would have put the   *)
(* request behind (Holds).                                                 *)
(***************************************************************************)
EXTENDS Catalog, FiniteSetTheorems, TLAPS

\* What a request under way is about is there, and stays.
Asked(q) ==
    /\ q.op \in {"patch endpoint", "delete endpoint"} => q.on \in Endpoints
    /\ q.op = "create model" =>
         q.on \in Models /\ q.wanted \in References /\ q.wanted.policy \in Known
    /\ q.op \in {"patch model", "activate policy"} =>
         /\ q.on \in Present
         /\ q.read \in References
         /\ q.wanted \in References
         /\ q.wanted.policy \in Known
    /\ q.op = "answer" => q.on \in Present /\ q.content \in 0..MaxEdits

Typed ==
    /\ TypeOK
    /\ \A t \in Transactions : Asked(tx[t])
    /\ \A m \in Present : model[m].policy \in Known

\* Two states of a request that differ at most in whether it is behind.
Same(r, q) ==
    /\ r.op = q.op /\ r.on = q.on /\ r.was = q.was /\ r.new = q.new
    /\ r.read = q.read /\ r.wanted = q.wanted
    /\ r.members = q.members /\ r.pooled = q.pooled /\ r.seen = q.seen
    /\ r.spaces = q.spaces /\ r.content = q.content /\ r.rows = q.rows
-----------------------------------------------------------------------------
(* Requests, rows and what becomes of them.                                *)

LEMMA IdleType == Idle \in Tx /\ Idle.op = "none" /\ Asked(Idle)
  BY DEF Idle, Tx, Operations, NoEndpoint, Endpoint, NoModel, Asked

LEMMA BehindIs ==
    ASSUME NEW q \in Tx, NEW b \in BOOLEAN
    PROVE  LET r == [q EXCEPT !.behind = b] IN r \in Tx /\ Same(r, q) /\ r.behind = b
  BY DEF Tx, Same

\* What a commit does to the requests under way.
LEMMA CommitIs ==
    ASSUME tx \in [Transactions -> Tx], NEW t \in Transactions, NEW written, Commit(t, written)
    PROVE  /\ tx' \in [Transactions -> Tx]
           /\ tx'[t] = Idle
           /\ \A u \in Transactions \ {t} :
                 /\ Same(tx'[u], tx[u])
                 /\ ~tx'[u].behind => ~tx[u].behind /\ tx[u].rows \cap written = {}
           /\ overtaken' = (overtaken \/ tx[t].behind)
           /\ started' = started
<1> DEFINE late(u) == tx[u].behind \/ tx[u].rows \cap written # {}
<1>1. ASSUME NEW u \in Transactions
      PROVE  late(u) \in BOOLEAN
  OBVIOUS
<1>2. tx' = [u \in Transactions |-> IF u = t THEN Idle ELSE [tx[u] EXCEPT !.behind = late(u)]]
  BY DEF Commit
<1>3. ASSUME NEW u \in Transactions \ {t}
      PROVE  /\ tx'[u] \in Tx
             /\ Same(tx'[u], tx[u])
             /\ tx'[u].behind = late(u)
  <2> HIDE DEF late
  <2>1. tx'[u] = [tx[u] EXCEPT !.behind = late(u)]
    BY <1>2
  <2>2. tx[u] \in Tx
    OBVIOUS
  <2> QED BY <1>1, <2>1, <2>2, BehindIs
<1>4. tx'[t] = Idle
  BY <1>2
<1>5. tx' \in [Transactions -> Tx]
  <2> HIDE DEF late
  <2>1. \A u \in Transactions : tx'[u] \in Tx
    BY <1>3, <1>4, IdleType
  <2>2. tx' = [u \in Transactions |-> tx'[u]]
    BY <1>2
  <2> QED BY <2>1, <2>2
<1>6. ASSUME NEW u \in Transactions \ {t}, ~tx'[u].behind
      PROVE  ~tx[u].behind /\ tx[u].rows \cap written = {}
  BY <1>3, <1>6
<1> QED BY <1>3, <1>4, <1>5, <1>6 DEF Commit

LEMMA BeginIs ==
    ASSUME tx \in [Transactions -> Tx], NEW t \in Transactions, NEW q \in Tx, Begin(t, q)
    PROVE  /\ tx' \in [Transactions -> Tx]
           /\ tx'[t] = q
           /\ \A u \in Transactions \ {t} : tx'[u] = tx[u]
           /\ started' = started + 1
           /\ UNCHANGED <<endpoint, model, pool, namespace, edits, answers, overtaken, back>>
  BY DEF Begin, rows

LEMMA ModelsKept ==
    ASSUME NEW to \in References
    PROVE  to # NoModel /\ to.baseline \in Endpoints /\ to.fallback \in Endpoints
           /\ to.impact \in Endpoints /\ to.policy \in Policies
  BY CatalogAssumption DEF References, NoModel

LEMMA ReadModel ==
    ASSUME TypeOK, NEW m \in Present
    PROVE  m \in Models /\ model[m] \in References
  BY DEF TypeOK, Present

\* What was asked for is still there when models and policies only come.
LEMMA AskedGrows ==
    ASSUME NEW t \in Transactions, Same(tx'[t], tx[t]), Asked(tx[t]),
           Present \subseteq Present', Known \subseteq Known'
    PROVE  Asked(tx[t])'
  BY DEF Asked, Same
-----------------------------------------------------------------------------
(* The types.                                                              *)

\* The number of users of a policy.
LEMMA UsersAreCounted ==
    ASSUME NEW p \in Policies
    PROVE  /\ Cardinality(Users(p)) \in Nat
           /\ Users(p) # {} => Cardinality(Users(p)) > 0
<1>1. IsFiniteSet(Users(p))
  BY CatalogAssumption, FS_Subset DEF Users, Present
<1>2. Cardinality(Users(p)) \in Nat
  BY <1>1, FS_CardinalityType
<1>3. Users(p) # {} => Cardinality(Users(p)) # 0
  BY <1>1, FS_EmptySet
<1> QED BY <1>2, <1>3

RowIds == Endpoints \cup Models \cup Policies \cup {"models", "profile"}

LEMMA RowsOfModel ==
    ASSUME NEW m \in Models, NEW to \in References, NEW members \in SUBSET Endpoints
    PROVE  members \cup {to.impact, to.policy, m} \in SUBSET RowIds
  BY ModelsKept DEF RowIds

\* Requests that create or edit a model, or give it a policy, as they begin.
CreatesModel(q, m, to, members) ==
    /\ q.op = "create model" /\ q.on = m /\ q.wanted = to
    /\ q.members = members
    /\ q.rows = members \cup {to.impact, to.policy, m}

PatchesModel(q, m, to, members, pooled) ==
    /\ q.op = "patch model" /\ q.on = m
    /\ q.read = model[m] /\ q.read \in References /\ q.wanted = to
    /\ q.members = members /\ q.pooled = pooled /\ q.seen = pool[m]
    /\ q.rows = members \cup {to.impact, to.policy, m}

ActivatesPolicy(q, m, p) ==
    /\ q.op = "activate policy" /\ q.on = m
    /\ q.read = model[m] /\ q.read \in References
    /\ q.wanted = [model[m] EXCEPT !.policy = p]
    /\ q.wanted \in References /\ q.wanted.policy = p
    /\ q.rows = pool[m] \cup {p, m}

\* The request that each opening puts under way.
LEMMA PatchOpens ==
    ASSUME TypeOK, NEW t \in Transactions, NEW e \in Endpoints,
           NEW enabled \in BOOLEAN, NEW frontier \in BOOLEAN,
           PatchEndpoint(t, e, enabled, frontier)
    PROVE  \E q \in Tx : Begin(t, q) /\ q.op = "patch endpoint" /\ q.on = e
<1> DEFINE new == [endpoint[e] EXCEPT !.enabled = enabled, !.frontier = frontier]
           q == [Idle EXCEPT !.op = "patch endpoint", !.on = e, !.was = endpoint[e],
                             !.new = new, !.rows = {e}]
<1>1. endpoint[e] \in Endpoint /\ new \in Endpoint
  BY DEF TypeOK, Endpoint
<1>2. Begin(t, q)
  BY DEF PatchEndpoint
<1> HIDE DEF new
<1>3. q \in Tx /\ q.op = "patch endpoint" /\ q.on = e
  BY <1>1, IdleType DEF Tx, Operations
<1> QED BY <1>2, <1>3

LEMMA DeleteOpens ==
    ASSUME TypeOK, NEW t \in Transactions, NEW e \in Endpoints, DeleteEndpoint(t, e)
    PROVE  \E q \in Tx : /\ Begin(t, q) /\ q.op = "delete endpoint" /\ q.on = e
                         /\ q.rows = {e, "models"}
<1> DEFINE q == [Idle EXCEPT !.op = "delete endpoint", !.on = e, !.was = endpoint[e],
                             !.rows = {e, "models"}]
<1>1. endpoint[e] \in Endpoint
  BY DEF TypeOK
<1>2. Begin(t, q)
  BY DEF DeleteEndpoint
<1>3. q \in Tx /\ q.op = "delete endpoint" /\ q.on = e /\ q.rows = {e, "models"}
  BY <1>1, IdleType DEF Tx, Operations
<1> QED BY <1>2, <1>3

LEMMA ModelOpens ==
    ASSUME TypeOK, NEW t \in Transactions, NEW m \in Models, NEW to \in References,
           NEW members \in SUBSET Endpoints, CreateModel(t, m, to, members)
    PROVE  \E q \in Tx : Begin(t, q) /\ CreatesModel(q, m, to, members)
<1> DEFINE ids == members \cup {to.impact, to.policy, m}
           q == [Idle EXCEPT !.op = "create model", !.on = m, !.wanted = to,
                             !.members = members, !.rows = ids]
<1>1. ids \in SUBSET RowIds
  BY RowsOfModel
<1>2. Begin(t, q)
  BY DEF CreateModel
<1> HIDE DEF ids
<1>3. /\ q \in Tx /\ q.op = "create model" /\ q.on = m /\ q.wanted = to
      /\ q.members = members /\ q.rows = ids
  BY <1>1, IdleType DEF Tx, Operations, RowIds
<1> HIDE DEF q
<1>4. CreatesModel(q, m, to, members)
  BY <1>3 DEF ids, CreatesModel
<1> QED BY <1>2, <1>3, <1>4

LEMMA ModelPatchOpens ==
    ASSUME TypeOK, NEW t \in Transactions, NEW m \in Models, NEW to \in References,
           NEW members \in SUBSET Endpoints, NEW pooled \in BOOLEAN,
           PatchModel(t, m, to, members, pooled)
    PROVE  \E q \in Tx : Begin(t, q) /\ PatchesModel(q, m, to, members, pooled)
<1> DEFINE ids == members \cup {to.impact, to.policy, m}
           q == [Idle EXCEPT !.op = "patch model", !.on = m, !.read = model[m], !.wanted = to,
                             !.members = members, !.pooled = pooled, !.seen = pool[m],
                             !.rows = ids]
<1>1. ids \in SUBSET RowIds
  BY RowsOfModel
<1>2. model[m] \in References /\ pool[m] \in SUBSET Endpoints
  BY ReadModel DEF PatchModel, TypeOK
<1>3. Begin(t, q)
  BY DEF PatchModel
<1> HIDE DEF ids
<1>4. /\ q \in Tx /\ q.op = "patch model" /\ q.on = m /\ q.read = model[m] /\ q.wanted = to
      /\ q.members = members /\ q.pooled = pooled /\ q.seen = pool[m] /\ q.rows = ids
  BY <1>1, <1>2, IdleType DEF Tx, Operations, RowIds
<1> HIDE DEF q
<1>5. PatchesModel(q, m, to, members, pooled)
  BY <1>2, <1>4 DEF ids, PatchesModel
<1> QED BY <1>3, <1>4, <1>5

LEMMA ActivationOpens ==
    ASSUME TypeOK, NEW t \in Transactions, NEW m \in Models, NEW p \in Policies,
           ActivatePolicy(t, m, p)
    PROVE  \E q \in Tx : Begin(t, q) /\ ActivatesPolicy(q, m, p)
<1> DEFINE to == [model[m] EXCEPT !.policy = p]
           q == [Idle EXCEPT !.op = "activate policy", !.on = m, !.read = model[m],
                             !.wanted = to, !.rows = pool[m] \cup {p, m}]
<1>1. model[m] \in References /\ pool[m] \in SUBSET Endpoints
  BY ReadModel DEF ActivatePolicy, TypeOK
<1>2. to \in References /\ to.policy = p
  BY <1>1 DEF References
<1>3. Begin(t, q)
  BY DEF ActivatePolicy
<1> HIDE DEF to
<1>4. /\ q \in Tx /\ q.op = "activate policy" /\ q.on = m /\ q.read = model[m]
      /\ q.wanted = to /\ q.rows = pool[m] \cup {p, m}
  BY <1>1, <1>2, IdleType DEF Tx, Operations
<1> HIDE DEF q
<1>5. q.wanted \in References /\ q.wanted.policy = p
  BY <1>2, <1>4
<1>6. ActivatesPolicy(q, m, p)
  BY <1>1, <1>4, <1>5 DEF to, ActivatesPolicy
<1> QED BY <1>3, <1>4, <1>6

\* The namespaces that an edit of the profile decides on.
Raised(p) == IF Users(p) = {} THEN 0 ELSE namespace[p] + Cardinality(Users(p))

LEMMA EditOpens ==
    ASSUME TypeOK, NEW t \in Transactions, EditProfile(t)
    PROVE  \E q \in Tx : /\ Begin(t, q) /\ q.op = "edit profile"
                         /\ q.spaces = [p \in Policies |-> Raised(p)]
                         /\ {"profile", "models"} \subseteq q.rows
<1> DEFINE spaces == [p \in Policies |-> Raised(p)]
           ps == {p \in Policies : Users(p) # {}}
           q == [Idle EXCEPT !.op = "edit profile", !.spaces = spaces,
                             !.rows = {"profile", "models"} \cup ps]
<1>1. spaces \in [Policies -> Nat]
  <2>1. \A p \in Policies : Raised(p) \in Nat
    BY UsersAreCounted DEF TypeOK, Raised
  <2> QED BY <2>1
<1>2. Begin(t, q)
  BY DEF EditProfile, Raised
<1>3. ps \subseteq Policies
  OBVIOUS
<1> HIDE DEF spaces, ps
<1>4. /\ q \in Tx /\ q.op = "edit profile" /\ q.spaces = spaces
      /\ q.rows = {"profile", "models"} \cup ps
  BY <1>1, <1>3, IdleType DEF Tx, Operations
<1> HIDE DEF q
<1> QED BY <1>2, <1>4 DEF spaces

LEMMA AnswerOpens ==
    ASSUME TypeOK, NEW t \in Transactions, NEW m \in Models, Load(t, m)
    PROVE  \E q \in Tx : /\ Begin(t, q) /\ q.op = "answer" /\ q.on = m /\ q.content = edits
                         /\ \A p \in Policies :
                               q.spaces[p] = IF p = model[m].policy THEN namespace[p] ELSE 0
<1> DEFINE spaces == [p \in Policies |-> IF p = model[m].policy THEN namespace[p] ELSE 0]
           q == [Idle EXCEPT !.op = "answer", !.on = m, !.content = edits, !.spaces = spaces]
<1>1. spaces \in [Policies -> Nat] /\ edits \in Nat
  BY DEF TypeOK
<1>2. Begin(t, q)
  BY DEF Load
<1> HIDE DEF spaces
<1>3. q \in Tx /\ q.op = "answer" /\ q.on = m /\ q.content = edits /\ q.spaces = spaces
  BY <1>1, IdleType DEF Tx, Operations
<1> HIDE DEF q
<1> QED BY <1>2, <1>3 DEF spaces

LEMMA OpenBegins ==
    ASSUME TypeOK, NEW t \in Transactions, Open(t)
    PROVE  \E q \in Tx : Begin(t, q)
<1>1. ASSUME NEW e \in Endpoints, NEW enabled \in BOOLEAN, NEW frontier \in BOOLEAN,
             PatchEndpoint(t, e, enabled, frontier)
      PROVE  \E q \in Tx : Begin(t, q)
  BY <1>1, PatchOpens
<1>2. ASSUME NEW e \in Endpoints, DeleteEndpoint(t, e)
      PROVE  \E q \in Tx : Begin(t, q)
  BY <1>2, DeleteOpens
<1>3. ASSUME NEW m \in Models, NEW to \in References, NEW members \in SUBSET Endpoints,
             CreateModel(t, m, to, members)
      PROVE  \E q \in Tx : Begin(t, q)
  BY <1>3, ModelOpens
<1>4. ASSUME NEW m \in Models, NEW to \in References, NEW members \in SUBSET Endpoints,
             NEW pooled \in BOOLEAN, PatchModel(t, m, to, members, pooled)
      PROVE  \E q \in Tx : Begin(t, q)
  BY <1>4, ModelPatchOpens
<1>5. ASSUME NEW m \in Models, NEW p \in Policies, ActivatePolicy(t, m, p)
      PROVE  \E q \in Tx : Begin(t, q)
  BY <1>5, ActivationOpens
<1>6. ASSUME EditProfile(t)
      PROVE  \E q \in Tx : Begin(t, q)
  BY <1>6, EditOpens
<1>7. ASSUME NEW m \in Models, Load(t, m)
      PROVE  \E q \in Tx : Begin(t, q)
  BY <1>7, AnswerOpens
<1> QED BY <1>1, <1>2, <1>3, <1>4, <1>5, <1>6, <1>7 DEF Open

LEMMA WrittenIs ==
    ASSUME NEW now, NEW read, NEW new
    PROVE  /\ Written(now, read, new) \in {now, new}
           /\ now = read => Written(now, read, new) = new
  BY DEF Written

\* What commits make of the rows they write.
LEMMA EndpointPatched ==
    ASSUME TypeOK, NEW t \in Transactions, CommitPatch(t)
    PROVE  /\ endpoint' \in [Endpoints -> Endpoint]
           /\ Live' = Live
<1> DEFINE q == tx[t]
           on == Written(endpoint[q.on].enabled, q.was.enabled, q.new.enabled)
           front == Written(endpoint[q.on].frontier, q.was.frontier, q.new.frontier)
<1>1. q \in Tx
  BY DEF TypeOK
<1>2. q.was \in Endpoint /\ q.new \in Endpoint
  BY <1>1 DEF Tx
<1> HIDE DEF q
<1>3. ASSUME q.on \in Endpoints
      PROVE  on \in BOOLEAN /\ front \in BOOLEAN
  <2>1. endpoint[q.on] \in Endpoint
    BY <1>3 DEF TypeOK
  <2> QED BY <1>2, <2>1 DEF Written, Endpoint
<1>4. endpoint' = [endpoint EXCEPT ![q.on].enabled = on, ![q.on].frontier = front]
  BY DEF CommitPatch, q
<1> HIDE DEF on, front
<1>5. ASSUME NEW e \in Endpoints
      PROVE  /\ endpoint'[e] \in Endpoint
             /\ endpoint'[e].exists = endpoint[e].exists
             /\ endpoint'[e].deleted = endpoint[e].deleted
  <2>1. endpoint[e] \in Endpoint
    BY DEF TypeOK
  <2>2. CASE e = q.on
    <3>1. endpoint'[e] = [endpoint[e] EXCEPT !.enabled = on, !.frontier = front]
      BY <1>4, <2>2 DEF TypeOK
    <3> QED BY <1>3, <2>1, <2>2, <3>1 DEF Endpoint
  <2>3. CASE e # q.on
    <3>1. endpoint'[e] = endpoint[e]
      BY <1>4, <2>3 DEF TypeOK
    <3> QED BY <2>1, <3>1
  <2> QED BY <2>2, <2>3
<1>6. endpoint' = [e \in Endpoints |-> endpoint'[e]]
  BY <1>4 DEF TypeOK
<1> QED BY <1>5, <1>6 DEF Live

LEMMA EndpointDeleted ==
    ASSUME TypeOK, NEW t \in Transactions, CommitDelete(t)
    PROVE  /\ endpoint' \in [Endpoints -> Endpoint]
           /\ Live' = Live \ {tx[t].on}
<1> DEFINE q == tx[t]
           on == Written(endpoint[q.on].enabled, q.was.enabled, FALSE)
<1>1. q \in Tx
  BY DEF TypeOK
<1>2. q.was \in Endpoint
  BY <1>1 DEF Tx
<1> HIDE DEF q
<1>3. ASSUME q.on \in Endpoints
      PROVE  on \in BOOLEAN
  <2>1. endpoint[q.on] \in Endpoint
    BY <1>3 DEF TypeOK
  <2> QED BY <1>2, <2>1 DEF Written, Endpoint
<1>4. endpoint' = [endpoint EXCEPT ![q.on].deleted = TRUE, ![q.on].enabled = on]
  BY DEF CommitDelete, q
<1> HIDE DEF on
<1>5. ASSUME NEW e \in Endpoints
      PROVE  /\ endpoint'[e] \in Endpoint
             /\ endpoint'[e].exists = endpoint[e].exists
             /\ endpoint'[e].deleted = (endpoint[e].deleted \/ e = q.on)
  <2>1. endpoint[e] \in Endpoint
    BY DEF TypeOK
  <2>2. CASE e = q.on
    <3>1. endpoint'[e] = [endpoint[e] EXCEPT !.deleted = TRUE, !.enabled = on]
      BY <1>4, <2>2 DEF TypeOK
    <3> QED BY <1>3, <2>1, <2>2, <3>1 DEF Endpoint
  <2>3. CASE e # q.on
    <3>1. endpoint'[e] = endpoint[e]
      BY <1>4, <2>3 DEF TypeOK
    <3> QED BY <2>1, <2>3, <3>1 DEF Endpoint
  <2> QED BY <2>2, <2>3
<1>6. endpoint' = [e \in Endpoints |-> endpoint'[e]]
  BY <1>4 DEF TypeOK
<1> QED BY <1>5, <1>6 DEF Live, q

LEMMA EndpointCreated ==
    ASSUME TypeOK, NEW e \in Endpoints, NEW enabled \in BOOLEAN, NEW frontier \in BOOLEAN,
           CreateEndpoint(e, enabled, frontier)
    PROVE  /\ endpoint' \in [Endpoints -> Endpoint]
           /\ Live \subseteq Live'
<1>1. [exists |-> TRUE, deleted |-> FALSE, enabled |-> enabled, frontier |-> frontier] \in Endpoint
  BY DEF Endpoint
<1>2. endpoint' \in [Endpoints -> Endpoint]
  BY <1>1 DEF CreateEndpoint, TypeOK
<1>3. \A x \in Endpoints : endpoint[x].exists => endpoint'[x] = endpoint[x]
  BY DEF CreateEndpoint, TypeOK
<1> QED BY <1>2, <1>3 DEF Live

LEMMA ModelCreated ==
    ASSUME Typed, NEW t \in Transactions, CommitModel(t)
    PROVE  LET q == tx[t] IN
           /\ model' \in [Models -> References \cup {NoModel}]
           /\ pool' \in [Models -> SUBSET Endpoints]
           /\ q.on \in Models \ Present
           /\ model'[q.on] = q.wanted /\ pool'[q.on] = q.members
           /\ \A m \in Models \ {q.on} : model'[m] = model[m] /\ pool'[m] = pool[m]
           /\ Present' = Present \cup {q.on}
<1> DEFINE q == tx[t]
<1>1. q \in Tx /\ q.on \in Models /\ q.wanted \in References
  BY DEF Typed, TypeOK, Asked, CommitModel
<1>2. q.members \in SUBSET Endpoints
  BY <1>1 DEF Tx
<1>3. q.wanted # NoModel
  BY <1>1, ModelsKept
<1>4. /\ q.on \notin Present
      /\ model' = [model EXCEPT ![q.on] = q.wanted]
      /\ pool' = [pool EXCEPT ![q.on] = q.members]
  BY DEF CommitModel
<1> HIDE DEF q
<1>5. /\ model' \in [Models -> References \cup {NoModel}]
      /\ pool' \in [Models -> SUBSET Endpoints]
      /\ model'[q.on] = q.wanted /\ pool'[q.on] = q.members
      /\ \A m \in Models \ {q.on} : model'[m] = model[m] /\ pool'[m] = pool[m]
  BY <1>1, <1>2, <1>4 DEF Typed, TypeOK
<1> QED BY <1>1, <1>3, <1>4, <1>5 DEF Present, q

LEMMA ModelPatched ==
    ASSUME Typed, NEW t \in Transactions, NEW deleted \in SUBSET Endpoints,
           CommitModelPatch(t, deleted)
    PROVE  LET q == tx[t]
               m == q.on
           IN
           /\ model' \in [Models -> References \cup {NoModel}]
           /\ pool' \in [Models -> SUBSET Endpoints]
           /\ m \in Present
           /\ model'[m] \in References
           /\ model'[m].policy = model[m].policy
           /\ model'[m].baseline = Written(model[m].baseline, q.read.baseline, q.wanted.baseline)
           /\ model'[m].fallback = Written(model[m].fallback, q.read.fallback, q.wanted.fallback)
           /\ model'[m].impact = Written(model[m].impact, q.read.impact, q.wanted.impact)
           /\ pool'[m] = IF q.pooled THEN (pool[m] \ deleted) \cup q.members ELSE pool[m]
           /\ \A n \in Models \ {m} : model'[n] = model[n] /\ pool'[n] = pool[n]
           /\ Present' = Present
<1> DEFINE q == tx[t]
           m == q.on
           b == Written(model[m].baseline, q.read.baseline, q.wanted.baseline)
           f == Written(model[m].fallback, q.read.fallback, q.wanted.fallback)
           i == Written(model[m].impact, q.read.impact, q.wanted.impact)
<1>1. /\ q \in Tx /\ m \in Present /\ q.read \in References /\ q.wanted \in References
  BY DEF Typed, TypeOK, Asked, CommitModelPatch
<1>2. q.members \in SUBSET Endpoints
  BY <1>1 DEF Tx
<1>3. m \in Models /\ model[m] \in References
  BY <1>1, ReadModel DEF Typed
<1>4. /\ model' = [model EXCEPT ![m].baseline = b, ![m].fallback = f, ![m].impact = i]
      /\ pool' = IF q.pooled THEN [pool EXCEPT ![m] = (@ \ deleted) \cup q.members] ELSE pool
  BY DEF CommitModelPatch
<1>5. b \in Endpoints /\ f \in Endpoints /\ i \in Endpoints
  BY <1>1, <1>3, ModelsKept, WrittenIs
<1> HIDE DEF q, m, b, f, i
<1>6. model'[m] = [model[m] EXCEPT !.baseline = b, !.fallback = f, !.impact = i]
  BY <1>3, <1>4 DEF Typed, TypeOK
<1>7. /\ model'[m] \in References
      /\ model'[m].policy = model[m].policy
      /\ model'[m].baseline = b /\ model'[m].fallback = f /\ model'[m].impact = i
  BY <1>3, <1>5, <1>6 DEF References
<1>8. \A n \in Models \ {m} : model'[n] = model[n]
  BY <1>4 DEF Typed, TypeOK
<1>9. model' = [n \in Models |-> model'[n]]
  BY <1>4 DEF Typed, TypeOK
<1>10. model' \in [Models -> References \cup {NoModel}]
  <2>1. \A n \in Models : model[n] \in References \cup {NoModel}
    BY DEF Typed, TypeOK
  <2> QED BY <1>7, <1>8, <1>9, <2>1
<1>11. Present' = Present
  <2>1. model'[m] # NoModel
    BY <1>7, ModelsKept
  <2> QED BY <1>1, <1>3, <1>8, <2>1 DEF Present
<1>12. /\ pool' \in [Models -> SUBSET Endpoints]
       /\ pool'[m] = IF q.pooled THEN (pool[m] \ deleted) \cup q.members ELSE pool[m]
       /\ \A n \in Models \ {m} : pool'[n] = pool[n]
  <2>1. pool[m] \in SUBSET Endpoints
    BY <1>3 DEF Typed, TypeOK
  <2> QED BY <1>2, <1>3, <1>4, <2>1 DEF Typed, TypeOK
<1> QED BY <1>1, <1>7, <1>8, <1>10, <1>11, <1>12 DEF q, m, b, f, i

LEMMA PolicyActivated ==
    ASSUME Typed, NEW t \in Transactions, CommitActivation(t)
    PROVE  LET q == tx[t]
               m == q.on
           IN
           /\ model' \in [Models -> References \cup {NoModel}]
           /\ m \in Present
           /\ model'[m] \in References
           /\ model'[m].policy = Written(model[m].policy, q.read.policy, q.wanted.policy)
           /\ model'[m].baseline = model[m].baseline
           /\ model'[m].fallback = model[m].fallback
           /\ model'[m].impact = model[m].impact
           /\ \A n \in Models \ {m} : model'[n] = model[n]
           /\ Present' = Present
<1> DEFINE q == tx[t]
           m == q.on
           p == Written(model[m].policy, q.read.policy, q.wanted.policy)
<1>1. q \in Tx /\ m \in Present /\ q.wanted \in References
  BY DEF Typed, TypeOK, Asked, CommitActivation
<1>2. m \in Models /\ model[m] \in References
  BY <1>1, ReadModel DEF Typed
<1>3. model' = [model EXCEPT ![m].policy = p]
  BY DEF CommitActivation
<1>4. p \in Policies
  BY <1>1, <1>2, ModelsKept, WrittenIs
<1> HIDE DEF q, m, p
<1>5. model'[m] = [model[m] EXCEPT !.policy = p]
  BY <1>2, <1>3 DEF Typed, TypeOK
<1>6. /\ model'[m] \in References
      /\ model'[m].policy = p
      /\ model'[m].baseline = model[m].baseline
      /\ model'[m].fallback = model[m].fallback
      /\ model'[m].impact = model[m].impact
  BY <1>2, <1>4, <1>5 DEF References
<1>7. \A n \in Models \ {m} : model'[n] = model[n]
  BY <1>3 DEF Typed, TypeOK
<1>8. model' = [n \in Models |-> model'[n]]
  BY <1>3 DEF Typed, TypeOK
<1>9. model' \in [Models -> References \cup {NoModel}]
  <2>1. \A n \in Models : model[n] \in References \cup {NoModel}
    BY DEF Typed, TypeOK
  <2> QED BY <1>6, <1>7, <1>8, <2>1
<1>10. Present' = Present
  <2>1. model'[m] # NoModel
    BY <1>6, ModelsKept
  <2> QED BY <1>1, <1>2, <1>7, <2>1 DEF Present
<1> QED BY <1>1, <1>6, <1>7, <1>9, <1>10 DEF q, m, p

LEMMA TypedInit == Init => Typed
<1> SUFFICES ASSUME Init
             PROVE  Typed
  OBVIOUS
<1>1. endpoint \in [Endpoints -> Endpoint]
  <2>1. [NoEndpoint EXCEPT !.exists = TRUE, !.enabled = TRUE, !.frontier = TRUE] \in Endpoint
    BY DEF NoEndpoint, Endpoint
  <2>2. NoEndpoint \in Endpoint
    BY DEF NoEndpoint, Endpoint
  <2> QED BY <2>1, <2>2 DEF Init
<1>2. /\ started \in 0..MaxStarted /\ edits \in 0..MaxEdits
      /\ namespace \in [Policies -> Nat]
  BY CatalogAssumption DEF Init
<1>3. /\ model \in [Models -> References \cup {NoModel}]
      /\ pool \in [Models -> SUBSET Endpoints]
      /\ Present = {}
  BY DEF Init, Present
<1>4. tx \in [Transactions -> Tx] /\ \A t \in Transactions : Asked(tx[t])
  BY IdleType DEF Init
<1> QED BY <1>1, <1>2, <1>3, <1>4 DEF Init, Typed, TypeOK

\* A request that opens leaves the rows alone, and is typed itself.
LEMMA TypedOpens ==
    ASSUME Typed, NEW t \in Transactions, NEW q \in Tx, Begin(t, q), Asked(q),
           started < MaxStarted
    PROVE  Typed'
<1>1. /\ tx' \in [Transactions -> Tx]
      /\ tx'[t] = q
      /\ \A u \in Transactions \ {t} : tx'[u] = tx[u]
      /\ started' = started + 1
      /\ UNCHANGED <<endpoint, model, pool, namespace, edits, answers, overtaken, back>>
  BY BeginIs DEF Typed, TypeOK
<1>2. started' \in 0..MaxStarted
  BY <1>1, CatalogAssumption DEF Typed, TypeOK
<1>3. TypeOK'
  BY <1>1, <1>2 DEF Typed, TypeOK
<1>4. Present' = Present /\ Known' = Known
  BY <1>1 DEF Present, Known
<1>5. ASSUME NEW u \in Transactions
      PROVE  Asked(tx[u])'
  <2>1. Asked(tx'[u])
    BY <1>1 DEF Typed
  <2> QED BY <1>1, <1>4, <2>1 DEF Asked
<1> QED BY <1>1, <1>3, <1>4, <1>5 DEF Typed

\* A request that commits leaves the others as they are, but behind.
LEMMA TypedCommits ==
    ASSUME Typed, NEW t \in Transactions, NEW written, Commit(t, written),
           Present \subseteq Present', Known \subseteq Known'
    PROVE  /\ tx' \in [Transactions -> Tx]
           /\ \A u \in Transactions : Asked(tx[u])'
           /\ started' \in 0..MaxStarted
           /\ overtaken' \in BOOLEAN
<1>1. tx \in [Transactions -> Tx]
  BY DEF Typed, TypeOK
<1>2. /\ tx' \in [Transactions -> Tx]
      /\ tx'[t] = Idle
      /\ \A u \in Transactions \ {t} : Same(tx'[u], tx[u])
      /\ started' = started
      /\ overtaken' = (overtaken \/ tx[t].behind)
  BY <1>1, CommitIs
<1>3. Asked(tx[t])'
  BY <1>2, IdleType DEF Asked
<1>4. \A u \in Transactions \ {t} : Asked(tx[u])'
  BY <1>2, AskedGrows DEF Typed
<1>5. overtaken' \in BOOLEAN
  BY <1>2
<1> QED BY <1>2, <1>3, <1>4, <1>5 DEF Typed, TypeOK

LEMMA TypedOpen ==
    ASSUME Typed, NEW t \in Transactions, Open(t)
    PROVE  Typed'
<1>0. TypeOK /\ started < MaxStarted
  BY DEF Typed, Open
<1>1. ASSUME NEW e \in Endpoints, NEW enabled \in BOOLEAN, NEW frontier \in BOOLEAN,
             PatchEndpoint(t, e, enabled, frontier)
      PROVE  Typed'
  <2>1. PICK q \in Tx : Begin(t, q) /\ q.op = "patch endpoint" /\ q.on = e
    BY <1>0, <1>1, PatchOpens
  <2>2. Asked(q)
    BY <2>1 DEF Asked
  <2> QED BY <1>0, <2>1, <2>2, TypedOpens
<1>2. ASSUME NEW e \in Endpoints, DeleteEndpoint(t, e)
      PROVE  Typed'
  <2>1. PICK q \in Tx : Begin(t, q) /\ q.op = "delete endpoint" /\ q.on = e
    BY <1>0, <1>2, DeleteOpens
  <2>2. Asked(q)
    BY <2>1 DEF Asked
  <2> QED BY <1>0, <2>1, <2>2, TypedOpens
<1>3. ASSUME NEW m \in Models, NEW to \in References, NEW members \in SUBSET Endpoints,
             CreateModel(t, m, to, members)
      PROVE  Typed'
  <2>1. PICK q \in Tx : Begin(t, q) /\ CreatesModel(q, m, to, members)
    BY <1>0, <1>3, ModelOpens
  <2>2. Asked(q)
    BY <1>3, <2>1 DEF Asked, CreatesModel, CreateModel, Fits
  <2> QED BY <1>0, <2>1, <2>2, TypedOpens
<1>4. ASSUME NEW m \in Models, NEW to \in References, NEW members \in SUBSET Endpoints,
             NEW pooled \in BOOLEAN, PatchModel(t, m, to, members, pooled)
      PROVE  Typed'
  <2>1. PICK q \in Tx : Begin(t, q) /\ PatchesModel(q, m, to, members, pooled)
    BY <1>0, <1>4, ModelPatchOpens
  <2>2. Asked(q)
    BY <1>4, <2>1 DEF Asked, PatchesModel, PatchModel, Fits
  <2> QED BY <1>0, <2>1, <2>2, TypedOpens
<1>5. ASSUME NEW m \in Models, NEW p \in Policies, ActivatePolicy(t, m, p)
      PROVE  Typed'
  <2>1. PICK q \in Tx : Begin(t, q) /\ ActivatesPolicy(q, m, p)
    BY <1>0, <1>5, ActivationOpens
  <2>2. q.wanted.policy \in Known
    BY <1>5, <2>1 DEF ActivatePolicy, ActivatesPolicy, Fits
  <2>3. Asked(q)
    BY <1>5, <2>1, <2>2 DEF Asked, ActivatePolicy, ActivatesPolicy
  <2> QED BY <1>0, <2>1, <2>3, TypedOpens
<1>6. ASSUME EditProfile(t)
      PROVE  Typed'
  <2>1. PICK q \in Tx : Begin(t, q) /\ q.op = "edit profile"
    BY <1>0, <1>6, EditOpens
  <2>2. Asked(q)
    BY <2>1 DEF Asked
  <2> QED BY <1>0, <2>1, <2>2, TypedOpens
<1>7. ASSUME NEW m \in Models, Load(t, m)
      PROVE  Typed'
  <2>1. PICK q \in Tx : Begin(t, q) /\ q.op = "answer" /\ q.on = m /\ q.content = edits
    BY <1>0, <1>7, AnswerOpens
  <2>2. Asked(q)
    BY <1>0, <1>7, <2>1 DEF Asked, Load, TypeOK
  <2> QED BY <1>0, <2>1, <2>2, TypedOpens
<1> QED BY <1>1, <1>2, <1>3, <1>4, <1>5, <1>6, <1>7 DEF Open

LEMMA TypedClose ==
    ASSUME Typed, NEW t \in Transactions, Close(t)
    PROVE  Typed'
<1>0. TypeOK /\ tx[t] \in Tx /\ Asked(tx[t])
  BY DEF Typed, TypeOK
<1>1. ASSUME CommitPatch(t)
      PROVE  Typed'
  <2>1. Present' = Present /\ Known' = Known
    BY <1>1 DEF CommitPatch, Present, Known
  <2>2. /\ tx' \in [Transactions -> Tx]
        /\ \A u \in Transactions : Asked(tx[u])'
        /\ started' \in 0..MaxStarted
        /\ overtaken' \in BOOLEAN
    BY <1>1, <2>1, TypedCommits DEF CommitPatch
  <2>3. endpoint' \in [Endpoints -> Endpoint]
    BY <1>0, <1>1, EndpointPatched
  <2> QED BY <1>1, <2>1, <2>2, <2>3 DEF CommitPatch, Typed, TypeOK
<1>2. ASSUME CommitDelete(t)
      PROVE  Typed'
  <2>1. Present' = Present /\ Known' = Known
    BY <1>2 DEF CommitDelete, Present, Known
  <2>2. /\ tx' \in [Transactions -> Tx]
        /\ \A u \in Transactions : Asked(tx[u])'
        /\ started' \in 0..MaxStarted
        /\ overtaken' \in BOOLEAN
    BY <1>2, <2>1, TypedCommits DEF CommitDelete
  <2>3. endpoint' \in [Endpoints -> Endpoint]
    BY <1>0, <1>2, EndpointDeleted
  <2> QED BY <1>2, <2>1, <2>2, <2>3 DEF CommitDelete, Typed, TypeOK
<1>3. ASSUME CommitModel(t)
      PROVE  Typed'
  <2> DEFINE q == tx[t]
  <2>1. Known' = Known /\ q.wanted.policy \in Known
    BY <1>0, <1>3 DEF CommitModel, Known, Asked
  <2>2. /\ model' \in [Models -> References \cup {NoModel}]
        /\ pool' \in [Models -> SUBSET Endpoints]
        /\ model'[q.on] = q.wanted
        /\ \A m \in Models \ {q.on} : model'[m] = model[m]
        /\ Present' = Present \cup {q.on}
    BY <1>3, ModelCreated
  <2>3. /\ tx' \in [Transactions -> Tx]
        /\ \A u \in Transactions : Asked(tx[u])'
        /\ started' \in 0..MaxStarted
        /\ overtaken' \in BOOLEAN
    BY <1>3, <2>1, <2>2, TypedCommits DEF CommitModel
  <2>4. \A m \in Present' : model'[m].policy \in Known'
    BY <2>1, <2>2 DEF Typed, Present
  <2>5. TypeOK'
    BY <1>0, <1>3, <2>2, <2>3 DEF CommitModel, TypeOK
  <2> QED BY <2>3, <2>4, <2>5 DEF Typed
<1>4. ASSUME NEW deleted \in SUBSET Endpoints, CommitModelPatch(t, deleted)
      PROVE  Typed'
  <2> DEFINE q == tx[t]
  <2>1. Known' = Known
    BY <1>4 DEF CommitModelPatch, Known
  <2>2. /\ model' \in [Models -> References \cup {NoModel}]
        /\ pool' \in [Models -> SUBSET Endpoints]
        /\ model'[q.on].policy = model[q.on].policy
        /\ \A n \in Models \ {q.on} : model'[n] = model[n]
        /\ Present' = Present
    BY <1>4, ModelPatched
  <2>3. /\ tx' \in [Transactions -> Tx]
        /\ \A u \in Transactions : Asked(tx[u])'
        /\ started' \in 0..MaxStarted
        /\ overtaken' \in BOOLEAN
    BY <1>4, <2>1, <2>2, TypedCommits DEF CommitModelPatch
  <2>4. \A m \in Present' : model'[m].policy \in Known'
    BY <2>1, <2>2 DEF Typed, Present
  <2>5. TypeOK'
    BY <1>0, <1>4, <2>2, <2>3 DEF CommitModelPatch, TypeOK
  <2> QED BY <2>3, <2>4, <2>5 DEF Typed
<1>5. ASSUME CommitActivation(t)
      PROVE  Typed'
  <2> DEFINE q == tx[t]
  <2>1. Known' = Known
    BY <1>5 DEF CommitActivation, Known
  <2>2. /\ model' \in [Models -> References \cup {NoModel}]
        /\ q.on \in Present
        /\ model'[q.on].policy = Written(model[q.on].policy, q.read.policy, q.wanted.policy)
        /\ \A n \in Models \ {q.on} : model'[n] = model[n]
        /\ Present' = Present
    BY <1>5, PolicyActivated
  <2>3. /\ tx' \in [Transactions -> Tx]
        /\ \A u \in Transactions : Asked(tx[u])'
        /\ started' \in 0..MaxStarted
        /\ overtaken' \in BOOLEAN
    BY <1>5, <2>1, <2>2, TypedCommits DEF CommitActivation
  <2>4. model'[q.on].policy \in Known
    <3>1. /\ model[q.on].policy \in Known
          /\ q.wanted.policy \in Known
      BY <1>0, <1>5, <2>2 DEF Typed, Asked, CommitActivation
    <3> QED BY <2>2, <3>1, WrittenIs
  <2>5. \A m \in Present' : model'[m].policy \in Known'
    BY <2>1, <2>2, <2>4 DEF Typed, Present
  <2>6. back' \subseteq Models
    BY <1>0, <1>5, <2>2 DEF CommitActivation, TypeOK, Present
  <2>7. TypeOK'
    BY <1>0, <1>5, <2>2, <2>3, <2>6 DEF CommitActivation, TypeOK
  <2> QED BY <2>3, <2>5, <2>7 DEF Typed
<1>6. ASSUME CommitEdit(t)
      PROVE  Typed'
  <2> DEFINE q == tx[t]
  <2>1. q.spaces \in [Policies -> Nat]
    BY <1>0 DEF Tx
  <2>2. /\ namespace' = [p \in Policies |-> IF q.spaces[p] = 0 THEN namespace[p] ELSE q.spaces[p]]
        /\ edits < MaxEdits /\ edits' = edits + 1
        /\ model' = model
    BY <1>6 DEF CommitEdit
  <2> HIDE DEF q
  <2>3. /\ namespace' \in [Policies -> Nat] /\ edits' \in 0..MaxEdits
        /\ Known \subseteq Known' /\ Present' = Present
    BY <1>0, <2>1, <2>2, CatalogAssumption DEF TypeOK, Known, Present
  <2>4. /\ tx' \in [Transactions -> Tx]
        /\ \A u \in Transactions : Asked(tx[u])'
        /\ started' \in 0..MaxStarted
        /\ overtaken' \in BOOLEAN
    BY <1>6, <2>3, TypedCommits DEF CommitEdit
  <2>5. TypeOK'
    BY <1>0, <1>6, <2>3, <2>4 DEF CommitEdit, TypeOK
  <2> QED BY <1>6, <2>3, <2>4, <2>5 DEF CommitEdit, Typed
<1>7. ASSUME NEW p \in Policies, Store(t, p)
      PROVE  Typed'
  <2> DEFINE q == tx[t]
             a == [model |-> q.on, namespace |-> q.spaces[p], content |-> q.content]
  <2>1. Present' = Present /\ Known' = Known
    BY <1>7 DEF Store, Present, Known
  <2>2. /\ tx' \in [Transactions -> Tx]
        /\ \A u \in Transactions : Asked(tx[u])'
        /\ started' \in 0..MaxStarted
        /\ overtaken' \in BOOLEAN
    BY <1>7, <2>1, TypedCommits DEF Store
  <2>3. q.on \in Models /\ q.spaces[p] \in Nat /\ q.content \in 0..MaxEdits
    BY <1>0, <1>7 DEF Store, Asked, Present, Tx
  <2>4. answers' \subseteq [model : Models, namespace : Nat, content : 0..MaxEdits]
    BY <1>0, <1>7, <2>3 DEF Store, TypeOK
  <2>5. TypeOK'
    BY <1>0, <1>7, <2>2, <2>4 DEF Store, TypeOK
  <2> QED BY <1>7, <2>1, <2>2, <2>5 DEF Store, Typed
<1>8. ASSUME EndEarly(t)
      PROVE  Typed'
  <2>1. Present' = Present /\ Known' = Known
    BY <1>8 DEF EndEarly, rows, Present, Known
  <2>2. /\ tx' \in [Transactions -> Tx]
        /\ \A u \in Transactions : tx'[u] \in {Idle, tx[u]}
    BY <1>0, <1>8, IdleType DEF EndEarly, TypeOK
  <2>3. \A u \in Transactions : Asked(tx[u])'
    BY <2>1, <2>2, IdleType DEF Typed, Asked
  <2>4. TypeOK'
    BY <1>0, <1>8, <2>2 DEF EndEarly, rows, TypeOK
  <2> QED BY <1>8, <2>1, <2>3, <2>4 DEF EndEarly, rows, Typed
<1> QED BY <1>1, <1>2, <1>3, <1>4, <1>5, <1>6, <1>7, <1>8 DEF Close

LEMMA TypedStep ==
    ASSUME Typed, [Next]_vars
    PROVE  Typed'
<1>1. ASSUME NEW e \in Endpoints, NEW enabled \in BOOLEAN, NEW frontier \in BOOLEAN,
             CreateEndpoint(e, enabled, frontier)
      PROVE  Typed'
  <2>1. endpoint' \in [Endpoints -> Endpoint]
    BY <1>1, EndpointCreated DEF Typed
  <2>2. started' \in 0..MaxStarted
    BY <1>1, CatalogAssumption DEF CreateEndpoint, Typed, TypeOK
  <2>3. TypeOK'
    BY <1>1, <2>1, <2>2 DEF CreateEndpoint, Typed, TypeOK
  <2> QED BY <1>1, <2>3 DEF CreateEndpoint, Typed, Asked, Present, Known
<1>2. ASSUME NEW p \in Policies, NEW version \in Nat, CreatePolicy(p, version)
      PROVE  Typed'
  <2>1. started' \in 0..MaxStarted
    BY <1>2, CatalogAssumption DEF CreatePolicy, Typed, TypeOK
  <2>2. TypeOK'
    BY <1>2, <2>1 DEF CreatePolicy, Typed, TypeOK
  <2>3. Known \subseteq Known' /\ Present' = Present
    BY <1>2 DEF CreatePolicy, Typed, TypeOK, Known, Present
  <2>4. \A u \in Transactions : Asked(tx[u])'
    BY <1>2, <2>3 DEF CreatePolicy, Typed, Asked
  <2> QED BY <1>2, <2>2, <2>3, <2>4 DEF CreatePolicy, Typed
<1>3. ASSUME NEW p \in Policies, NEW source \in Policies, ClonePolicy(p, source)
      PROVE  Typed'
  BY <1>2, <1>3 DEF ClonePolicy, Typed, TypeOK
<1>4. CASE UNCHANGED vars
  BY <1>4 DEF vars, rows, Typed, TypeOK, Asked, Present, Known
<1>5. \A version \in 1..MaxNamespace : version \in Nat
  OBVIOUS
<1> QED BY <1>1, <1>2, <1>3, <1>4, <1>5, TypedOpen, TypedClose DEF Next

\* Rows, pools, namespaces and requests keep their types: a model that is
\* edited or given a policy is one that exists.
THEOREM TypeCorrect == Spec => []TypeOK
<1>1. Typed => TypeOK
  BY DEF Typed
<1> QED BY TypedInit, TypedStep, <1>1, PTL DEF Spec
-----------------------------------------------------------------------------
(* What a request has decided still holds, unless it is behind.            *)

\* The references and the pool of a model that a request writes or relies on.
Decided(q) ==
    /\ q.op \in {"create model", "patch model"} =>
         /\ q.members \cup {q.wanted.impact} \subseteq q.rows \cap Live
         /\ {q.wanted.baseline, q.wanted.fallback} \subseteq q.members
    /\ q.op \in {"create model", "patch model", "activate policy"} =>
         /\ Admits(q.wanted.policy, q.wanted.baseline)
         /\ Admits(q.wanted.policy, q.wanted.fallback)
    /\ q.op \in {"patch model", "activate policy"} => q.on \in q.rows /\ q.read = model[q.on]
    /\ q.op = "patch model" =>
         /\ q.wanted.policy = q.read.policy
         /\ q.seen = pool[q.on]
         /\ ~q.pooled => q.members = pool[q.on]
    /\ q.op = "activate policy" =>
         /\ q.wanted.baseline = q.read.baseline
         /\ q.wanted.fallback = q.read.fallback
    /\ q.op = "delete endpoint" => "models" \in q.rows /\ ~Referenced(q.on)

\* The namespaces that an edit of the profile writes.
Counted(q) ==
    q.op = "edit profile" =>
        /\ {"models", "profile"} \subseteq q.rows
        /\ \A p \in Policies : /\ Users(p) = {} => q.spaces[p] = 0
                               /\ Users(p) # {} => q.spaces[p] > namespace[p]

Holds(q) == Decided(q) /\ Counted(q)

Fresh == \A t \in Transactions : ~tx[t].behind => Holds(tx[t])

\* All that a step changes of what requests read is in the rows it has written.
Tells(written) ==
    /\ Live \ Live' \subseteq written
    /\ \A m \in Models \ written : model'[m] = model[m] /\ pool'[m] = pool[m]
    /\ "models" \notin written => UNCHANGED <<model, pool>>
    /\ "profile" \notin written => \A p \in Known : namespace'[p] = namespace[p]

LEMMA DecidedHolds ==
    ASSUME Typed, NEW t \in Transactions, NEW written, Tells(written),
           tx[t].rows \cap written = {}, Same(tx'[t], tx[t]), Decided(tx[t])
    PROVE  Decided(tx[t])'
<1> DEFINE q == tx[t]
           r == tx'[t]
<1>1. /\ r.op = q.op /\ r.on = q.on /\ r.read = q.read /\ r.wanted = q.wanted
      /\ r.members = q.members /\ r.pooled = q.pooled /\ r.seen = q.seen /\ r.rows = q.rows
  BY DEF Same
<1>2. q.op \in {"create model", "patch model"} =>
        /\ r.members \cup {r.wanted.impact} \subseteq r.rows \cap Live'
        /\ {r.wanted.baseline, r.wanted.fallback} \subseteq r.members
  <2>1. \A x : x \in Live /\ x \in q.rows => x \in Live'
    BY DEF Tells
  <2> QED BY <1>1, <2>1 DEF Decided
<1>3. q.op \in {"patch model", "activate policy"} =>
        /\ r.on \in r.rows /\ r.read = model'[r.on]
        /\ model'[q.on] = model[q.on] /\ pool'[q.on] = pool[q.on]
  <2>1. q.op \in {"patch model", "activate policy"} => q.on \in Models
    BY DEF Typed, Asked, Present
  <2> QED BY <1>1, <2>1 DEF Decided, Tells
<1>4. q.op = "delete endpoint" => "models" \in r.rows /\ ~Referenced(q.on)'
  BY <1>1 DEF Decided, Tells, Referenced, Present
<1> QED BY <1>1, <1>2, <1>3, <1>4 DEF Decided, Admits

LEMMA CountedHolds ==
    ASSUME Typed, NEW t \in Transactions, NEW written, Tells(written),
           tx[t].rows \cap written = {}, Same(tx'[t], tx[t]), Counted(tx[t])
    PROVE  Counted(tx[t])'
<1> SUFFICES ASSUME tx[t].op = "edit profile"
             PROVE  Counted(tx[t])'
  BY DEF Same, Counted
<1>1. {"models", "profile"} \subseteq tx[t].rows
  BY DEF Counted
<1>2. model' = model /\ \A p \in Known : namespace'[p] = namespace[p]
  BY <1>1 DEF Tells
<1>3. \A p \in Policies : /\ Users(p)' = Users(p)
                          /\ Users(p) # {} => p \in Known
  BY <1>2 DEF Users, Present, Typed
<1>4. tx'[t].spaces = tx[t].spaces /\ tx'[t].rows = tx[t].rows
  BY DEF Same
<1> QED BY <1>1, <1>2, <1>3, <1>4 DEF Counted

LEMMA FreshOpens ==
    ASSUME Typed, Fresh, NEW t \in Transactions, NEW q \in Tx, Begin(t, q), Holds(q)
    PROVE  Fresh'
<1>1. /\ tx'[t] = q
      /\ \A u \in Transactions \ {t} : tx'[u] = tx[u]
      /\ UNCHANGED <<endpoint, model, pool, namespace>>
  BY BeginIs DEF Typed, TypeOK
<1>2. Live' = Live /\ Present' = Present /\ \A p \in Policies : Users(p)' = Users(p)
  BY <1>1 DEF Live, Present, Users
<1>3. \A u \in Transactions : ~tx'[u].behind => Holds(tx'[u])
  BY <1>1 DEF Fresh
<1>4. ASSUME NEW u \in Transactions, ~tx'[u].behind
      PROVE  Decided(tx[u])' /\ Counted(tx[u])'
  <2>1. Decided(tx'[u]) /\ Counted(tx'[u])
    BY <1>3, <1>4 DEF Holds
  <2>2. Decided(tx[u])'
    BY <1>1, <1>2, <2>1 DEF Decided, Referenced, Admits
  <2>3. Counted(tx[u])'
    BY <1>1, <1>2, <2>1 DEF Counted
  <2> QED BY <2>2, <2>3
<1> QED BY <1>4 DEF Fresh, Holds

\* The others, when a request commits.
LEMMA FreshCommits ==
    ASSUME Typed, Fresh, NEW t \in Transactions, NEW written, Commit(t, written), Tells(written)
    PROVE  Fresh'
<1>1. /\ tx'[t] = Idle
      /\ \A u \in Transactions \ {t} :
            /\ Same(tx'[u], tx[u])
            /\ ~tx'[u].behind => ~tx[u].behind /\ tx[u].rows \cap written = {}
  BY CommitIs DEF Typed, TypeOK
<1>2. Decided(tx[t])' /\ Counted(tx[t])'
  BY <1>1, IdleType DEF Decided, Counted
<1>3. ASSUME NEW u \in Transactions \ {t}, ~tx'[u].behind
      PROVE  Decided(tx[u])' /\ Counted(tx[u])'
  <2>1. /\ Same(tx'[u], tx[u])
        /\ tx[u].rows \cap written = {}
        /\ Decided(tx[u]) /\ Counted(tx[u])
    BY <1>1, <1>3 DEF Fresh, Holds
  <2> QED BY <2>1, DecidedHolds, CountedHolds
<1> QED BY <1>2, <1>3 DEF Fresh, Holds

\* What a request decides when it opens holds then.
LEMMA FreshOpen ==
    ASSUME Typed, Fresh, NEW t \in Transactions, Open(t)
    PROVE  Fresh'
<1>0. TypeOK
  BY DEF Typed
<1>1. ASSUME NEW e \in Endpoints, NEW enabled \in BOOLEAN, NEW frontier \in BOOLEAN,
             PatchEndpoint(t, e, enabled, frontier)
      PROVE  Fresh'
  <2>1. PICK q \in Tx : Begin(t, q) /\ q.op = "patch endpoint" /\ q.on = e
    BY <1>0, <1>1, PatchOpens
  <2>2. Holds(q)
    BY <2>1 DEF Holds, Decided, Counted
  <2> QED BY <2>1, <2>2, FreshOpens
<1>2. ASSUME NEW e \in Endpoints, DeleteEndpoint(t, e)
      PROVE  Fresh'
  <2>1. PICK q \in Tx : /\ Begin(t, q) /\ q.op = "delete endpoint" /\ q.on = e
                        /\ q.rows = {e, "models"}
    BY <1>0, <1>2, DeleteOpens
  <2>2. Holds(q)
    BY <1>2, <2>1 DEF DeleteEndpoint, Holds, Decided, Counted
  <2> QED BY <2>1, <2>2, FreshOpens
<1>3. ASSUME NEW m \in Models, NEW to \in References, NEW members \in SUBSET Endpoints,
             CreateModel(t, m, to, members)
      PROVE  Fresh'
  <2>1. PICK q \in Tx : Begin(t, q) /\ CreatesModel(q, m, to, members)
    BY <1>0, <1>3, ModelOpens
  <2>2. Fits(members, to) /\ Comparable(to)
    BY <1>3 DEF CreateModel
  <2>3. Holds(q)
    BY <2>1, <2>2 DEF CreatesModel, Fits, Comparable, Holds, Decided, Counted
  <2> QED BY <2>1, <2>3, FreshOpens
<1>4. ASSUME NEW m \in Models, NEW to \in References, NEW members \in SUBSET Endpoints,
             NEW pooled \in BOOLEAN, PatchModel(t, m, to, members, pooled)
      PROVE  Fresh'
  <2>1. PICK q \in Tx : Begin(t, q) /\ PatchesModel(q, m, to, members, pooled)
    BY <1>0, <1>4, ModelPatchOpens
  <2>2. /\ to.policy = model[m].policy
        /\ pooled \/ members = pool[m]
        /\ Fits(members, to) /\ Comparable(to)
    BY <1>4 DEF PatchModel
  <2>3. Holds(q)
    BY <2>1, <2>2 DEF PatchesModel, Fits, Comparable, Holds, Decided, Counted
  <2> QED BY <2>1, <2>3, FreshOpens
<1>5. ASSUME NEW m \in Models, NEW p \in Policies, ActivatePolicy(t, m, p)
      PROVE  Fresh'
  <2>1. PICK q \in Tx : Begin(t, q) /\ ActivatesPolicy(q, m, p)
    BY <1>0, <1>5, ActivationOpens
  <2>2. q.wanted.baseline = q.read.baseline /\ q.wanted.fallback = q.read.fallback
    BY <2>1 DEF ActivatesPolicy, References
  <2>3. Fits(pool[m], q.wanted)
    BY <1>5, <2>1 DEF ActivatePolicy, ActivatesPolicy
  <2>4. Holds(q)
    BY <2>1, <2>2, <2>3 DEF ActivatesPolicy, Fits, Holds, Decided, Counted
  <2> QED BY <2>1, <2>4, FreshOpens
<1>6. ASSUME EditProfile(t)
      PROVE  Fresh'
  <2>1. PICK q \in Tx : /\ Begin(t, q) /\ q.op = "edit profile"
                        /\ q.spaces = [p \in Policies |-> Raised(p)]
                        /\ {"profile", "models"} \subseteq q.rows
    BY <1>0, <1>6, EditOpens
  <2>2. ASSUME NEW p \in Policies
        PROVE  /\ Users(p) = {} => q.spaces[p] = 0
               /\ Users(p) # {} => q.spaces[p] > namespace[p]
    <3> DEFINE n == Cardinality(Users(p))
    <3>1. n \in Nat /\ (Users(p) # {} => n > 0)
      BY UsersAreCounted
    <3>2. q.spaces[p] = IF Users(p) = {} THEN 0 ELSE namespace[p] + n
      BY <2>1 DEF Raised
    <3>3. namespace[p] \in Nat
      BY <1>0 DEF TypeOK
    <3> HIDE DEF n
    <3> QED BY <3>1, <3>2, <3>3
  <2>3. Holds(q)
    BY <2>1, <2>2 DEF Holds, Decided, Counted
  <2> QED BY <2>1, <2>3, FreshOpens
<1>7. ASSUME NEW m \in Models, Load(t, m)
      PROVE  Fresh'
  <2>1. PICK q \in Tx : Begin(t, q) /\ q.op = "answer"
    BY <1>0, <1>7, AnswerOpens
  <2>2. Holds(q)
    BY <2>1 DEF Holds, Decided, Counted
  <2> QED BY <2>1, <2>2, FreshOpens
<1> QED BY <1>1, <1>2, <1>3, <1>4, <1>5, <1>6, <1>7 DEF Open

\* Every commit tells the others which rows it has changed.
LEMMA CommitTells ==
    ASSUME Typed, NEW t \in Transactions, Close(t), ~EndEarly(t)
    PROVE  \E written : Commit(t, written) /\ Tells(written)
<1>0. TypeOK /\ tx[t] \in Tx /\ Asked(tx[t])
  BY DEF Typed, TypeOK
<1>1. ASSUME CommitPatch(t)
      PROVE  Commit(t, {tx[t].on}) /\ Tells({tx[t].on})
  <2>1. Live' = Live
    BY <1>0, <1>1, EndpointPatched
  <2> QED BY <1>1, <2>1 DEF CommitPatch, Tells
<1>2. ASSUME CommitDelete(t)
      PROVE  Commit(t, {tx[t].on}) /\ Tells({tx[t].on})
  <2>1. Live' = Live \ {tx[t].on}
    BY <1>0, <1>2, EndpointDeleted
  <2> QED BY <1>2, <2>1 DEF CommitDelete, Tells
<1>3. ASSUME CommitModel(t)
      PROVE  Commit(t, {tx[t].on, "models"}) /\ Tells({tx[t].on, "models"})
  <2>1. \A m \in Models \ {tx[t].on} : model'[m] = model[m] /\ pool'[m] = pool[m]
    BY <1>3, ModelCreated
  <2>2. Live' = Live
    BY <1>3 DEF CommitModel, Live
  <2> QED BY <1>3, <2>1, <2>2 DEF CommitModel, Tells
<1>4. ASSUME NEW deleted \in SUBSET Endpoints, CommitModelPatch(t, deleted)
      PROVE  Commit(t, {tx[t].on, "models"}) /\ Tells({tx[t].on, "models"})
  <2>1. \A m \in Models \ {tx[t].on} : model'[m] = model[m] /\ pool'[m] = pool[m]
    BY <1>4, ModelPatched
  <2>2. Live' = Live
    BY <1>4 DEF CommitModelPatch, Live
  <2> QED BY <1>4, <2>1, <2>2 DEF CommitModelPatch, Tells
<1>5. ASSUME CommitActivation(t)
      PROVE  Commit(t, {tx[t].on, "models"}) /\ Tells({tx[t].on, "models"})
  <2>1. \A m \in Models \ {tx[t].on} : model'[m] = model[m]
    BY <1>5, PolicyActivated
  <2>2. Live' = Live
    BY <1>5 DEF CommitActivation, Live
  <2> QED BY <1>5, <2>1, <2>2 DEF CommitActivation, Tells
<1>6. ASSUME CommitEdit(t)
      PROVE  \E written : Commit(t, written) /\ Tells(written)
  <2> DEFINE written == {"profile"} \cup {p \in Policies : tx[t].spaces[p] # 0}
  <2>1. Commit(t, written)
    BY <1>6 DEF CommitEdit
  <2>2. Live' = Live
    BY <1>6 DEF CommitEdit, Live
  <2>3. Tells(written)
    BY <1>6, <2>2 DEF CommitEdit, Tells
  <2> QED BY <2>1, <2>3
<1>7. ASSUME NEW p \in Policies, Store(t, p)
      PROVE  Commit(t, {}) /\ Tells({})
  <2>1. Live' = Live
    BY <1>7 DEF Store, Live
  <2> QED BY <1>7, <2>1 DEF Store, Tells
<1> QED BY <1>1, <1>2, <1>3, <1>4, <1>5, <1>6, <1>7 DEF Close

LEMMA FreshInit == Init => Fresh
  BY IdleType DEF Init, Fresh, Holds, Decided, Counted

LEMMA FreshStep ==
    ASSUME Typed, Fresh, [Next]_vars
    PROVE  Fresh'
<1>1. ASSUME UNCHANGED tx, UNCHANGED <<model, pool>>, Live \subseteq Live',
             \A p \in Known : namespace'[p] = namespace[p]
      PROVE  Fresh'
  <2>1. Present' = Present
    BY <1>1 DEF Present
  <2>2. \A p \in Policies : Users(p)' = Users(p) /\ (Users(p) # {} => p \in Known)
    BY <1>1, <2>1 DEF Users, Typed
  <2>3. ASSUME NEW u \in Transactions, ~tx[u].behind
        PROVE  Decided(tx[u])' /\ Counted(tx[u])'
    <3>1. Decided(tx[u]) /\ Counted(tx[u])
      BY <2>3 DEF Fresh, Holds
    <3>2. Decided(tx[u])'
      BY <1>1, <2>1, <3>1 DEF Decided, Referenced, Admits
    <3>3. Counted(tx[u])'
      BY <1>1, <2>2, <3>1 DEF Counted
    <3> QED BY <3>2, <3>3
  <2> QED BY <1>1, <2>3 DEF Fresh, Holds
<1>2. ASSUME NEW e \in Endpoints, NEW enabled \in BOOLEAN, NEW frontier \in BOOLEAN,
             CreateEndpoint(e, enabled, frontier)
      PROVE  Fresh'
  <2>1. Live \subseteq Live'
    BY <1>2, EndpointCreated DEF Typed
  <2> QED BY <1>1, <1>2, <2>1 DEF CreateEndpoint
<1>3. ASSUME NEW p \in Policies, NEW version \in Nat, CreatePolicy(p, version)
      PROVE  Fresh'
  <2>1. Live' = Live /\ \A o \in Known : namespace'[o] = namespace[o]
    BY <1>3 DEF CreatePolicy, Live, Known, Typed, TypeOK
  <2> QED BY <1>1, <1>3, <2>1 DEF CreatePolicy
<1>4. ASSUME NEW p \in Policies, NEW source \in Policies, ClonePolicy(p, source)
      PROVE  Fresh'
  BY <1>3, <1>4 DEF ClonePolicy, Typed, TypeOK
<1>5. ASSUME NEW t \in Transactions, Close(t)
      PROVE  Fresh'
  <2>1. CASE EndEarly(t)
    <3>1. /\ UNCHANGED <<endpoint, model, pool, namespace>>
          /\ \A u \in Transactions : tx'[u] \in {Idle, tx[u]}
      BY <2>1 DEF EndEarly, rows, Typed, TypeOK
    <3>2. Live' = Live /\ Present' = Present /\ \A p \in Policies : Users(p)' = Users(p)
      BY <3>1 DEF Live, Present, Users
    <3>3. ASSUME NEW u \in Transactions, ~tx'[u].behind
          PROVE  Decided(tx[u])' /\ Counted(tx[u])'
      <4>1. Decided(tx'[u]) /\ Counted(tx'[u])
        <5>1. CASE tx'[u] = Idle
          BY <5>1, IdleType DEF Decided, Counted
        <5>2. CASE tx'[u] = tx[u]
          BY <3>3, <5>2 DEF Fresh, Holds
        <5> QED BY <3>1, <5>1, <5>2
      <4>2. Decided(tx[u])'
        BY <3>1, <3>2, <4>1 DEF Decided, Referenced, Admits
      <4>3. Counted(tx[u])'
        BY <3>1, <3>2, <4>1 DEF Counted
      <4> QED BY <4>2, <4>3
    <3> QED BY <3>3 DEF Fresh, Holds
  <2>2. CASE ~EndEarly(t)
    BY <1>5, <2>2, CommitTells, FreshCommits
  <2> QED BY <2>1, <2>2
<1>6. CASE UNCHANGED vars
  <2>1. Live' = Live
    BY <1>6 DEF vars, rows, Live
  <2> QED BY <1>1, <1>6, <2>1 DEF vars, rows
<1>7. \A version \in 1..MaxNamespace : version \in Nat
  OBVIOUS
<1> QED BY <1>2, <1>3, <1>4, <1>5, <1>6, <1>7, FreshOpen DEF Next
-----------------------------------------------------------------------------
(* Models.                                                                 *)

Routable(m) ==
    /\ model[m].baseline \in pool[m] \cap Live
    /\ model[m].fallback \in pool[m] \cap Live
    /\ model[m].impact \in Live
    /\ Admits(model[m].policy, model[m].baseline)
    /\ Admits(model[m].policy, model[m].fallback)

LEMMA CompleteIs == ContextIsComplete <=> (~overtaken => \A m \in Present : Routable(m))
  BY DEF ContextIsComplete, Routable

\* A model whose row and pool stay is routable as long as its endpoints stay.
LEMMA RoutableStays ==
    ASSUME NEW m, Routable(m), model'[m] = model[m], pool'[m] = pool[m],
           \A e \in Live : e \in {model[m].baseline, model[m].fallback, model[m].impact}
                              => e \in Live'
    PROVE  Routable(m)'
  BY DEF Routable, Admits

\* A commit of a request that is not behind leaves every model routable.
LEMMA CompleteCommits ==
    ASSUME Typed, Fresh, NEW t \in Transactions, Close(t), ~EndEarly(t), ~tx[t].behind,
           \A m \in Present : Routable(m)
    PROVE  \A m \in Present' : Routable(m)'
<1> DEFINE q == tx[t]
<1>0. TypeOK /\ Asked(q) /\ Decided(q)
  BY DEF Typed, Fresh, Holds
<1>1. ASSUME CommitPatch(t)
      PROVE  \A m \in Present' : Routable(m)'
  <2>1. Live' = Live
    BY <1>0, <1>1, EndpointPatched
  <2>2. model' = model /\ pool' = pool /\ Present' = Present
    BY <1>1 DEF CommitPatch, Present
  <2> QED BY <2>1, <2>2, RoutableStays
<1>2. ASSUME CommitDelete(t)
      PROVE  \A m \in Present' : Routable(m)'
  <2>1. Live' = Live \ {q.on}
    BY <1>0, <1>2, EndpointDeleted
  <2>2. model' = model /\ pool' = pool /\ Present' = Present
    BY <1>2 DEF CommitDelete, Present
  <2>3. \A m \in Present : q.on \notin {model[m].baseline, model[m].fallback, model[m].impact}
    BY <1>0, <1>2 DEF CommitDelete, Decided, Referenced
  <2> QED BY <2>1, <2>2, <2>3, RoutableStays
<1>3. ASSUME CommitModel(t)
      PROVE  \A m \in Present' : Routable(m)'
  <2>1. /\ q.on \in Models \ Present
        /\ model'[q.on] = q.wanted /\ pool'[q.on] = q.members
        /\ \A m \in Models \ {q.on} : model'[m] = model[m] /\ pool'[m] = pool[m]
        /\ Present' = Present \cup {q.on}
    BY <1>3, ModelCreated
  <2>2. Live' = Live
    BY <1>3 DEF CommitModel, Live
  <2>3. /\ q.members \cup {q.wanted.impact} \subseteq Live
        /\ {q.wanted.baseline, q.wanted.fallback} \subseteq q.members
        /\ Admits(q.wanted.policy, q.wanted.baseline)
        /\ Admits(q.wanted.policy, q.wanted.fallback)
    BY <1>0, <1>3 DEF CommitModel, Decided
  <2>4. ASSUME NEW m \in Present'
        PROVE  Routable(m)'
    <3>1. CASE m = q.on
      BY <2>1, <2>2, <2>3, <3>1 DEF Routable, Admits
    <3>2. CASE m # q.on
      BY <2>1, <2>2, <3>2, RoutableStays DEF Present
    <3> QED BY <3>1, <3>2
  <2> QED BY <2>4
<1>4. ASSUME NEW deleted \in SUBSET Endpoints, CommitModelPatch(t, deleted)
      PROVE  \A m \in Present' : Routable(m)'
  <2>1. /\ q.on \in Present
        /\ model'[q.on].policy = model[q.on].policy
        /\ model'[q.on].baseline = Written(model[q.on].baseline, q.read.baseline, q.wanted.baseline)
        /\ model'[q.on].fallback = Written(model[q.on].fallback, q.read.fallback, q.wanted.fallback)
        /\ model'[q.on].impact = Written(model[q.on].impact, q.read.impact, q.wanted.impact)
        /\ pool'[q.on] = IF q.pooled THEN (pool[q.on] \ deleted) \cup q.members ELSE pool[q.on]
        /\ \A m \in Models \ {q.on} : model'[m] = model[m] /\ pool'[m] = pool[m]
        /\ Present' = Present
    BY <1>4, ModelPatched
  <2>2. Live' = Live
    BY <1>4 DEF CommitModelPatch, Live
  <2>3. /\ q.members \cup {q.wanted.impact} \subseteq Live
        /\ {q.wanted.baseline, q.wanted.fallback} \subseteq q.members
        /\ Admits(q.wanted.policy, q.wanted.baseline)
        /\ Admits(q.wanted.policy, q.wanted.fallback)
        /\ q.read = model[q.on] /\ q.wanted.policy = q.read.policy
        /\ q.seen = pool[q.on]
        /\ ~q.pooled => q.members = pool[q.on]
    BY <1>0, <1>4 DEF CommitModelPatch, Decided
  <2>4. /\ model'[q.on].baseline = q.wanted.baseline
        /\ model'[q.on].fallback = q.wanted.fallback
        /\ model'[q.on].impact = q.wanted.impact
        /\ model'[q.on].policy = q.wanted.policy
    BY <2>1, <2>3, WrittenIs
  <2>5. pool'[q.on] = q.members
    BY <1>4, <2>1, <2>3 DEF CommitModelPatch
  <2>6. ASSUME NEW m \in Present
        PROVE  Routable(m)'
    <3>1. CASE m = q.on
      BY <2>2, <2>3, <2>4, <2>5, <3>1 DEF Routable, Admits
    <3>2. CASE m # q.on
      BY <2>1, <2>2, <3>2, RoutableStays DEF Present
    <3> QED BY <3>1, <3>2
  <2> QED BY <2>1, <2>6
<1>5. ASSUME CommitActivation(t)
      PROVE  \A m \in Present' : Routable(m)'
  <2>1. /\ q.on \in Present
        /\ model'[q.on].policy = Written(model[q.on].policy, q.read.policy, q.wanted.policy)
        /\ model'[q.on].baseline = model[q.on].baseline
        /\ model'[q.on].fallback = model[q.on].fallback
        /\ model'[q.on].impact = model[q.on].impact
        /\ \A n \in Models \ {q.on} : model'[n] = model[n]
        /\ Present' = Present
    BY <1>5, PolicyActivated
  <2>2. Live' = Live /\ pool' = pool
    BY <1>5 DEF CommitActivation, Live
  <2>3. /\ q.read = model[q.on]
        /\ q.wanted.baseline = q.read.baseline /\ q.wanted.fallback = q.read.fallback
        /\ Admits(q.wanted.policy, q.wanted.baseline)
        /\ Admits(q.wanted.policy, q.wanted.fallback)
    BY <1>0, <1>5 DEF CommitActivation, Decided
  <2>4. model'[q.on].policy = q.wanted.policy
    BY <2>1, <2>3, WrittenIs
  <2>5. ASSUME NEW m \in Present
        PROVE  Routable(m)'
    <3>1. CASE m = q.on
      BY <2>1, <2>2, <2>3, <2>4, <3>1 DEF Routable, Admits
    <3>2. CASE m # q.on
      BY <2>1, <2>2, <3>2, RoutableStays DEF Present
    <3> QED BY <3>1, <3>2
  <2> QED BY <2>1, <2>5
<1>6. ASSUME UNCHANGED <<endpoint, model, pool>>
      PROVE  \A m \in Present' : Routable(m)'
  <2>1. Live' = Live /\ Present' = Present
    BY <1>6 DEF Live, Present
  <2> QED BY <1>6, <2>1, RoutableStays
<1>7. ASSUME CommitEdit(t)
      PROVE  \A m \in Present' : Routable(m)'
  BY <1>6, <1>7 DEF CommitEdit
<1>8. ASSUME NEW p \in Policies, Store(t, p)
      PROVE  \A m \in Present' : Routable(m)'
  BY <1>6, <1>8 DEF Store
<1> QED BY <1>1, <1>2, <1>3, <1>4, <1>5, <1>7, <1>8 DEF Close

\* A step after which no commit was behind is a commit that was not, or none.
LEMMA NotOvertaken ==
    ASSUME Typed, NEW t \in Transactions, Close(t), ~EndEarly(t), ~overtaken'
    PROVE  ~overtaken /\ ~tx[t].behind
<1>1. PICK written : Commit(t, written)
  BY CommitTells
<1> QED BY <1>1 DEF Commit

LEMMA CompleteStep ==
    ASSUME Typed, Fresh, ContextIsComplete, [Next]_vars
    PROVE  ContextIsComplete'
<1> SUFFICES ASSUME ~overtaken'
             PROVE  \A m \in Present' : Routable(m)'
  BY DEF ContextIsComplete, Routable
<1>1. ~overtaken => \A m \in Present : Routable(m)
  BY CompleteIs
<1>2. ASSUME UNCHANGED <<model, pool, overtaken>>, Live \subseteq Live'
      PROVE  \A m \in Present' : Routable(m)'
  <2>1. Present' = Present
    BY <1>2 DEF Present
  <2> QED BY <1>1, <1>2, <2>1, RoutableStays
<1>3. ASSUME NEW e \in Endpoints, NEW enabled \in BOOLEAN, NEW frontier \in BOOLEAN,
             CreateEndpoint(e, enabled, frontier)
      PROVE  \A m \in Present' : Routable(m)'
  <2>1. Live \subseteq Live'
    BY <1>3, EndpointCreated DEF Typed
  <2> QED BY <1>2, <1>3, <2>1 DEF CreateEndpoint
<1>4. ASSUME UNCHANGED <<endpoint, model, pool, overtaken>>
      PROVE  \A m \in Present' : Routable(m)'
  BY <1>2, <1>4 DEF Live
<1>5. ASSUME NEW p \in Policies, NEW version, CreatePolicy(p, version)
      PROVE  \A m \in Present' : Routable(m)'
  BY <1>4, <1>5 DEF CreatePolicy
<1>6. ASSUME NEW t \in Transactions, Open(t)
      PROVE  \A m \in Present' : Routable(m)'
  <2>1. PICK q \in Tx : Begin(t, q)
    BY <1>6, OpenBegins DEF Typed
  <2> QED BY <1>4, <2>1 DEF Begin, rows
<1>7. ASSUME NEW t \in Transactions, Close(t)
      PROVE  \A m \in Present' : Routable(m)'
  <2>1. CASE EndEarly(t)
    BY <1>4, <2>1 DEF EndEarly, rows
  <2>2. CASE ~EndEarly(t)
    BY <1>1, <1>7, <2>2, NotOvertaken, CompleteCommits
  <2> QED BY <2>1, <2>2
<1>8. CASE UNCHANGED vars
  BY <1>4, <1>8 DEF vars, rows
<1> QED BY <1>3, <1>5, <1>6, <1>7, <1>8 DEF Next, ClonePolicy

\* Unless a request has committed what it decided from rows that another one
\* had changed since, every model has its baseline and its fallback in its pool,
\* admitted by its policy, and none of its endpoints is deleted.
THEOREM ModelsAreComplete == Spec => []ContextIsComplete
<1> DEFINE CInv == Typed /\ Fresh /\ ContextIsComplete
<1>1. Init => CInv
  BY TypedInit, FreshInit DEF Init, Present, ContextIsComplete
<1>2. CInv /\ [Next]_vars => CInv'
  BY TypedStep, FreshStep, CompleteStep
<1> QED BY <1>1, <1>2, PTL DEF Spec
-----------------------------------------------------------------------------
(* Answers.                                                                *)

\* An answer given for m under namespace n and content c cannot be served once
\* the content is another: the namespace of m only grows, past n when it does.
Dated(m, n, c) ==
    /\ n <= namespace[model[m].policy]
    /\ model[m].policy \in Naming /\ c # edits => n < namespace[model[m].policy]

\* The answers in the cache, and those that will be put there.
Given(m, n, c) ==
    \/ \E a \in answers : a.model = m /\ a.namespace = n /\ a.content = c
    \/ \E t \in Transactions, p \in Policies :
          /\ tx[t].op = "answer" /\ tx[t].on = m /\ tx[t].content = c
          /\ tx[t].spaces[p] = n /\ n # 0

Kept == \A a \in answers : a.model \in Present

AllDated == \A m \in Present \ back : \A n, c : Given(m, n, c) => Dated(m, n, c)

LEMMA NamespaceType ==
    ASSUME Typed, NEW m \in Present
    PROVE  m \in Models /\ model[m].policy \in Policies /\ namespace[model[m].policy] \in Nat
  BY DEF Typed, TypeOK, Present, Known

LEMMA GivenType ==
    ASSUME Typed, Kept, NEW m, NEW n, NEW c, Given(m, n, c)
    PROVE  m \in Present /\ n \in Nat
<1>1. ASSUME NEW a \in answers, a.model = m, a.namespace = n
      PROVE  m \in Present /\ n \in Nat
  BY <1>1 DEF Typed, TypeOK, Kept
<1>2. ASSUME NEW t \in Transactions, NEW p \in Policies,
             tx[t].op = "answer", tx[t].on = m, tx[t].spaces[p] = n
      PROVE  m \in Present /\ n \in Nat
  <2>1. tx[t] \in Tx /\ Asked(tx[t])
    BY DEF Typed, TypeOK
  <2> QED BY <1>2, <2>1 DEF Tx, Asked
<1> QED BY <1>1, <1>2 DEF Given

\* A request that ends gives nothing new: what it stores was to be stored.
LEMMA GivenCommits ==
    ASSUME Typed, NEW t \in Transactions, Close(t), NEW m, NEW n, NEW c, Given(m, n, c)'
    PROVE  Given(m, n, c)
<1>0. tx \in [Transactions -> Tx]
  BY DEF Typed, TypeOK
<1>1. \A u \in Transactions : tx'[u] = Idle \/ Same(tx'[u], tx[u])
  <2>1. CASE EndEarly(t)
    BY <1>0, <2>1 DEF EndEarly, Same
  <2>2. CASE ~EndEarly(t)
    <3>1. PICK written : Commit(t, written)
      BY <2>2, CommitTells
    <3> QED BY <1>0, <3>1, CommitIs
  <2> QED BY <2>1, <2>2
<1>2. ASSUME NEW u \in Transactions, NEW p \in Policies,
             tx'[u].op = "answer", tx'[u].on = m, tx'[u].content = c,
             tx'[u].spaces[p] = n, n # 0
      PROVE  Given(m, n, c)
  <2>1. Same(tx'[u], tx[u])
    BY <1>1, <1>2, IdleType
  <2>2. tx[u].op = "answer" /\ tx[u].on = m /\ tx[u].content = c /\ tx[u].spaces[p] = n
    BY <1>2, <2>1 DEF Same
  <2> QED BY <1>2, <2>2 DEF Given
<1>3. ASSUME NEW a \in answers', a.model = m, a.namespace = n, a.content = c
      PROVE  Given(m, n, c)
  <2>1. CASE a \in answers
    BY <1>3, <2>1 DEF Given
  <2>2. CASE a \notin answers
    <3>1. PICK p \in Policies : Store(t, p)
      BY <1>3, <2>2 DEF Close, CommitPatch, CommitDelete, CommitModel, CommitModelPatch,
                        CommitActivation, CommitEdit, EndEarly, rows
    <3>2. /\ a = [model |-> tx[t].on, namespace |-> tx[t].spaces[p], content |-> tx[t].content]
          /\ tx[t].op = "answer" /\ tx[t].spaces[p] # 0
      BY <1>3, <2>2, <3>1 DEF Store
    <3>3. tx[t].on = m /\ tx[t].spaces[p] = n /\ tx[t].content = c
      BY <1>3, <3>2
    <3> QED BY <3>2, <3>3 DEF Given
  <2> QED BY <2>1, <2>2
<1> QED BY <1>2, <1>3 DEF Given

LEMMA KeptCommits ==
    ASSUME Typed, Kept, NEW t \in Transactions, Close(t)
    PROVE  Kept'
<1>1. Present \subseteq Present'
  <2>1. CASE CommitModel(t)
    BY <2>1, ModelCreated
  <2>2. CASE \E deleted \in SUBSET Endpoints : CommitModelPatch(t, deleted)
    BY <2>2, ModelPatched
  <2>3. CASE CommitActivation(t)
    BY <2>3, PolicyActivated
  <2>4. CASE UNCHANGED model
    BY <2>4 DEF Present
  <2> QED BY <2>1, <2>2, <2>3, <2>4
          DEF Close, CommitPatch, CommitDelete, CommitEdit, Store, EndEarly, rows
<1>2. ASSUME NEW a \in answers'
      PROVE  a.model \in Present
  <2>1. Given(a.model, a.namespace, a.content)'
    BY DEF Given
  <2>2. Given(a.model, a.namespace, a.content)
    BY <2>1, GivenCommits
  <2> QED BY <2>2, GivenType
<1> QED BY <1>1, <1>2 DEF Kept

\* A model that is given a policy goes back, or its namespace has grown enough.
LEMMA DatedActivation ==
    ASSUME Typed, NEW t \in Transactions, CommitActivation(t),
           NEW m \in Present \ back', NEW n \in Nat, NEW c, Dated(m, n, c)
    PROVE  Dated(m, n, c)'
<1> DEFINE q == tx[t]
           p == Written(model[q.on].policy, q.read.policy, q.wanted.policy)
<1>1. /\ q.on \in Present
      /\ model'[q.on].policy = p
      /\ \A o \in Models \ {q.on} : model'[o] = model[o]
      /\ Present' = Present
  BY PolicyActivated
<1>2. /\ namespace' = namespace /\ edits' = edits
      /\ back' = IF Earlier(p, model[q.on].policy) THEN back \cup {q.on} ELSE back
  BY DEF CommitActivation
<1>3. CASE m # q.on
  BY <1>1, <1>2, <1>3, NamespaceType DEF Dated
<1>4. CASE m = q.on
  <2> DEFINE o == model[m].policy
  <2>1. ~(namespace[p] < namespace[o]) /\ ~(namespace[p] = namespace[o] /\ o \notin Naming)
    BY <1>2, <1>4 DEF Earlier
  <2>2. namespace[o] \in Nat /\ namespace[p] \in Nat
    <3>1. Typed'
      BY TypedClose DEF Close
    <3>2. namespace'[model'[m].policy] \in Nat
      BY <1>1, <1>4, <3>1 DEF Typed, TypeOK, Present, Known
    <3> QED BY <1>1, <1>2, <1>4, <3>2, NamespaceType
  <2>3. n <= namespace[o] /\ (o \in Naming /\ c # edits => n < namespace[o])
    BY DEF Dated
  <2>4. n <= namespace[p] /\ (c # edits => n < namespace[p])
    <3> HIDE DEF o, p
    <3>1. CASE namespace[o] < namespace[p]
      BY <2>2, <2>3, <3>1
    <3>2. CASE namespace[o] = namespace[p]
      BY <2>1, <2>2, <2>3, <3>2
    <3> QED BY <2>1, <2>2, <3>1, <3>2
  <2>5. model'[m].policy = p
    BY <1>1, <1>4
  <2> HIDE DEF o, p
  <2> QED BY <1>2, <2>4, <2>5 DEF Dated
<1> QED BY <1>3, <1>4

\* An edit that is not behind has counted every model that names the profile.
LEMMA DatedEdit ==
    ASSUME Typed, NEW t \in Transactions, CommitEdit(t), Counted(tx[t]),
           NEW m \in Present, NEW n \in Nat, NEW c, Dated(m, n, c)
    PROVE  Dated(m, n, c)'
<1> DEFINE q == tx[t]
           o == model[m].policy
<1>1. o \in Policies /\ namespace[o] \in Nat /\ q.spaces \in [Policies -> Nat]
  <2>1. q \in Tx
    BY DEF Typed, TypeOK
  <2> QED BY <2>1, NamespaceType DEF Tx
<1>2. /\ model' = model
      /\ namespace'[o] = IF q.spaces[o] = 0 THEN namespace[o] ELSE q.spaces[o]
  BY <1>1 DEF CommitEdit
<1>3. /\ Users(o) = {} => q.spaces[o] = 0
      /\ Users(o) # {} => q.spaces[o] > namespace[o]
  BY <1>1 DEF CommitEdit, Counted
<1>4. o \in Naming => Users(o) # {}
  <2>1. o \in Naming => m \in Users(o)
    BY DEF Users
  <2> QED BY <2>1
<1>5. n <= namespace[o]
  BY DEF Dated
<1>6. n <= namespace'[o] /\ (o \in Naming => n < namespace'[o])
  <2>1. q.spaces[o] \in Nat
    BY <1>1
  <2> HIDE DEF q, o
  <2> QED BY <1>1, <1>2, <1>3, <1>4, <1>5, <2>1
<1> QED BY <1>2, <1>6 DEF Dated

LEMMA DatedCommits ==
    ASSUME Typed, Fresh, Kept, AllDated, NEW t \in Transactions, Close(t),
           EndEarly(t) \/ ~tx[t].behind
    PROVE  AllDated'
<1> SUFFICES ASSUME NEW m \in Present' \ back', NEW n, NEW c, Given(m, n, c)'
             PROVE  Dated(m, n, c)'
  BY DEF AllDated
<1>1. Given(m, n, c)
  BY GivenCommits
<1>2. m \in Present /\ n \in Nat
  BY <1>1, GivenType
<1>3. back \subseteq back'
  BY DEF Close, CommitPatch, CommitDelete, CommitModel, CommitModelPatch, CommitActivation,
         CommitEdit, Store, EndEarly
<1>4. Dated(m, n, c)
  BY <1>1, <1>2, <1>3 DEF AllDated
<1>5. ASSUME UNCHANGED <<namespace, edits>>, model'[m].policy = model[m].policy
      PROVE  Dated(m, n, c)'
  BY <1>4, <1>5 DEF Dated
<1>6. ASSUME CommitModel(t)
      PROVE  Dated(m, n, c)'
  <2>1. m \in Models /\ model'[m] = model[m]
    BY <1>2, <1>6, ModelCreated DEF Present
  <2> QED BY <1>5, <1>6, <2>1 DEF CommitModel
<1>7. ASSUME NEW deleted \in SUBSET Endpoints, CommitModelPatch(t, deleted)
      PROVE  Dated(m, n, c)'
  <2>1. model'[m].policy = model[m].policy
    BY <1>2, <1>7, ModelPatched DEF Present
  <2> QED BY <1>5, <1>7, <2>1 DEF CommitModelPatch
<1>8. ASSUME CommitActivation(t)
      PROVE  Dated(m, n, c)'
  BY <1>2, <1>4, <1>8, DatedActivation
<1>9. ASSUME CommitEdit(t)
      PROVE  Dated(m, n, c)'
  <2>1. ~EndEarly(t)
    <3>1. edits \in Nat
      BY CatalogAssumption DEF Typed, TypeOK
    <3>2. edits' = edits + 1
      BY <1>9 DEF CommitEdit
    <3>3. EndEarly(t) => edits' = edits
      BY DEF EndEarly, rows
    <3> QED BY <3>1, <3>2, <3>3
  <2>2. Counted(tx[t])
    BY <2>1 DEF Fresh, Holds
  <2> QED BY <1>2, <1>4, <1>9, <2>2, DatedEdit
<1> QED BY <1>5, <1>6, <1>7, <1>8, <1>9
        DEF Close, CommitPatch, CommitDelete, Store, EndEarly, rows

\* A request that opens adds the answer it will give, which is dated.
LEMMA DatedOpen ==
    ASSUME Typed, Kept, AllDated, NEW t \in Transactions, Open(t)
    PROVE  Kept' /\ AllDated'
<1>1. PICK q \in Tx : /\ Begin(t, q)
                      /\ q.op = "answer" =>
                           /\ q.content = edits
                           /\ \A p \in Policies : q.spaces[p] # 0 =>
                                 q.spaces[p] = namespace[model[q.on].policy]
  <2> DEFINE Just(q) == q.op = "answer" =>
                           /\ q.content = edits
                           /\ \A p \in Policies : q.spaces[p] # 0 =>
                                 q.spaces[p] = namespace[model[q.on].policy]
  <2>0. TypeOK
    BY DEF Typed
  <2> SUFFICES \E q \in Tx : Begin(t, q) /\ Just(q)
    OBVIOUS
  <2>8. \A q : q.op # "answer" => Just(q)
    OBVIOUS
  <2>1. ASSUME NEW m \in Models, Load(t, m)
        PROVE  \E q \in Tx : Begin(t, q) /\ Just(q)
    BY <2>0, <2>1, AnswerOpens
  <2> HIDE DEF Just
  <2>2. ASSUME NEW e \in Endpoints, NEW enabled \in BOOLEAN, NEW frontier \in BOOLEAN,
               PatchEndpoint(t, e, enabled, frontier)
        PROVE  \E q \in Tx : Begin(t, q) /\ Just(q)
    BY <2>0, <2>8, <2>2, PatchOpens
  <2>3. ASSUME NEW e \in Endpoints, DeleteEndpoint(t, e)
        PROVE  \E q \in Tx : Begin(t, q) /\ Just(q)
    BY <2>0, <2>8, <2>3, DeleteOpens
  <2>4. ASSUME NEW m \in Models, NEW to \in References, NEW members \in SUBSET Endpoints,
               CreateModel(t, m, to, members)
        PROVE  \E q \in Tx : Begin(t, q) /\ Just(q)
    <3>1. PICK q \in Tx : Begin(t, q) /\ CreatesModel(q, m, to, members)
      BY <2>0, <2>4, ModelOpens
    <3>2. q.op # "answer"
      BY <3>1 DEF CreatesModel
    <3> QED BY <2>8, <3>1, <3>2
  <2>5. ASSUME NEW m \in Models, NEW to \in References, NEW members \in SUBSET Endpoints,
               NEW pooled \in BOOLEAN, PatchModel(t, m, to, members, pooled)
        PROVE  \E q \in Tx : Begin(t, q) /\ Just(q)
    <3>1. PICK q \in Tx : Begin(t, q) /\ PatchesModel(q, m, to, members, pooled)
      BY <2>0, <2>5, ModelPatchOpens
    <3>2. q.op # "answer"
      BY <3>1 DEF PatchesModel
    <3> QED BY <2>8, <3>1, <3>2
  <2>6. ASSUME NEW m \in Models, NEW p \in Policies, ActivatePolicy(t, m, p)
        PROVE  \E q \in Tx : Begin(t, q) /\ Just(q)
    <3>1. PICK q \in Tx : Begin(t, q) /\ ActivatesPolicy(q, m, p)
      BY <2>0, <2>6, ActivationOpens
    <3>2. q.op # "answer"
      BY <3>1 DEF ActivatesPolicy
    <3> QED BY <2>8, <3>1, <3>2
  <2>7. ASSUME EditProfile(t)
        PROVE  \E q \in Tx : Begin(t, q) /\ Just(q)
    BY <2>0, <2>8, <2>7, EditOpens
  <2> QED BY <2>1, <2>2, <2>3, <2>4, <2>5, <2>6, <2>7 DEF Open
<1>2. /\ tx'[t] = q
      /\ \A u \in Transactions \ {t} : tx'[u] = tx[u]
      /\ UNCHANGED <<model, namespace, edits, answers, back>>
  BY <1>1, BeginIs DEF Typed, TypeOK
<1>3. Present' = Present
  BY <1>2 DEF Present
<1>4. ASSUME NEW m \in Present \ back, NEW n, NEW c, Given(m, n, c)'
      PROVE  Dated(m, n, c)
  <2>1. CASE Given(m, n, c)
    BY <2>1 DEF AllDated
  <2>2. CASE ~Given(m, n, c)
    <3>1. PICK u \in Transactions, p \in Policies :
             /\ tx'[u].op = "answer" /\ tx'[u].on = m /\ tx'[u].content = c
             /\ tx'[u].spaces[p] = n /\ n # 0
      BY <1>2, <1>4, <2>2 DEF Given
    <3>2. u = t
      BY <1>2, <2>2, <3>1 DEF Given
    <3>3. c = edits /\ n = namespace[model[m].policy]
      BY <1>1, <1>2, <3>1, <3>2
    <3> QED BY <3>3, NamespaceType DEF Dated
  <2> QED BY <2>1, <2>2
<1>5. AllDated'
  <2>1. ASSUME NEW m \in Present' \ back', NEW n, NEW c, Given(m, n, c)'
        PROVE  Dated(m, n, c)'
    BY <1>2, <1>3, <1>4, <2>1 DEF Dated
  <2> QED BY <2>1 DEF AllDated
<1> QED BY <1>2, <1>3, <1>5 DEF Kept

LEMMA DatedStep ==
    ASSUME Typed, Fresh, Kept, ~overtaken => AllDated, [Next]_vars
    PROVE  Kept' /\ (~overtaken' => AllDated')
<1>1. ASSUME NEW t \in Transactions, Open(t)
      PROVE  Kept' /\ (~overtaken' => AllDated')
  <2>1. CASE overtaken
    <3>1. PICK q \in Tx : Begin(t, q)
      BY <1>1, OpenBegins DEF Typed
    <3> QED BY <2>1, <3>1 DEF Begin, rows, Kept, Present
  <2>2. CASE ~overtaken
    BY <1>1, <2>2, DatedOpen
  <2> QED BY <2>1, <2>2
<1>2. ASSUME NEW t \in Transactions, Close(t)
      PROVE  Kept' /\ (~overtaken' => AllDated')
  <2>1. Kept'
    BY <1>2, KeptCommits
  <2>2. CASE EndEarly(t)
    <3>1. overtaken' = overtaken
      BY <2>2 DEF EndEarly
    <3> QED BY <1>2, <2>1, <2>2, <3>1, DatedCommits
  <2>3. CASE ~EndEarly(t)
    BY <1>2, <2>1, <2>3, NotOvertaken, DatedCommits
  <2> QED BY <2>2, <2>3
<1>3. ASSUME UNCHANGED <<model, edits, answers, tx, overtaken, back>>,
             \A p \in Known : namespace'[p] = namespace[p]
      PROVE  Kept' /\ (~overtaken' => AllDated')
  <2>1. Present' = Present
    BY <1>3 DEF Present
  <2>2. \A m \in Present : namespace'[model'[m].policy] = namespace[model[m].policy]
    BY <1>3 DEF Typed
  <2>3. ASSUME NEW m \in Present' \ back', NEW n, NEW c, AllDated, Given(m, n, c)'
        PROVE  Dated(m, n, c)'
    <3>1. Given(m, n, c)
      BY <1>3, <2>3 DEF Given
    <3>2. Dated(m, n, c)
      BY <1>3, <2>1, <2>3, <3>1 DEF AllDated
    <3> QED BY <1>3, <2>1, <2>2, <3>2 DEF Dated
  <2>4. AllDated => AllDated'
    BY <2>3 DEF AllDated
  <2> QED BY <1>3, <2>1, <2>4 DEF Kept
<1>4. ASSUME NEW e \in Endpoints, NEW enabled \in BOOLEAN, NEW frontier \in BOOLEAN,
             CreateEndpoint(e, enabled, frontier)
      PROVE  Kept' /\ (~overtaken' => AllDated')
  BY <1>3, <1>4 DEF CreateEndpoint
<1>5. ASSUME NEW p \in Policies, NEW version, CreatePolicy(p, version)
      PROVE  Kept' /\ (~overtaken' => AllDated')
  <2>1. \A o \in Known : namespace'[o] = namespace[o]
    BY <1>5 DEF CreatePolicy, Known, Typed, TypeOK
  <2> QED BY <1>3, <1>5, <2>1 DEF CreatePolicy
<1>6. CASE UNCHANGED vars
  BY <1>3, <1>6 DEF vars, rows
<1> QED BY <1>1, <1>2, <1>4, <1>5, <1>6 DEF Next, ClonePolicy

\* Unless an edit has raised namespaces that were no longer so, or the model was
\* given a policy whose namespace may have earlier answers, no answer from
\* before an edit of the profile is served to a model whose policy names it.
THEOREM AnswersAreCurrent == Spec => []CurrentAnswers
<1> DEFINE AInv == Typed /\ Fresh /\ Kept /\ (~overtaken => AllDated)
<1>1. Init => AInv
  <2>1. ASSUME Init
        PROVE  Kept /\ AllDated
    BY <2>1 DEF Init, Kept, AllDated, Present
  <2> QED BY <2>1, TypedInit, FreshInit
<1>2. AInv /\ [Next]_vars => AInv'
  BY TypedStep, FreshStep, DatedStep
<1>3. AInv => CurrentAnswers
  <2> SUFFICES ASSUME AInv, ~overtaken, NEW m \in Present \ back, model[m].policy \in Naming,
                      NEW a \in Served(m)
               PROVE  a.content = edits
    BY DEF CurrentAnswers
  <2>1. Given(m, a.namespace, a.content) /\ a.namespace = namespace[model[m].policy]
    BY DEF Given, Served
  <2>2. Dated(m, a.namespace, a.content)
    BY <2>1 DEF AllDated
  <2> QED BY <2>1, <2>2, NamespaceType DEF Dated
<1> QED BY <1>1, <1>2, <1>3, PTL DEF Spec
=============================================================================
