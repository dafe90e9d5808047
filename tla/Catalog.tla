------------------------------ MODULE Catalog ------------------------------
(***************************************************************************)
(* What a gateway request is routed with: physical endpoints, logical      *)
(* models with their pools, routing policies with their cache namespaces,  *)
(* and the content of the SLM profile that policies name.  The requests of *)
(* the control plane that write them                                       *)
(* (services/gateway/ecoroute/api/control.py) read rows in one statement,  *)
(* check them against each other and commit later, under READ COMMITTED    *)
(* and without a lock: nothing but these checks relates the rows.  Gateway *)
(* requests read them all (_load_context of api/gateway.py) and leave      *)
(* answers in the cache, under the namespace they read.                    *)
(***************************************************************************)
EXTENDS Naturals, FiniteSets

CONSTANTS
    Endpoints,      \* ids of model_endpoints
    Models,         \* aliases of logical models
    Policies,       \* ids of routing policies
    Allowed,        \* the endpoints that the config of a policy admits, or all
    Naming,         \* the policies with a task rule that names the profile
    Seeded,         \* the endpoints and policies that seed.py inserts
    Transactions,   \* bound: requests handled at one time
    MaxStarted,     \* bound: requests that start
    MaxNamespace,   \* bound: namespace versions of policies
    MaxEdits        \* bound: edits of the profile's content

ASSUME CatalogAssumption ==
    /\ Allowed \in [Policies -> SUBSET Endpoints]
    /\ Naming \subseteq Policies /\ Seeded \subseteq Endpoints \cup Policies
    /\ MaxStarted \in Nat /\ MaxNamespace \in Nat /\ MaxEdits \in Nat
    /\ IsFiniteSet(Models)
    /\ "none" \notin Endpoints \cup Models \cup Policies

VARIABLES
    endpoint,       \* the rows of model_endpoints
    model,          \* the rows of logical_models
    pool,           \* logical_model_endpoints, by model
    namespace,      \* config.namespace_version of a policy, 0 when it is absent
    edits,          \* the content of the profile, as the number of edits it had
    answers,        \* cache entries: the model, the namespace, the content then
    tx,             \* the requests being handled
    started,
    overtaken,      \* a request was committed that had read what is no longer so
    back            \* models that went back to the namespace of earlier answers

rows == <<endpoint, model, pool, namespace, edits, answers>>
vars == <<rows, tx, started, overtaken, back>>

Endpoint == [exists : BOOLEAN, deleted : BOOLEAN, enabled : BOOLEAN, frontier : BOOLEAN]
NoEndpoint == [exists |-> FALSE, deleted |-> FALSE, enabled |-> FALSE, frontier |-> FALSE]

References == [baseline : Endpoints, fallback : Endpoints, impact : Endpoints,
               policy : Policies]
NoModel == [baseline |-> "none", fallback |-> "none", impact |-> "none", policy |-> "none"]

Operations == {"none", "patch endpoint", "delete endpoint", "create model", "patch model",
               "activate policy", "edit profile", "answer"}
Tx == [op : Operations,
       on : Endpoints \cup Models \cup {"none"},           \* what it is about
       was : Endpoint, new : Endpoint,                     \* an endpoint, read and written
       read : References \cup {NoModel},                   \* a model, read and written
       wanted : References \cup {NoModel},
       members : SUBSET Endpoints, pooled : BOOLEAN,       \* its pool, written or not
       seen : SUBSET Endpoints,                            \* and read
       spaces : [Policies -> Nat], content : Nat,
       rows : SUBSET (Endpoints \cup Models \cup Policies \cup {"models", "profile"}),
       behind : BOOLEAN]                                   \* a row it read has changed
Idle == [op |-> "none", on |-> "none", was |-> NoEndpoint, new |-> NoEndpoint,
         read |-> NoModel, wanted |-> NoModel, members |-> {}, pooled |-> FALSE, seen |-> {},
         spaces |-> [p \in Policies |-> 0], content |-> 0, rows |-> {}, behind |-> FALSE]

TypeOK ==
    /\ endpoint \in [Endpoints -> Endpoint]
    /\ model \in [Models -> References \cup {NoModel}]
    /\ pool \in [Models -> SUBSET Endpoints]
    /\ namespace \in [Policies -> Nat]
    /\ edits \in 0..MaxEdits
    /\ answers \subseteq [model : Models, namespace : Nat, content : 0..MaxEdits]
    /\ tx \in [Transactions -> Tx]
    /\ started \in 0..MaxStarted
    /\ overtaken \in BOOLEAN
    /\ back \subseteq Models

Init ==
    /\ endpoint = [e \in Endpoints |->
                    IF e \in Seeded THEN [NoEndpoint EXCEPT !.exists = TRUE, !.enabled = TRUE,
                                                            !.frontier = TRUE]
                    ELSE NoEndpoint]
    /\ model = [m \in Models |-> NoModel]
    /\ pool = [m \in Models |-> {}]
    /\ namespace = [p \in Policies |-> IF p \in Seeded THEN 1 ELSE 0]
    /\ edits = 0
    /\ answers = {}
    /\ tx = [t \in Transactions |-> Idle]
    /\ started = 0
    /\ overtaken = FALSE
    /\ back = {}

Present == {m \in Models : model[m] # NoModel}
Live == {e \in Endpoints : endpoint[e].exists /\ ~endpoint[e].deleted}
Known == {p \in Policies : namespace[p] > 0}

\* A flush writes a column only when its new value differs from the one read.
Written(now, read, new) == IF new = read THEN now ELSE new

\* A request reads the rows it depends on, and what it will write is decided.
Begin(t, q) ==
    /\ started' = started + 1
    /\ tx' = [tx EXCEPT ![t] = q]
    /\ UNCHANGED <<rows, overtaken, back>>

\* It commits: the other requests that read one of these rows are behind.
Commit(t, written) ==
    /\ tx' = [u \in Transactions |->
                IF u = t THEN Idle
                ELSE [tx[u] EXCEPT !.behind = @ \/ tx[u].rows \cap written # {}]]
    /\ overtaken' = (overtaken \/ tx[t].behind)
    /\ UNCHANGED started

\* It is refused, or its flush fails: nothing is written.
EndEarly(t) ==
    /\ tx[t].op # "none"
    /\ tx' = [tx EXCEPT ![t] = Idle]
    /\ UNCHANGED <<rows, started, overtaken, back>>
-----------------------------------------------------------------------------
(* Endpoints.                                                              *)

\* create_endpoint: a row of its own; what it reads is never deleted.
CreateEndpoint(e, enabled, frontier) ==
    /\ ~endpoint[e].exists
    /\ started < MaxStarted /\ started' = started + 1
    /\ endpoint' = [endpoint EXCEPT ![e] = [exists |-> TRUE, deleted |-> FALSE,
                                            enabled |-> enabled, frontier |-> frontier]]
    /\ UNCHANGED <<model, pool, namespace, edits, answers, tx, overtaken, back>>

\* patch_endpoint: whatever models refer to it.  (Here and below, a request
\* that changes nothing is left out.)
PatchEndpoint(t, e, enabled, frontier) ==
    /\ e \in Live
    /\ <<enabled, frontier>> # <<endpoint[e].enabled, endpoint[e].frontier>>
    /\ Begin(t, [Idle EXCEPT !.op = "patch endpoint", !.on = e, !.was = endpoint[e],
                             !.new = [endpoint[e] EXCEPT !.enabled = enabled, !.frontier = frontier],
                             !.rows = {e}])

CommitPatch(t) ==
    LET q == tx[t] IN
    /\ q.op = "patch endpoint"
    /\ endpoint' = [endpoint EXCEPT
                      ![q.on].enabled = Written(@, q.was.enabled, q.new.enabled),
                      ![q.on].frontier = Written(@, q.was.frontier, q.new.frontier)]
    /\ Commit(t, {q.on})
    /\ UNCHANGED <<model, pool, namespace, edits, answers, back>>

\* Mutant: only the pools are looked at.
InPool(e) == \E m \in Present : e \in pool[m]

\* The models that refer to an endpoint, in a role or in their pool.
Referenced(e) ==
    \E m \in Present : e \in pool[m] \cup {model[m].baseline, model[m].fallback, model[m].impact}

\* delete_endpoint: refused while a model refers to it.
DeleteEndpoint(t, e) ==
    /\ e \in Live
    /\ ~Referenced(e)
    /\ Begin(t, [Idle EXCEPT !.op = "delete endpoint", !.on = e, !.was = endpoint[e],
                             !.rows = {e, "models"}])

CommitDelete(t) ==
    LET q == tx[t] IN
    /\ q.op = "delete endpoint"
    /\ endpoint' = [endpoint EXCEPT ![q.on].deleted = TRUE,
                                    ![q.on].enabled = Written(@, q.was.enabled, FALSE)]
    /\ Commit(t, {q.on})
    /\ UNCHANGED <<model, pool, namespace, edits, answers, back>>
-----------------------------------------------------------------------------
(* Logical models.                                                         *)

Admits(p, e) == Allowed[p] = {} \/ e \in Allowed[p]

\* _validate_logical_references, of a pool and the references of its model.
Fits(members, to) ==
    /\ members # {} /\ members \subseteq Live
    /\ {to.baseline, to.fallback} \subseteq members
    /\ endpoint[to.fallback].enabled
    /\ endpoint[to.fallback].frontier \/ members = {to.baseline}
    /\ to.policy \in Known
    /\ \A e \in {to.baseline, to.fallback} : Admits(to.policy, e)

Comparable(to) == to.impact \in Live

\* create_logical_model
CreateModel(t, m, to, members) ==
    /\ m \notin Present
    /\ Fits(members, to) /\ Comparable(to)
    /\ Begin(t, [Idle EXCEPT !.op = "create model", !.on = m, !.wanted = to, !.members = members,
                             !.rows = members \cup {to.impact, to.policy, m}])

\* Mutant: the impact baseline is not written.
CommitModelBare(t) ==
    LET q == tx[t] IN
    /\ q.op = "create model"
    /\ q.on \notin Present
    /\ model' = [model EXCEPT ![q.on] = [q.wanted EXCEPT !.impact = "none"]]
    /\ pool' = [pool EXCEPT ![q.on] = q.members]
    /\ Commit(t, {q.on, "models"})
    /\ UNCHANGED <<endpoint, namespace, edits, answers, back>>

\* The alias is unique.
CommitModel(t) ==
    LET q == tx[t] IN
    /\ q.op = "create model"
    /\ q.on \notin Present
    /\ model' = [model EXCEPT ![q.on] = q.wanted]
    /\ pool' = [pool EXCEPT ![q.on] = q.members]
    /\ Commit(t, {q.on, "models"})
    /\ UNCHANGED <<endpoint, namespace, edits, answers, back>>

\* patch_logical_model: a pool, roles in it, or both; the policy stays.
PatchModel(t, m, to, members, pooled) ==
    /\ m \in Present
    /\ to.policy = model[m].policy
    /\ pooled \/ (members = pool[m] /\ to # model[m])
    /\ Fits(members, to) /\ Comparable(to)
    /\ Begin(t, [Idle EXCEPT !.op = "patch model", !.on = m, !.read = model[m], !.wanted = to,
                             !.members = members, !.pooled = pooled, !.seen = pool[m],
                             !.rows = members \cup {to.impact, to.policy, m}])

\* The columns that are written, and the pool, deleted as of before another
\* request's commit or after it, and inserted again.  Its keys are unique.
CommitModelPatch(t, deleted) ==
    LET q == tx[t]
        m == q.on
    IN
    /\ q.op = "patch model"
    /\ deleted \in {q.seen, pool[m]}
    /\ model' = [model EXCEPT
                   ![m].baseline = Written(@, q.read.baseline, q.wanted.baseline),
                   ![m].fallback = Written(@, q.read.fallback, q.wanted.fallback),
                   ![m].impact = Written(@, q.read.impact, q.wanted.impact)]
    /\ IF q.pooled THEN /\ (pool[m] \ deleted) \cap q.members = {}
                        /\ pool' = [pool EXCEPT ![m] = (@ \ deleted) \cup q.members]
       ELSE UNCHANGED pool
    /\ Commit(t, {m, "models"})
    /\ UNCHANGED <<endpoint, namespace, edits, answers, back>>
-----------------------------------------------------------------------------
(* Policies and their namespaces.                                          *)

\* create_policy, with a namespace version of the operator's.
CreatePolicy(p, version) ==
    /\ p \notin Known
    /\ started < MaxStarted /\ started' = started + 1
    /\ namespace' = [namespace EXCEPT ![p] = version]
    /\ UNCHANGED <<endpoint, model, pool, edits, answers, tx, overtaken, back>>

\* clone_policy: the clone keeps the namespace of its source, whatever else of
\* the config is changed with it.
ClonePolicy(p, source) ==
    /\ source \in Known
    /\ CreatePolicy(p, namespace[source])

\* activate_policy: the references of the model must fit the policy.
ActivatePolicy(t, m, p) ==
    /\ m \in Present /\ p # model[m].policy
    /\ Fits(pool[m], [model[m] EXCEPT !.policy = p])
    /\ Begin(t, [Idle EXCEPT !.op = "activate policy", !.on = m, !.read = model[m],
                             !.wanted = [model[m] EXCEPT !.policy = p],
                             !.rows = pool[m] \cup {p, m}])

\* Policy p may serve what was answered under policy q: its namespace is earlier,
\* or it is the same, which no edit has raised for q.
Earlier(p, q) == namespace[p] < namespace[q] \/ (namespace[p] = namespace[q] /\ q \notin Naming)

CommitActivation(t) ==
    LET q == tx[t]
        m == q.on
        p == Written(model[m].policy, q.read.policy, q.wanted.policy)
    IN
    /\ q.op = "activate policy"
    /\ model' = [model EXCEPT ![m].policy = p]
    /\ back' = IF Earlier(p, model[m].policy) THEN back \cup {m} ELSE back
    /\ Commit(t, {m, "models"})
    /\ UNCHANGED <<endpoint, pool, namespace, edits, answers>>

\* Mutant: the rules do not name it under the key that is looked for.
UsersNone(p) == {}

\* The models whose active policy names the profile: each adds one.
Users(p) == {m \in Present : model[m].policy = p /\ p \in Naming}

\* patch_slm_profile reads the profile, the models and their policies.
EditProfile(t) ==
    /\ Begin(t, [Idle EXCEPT !.op = "edit profile",
                             !.spaces = [p \in Policies |->
                                           IF Users(p) = {} THEN 0
                                           ELSE namespace[p] + Cardinality(Users(p))],
                             !.rows = {"profile", "models"} \cup {p \in Policies : Users(p) # {}}])

\* A changed content is a new one, in new namespaces.
CommitEdit(t) ==
    LET q == tx[t] IN
    /\ q.op = "edit profile"
    /\ edits < MaxEdits
    /\ \A p \in Policies : q.spaces[p] <= MaxNamespace
    /\ edits' = edits + 1
    /\ namespace' = [p \in Policies |-> IF q.spaces[p] = 0 THEN namespace[p] ELSE q.spaces[p]]
    /\ Commit(t, {"profile"} \cup {p \in Policies : q.spaces[p] # 0})
    /\ UNCHANGED <<endpoint, model, pool, answers, back>>
-----------------------------------------------------------------------------
(* Requests of the gateway.                                                *)

\* _load_context, of a model with a policy and an endpoint.
Load(t, m) ==
    /\ m \in Present
    /\ pool[m] \cap Live # {}
    /\ Begin(t, [Idle EXCEPT !.op = "answer", !.on = m, !.content = edits,
                             !.spaces = [p \in Policies |->
                                           IF p = model[m].policy THEN namespace[p] ELSE 0]])

\* It was answered, and the answer goes into the cache.
Store(t, p) ==
    LET q == tx[t] IN
    /\ q.op = "answer"
    /\ q.spaces[p] # 0
    /\ answers' = answers \cup {[model |-> q.on, namespace |-> q.spaces[p], content |-> q.content]}
    /\ Commit(t, {})
    /\ UNCHANGED <<endpoint, model, pool, namespace, edits, back>>
-----------------------------------------------------------------------------
\* A request starts: it reads, and is refused or decides.
Open(t) ==
    /\ tx[t].op = "none" /\ started < MaxStarted
    /\ \/ \E e \in Endpoints, enabled, frontier \in BOOLEAN : PatchEndpoint(t, e, enabled, frontier)
       \/ \E e \in Endpoints : DeleteEndpoint(t, e)
       \/ \E m \in Models, to \in References, members \in SUBSET Endpoints :
             \/ CreateModel(t, m, to, members)
             \/ \E pooled \in BOOLEAN : PatchModel(t, m, to, members, pooled)
       \/ \E m \in Models, p \in Policies : ActivatePolicy(t, m, p)
       \/ EditProfile(t)
       \/ \E m \in Models : Load(t, m)

\* It commits, or ends before.
Close(t) ==
    \/ CommitPatch(t) \/ CommitDelete(t)
    \/ CommitModel(t) \/ (\E deleted \in SUBSET Endpoints : CommitModelPatch(t, deleted))
    \/ CommitActivation(t) \/ CommitEdit(t)
    \/ \E p \in Policies : Store(t, p)
    \/ EndEarly(t)

Next ==
    \/ \E e \in Endpoints, enabled, frontier \in BOOLEAN : CreateEndpoint(e, enabled, frontier)
    \/ \E p \in Policies, version \in 1..MaxNamespace : CreatePolicy(p, version)
    \/ \E p, source \in Policies : ClonePolicy(p, source)
    \/ \E t \in Transactions : Open(t) \/ Close(t)

Spec == Init /\ [][Next]_vars
-----------------------------------------------------------------------------
(* Properties.                                                             *)

\* Every model can be routed: _load_context finds its baseline, with which the
\* gateway accounts for each request, its fallback and its impact baseline, and
\* its policy admits them.  No sequence of requests changes that, and requests
\* that overlap do only when one commits what it decided from rows that another
\* has changed since.
ContextIsComplete ==
    \A m \in Present : ~overtaken =>
        /\ {model[m].baseline, model[m].fallback} \subseteq pool[m] \cap Live
        /\ model[m].impact \in Live
        /\ \A e \in {model[m].baseline, model[m].fallback} : Admits(model[m].policy, e)

\* An answer that can be served is not older than the content of the profile
\* that the policy of its model names.
Served(m) == {a \in answers : a.model = m /\ a.namespace = namespace[model[m].policy]}

EditsInvalidate ==
    \A m \in Present : model[m].policy \in Naming =>
        \A a \in Served(m) : a.content = edits

\* That is so unless an edit was decided from what is no longer so, or the model
\* was given a policy whose namespace may have earlier answers.
CurrentAnswers ==
    \A m \in Present \ back : model[m].policy \in Naming /\ ~overtaken =>
        \A a \in Served(m) : a.content = edits
=============================================================================
