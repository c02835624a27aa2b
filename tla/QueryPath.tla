----------------------------- MODULE QueryPath -----------------------------
(***************************************************************************)
(* A question put to the hub (HandleQuery): it is routed to leaf pods, the *)
(* rows of each are fetched, and either the deterministic fast path judges *)
(* them (Tier 1) or the agent answers (Tier 2, ADR 0006); and the renewal  *)
(* of a certificate (HandleCertRenew), which goes to the agent at once.    *)
(* Rows change at any time, by ingestion.  Every read of the registry and  *)
(* of a shard is a step of its own, and may fail.                          *)
(***************************************************************************)
EXTENDS Traces, FiniteSets

CONSTANTS
  Query,    \* questions and renewals
  Space,    \* Kubernetes namespaces, one live-state shard each
  Certs,    \* the leaf k8fy.certificates
  Entity,   \* keys of rows: names of K8s pods, or of TLS secrets
  Worker    \* those that share the service's prefix but are not of it

ASSUME QueryAssumption ==
  /\ Query \subseteq Asker /\ Worker \subseteq Entity /\ Certs \notin Space
  /\ Space # {} /\ IsFiniteSet(Space) /\ IsFiniteSet(Entity)
  /\ \A b \in Budgets: b.formed \subseteq Space \cup {Certs}

VARIABLES
  leaves,  \* the leaf pods the registry shows
  rows,    \* rows[l][e]: what current_state has under e in leaf l
  query,   \* query[q]: how far q is, and what it has read
  reply,   \* reply[q]: what the client was answered
  seeds,   \* the renewals whose new certificate was put into events
  seen     \* seen[q]: what could have been said of q's leaf since it was put

\* events (of which seeds are) is not where certificates are read: it is
\* written here and read by nobody.
storeVars == <<leaves, rows>>
queryVars == <<storeVars, query, reply, seeds, seen>>

Leaf == Space \cup {Certs}

(***************************************************************************)
(* A row says of a pod that it is healthy, that it is up but not healthy,  *)
(* that it has completed, or that it is in phase Failed; of a certificate  *)
(* that it is valid or due.  "none": no row, or one without a phase.       *)
(***************************************************************************)
State == {"none", "ok", "bad", "done", "failed"}

\* A Failed pod is history to the fast path, as one that completed.
Terminated == {"done", "failed"}

Nothing == [e \in Entity |-> "none"]

Verdict == [status: Status, count: 0..(Cardinality(Leaf) * Cardinality(Entity))]

Reply == [tier: Tier, verdict: Verdict]

Said(tier, status) == [tier |-> tier, verdict |-> [status |-> status, count |-> 0]]

NoReply == Said("none", "ok")

QueryTypeOK ==
  /\ leaves \subseteq Leaf
  /\ rows \in [Leaf -> [Entity -> State]]
  /\ query \in [Query -> [pc: {"idle", "get", "list", "fetch", "agent", "seed",
                               "done", "gone"},
                          intent: Intent, space: Space,
                          route: SUBSET Leaf, left: SUBSET Leaf, failed: BOOLEAN,
                          read: [Leaf -> [Entity -> State]]]]
  /\ reply \in [Query -> Reply]
  /\ seeds \subseteq Query
  /\ seen \in [Query -> SUBSET Verdict]

NewQuery(pc, intent, n) ==
  [pc |-> pc, intent |-> intent, space |-> n, route |-> {}, left |-> {},
   failed |-> FALSE, read |-> [l \in Leaf |-> Nothing]]

\* Some leaves have been formed and filled before.
QueryInit ==
  /\ leaves = budget.formed
  /\ rows = [l \in Leaf |-> IF l \in leaves THEN [e \in Entity |-> "ok"] ELSE Nothing]
  /\ query = [q \in Query |-> NewQuery("idle", "chat", CHOOSE n \in Space: TRUE)]
  /\ reply = [q \in Query |-> NoReply]
  /\ seeds = {}
  /\ seen = [q \in Query |-> {}]

(***************************************************************************)
(* Tier 1: the evaluator, over what was read                               *)
(***************************************************************************)

\* Variant: by prefix alone, as the SQL does.
entityMatchesService_Prefix(e) == e \in Entity

\* {service}-{rs-hash}-{pod-hash}, not {service}-worker-...
entityMatchesService(e) == e \notin Worker

\* The rows of the leaves in route that are about the service.
forEachRow(route, read) ==
  {x \in route \X Entity: entityMatchesService(x[2]) /\ read[x[1]][x[2]] # "none"}

\* Variant: of any phase.
Active_AnyPhase(route, read) == forEachRow(route, read)

\* Terminated pods, kept as history, do not count.
Active(route, read) ==
  {x \in forEachRow(route, read): read[x[1]][x[2]] \notin Terminated}

PodHealth(state) == IF state = "ok" THEN "healthy" ELSE "unhealthy"

\* Variant: without a healthy pod nothing is known of a service.
ServiceStatus_Unknown(healthy, all) ==
  CASE healthy = 0                            -> "unknown"
    [] healthy > 0 /\ 4 * healthy >= 3 * all -> "healthy"
    [] OTHER                                  -> "degraded"

\* 75% of the active pods make a healthy service.
ServiceStatus(healthy, all) ==
  CASE healthy = 0                            -> "unhealthy"
    [] healthy > 0 /\ 4 * healthy >= 3 * all -> "healthy"
    [] OTHER                                  -> "degraded"

tier1Health(route, read) ==
  LET active  == Active(route, read)
      healthy == Cardinality({x \in active: PodHealth(read[x[1]][x[2]]) = "healthy"})
  IN IF active = {} THEN {}
     ELSE {[status |-> ServiceStatus(healthy, Cardinality(active)), count |-> healthy]}

CertRenewal(state) == state # "ok"

NoCertificates == [status |-> "not_applicable", count |-> 0]

\* An inventory without a certificate is answered too, whether it is empty or
\* could not be read.  Names are only loosely matched with the service.
tier1Cert(route, read) ==
  LET certs == {x \in route \X Entity: read[x[1]][x[2]] # "none"}
  IN IF certs = {} THEN {NoCertificates}
     ELSE {[status |-> "ok",
            count |-> Cardinality({x \in certs: CertRenewal(read[x[1]][x[2]])})]}

\* The answer, if there is one without the agent.
tryDeterministic(intent, route, read) ==
  CASE intent = "health_check" -> tier1Health(route, read)
    [] intent = "cert_check"   -> tier1Cert(route, read)
    [] OTHER                   -> {}

(***************************************************************************)
(* What could be said of one leaf at one instant (used by seen only)       *)
(*                                                                         *)
(* The thresholds are those of spec 002, over pods that have not           *)
(* terminated, and of the renewal rule.  Two rules are tier1.go's own and  *)
(* depart from the specs: a Failed pod is left out, where spec 002 counts  *)
(* it as unhealthy, and an inventory without certificates gets an answer,  *)
(* where spec 003 leaves it to the agent.                                  *)
(***************************************************************************)

\* Healthy: at most a quarter of the pods that are up is not healthy; degraded:
\* at least one is healthy; a certificate counts if it is due.
Truth(intent, content) ==
  LET among(es, s) == Cardinality({e \in es: content[e] = s})
      ok   == among(Entity \ Worker, "ok")
      bad  == among(Entity \ Worker, "bad")
      due  == among(Entity, "bad")
  IN CASE intent = "health_check" ->
            [status |-> IF ok > 0 /\ 4 * bad <= ok + bad THEN "healthy"
                        ELSE IF ok > 0 THEN "degraded" ELSE "unhealthy",
             count  |-> ok]
       [] intent = "cert_check" /\ content = Nothing -> NoCertificates
       [] OTHER -> [status |-> "ok", count |-> due]

\* The leaf a question is about.
About(intent, n) == IF intent = "cert_check" THEN Certs ELSE n

Open(q) == query[q].pc \notin {"idle", "done", "gone"}

(***************************************************************************)
(* Ingestion, as far as a reader can tell                                  *)
(***************************************************************************)

FormLeaf(l) ==
  /\ l \notin leaves
  /\ Spend("change")
  /\ leaves' = leaves \cup {l}
  /\ UNCHANGED <<job, tables, marred, rows, query, reply, seeds, seen>>

\* CurrentState.Store: a row is replaced, never taken away.
Store(l, e, s) ==
  /\ l \in leaves /\ s # "none" /\ rows[l][e] # s
  /\ l = Certs => s \notin Terminated
  /\ Spend("change")
  /\ rows' = [rows EXCEPT ![l][e] = s]
  /\ seen' = [q \in Query |->
       IF Open(q) /\ About(query[q].intent, query[q].space) = l
         THEN seen[q] \cup {Truth(query[q].intent, rows'[l])} ELSE seen[q]]
  /\ UNCHANGED <<job, tables, marred, leaves, query, reply, seeds>>

(***************************************************************************)
(* The handler                                                             *)
(***************************************************************************)

FirstStep(intent) == CASE intent \in {"health_check", "cert_check"} -> "get"
                       [] intent = "diagnose"   -> "list"
                       [] intent = "renew_cert" -> "agent"

\* What is left once q is answered.
Closed(q, pc) == [query EXCEPT ![q].pc = pc, ![q].left = {},
                               ![q].read = [l \in Leaf |-> Nothing]]

HandleQuery(q, intent, n) ==
  /\ query[q].pc = "idle"
  /\ Spend("query")
  /\ query' = [query EXCEPT ![q] = NewQuery(FirstStep(intent), intent, n)]
  /\ seen' = [seen EXCEPT ![q] =
       IF intent \in {"health_check", "cert_check"}
         THEN {Truth(intent, rows[About(intent, n)])} ELSE {}]
  /\ UNCHANGED <<job, tables, marred, storeVars, reply, seeds>>

\* The reply is written after logTrace has been called.
Answer(q, tier, verdict, resp) ==
  /\ logTrace(q, query[q].intent, tier, verdict.status, resp)
  /\ reply' = [reply EXCEPT ![q] = [tier |-> tier, verdict |-> verdict]]
  /\ query' = Closed(q, "done")

AnswerPlainly(q, tier, status, resp) == Answer(q, tier, Said(tier, status).verdict, resp)

\* No leaf: an answer of its own.
Routed(q, pods) ==
  IF pods = {} THEN AnswerPlainly(q, "no_data", "no_data", "nil")
  ELSE /\ query' = [query EXCEPT ![q].pc = "fetch", ![q].route = pods, ![q].left = pods]
       /\ UNCHANGED <<job, reply>>

\* routeLiveState falls back to all shards where getLeafPod finds nothing.
NotFound(q) ==
  IF query[q].intent = "health_check"
    THEN query' = [query EXCEPT ![q].pc = "list"] /\ UNCHANGED <<job, reply>>
    ELSE Routed(q, {})

GetPod(q) ==
  LET l == About(query[q].intent, query[q].space) IN
  /\ query[q].pc = "get"
  /\ IF l \in leaves THEN Routed(q, {l}) ELSE NotFound(q)
  /\ UNCHANGED <<tables, budget, marred, storeVars, seeds, seen>>

\* An error reads as a pod that is not there.
GetPodFails(q) ==
  /\ query[q].pc = "get"
  /\ Spend("fault")
  /\ NotFound(q)
  /\ UNCHANGED <<tables, marred, storeVars, seeds, seen>>

ListPods(q) ==
  /\ query[q].pc = "list"
  /\ Routed(q, IF query[q].intent = "health_check" THEN leaves \cap Space ELSE leaves)
  /\ UNCHANGED <<tables, budget, marred, storeVars, seeds, seen>>

\* RouteToPods fails: a 500.
ListPodsFails(q) ==
  /\ query[q].pc = "list"
  /\ Spend("fault")
  /\ AnswerPlainly(q, "none", "error", "nil")
  /\ UNCHANGED <<tables, marred, storeVars, seeds, seen>>

\* Variant: the rows of the leaf asked about, whichever leaf it is.
FetchFromPod_AskedSpace(q, l) ==
  /\ query[q].pc = "fetch" /\ l \in query[q].left
  /\ query' = [query EXCEPT ![q].left = @ \ {l},
                            ![q].read[l] = rows[query[q].space]]
  /\ UNCHANGED <<traceVars, storeVars, reply, seeds, seen>>

\* One statement: the rows of a leaf are of one instant, but not those of two.
FetchFromPod(q, l) ==
  /\ query[q].pc = "fetch" /\ l \in query[q].left
  /\ query' = [query EXCEPT ![q].left = @ \ {l}, ![q].read[l] = rows[l]]
  /\ UNCHANGED <<traceVars, storeVars, reply, seeds, seen>>

\* The leaf is left out.
FetchFails(q, l) ==
  /\ query[q].pc = "fetch" /\ l \in query[q].left
  /\ Spend("fault")
  /\ query' = [query EXCEPT ![q].left = @ \ {l}, ![q].failed = TRUE]
  /\ UNCHANGED <<job, tables, marred, storeVars, reply, seeds, seen>>

\* Variant: without rows to judge there is nothing to do.
Judge_NoFallThrough(q) ==
  /\ query[q].pc = "fetch" /\ query[q].left = {}
  /\ IF query[q].intent \in {"health_check", "cert_check"}
       THEN \E v \in tryDeterministic(query[q].intent, query[q].route, query[q].read):
              Answer(q, "tier1", v, "nil")
       ELSE query' = Closed(q, "agent") /\ UNCHANGED <<job, reply>>
  /\ UNCHANGED <<tables, budget, marred, storeVars, seeds, seen>>

\* All leaves are read: Tier 1 judges, or the agent is asked.
Judge(q) ==
  LET verdict == tryDeterministic(query[q].intent, query[q].route, query[q].read) IN
  /\ query[q].pc = "fetch" /\ query[q].left = {}
  /\ \/ \E v \in verdict: Answer(q, "tier1", v, "nil")
     \/ verdict = {} /\ query' = Closed(q, "agent") /\ UNCHANGED <<job, reply>>
  /\ UNCHANGED <<tables, budget, marred, storeVars, seeds, seen>>

\* Variant: what the agent says is taken as read.
AgentAnswers_Ok(q, status, resp) ==
  /\ query[q].pc = "agent"
  /\ IF query[q].intent = "renew_cert" /\ status = "ok" /\ resp = "text"
       THEN query' = [query EXCEPT ![q].pc = "seed"] /\ UNCHANGED <<job, reply>>
       ELSE /\ logTrace(q, query[q].intent, "tier2", "ok", resp)
            /\ reply' = [reply EXCEPT ![q] = Said("tier2", status)]
            /\ query' = Closed(q, "done")
  /\ UNCHANGED <<tables, budget, marred, storeVars, seeds, seen>>

\* 200 from the agent.  Its own errors come with a 200 as well, as a status; a
\* renewal that tells the new expiry goes on to store it.
AgentAnswers(q, status, resp) ==
  /\ query[q].pc = "agent"
  /\ IF query[q].intent = "renew_cert" /\ status = "ok" /\ resp = "text"
       THEN query' = [query EXCEPT ![q].pc = "seed"] /\ UNCHANGED <<job, reply>>
       ELSE AnswerPlainly(q, "tier2", status, resp)
  /\ UNCHANGED <<tables, budget, marred, storeVars, seeds, seen>>

\* It cannot be reached, answers otherwise, or lets the 180s of the client
\* pass: what was read is returned as it is.  A renewal is a 500, not traced.
AgentFails(q) ==
  /\ query[q].pc = "agent"
  /\ IF query[q].intent = "renew_cert"
       THEN /\ query' = Closed(q, "done")
            /\ reply' = [reply EXCEPT ![q] = Said("none", "error")]
            /\ UNCHANGED job
       ELSE AnswerPlainly(q, "tier2", "partial", "nil")
  /\ UNCHANGED <<tables, budget, marred, storeVars, seeds, seen>>

\* A renewed certificate is stored as an event, if it can be.
SeedCert(q, stored) ==
  /\ query[q].pc = "seed"
  /\ IF stored THEN seeds' = seeds \cup {q} /\ UNCHANGED budget
               ELSE Spend("fault") /\ UNCHANGED seeds
  /\ AnswerPlainly(q, "tier2", "ok", "text")
  /\ UNCHANGED <<tables, marred, storeVars, seen>>

QueryStep(q) ==
  \/ GetPod(q) \/ ListPods(q) \/ Judge(q) \/ AgentFails(q) \/ SeedCert(q, TRUE)
  \/ \E l \in Leaf: FetchFromPod(q, l)
  \/ \E status \in {"ok", "error"}, resp \in {"empty", "text"}: AgentAnswers(q, status, resp)

QueryFails(q) ==
  \/ GetPodFails(q) \/ ListPodsFails(q) \/ SeedCert(q, FALSE)
  \/ \E l \in Leaf: FetchFails(q, l)

QueryNext ==
  \/ \E l \in Leaf: FormLeaf(l) \/ \E e \in Entity, s \in State: Store(l, e, s)
  \/ \E q \in Query:
       \/ \E intent \in Intent \ {"chat"}, n \in Space: HandleQuery(q, intent, n)
       \/ QueryStep(q) \/ QueryFails(q)

(***************************************************************************)
(* Properties                                                              *)
(***************************************************************************)

\* A question was answered by the fast path from the very leaf it is about.
Judged(q) ==
  /\ query[q].pc = "done" /\ reply[q].tier = "tier1"
  /\ query[q].route = {About(query[q].intent, query[q].space)}

\* Such an answer is what could be said of that leaf at an instant between the
\* question and the answer: no stale row, no row of another service, another
\* shard or a pod that has terminated makes it anything else.  A read that failed
\* never yields a wrong verdict but one: that there are no certificates.  (A
\* verdict fanned out over all shards is of several instants.)
VerdictIsOfOneInstant ==
  \A q \in Query: Judged(q) =>
    \/ reply[q].verdict \in seen[q]
    \/ query[q].failed /\ reply[q].verdict = NoCertificates

\* What the trace of an answered question should show.
QuerySettled(q) ==
  \/ query[q].pc = "gone"
  \/ /\ query[q].pc = "done"
     /\ \/ query[q].intent = "renew_cert" /\ reply[q] = Said("none", "error")
        \/ q \in marred
        \/ Traced(q, reply[q].tier, reply[q].verdict.status)
=============================================================================
