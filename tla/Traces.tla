------------------------------- MODULE Traces -------------------------------
(***************************************************************************)
(* Provenance (spec 004) and semantic memory (P8): what the hub writes     *)
(* down of a request it has answered.  logTrace starts a goroutine that    *)
(* inserts the trace; that of a diagnosis starts another, which has the    *)
(* agent embed a summary and stores it as an incident.  Nothing waits for  *)
(* them, nothing retries them, and a hub that stops takes them with it.    *)
(***************************************************************************)
EXTENDS Naturals

CONSTANTS
  Asker,    \* requests that are answered once: questions, renewals, messages
  Budgets   \* how much may happen: one of these is drawn at the start

ASSUME TracesAssumption == Budgets # {}

VARIABLES
  job,        \* job[r]: the goroutine that writes r down, and what it writes
  traces,     \* the rows of traces
  incidents,  \* the rows of incident_embeddings
  budget,     \* what may still happen, by kind
  marred      \* the requests a failure has hit (history)

tables == <<traces, incidents>>
traceVars == <<job, tables, budget, marred>>

Intent == {"health_check", "cert_check", "diagnose", "renew_cert", "chat"}
Tier   == {"none", "no_data", "tier1", "tier2"}
Status == {"healthy", "degraded", "unhealthy", "ok", "not_applicable",
           "no_data", "partial", "error"}

\* agentResp is nil, has nothing to summarise, or has.
Resp == {"nil", "empty", "text"}

Log == [intent: Intent, tier: Tier, status: Status, resp: Resp]

NoLog == [intent |-> "chat", tier |-> "none", status |-> "ok", resp |-> "nil"]

\* Two uuids are drawn per trace: the row's primary key and the trace_id the
\* caller is told.
RowId(r)   == <<r, "row">>
TraceId(r) == <<r, "trace">>
Id == {RowId(r): r \in Asker} \cup {TraceId(r): r \in Asker}

TracesTypeOK ==
  /\ job \in [Asker -> [step: {"none", "insert", "embed", "store", "done"}, log: Log,
                     vector: BOOLEAN]]
  /\ traces \subseteq [id: Id, trace_id: Id, tier: Tier, status: Status]
  /\ incidents \subseteq [id: Id, trace_id: Id, embedded: BOOLEAN]
  /\ marred \subseteq Asker

TracesInit ==
  /\ budget \in Budgets
  /\ job = [r \in Asker |-> [step |-> "none", log |-> NoLog, vector |-> FALSE]]
  /\ traces = {}
  /\ incidents = {}
  /\ marred = {}

Spend(kind) == budget[kind] > 0 /\ budget' = [budget EXCEPT ![kind] = @ - 1]

Writing(r) == job[r].step \in {"insert", "embed", "store"}

(***************************************************************************)
(* The goroutines                                                          *)
(***************************************************************************)

\* logTrace, called by a handler just before it answers.
logTrace(r, intent, tier, status, resp) ==
  job' = [job EXCEPT ![r] = [step |-> "insert", vector |-> FALSE,
            log |-> [intent |-> intent, tier |-> tier, status |-> status, resp |-> resp]]]

Goto(r, step) == job' = [job EXCEPT ![r].step = step]

TraceRow(r) == [id |-> RowId(r), trace_id |-> TraceId(r),
                tier |-> job[r].log.tier, status |-> job[r].log.status]

\* Only a diagnosis the agent has answered, with something to summarise.
Memorable(log) ==
  log.tier = "tier2" /\ log.intent = "diagnose" /\ log.resp = "text"

InsertTrace(r) ==
  /\ job[r].step = "insert"
  /\ traces' = traces \cup {TraceRow(r)}
  /\ Goto(r, IF Memorable(job[r].log) THEN "embed" ELSE "done")
  /\ UNCHANGED <<incidents, budget, marred>>

\* The INSERT fails, or its 3s pass with or without effect.
InsertTraceFails(r) ==
  /\ job[r].step = "insert"
  /\ Spend("fault")
  /\ traces' \in {traces, traces \cup {TraceRow(r)}}
  /\ Goto(r, "done")
  /\ marred' = marred \cup {r}
  /\ UNCHANGED incidents

\* POST /embed: a vector, or none because the service is unavailable.
Embed(r, available) ==
  /\ job[r].step = "embed"
  /\ job' = [job EXCEPT ![r].step = "store", ![r].vector = available]
  /\ UNCHANGED <<tables, budget, marred>>

\* incident_embeddings.trace_id REFERENCES traces(id).
ForeignKey(e) == \E t \in traces: t.id = e.trace_id

IncidentRow(r) == [id |-> RowId(r), trace_id |-> TraceId(r),
                   embedded |-> job[r].vector]

\* InsertIncidentEmbedding, whose error is logged.
StoreIncident(r) ==
  /\ job[r].step = "store"
  /\ incidents' = IF ForeignKey(IncidentRow(r)) THEN incidents \cup {IncidentRow(r)}
                                                ELSE incidents
  /\ Goto(r, "done")
  /\ UNCHANGED <<traces, budget, marred>>

StoreIncidentFails(r) ==
  /\ job[r].step = "store"
  /\ Spend("fault")
  /\ Goto(r, "done")
  /\ marred' = marred \cup {r}
  /\ UNCHANGED tables

(***************************************************************************)
(* The readers                                                             *)
(***************************************************************************)

\* GET /admin/traces: the history view.
ListTraces == traces

\* POST /api/similar-incidents, for an agent that diagnoses: by vector, or by
\* recency when the question could not be embedded.
FindSimilarIncidents(byVector) == {e \in incidents: byVector => e.embedded}

JobStep(r) ==
  \/ InsertTrace(r) \/ StoreIncident(r)
  \/ \E available \in BOOLEAN: Embed(r, available)

JobFails(r) == InsertTraceFails(r) \/ StoreIncidentFails(r)

(***************************************************************************)
(* Properties                                                              *)
(***************************************************************************)

\* The history view has r under the id its caller was told, with the tier and
\* the status the answer had.
Traced(r, tier, status) ==
  \E t \in ListTraces:
    t.trace_id = TraceId(r) /\ t.tier = tier /\ t.status = status

\* "Embed Tier-2 diagnose traces so DiagnoseSkill can retrieve similar past
\* incidents" (handlers.go:785): the incident of a diagnosis whose goroutines
\* are through, unhindered, is there to be found.
IncidentsAreRemembered ==
  \A r \in Asker:
    job[r].step = "done" /\ r \notin marred /\ Memorable(job[r].log)
      => \E e \in FindSimilarIncidents(FALSE): e.id = RowId(r)
=============================================================================
