# A formal model of Agentify

TLA+ specifications of the parts of Agentify whose correctness depends on the
order in which things happen, the TLC runs that check them on small instances,
and TLAPS proofs of their safety properties for every instance. All paths below
are relative to the repository root.

Agentify is a Go *hub* (`src/backend`), a Python *agent* that calls a language
model and, after an approval, patches Kubernetes (`src/agent`), one Python
*collector* per cluster, `agentify-discovery` (`src/adapters/discovery`), and a
React console (`src/frontend`). The hub keeps its data in Postgres and its pod
registry in DynamoDB. A *pod* in the hub's own vocabulary is a unit of stored
data (`k8fy.live-state.prod`), not a Kubernetes pod.

## 1. Inventory

| Component | Code | State it keeps | Operations | Hard behaviour | What makes it correct |
|---|---|---|---|---|---|
| Approval gate | `backend/internal/api/remediation.go`, `storage/postgres` | rows of `remediation_proposals` | propose, approve, reject, expire, execute, verify, record | concurrent decisions, TTL, a 180 s agent call, cancelled contexts, hub restarts | one decision, at most one write, answers that stay true, every approval settled |
| Agent write tools | `agent/k8fy/action_executor.py`, `skills/remediation_executor.py` | none (the cluster) | restart, scale, roll back | an answer lost after the PATCH | "ok" only of an applied action |
| Pod registry and cache | `storage/registry/*.go` | DynamoDB items; one snapshot per hub | get, list, upsert, invalidate, refresh | scan and install without a lock between, stale serving | what is routed to exists; a new pod becomes visible |
| Ingestion | `ingestion/ingester.go` | rows of the two event stores | form index and leaf, store, count | read-modify-writes of whole rows, failures between steps | counts never ahead of events; index trouble never loses an event |
| Query routing | `orchestrator/query_executor.go` | query statistics in the pod rows | route, fetch, count | fallback to fan-out, statistics racing ingestion | only existing pods are read |
| Query handler, Tier-1, evaluator | `api/handlers.go`, `tier1.go`, `trim.go`, `orchestrator/evaluator` | none | classify, route, fetch, judge, ask the agent, renew | rows that change between the reads, failed reads, fallbacks | a verdict was true at one instant while the question was open |
| Provenance and memory | `api/handlers.go` (`logTrace`, `embedAndStoreIncident`), `storage/postgres` | `traces`, `incident_embeddings` | trace, embed, store, list, find similar | goroutines after the answer, a hub that stops | the trace says what the client was told; incidents can be found |
| Chat | `api/handlers.go` | a session's messages | create, send, list, delete | whole-session write after a long call | a turn is lost only to a racing message or a failed write; deleted stays deleted |
| Fleet inventory | `discovery/main.py`, `inventory.py`, `ingress.py`, `health_snapshot.py`; cluster handlers | namespaces, services, entry points, pod counts per cluster | scan, push, replace, resolve | torn pushes, failed reads, skipped empty pushes | a table shows one whole snapshot per cluster, and in the end the current one |
| Integrations | `api/handlers.go`, `secrets/manager.go`, `cmd/migrate-integration-tokens` | a row and a secret | create, update, delete, migrate | two stores, no transaction, racing requests | the credential in effect is the one last given; no row without its secret |
| Collector hub | `api/collector_hub.go`, `discovery/live_relay.py` | `conns`, a pending map per connection | register, relay, answer, time out, replace | late answers and late cleanups, two collectors with one credential | a call gets its own answer, the live connection is the registered one |
| Change detection | `discovery/watch.py`, `normalize.py` | `deploy_revisions` in memory | watch, dedupe, push | dropped watches, restarts, lost pushes | rows are the rollouts, in order, repeated only after a restart |
| Deployment guardian | `api/deployment_guardian.go` | none (proposals by source event) | sweep, check, propose | check and INSERT around a long call, two hubs in a rolling update | a rollout is proposed for once |
| Rollback | `action_executor.py`, `api/handlers.go` (`HandleAgentFetch`), `governance/redact.go` | none | read history, patch images | history that moved on, other namespaces, redaction | images of the same deployment |
| Investigator | `api/investigator.go`, `notifier.go` | open incidents, last alerts (in memory) | sweep, alert, resolve | failed fetches look healthy, cap, cooldown, restart | an open incident was announced; a wrong resolution has a failed fetch for a cause; the open incidents settle on the anomalous namespaces |
| Retention | `retention/retention.go` | none | purge | races with readers of history | only old events go |
| Agent reasoning | `agent/k8fy/agent.py`, `tools.py`, `skills/` | a conversation | tool loop, skills | tool failures, turn limit | the loop ends with an answer |
| Frontend, infrastructure, middleware, config, telemetry, vector store | | | | no logic of the kind a model checker helps with | |

How they interact: the collector POSTs events to `/api/ingest` and inventories
to the cluster endpoints, and holds one websocket to the hub for on-demand
requests. The hub calls the agent over HTTP (`agent_client.go`), and the agent
calls back (`HandleAgentFetch`, `HandleLiveFetch`) for data. Investigator and
guardian are tickers inside the hub; both end in rows of
`remediation_proposals`, which the console or a webhook decides. Everything in
the hub shares one Postgres and, through the cache, one registry.

`PROJECT.json` lists all of these under "components", and under "hazards" each
place in the code where an order, a failure or a stale value could break one of
the promises in the last column, with the property that watches it.

## 2. Modules

| Module | Models | Used by |
|---|---|---|
| `ProposalLifecycle` | what ADR 0020 promises of a proposal: an abstract specification | `Remediation` |
| `Remediation` | the gate: table, handlers, agent calls and writes, faults | `MCRemediation`, `RemediationProofs` |
| `PodRegistry` | the DynamoDB table and the snapshot cache, cut at every lock and call | `Ingestion` |
| `Ingestion` | ingest calls and query loops over the registry | `MCIngestion`, `IngestionProofs` |
| `CollectorHub` | the hub's and the collector's ends of the live relay | `MCCollectorHub`, `HubProofs` |
| `DeployHistory` | rollout → watch → row → guardian → proposal → rollback | `MCDeployHistory`, `DeployProofs` |
| `Investigator` | the proactive loop: sweep → incidents → webhook and proposals | `MCInvestigator`, `InvestigatorProofs` |
| `Integrations` | the admin handlers, a row and its secret, the migration script | `FleetInventory`, `IntegrationsProofs` |
| `SnapshotRegistry` | what the fleet tables promise: an abstract specification | `FleetInventory` |
| `FleetInventory` | the collectors' scans and pushes, composed with the admin handlers | `MCFleetInventory`, `FleetProofs` |
| `Traces` | the goroutines that write traces and incidents after an answer | `QueryPath`, `ChatSession` |
| `QueryPath` | a question from routing to the reply; certificate renewal | `Console` |
| `ChatSession` | chat messages over whole-row reads and writes | `Console` |
| `Console` | the last three side by side, and a hub that stops | `MCConsole`, `ConsoleProofs` |
| `RemediationProofs`, `IngestionProofs`, `HubProofs`, `DeployProofs`, `InvestigatorProofs`, `IntegrationsProofs`, `ConsoleProofs` | the theorems about the module each extends | |
| `FleetProofs` | the theorems about `FleetInventory`, on top of `IntegrationsProofs` | |

The `MC` modules add what TLC needs: symmetry where it is sound, and the sets of
budgets. An operator called `X_Something` next to an action `X` is a variant
with a plausible bug; no specification uses it. It is there to show that the
property it is listed with (`PROJECT.json`, "mutants") does notice that bug.

### Remediation

One `Request` is one POST to `/admin/remediation/{id}/approve` or `/reject`.
`pc` is where its goroutine is between two database statements or agent calls,
`outcome` the status `executeRemediation` is about to record, `answer` what was
sent to the client. `status`, `useCase` and `action` are columns of the row;
`late` is the set of proposals past `ExpiresAt`, the only thing the code
compares the clock with. `call` is the agent's progress on the request's
`execute_remediation` call, which runs on when the hub gives up on it, and
`writes` counts what the API server applied. `Exposed` are the requests that
faults may hit.

`ReadRow`, `CheckExpiry`, `ExpireRow`, `DecideRow`/`DecideFails` are
`decideRemediation` line by line; `CallAgent`, `AgentCallFails`, `AgentAnswers`,
`VerifyOutcome`, `CompleteRow` are `executeRemediation`; `AnswerFromRow` is the
final read. `DecideRow` is the guarded UPDATE, where concurrent requests are
ordered. A statement may fail before or after it commits. A disconnected client
cancels the context of every later statement, but not the agent call, which was
built without it.

### PodRegistry and Ingestion

A read of the cache is up to three steps: look at the snapshot under the read
lock (`ReadHit`, `ReadMiss`), scan the table with no lock (`ListPods`,
`ListFails`), install under the write lock (`Install`). A write is a put
followed by an invalidation. The snapshot's age is fresh (below the TTL), stale
(below `maxStale`) or old. The hub starts with a table that its predecessor may
have left (`Inherited`) and an empty cache. Callers share the variable `pc` with
the module, so that a read happens in the middle of a caller's operation. `goal`
tells what the read is for, `count` is the `EventCount` of the row routing
found, `held` a row about to be put back. `stored` counts what the event store
accepted.

Ingests are of one sharded family: `Route` to `FinishUpsert` are
`routeAndCreatePod` and `ensureIndexPod`, `StoreEvent` is `storeEvent`,
`GetForFreshness` and `PutFreshness` are `UpdateFreshness`, which goes past the
cache. A query routes to one shard or fans out, fetches, and puts the row back
with new statistics.

### CollectorHub

One cluster's entry of the hub. Connections are numbered as dialled. `reader[c]`
is the goroutine of `HandleCollectorConnect`: upgraded, registered and reading,
holding a matched response it is about to send to a channel, exiting, gone.
`link[k]` is the connection collector `k` believes in, `open` the ones that
work. Calls go through `FindConn`, `AddPending`, `WriteFrame`, then `Receive` or
`Timeout`, then `Cleanup`. The response is taken out of the pending map under
the lock (`ReadResponse`) and sent to the channel outside it (`Deliver`). A
call's channel has room for one frame.

### DeployHistory

`rollouts[d]` is what the cluster went through; a rollout is its place in it and
its images are named by where they were first deployed. `queue[d]` are the
frames of the current watch, `seen` is `deploy_revisions`, `pushing` the event
in `push_event`, `history` the deploy rows. `settled` rows are `SettleAfter`
old. A sweep takes a batch of rows, checks each for a proposal and then, after
the agent call, may insert one (`CreateRemediationProposal`), which the unique
index on `source_event_id` (`postgres.go:242`) refuses when another hub was
first. `Guardian` is the set of hubs that sweep. The approval is abstracted to one step, because
module `Remediation` is about it. `ReadHistory` and `PatchImages` are
`rollback_deployment`. The rows it finds are those of the deployment's *name*,
because `HandleAgentFetch` does not forward the namespace. `restarted` and `lost`
are ghosts: whether discovery ever restarted, and each deployment's latest
rollout whose push failed.

### Investigator

One goroutine, so `pc` is one value: idle between ticks, `gathering` (one step
per leaf pod fetched), `acting` on what `decideActions` returned, and inside
`investigateAndNotify` `proposing` or `alerting`. `open` is `Investigator.open`,
`cooling` the namespaces whose `lastAlert` is younger than the cooldown.
Namespaces are numbers because the code works in the order of their names.
`anomalous` and `targets` are `gather`'s result. The clusters change between any
two steps. `word[ns]` is a ghost: what the webhook's channel was last told of
`ns`, `"lost"` when that send failed, `"forgotten"` when a restart has lost the
incident behind an alert. `lasting` holds what has been bad since the sweep
began, `missed` the leaves whose fetch failed, `orphans` the number of proposals
no delivered alert names.

### Integrations and FleetInventory

`row[i]` is a row of `integrations`: its plaintext token, whether
`token_secret_arn` is set, its namespaces; `secret[i]` the secret
`{prefix}/{i}`, which may be scheduled for deletion. A request goes through one
step per statement and per call to AWS: `StoreSecret` or `PutSecret`, `WriteRow`
and `Reread` for a create or an update; `LookUp`, `DropRow`, `DropSecret` for a
delete. `RequestFails` lets any of them fail with its effect or without. `job`
is the rollout of Secrets Manager: the restart of the hub with a prefix
(`Cutover`) and the script, which lists the rows once and then stores and
rewrites them one by one. `given`, `during` and `marred` are ghosts: which
credentials a row may legitimately be on, and which rows a failure or a racing
delete has hit.

A collector's cycle is three phases: `scan[i]` says which, which namespaces are
still unread and what was seen (one `Look` per namespace, as the reads are one
request each), `hub[i]` how far the hub's handler is with the push.
`UpdateNamespaces` and `UpsertClusterServices` are the two statements of
`HandleClusterInventoryUpsert`. The namespaces column is the same row the admin
handlers edit, which is why the two modules are composed.

`SnapshotRegistry` is what the three tables are for: what is shown of a source
is nothing or one snapshot this source took, replaced as a whole, and nothing
new of a source that is withdrawn. `FleetInventory!Registry` maps a source to a
pair of table and cluster, `taken` to what the current scan would push, and
`withdrawn` to the clusters whose row is deleted and that have no authorized
push under way.

### Traces, QueryPath, ChatSession, Console

`job[r]` is the goroutine `logTrace` starts, then the one
`embedAndStoreIncident` runs in. A trace row has two uuids, its key and the id
the client is told, as in the code. `query[q]` is how far `HandleQuery` is: the
lookup of the shard (`get`), the fan-out (`list`), the reads of the leaves, then
the fast path (`Judge`, with `tryDeterministic` and the evaluator's rules as
operators) or the agent. `HandleCertRenew` goes to the agent at once and then to
`seed`. `rows[l][e]` is what `current_state` says of a pod or a secret; `seen[q]`
is a ghost, every verdict that was true of the question's leaf since the
question was put. `Truth` says what that verdict is: the thresholds of spec 002
over the pods that have not terminated, and the renewal rule, without the code's
way through routes and rows. Two rules in it are `tier1.go`'s own (section 5).

`send[s]` is one chat message: `GetChatSession` reads the row into `copy`,
`Chat` is the agent call, `UpdateChatSession` writes the copy back, whether or
not the row has changed meanwhile. `before` and `beside` are ghosts: the messages
acknowledged when `s` began, and those that ran alongside. `HubStops` takes every
goroutine away and leaves Postgres as it is.

## 3. Runs

| Run | Instance | Checks | Shows |
|---|---|---|---|
| `remediation` | 1 proposal, 3 requests, 1 of them under every fault | `TypeOK AtMostOneWrite RefusedNeverActs DecisionWasAsked ExecutedWasWritten AnswersHold LifecycleSpec RequestsAnswered ApprovalSettles` | the gate is safe under any race and fault and implements `ProposalLifecycle`; requests end, approvals settle |
| `remediation_outcome` | 1 proposal, 1 request, disconnects | `OutcomeRecorded` | **violated**: the outcome of an executed action can be lost |
| `ingest` | 2 leaves (one perhaps inherited) and their index, 1 ingest, 1 query loop, failing scans, puts and inserts | `TypeOK CountIsBacked RoutesAreReal FormedPodAppears EventIsStored` | counts are backed by events, routing is to existing pods, new pods appear for good, events get stored |
| `ingest_newpod` | 1 leaf, 1 ingest, 1 query loop, no faults | `NewPodVisible` | **violated**: a late install hides a new pod for a TTL |
| `hub` | 2 calls, 1 collector, 3 connections, 1 failure | `TypeOK NoCrossTalk RegisteredIsRead PendingIsWaiting ReaderNeverStalls CallsReturn CollectorReturns` | calls and connections never mix up, calls return, the collector comes back |
| `deploys` | 1 deployment, deployed twice, and its rollbacks; 2 proposals; 1 fault: a dropped watch, restart, lost push, failing hub or deletion; 2 hubs that sweep | `TypeOK HistoryIsRollouts OneProposalPerRollout RolloutRecorded` | the history is the rollouts, in order, repeated only after a restart; a rollout is proposed for once, unless discovery restarted; the latest rollout is recorded in the end unless its push was lost |
| `deploys_own` | 2 namespaces, 1 name, 2 rollouts each | `RollbackRestoresOwn` | **violated**: a rollback can take another namespace's images |
| `deploys_redacted` | 1 deployment, 2 rollouts, redaction on | `RowsHaveImages` | **violated**: with the default redaction no rollback works |
| `investigator` | 3 namespaces, 1 of a fleet cluster, 1 new investigation per sweep, 3 changes, 2 failures of any kind | `TypeOK ChannelAgrees ProposalsAreAnnounced ResolutionsAreSeen IncidentsSettle` | channel and loop agree, only a failed fetch resolves wrongly, nothing is starved for good |
| `fleet` | 2 clusters, 2 namespaces, 2 credentials, 2 requests at a time, six budgets | `TypeOK EffectiveIsCurrent SecretsAreOwned RegistrySpec FleetConverges` | credentials stay current and owned, the tables implement `SnapshotRegistry`, the hub comes to show every cluster as it is |
| `console` | 1 question or renewal, 3 messages, 2 sessions, 2 shards and the certificates, 3 rows each, six budgets | `TypeOK VerdictIsOfOneInstant ConversationHolds RequestsSettle` | a fast-path verdict was true at one instant, conversations hold together, every request ends with its trace |
| `console_memory` | 1 question, 1 message | `IncidentsAreRemembered` | **violated**: no incident can ever be stored |

The five violations are findings, each against a line of the code or an ADR
(`PROJECT.json`, "findings").

**Why the bounds are enough.** A race for a proposal needs a winner, a loser and
one that read the row at another moment: three requests. One of them may be hit
by faults, whichever role it plays; requests on different proposals share
nothing, and the theorems below cover any number of both and any `Exposed`. For
the registry, a lost update needs two writers and a reader whose scan is
installed late: the query's statistics are the second writer of the ingest's
row, and two leaves let a snapshot hold one and miss the other. Several ingests
of one leaf are covered by the proofs, for any number. The relay's hazards need
a replaced connection, its successor, and a third that replaces while the first
still cleans up; and two calls, one of which has timed out when the other's
answer arrives. `MaxConn` bounds the dials and is 2 * `MaxDrops` + 1: a failure
costs the connection it hits, and may cost that one's successor too, when the
goroutine of the lost connection registers late and replaces it. So the
collector never runs out of numbers while failures last. Its redials replace its
own connections; two collectors with one credential are covered by `HubProofs`.
For histories, two deployments and a rollback let one rollout fall before, one
into and one after a gap in the watch, or after a restart; `MaxRollouts` bounds
what is deployed, and a deletion is only of what may be deployed again. Two hubs
race for a row, and `MaxProposals` stops them after two, one more than a row may
have. For the loop, three namespaces and a cap of one put two candidates
behind the cap; three changes let a namespace fail, recover and fail again, or
three fail; two failures let the second hit what the first left behind.

Where several kinds of events would multiply, a run draws one of several
*budgets* at the start (`SomeBudgets` in `MCFleetInventory` and `MCConsole`):
how many changes, failures, requests and stops may happen. Each budget puts
those together that can touch each other. For the fleet: three admin requests,
the migration and a failure; one collector amid two changes and a failure; a
collector and an edit amid a change; a collector, an edit and the migration; a
cluster created, collected and deleted; two collectors and a failure. For the
console: a question over full shards with changes and a failure; the same with
one shard unformed or none; five chat requests (two sessions or three messages,
a delete) and a failure; questions and messages in a hub that stops.

**Fairness.** `Remediation!FairSpec`: a goroutine that can take a step takes one
(Go's scheduler), and the HTTP client's timeout is such a step, so nothing is
assumed of the agent or of clients. `Ingestion!FairSpec`: goroutines run, the
clock moves, and, for query loops only, a scan repeated for ever succeeds some
time (strong fairness of `ListPods`, as DynamoDB is not down for ever). No such
assumption is made for an ingest. `CollectorHub!FairSpec`: goroutines and the
collector's tasks run and timers fire; nothing is assumed of the network, nor
that a request is ever served. `DeployHistory!FairSpec`: discovery reconnects
after its (bounded) backoff, reads its frames and its pushes end; deployments,
guardian and operators are not fair. `Investigator!FairSpec`: the ticker ticks
and a sweep runs on, and cooldowns pass; changes of the clusters and failures
are bounded by `MaxChanges` and `MaxFaults` and not fair, so `IncidentsSettle`
is about what happens once they have stopped. `FleetInventory!FairSpec`: the
collector's loop (a cycle every `SCAN_INTERVAL_SECONDS`) and the handlers it
calls go on; requests, the migration, changes and failures are not fair.
`Console!FairSpec`: every handler and every goroutine goes on, as each call it
makes has a timeout; that a question is asked, the agent is well or the hub
keeps running is not assumed.

**Deadlock checking is off** in every run: bounded numbers of requests, calls,
connections, rollouts and budgets mean that an instance may come to rest.

## 4. Proofs

| Module | Theorem | States |
|---|---|---|
| `RemediationProofs` | `TypeCorrect` | `Spec => []TypeOK` |
| | `GateInvariant` | `Spec => []GateInv` |
| | `SingleShot` | `Spec => []AtMostOneWrite` |
| | `DecisionsAuthorized` | `Spec => []DecisionWasAsked` |
| | `RecordedWasWritten` | `Spec => []ExecutedWasWritten` |
| | `RefusalIsFinal` | `Spec => []RefusedNeverActs` |
| | `AnswersStayTrue` | `Spec => []AnswersHold` |
| | `GateImplementsLifecycle` | `Spec => LifecycleSpec` |
| `IngestionProofs` | `IngestInvariant`, `IngestTypeCorrect` | `[]IngestInv`, `[]TypeOK` |
| | `CountsAreBacked`, `RoutesStayReal` | `[]CountIsBacked`, `[]RoutesAreReal` |
| `HubProofs` | `HubInvariant`, `HubTypeCorrect` | `[]HubInv`, `[]TypeOK` |
| | `NeverCrossTalks`, `RegisteredStaysRead` | `[]NoCrossTalk`, `[]RegisteredIsRead` |
| | `PendingStaysWaiting`, `ReaderNeverBlocks` | `[]PendingIsWaiting`, `[]ReaderNeverStalls` |
| `InvestigatorProofs` | `SweepInvariant` | `[]SweepInv` |
| | `ChannelStaysInStep`, `ProposalsStayAnnounced` | `[]ChannelAgrees`, `[]ProposalsAreAnnounced` |
| | `OnlyMissedResolveWrongly` | `ResolutionsAreSeen`, an action property |
| | `InvestigatorTypeCorrect` | `[]TypeOK` |
| `DeployProofs` | `WatchInvariant`, `DeployTypeCorrect` | `[](TypeOK /\ WatchInv)`, `[]TypeOK` |
| | `HistoryOfRollouts` | `[]HistoryIsRollouts` |
| | `RolloutProposedOnce` | `[]OneProposalPerRollout` |
| | `UniqueNamesRestoreOwn` | `[]RollbackRestoresOwn`, if names are unique |
| `IntegrationsProofs` | `AdminInvariant` | `AdminSpec => []AdminInv` |
| `FleetProofs` | `FleetInvariant`, `FleetTypeCorrect` | `[]FleetInv`, `[]TypeOK` |
| | `CredentialIsCurrent`, `SecretsHaveOwners` | `[]EffectiveIsCurrent`, `[]SecretsAreOwned` |
| | `FleetImplementsRegistry` | `Spec => RegistrySpec` |
| `ConsoleProofs` | `ConversationAlwaysHolds` | `[]ConversationHolds` |
| | `VerdictOfOneInstant`, `ConsoleTypeCorrect` | `[]VerdictIsOfOneInstant`, `[]TypeOK` |
| | `MemoryStaysEmpty` | `[](incidents = {})` |

These are all the safety properties the passing runs check. They hold for any
sets of proposals, requests, pods, ingests, queries, calls, collectors,
deployments, guardians, integrations, credentials, sessions and messages, any
number of namespaces and entities, any cap, any set of faults, bounds and
budgets. The assumptions are the `ASSUME`s of the modules: fault kinds are among
the known ones, sets meant to be disjoint are, a cap is at least one, what is
drawn from is not empty, what is counted (namespaces, entities) is finite, and a
budget forms leaves that exist. One theorem has a hypothesis of its own:
`UniqueNamesRestoreOwn` is about deployments whose names differ in all
namespaces; the run `deploys_own` shows what happens otherwise.

*The gate.* `AtMostOneWrite` is not inductive: a state with one write and a
second request about to call the agent satisfies it, and its successor does not.
What rules that state out is that only the request whose guarded UPDATE changed
the row gets past it. `GateInv` says so. `SingleWinner`: a request that is
executing, or whose call is at the agent, asked for an approval with a good
token, its row is approved (or already settled, once it has recorded), and no
two requests execute the same proposal. `StepsAgree`: how far the handler is,
how far its call is and how often the cluster was written agree; in particular a
call that has been sent but not written has `writes = 0`. Because at most one
request per proposal can be there, the increment in `AgentWrites` is from 0
to 1. The proof has one lemma per action or group of actions that share the
variables they change; each shows every conjunct the action can disturb.
`RefusalIsFinal` then needs no induction of its own. `AnswersStayTrue` is
inductive relative to `GateInv`: no statement moves a row that a client has been
told about, because `CompleteRow`, which has no guard in its SQL, is only
reached by the single winner of an approved row. The refinement maps `status`
and `writes` to themselves: decisions map to `Decide`, `AgentWrites` to `Act`,
`CompleteRow` to `Record`, everything else to a stutter.

*The registry.* A count is copied from the table into a snapshot, from there
into a call, and back: `CountIsBacked` of the table alone is not inductive.
`IngestInv` says it of every copy (`Backed`), and likewise that every row a
snapshot or a call holds is a row of the table (`Real`). `CallerAgrees` ties what
a call holds to where it is: one that is about to store or to count has a row
that is there, and the event it is about to count is already among `stored`,
which is what bounds the incremented count. Rows are never deleted, so `Real`
survives every step of others.

*The hub.* That a reader can always put a frame into its call's channel depends
on the call being in one place only: in the pending map of the one connection it
found, in a reader's hands, or answered. `HubInv` says this of every call, says
the same of the frames on the way (a frame in a reader's hands is that of a call
that was pending on its connection, and no longer is), and adds that the
registered connection has a reader that has not begun to exit. The proof has one
lemma per action.

*The loop.* Whether a resolution is right depends on what the sweep read some
steps before, so `SweepInv` follows a signal through it: what has been bad since
the sweep began has been found, was missed, or is still to be read. At `Decide`
nothing is left to read, and what is closed was not found: it must have been
missed. The rest of `SweepInv` says that what is to be closed is open, what is to
be opened is not, and an alert that will name a proposal has one in the store.

*Change detection.* Whether the next row is in order is decided by a frame that
may have been in the stream for long and by a revision noted before that, so
`HistoryIsRollouts` needs `WatchInv`. `FramesAgree`: the frames of a stream go
through the rollouts in order, and one of the latest rollout has its revision.
`RowsAgree`: no row, stored or on its way, is ahead of a frame of an earlier
rollout, and until discovery restarts a frame of a rollout that has a row is the
next one and of the revision noted, so it is dropped as a duplicate.
`NextRowAgrees`: the row on its way comes after those that are there.
`OneProposalPerRollout` follows from it and from `RowsProposedOnce`: the unique
index keeps the proposals of different rows, whatever the hubs that insert them
have read, and before a restart different rows are of different rollouts.
`RollbackRestoresOwn` needs that the target of a rollback has the name of the
row it was proposed for (`TargetsAgree`).

*Registrations.* `EffectiveIsCurrent` and `SecretsAreOwned` relate a row, its
secret and the history of what was given, and a step keeps them or not depending
on what every request and the script has done before. `AdminInv` says where each
may be (`RequestsAgree`: only the request that creates a row knows of it before
it is there; `JobAgrees`: the script's copies are those of rows nobody edits,
which is ADR 0025's maintenance window), what it has brought about (`EditsAgree`:
after its secret call, an edit finds its credential in the secret or one that was
given meanwhile), and which credentials count as given (`GivenAgrees`: those of
requests that run side by side are in each other's `during`). `UnmarredAgree` is
about integrations that no failure and no racing delete has hit: a secret without
a row that names it has a request or the script at hand that is about to name or
to delete it. `FleetProofs` adds that the collectors' pushes, which write the
namespaces column of the same rows, keep all this (they change no credential),
and carries it through the composition.

*The fleet's tables.* The refinement maps each of the three statements that fill
a table (`UpsertClusterServices`, `UpsertClusterIngress`, `UpsertClusterHealth`)
to the abstract replacement of one source by the snapshot it has taken, and every
other step to one that shows nothing new. Each of the three needs a push that was
authorized, so its cluster is not withdrawn; and a cluster that is withdrawn
stays so (`WithdrawnForGood`), because no push of it is authorized again and no
request brings a deleted row back (`DeletedForGood`), which follows from
`AdminInv`.

*The fast path.* The reply is computed from rows that were read some steps ago,
so `VerdictIsOfOneInstant` needs `QueryInv`, of every question: while it is open,
what its leaf holds now is among what was seen (`Current`), and once all its
leaves are read, so is what it holds of its leaf, or the read of that leaf failed
and it holds nothing of it (`Faithful`). `Judge` then only has to be right about that one leaf, and `VerdictIsTruth` says
so: what `tier1.go` and the evaluator make of the rows of one leaf, by counting
over pairs of leaf and entity and comparing with 75 percent, is what
`Truth` says of its content. It rests on the library's
facts about cardinalities. Of a leaf that could not be read the only thing said is
that there are no certificates (`NothingIsSaid`). `QueryInv` also has the fact
that no certificate is ever terminated, as the fast path would count it as due.

*Memory.* The run `console_memory` finds one incident that is not stored.
`MemoryStaysEmpty` shows that none ever is, in any instance: a trace's key and
the id it is announced under are two uuids (`Unreferenced`).

*Chat.* A message writes back a whole copy of the session, so
`ConversationHolds` of the session is not inductive: `ChatInv` says of every copy
under way that it is as good as the session itself (coherent, made of
acknowledged turns and the message's own, missing an acknowledged one only where
there is a reason), and that two messages that are under way for one session know
of each other (`beside`), which is what excuses the turn the later write takes
back.

*Only model-checked.* Liveness under fairness (`RequestsAnswered`,
`ApprovalSettles`, `FormedPodAppears`, `EventIsStored`, `CallsReturn`,
`CollectorReturns`, `RolloutRecorded`, `IncidentsSettle`, `FleetConverges`,
`RequestsSettle`) is beyond the prover.

## 5. What is abstracted, and what is not modelled

Abstractions:

- Payloads, texts, reasons and the model's verdicts are free choices. The three
  write actions of the agent are one action in `Remediation`.
- The clock is the events that code compares it with: a deadline passes, a
  snapshot ages, a row settles, a timer fires.
- A DynamoDB read is current in the model. The table's default reads are
  eventually consistent, and `Scan` returns one page; both would only add
  staleness to reads that are already stale through the cache.
- A namespace runs at most one workload, and its Service and Ingress go by its
  name. Pod counts and restarts are one number.
- Entities of a shard are few and their names are values; two secrets of one
  name in different namespaces overwrite each other in `current_state` and are
  one entity here.
- In `QueryPath` the registry is read in one step: its races are `Ingestion`'s.
- How soon `current_state` follows the cluster is `Ingestion`'s and the
  collector's business; in `Investigator` it follows at once.
- `gather` reads certificates from the leaf `k8fy.certificates` only. Those of a
  fleet cluster are stored in a leaf with the cluster's name appended, so they
  never open an incident; `Fleet` keeps this in the model, and the properties
  are stated for the certificates the loop does look at.

Where a property is weaker than one may expect, because the code does less:

- `EventCount` is documented as the number of events stored. It is not: two
  concurrent ingests that routed with the same cached row count once. The
  property claimed is the true half, `CountIsBacked`.
- After a restart of discovery every deployment is reported again at its current
  revision. `HistoryIsRollouts` allows the repeated row then, and only then, and
  `OneProposalPerRollout` that a hub proposes for that row again.
- A push that is lost is not repeated, and a deployment re-created at a revision
  that was seen before is taken for known. `RolloutRecorded` exempts these.
- A fetch that fails makes `gather` take its namespace for healthy, and its
  incident is announced as resolved. `ResolutionsAreSeen` states this as the only
  cause of a wrong resolution. An announcement that is lost is not repeated, and
  a restart forgets what was announced: `ChannelAgrees` allows both by name.
- Two collectors with one credential (a rolling update) take the connection from
  each other for as long as both live; `CollectorReturns` is about one.
- An empty inventory and an empty list of entry points are not pushed
  (`discovery/main.py:104`, `:132-133`), so a cluster's last Ingress stays in the hub
  after it is gone, although `ingress.py:104` says that it disappears.
  `FleetConverges` exempts exactly these cases. Rows of a deleted cluster stay
  too; `RegistrySpec` says nothing is added to them.
- The migration script writes whole rows back as it listed them: namespaces
  pushed in between are undone until the next scan. That edits do not race it
  for a credential is ADR 0025's maintenance window, not the code's doing; racing
  deletes are in the model and may leave a secret behind.
- Of two concurrent messages to one session the earlier writer's turn is lost;
  a failed UPDATE is acknowledged all the same; a title cut in the middle of a
  character (`handlers.go:1384`) makes every UPDATE of that message fail.
  `ConversationHolds` allows these three by name.
- The verdicts `VerdictIsOfOneInstant` compares with follow two rules of
  `tier1.go` that depart from the documents, and it claims nothing against them.
  A pod in phase Failed is history and left out (`tier1.go:67-78`), where spec 002
  (`:45-46`), `evaluator.go:34` and `evaluator_test.go:15` count it as unhealthy
  and spec 003 (`:18-20`) makes spec 002 the only source of such rules. An
  inventory without a certificate is answered "not_applicable" with confidence
  1.0 (`tier1.go:202-204`), where spec 003 (`:53-55`, `:69-70`, `:125`),
  `handlers.go:240-241` and `tier1.go:13-15` send a question without data to the
  agent.
- An inventory that could not be read gets that answer too. `VerdictIsOfOneInstant`
  allows this one statement after a failed read, by name (`NoCertificates`), and
  no other.
- Rows of pods that were deleted while running stay in `current_state` and count:
  the property is about the rows, not about the cluster.
- An agent that answers 200 with the status "error" counts as having answered,
  in the reply of a question as in the trace of a chat message.
- A graceful shutdown does not wait for the goroutines that write traces.

Seen while reading, outside the models: `trimAgentPayload` and `formatPodData`
disagree on the type of a pod's data (`trim.go:29`, `handlers.go:971`), so what
the agent is given to read is empty; a renewed certificate is seeded into
`events`, while certificates are read from `current_state`
(`handlers.go:1574`), so the next answer still shows the old one; the server's
`WriteTimeout` equals the agent client's timeout (`cmd/agentify/main.go:190`),
so an answer given after a timeout of the agent may not reach the client;
pseudonymized keys cannot be used in a drill-down.

Not modelled:

- *Retention* (`PurgeOlderThan`): one daily DELETE by age. What it could disturb,
  a rollback with fewer rows than two, is in `DeployHistory`.
- *Agent reasoning and skills*: what the language model says is a free choice in
  every module that asks it; its tools are reads, its writes are modelled.
- *Reads without state*: `HandleAgentFetch` and `mapToolToQuery` beyond the
  rollback's path, `trim.go`, the dashboard's summary, the list and get
  endpoints, the Kubernetes readers. The intents for metrics, vault certificates
  and change history route as the certificate check does and go to Tier 2.
- *Single upserts*: mined service dependencies, model pricing, metric samples.
- *Authentication, middleware, websocket plumbing, configuration, telemetry,
  vector store, frontend, manifests*: request plumbing, constants or services
  outside the program. A collector token shared by two clusters is a
  misconfiguration the code does not look for, and the model does not have it.

## 6. Plan

Done: `Remediation`, `PodRegistry` and `Ingestion`, `CollectorHub`,
`DeployHistory`, `Investigator`, `Integrations` and `FleetInventory`, `Traces`,
`QueryPath`, `ChatSession` and `Console`; the proofs of section 4.

Left, in this order:

1. An abstract specification of the relay (a call is answered once, by an answer
   to its own request, or fails) that `CollectorHub` implements, and one of the
   history (an append-only log of rollouts) for `DeployHistory`.
2. The safety half of what the liveness properties rest on, as theorems: an
   approved proposal always has a request that can go on, a formed pod is never
   lost from the table.
3. `Retention` as an action of `DeployHistory`, once a reader of the history
   depends on more than its two newest rows.
