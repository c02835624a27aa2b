----------------------------- MODULE Ingestion -----------------------------
(***************************************************************************)
(* Ingest and query over the pod registry: an ingest forms its leaf pod    *)
(* and maps it in the index pod on demand, stores the event, and counts it *)
(* in the leaf's row; a query routes to a leaf and touches its row.  The   *)
(* count and the query statistics are read-modify-writes of whole rows.    *)
(***************************************************************************)
EXTENDS PodRegistry, FiniteSets

CONSTANTS
  Ingest,   \* ingest calls, one event each
  Query     \* query loops

ASSUME CallerAssumption == /\ Ingest \cap Query = {}
                           /\ Caller = Ingest \cup Query

VARIABLES
  goal,    \* goal[q]: what q's read is for
  leafOf,  \* leafOf[q]: the leaf pod q is about
  count,   \* count[q]: EventCount of the leaf as q's routing found it
  held,    \* held[q]: the row q is about to put back
  stored,  \* stored[l]: events the backend has accepted for leaf l
  formed   \* the leaf pods whose UpsertPod has returned

work == <<goal, leafOf, count, held, stored, formed>>
vars == <<table, cache, pc, view, work>>

Step == {"new", "read", "list", "install", "got", "invalidate", "store",
         "freshen", "put", "stats", "putstats", "idle", "done", "failed"}

TypeOK ==
  /\ RegistryTypeOK
  /\ pc \in [Caller -> Step]
  /\ goal \in [Caller -> {"index", "leaf", "shard", "fanout"}]
  /\ leafOf \in [Caller -> Leaf]
  /\ count \in [Caller -> Nat]
  /\ held \in [Caller -> Row]
  /\ stored \in [Leaf -> Nat]
  /\ formed \subseteq Leaf

Init ==
  /\ RegistryInit
  /\ pc = [q \in Caller |-> IF q \in Ingest THEN "new" ELSE "idle"]
  /\ goal = [q \in Caller |-> "fanout"]
  /\ leafOf \in [Caller -> Leaf]
  /\ count = [q \in Caller |-> 0]
  /\ held = [q \in Caller |-> NoRow]
  /\ stored = [l \in Leaf |-> 0]
  /\ formed = {l \in Leaf: table[l].present}

ReadFor(q, what) == goal' = [goal EXCEPT ![q] = what] /\ Goto(q, "read")

(***************************************************************************)
(* routeAndCreatePod, of an event of a sharded family                      *)
(***************************************************************************)

Route(q) ==
  /\ pc[q] = "new"
  /\ ReadFor(q, "index")
  /\ UNCHANGED <<table, cache, view, leafOf, count, held, stored, formed>>

\* ensureIndexPod: the shard is mapped already.
ShardMapped(q) ==
  /\ pc[q] = "got" /\ goal[q] = "index"
  /\ leafOf[q] \in Rows(q, Index).shards
  /\ ReadFor(q, "leaf")
  /\ UNCHANGED <<table, cache, view, leafOf, count, held, stored, formed>>

\* ensureIndexPod: the whole index row is put back with one more shard.  A
\* read that failed starts from an empty index.
MapShard(q) ==
  /\ pc[q] = "got" /\ goal[q] = "index"
  /\ leafOf[q] \notin Rows(q, Index).shards
  /\ PutItem(Index, [Rows(q, Index) EXCEPT !.shards = @ \cup {leafOf[q]}])
  /\ Goto(q, "invalidate")
  /\ UNCHANGED <<cache, view, work>>

\* Variant: failing to maintain the index pod fails the ingest.
MapShardFails_Fatal(q) ==
  /\ pc[q] = "got" /\ goal[q] = "index"
  /\ "index" \in Fault
  /\ leafOf[q] \notin Rows(q, Index).shards
  /\ Goto(q, "failed")
  /\ UNCHANGED <<table, cache, view, work>>

\* Maintaining the index pod is not fatal to the ingest.
MapShardFails(q) ==
  /\ pc[q] = "got" /\ goal[q] = "index"
  /\ "index" \in Fault
  /\ leafOf[q] \notin Rows(q, Index).shards
  /\ ReadFor(q, "leaf")
  /\ UNCHANGED <<table, cache, view, leafOf, count, held, stored, formed>>

\* Any error of GetPod, "not found" or not, leads to CreateLeaf.
ReuseLeaf(q) ==
  /\ pc[q] = "got" /\ goal[q] = "leaf"
  /\ Found(q, leafOf[q])
  /\ count' = [count EXCEPT ![q] = view[q].pods[leafOf[q]].events]
  /\ Goto(q, "store")
  /\ UNCHANGED <<table, cache, view, goal, leafOf, held, stored, formed>>

\* Variant: the new pod is written into the snapshot before the table.
CreateLeaf_CacheFirst(q) ==
  /\ pc[q] = "got" /\ goal[q] = "leaf"
  /\ ~Found(q, leafOf[q])
  /\ snapshot' = [snapshot EXCEPT ![leafOf[q]] = NewRow]
  /\ Goto(q, "invalidate")
  /\ UNCHANGED <<table, valid, age, view, work>>

CreateLeaf(q) ==
  /\ pc[q] = "got" /\ goal[q] = "leaf"
  /\ ~Found(q, leafOf[q])
  /\ PutItem(leafOf[q], NewRow)
  /\ count' = [count EXCEPT ![q] = 0]
  /\ Goto(q, "invalidate")
  /\ UNCHANGED <<cache, view, goal, leafOf, held, stored, formed>>

CreateLeafFails(q) ==
  /\ pc[q] = "got" /\ goal[q] = "leaf"
  /\ "write" \in Fault
  /\ ~Found(q, leafOf[q])
  /\ Goto(q, "failed")
  /\ UNCHANGED <<table, cache, view, work>>

\* The second half of Cache.UpsertPod, of the index pod or of the leaf.
FinishUpsert(q) ==
  /\ pc[q] = "invalidate"
  /\ Invalidate
  /\ \/ goal[q] = "index" /\ ReadFor(q, "leaf") /\ UNCHANGED formed
     \/ /\ goal[q] = "leaf"
        /\ Goto(q, "store")
        /\ formed' = formed \cup {leafOf[q]}
        /\ UNCHANGED goal
  /\ UNCHANGED <<table, view, leafOf, count, held, stored>>

(***************************************************************************)
(* Ingest: store the event, then count it                                  *)
(***************************************************************************)

\* storeEvent.  What the row replaces is the backend's affair: the registry
\* counts the events accepted.
StoreEvent(q) ==
  /\ pc[q] = "store"
  /\ stored' = [stored EXCEPT ![leafOf[q]] = @ + 1]
  /\ Goto(q, "freshen")
  /\ UNCHANGED <<table, cache, view, goal, leafOf, count, held, formed>>

\* Variant: a failed store is logged, and the event counted all the same.
StoreFails_Counted(q) ==
  /\ pc[q] = "store"
  /\ "store" \in Fault
  /\ Goto(q, "freshen")
  /\ UNCHANGED <<table, cache, view, work>>

StoreFails(q) ==
  /\ pc[q] = "store"
  /\ "store" \in Fault
  /\ Goto(q, "failed")
  /\ UNCHANGED <<table, cache, view, work>>

\* UpdateFreshness reads the table, past the cache ...
GetForFreshness(q) ==
  /\ pc[q] = "freshen"
  /\ IF table[leafOf[q]].present
       THEN /\ held' = [held EXCEPT ![q] = table[leafOf[q]]]
            /\ Goto(q, "put")
       ELSE Goto(q, "failed") /\ UNCHANGED held
  /\ UNCHANGED <<table, cache, view, goal, leafOf, count, stored, formed>>

\* ... and puts the row back with the count routing found, plus one.
PutFreshness(q) ==
  /\ pc[q] = "put"
  /\ PutItem(leafOf[q], [held[q] EXCEPT !.events = count[q] + 1])
  /\ Goto(q, "done")
  /\ UNCHANGED <<cache, view, work>>

\* Variant: a failed update takes the event back out of the count.
FreshnessFails_Uncount(q) ==
  /\ pc[q] \in {"freshen", "put"}
  /\ "write" \in Fault
  /\ PutItem(leafOf[q], [table[leafOf[q]] EXCEPT !.events = @ - 1])
  /\ Goto(q, "failed")
  /\ UNCHANGED <<cache, view, work>>

\* The event stays stored, and its sender is told the ingest failed.
FreshnessFails(q) ==
  /\ pc[q] \in {"freshen", "put"}
  /\ "write" \in Fault
  /\ Goto(q, "failed")
  /\ UNCHANGED <<table, cache, view, work>>

(***************************************************************************)
(* Queries                                                                 *)
(***************************************************************************)

\* A query is about one shard, or about all of them.  leafOf is then the shard
\* asked for, or the one the model follows of those the query fetches.
BeginQuery(q) ==
  /\ pc[q] = "idle"
  /\ \/ ReadFor(q, "fanout") /\ UNCHANGED leafOf
     \/ \E l \in Leaf: /\ leafOf' = [leafOf EXCEPT ![q] = l]
                       /\ ReadFor(q, "shard")
  /\ UNCHANGED <<table, cache, view, count, held, stored, formed>>

\* Variant: the shard's id is taken for the pod, without looking it up.
RouteToShard_Unchecked(q) ==
  /\ pc[q] = "got" /\ goal[q] = "shard"
  /\ Goto(q, "stats")
  /\ UNCHANGED <<table, cache, view, work>>

\* routeLiveState: a shard that is not found, for whatever reason, makes the
\* query read again, for every shard.
RouteToShard(q) ==
  /\ pc[q] = "got" /\ goal[q] = "shard"
  /\ IF Found(q, leafOf[q]) THEN Goto(q, "stats") /\ UNCHANGED goal
                            ELSE ReadFor(q, "fanout")
  /\ UNCHANGED <<table, cache, view, leafOf, count, held, stored, formed>>

RouteToAll(q) ==
  /\ pc[q] = "got" /\ goal[q] = "fanout"
  /\ \/ \E l \in Leaf: /\ Found(q, l)
                       /\ leafOf' = [leafOf EXCEPT ![q] = l]
                       /\ Goto(q, "stats")
     \/ /\ \A l \in Leaf: ~Found(q, l)
        /\ Goto(q, "idle")
        /\ UNCHANGED leafOf
  /\ UNCHANGED <<table, cache, view, goal, count, held, stored, formed>>

\* FetchFromPod, and UpdateQueryStats: a read of the whole row ...
GetForStats(q) ==
  /\ pc[q] = "stats"
  /\ held' = [held EXCEPT ![q] = table[leafOf[q]]]
  /\ Goto(q, IF table[leafOf[q]].present THEN "putstats" ELSE "idle")
  /\ UNCHANGED <<table, cache, view, goal, leafOf, count, stored, formed>>

\* ... put back with other query counters.
PutStats(q) ==
  /\ pc[q] = "putstats"
  /\ PutItem(leafOf[q], held[q])
  /\ Goto(q, "idle")
  /\ UNCHANGED <<cache, view, work>>

\* Statistics are best-effort: the query has its data.
StatsFail(q) ==
  /\ pc[q] \in {"stats", "putstats"}
  /\ "write" \in Fault
  /\ Goto(q, "idle")
  /\ UNCHANGED <<table, cache, view, work>>

(***************************************************************************)
(* Specification                                                           *)
(***************************************************************************)

IngestStep(q) ==
  \/ Route(q) \/ ShardMapped(q) \/ MapShard(q) \/ MapShardFails(q)
  \/ ReuseLeaf(q) \/ CreateLeaf(q) \/ CreateLeafFails(q) \/ FinishUpsert(q)
  \/ StoreEvent(q) \/ StoreFails(q) \/ GetForFreshness(q) \/ PutFreshness(q)
  \/ FreshnessFails(q)

QueryStep(q) ==
  \/ BeginQuery(q) \/ RouteToShard(q) \/ RouteToAll(q)
  \/ GetForStats(q) \/ PutStats(q) \/ StatsFail(q)

RegistryStep(q) == Read(q) /\ UNCHANGED work

Next ==
  \/ \E q \in Ingest: IngestStep(q)
  \/ \E q \in Query: QueryStep(q)
  \/ \E q \in Caller: RegistryStep(q)
  \/ SnapshotAges /\ UNCHANGED work

Spec == Init /\ [][Next]_vars

\* A goroutine keeps running until its call returns, queries keep coming, time
\* passes, and a registry that is scanned again and again answers some scan.
FairSpec == /\ Spec
            /\ \A q \in Ingest: WF_vars(IngestStep(q) \/ RegistryStep(q))
            /\ \A q \in Query: WF_vars(QueryStep(q) \/ RegistryStep(q))
            /\ \A q \in Query: SF_vars(ListPods(q) /\ UNCHANGED work)
            /\ WF_vars(SnapshotAges /\ UNCHANGED work)

(***************************************************************************)
(* Properties                                                              *)
(***************************************************************************)

\* Whatever the interleaving, no copy of a pod's row anywhere -- the table, the
\* cache, a row in a goroutine's hands -- counts more events than the backend
\* has accepted for that pod: the count of an event follows its store.
CountIsBacked == \A l \in Leaf:
  /\ table[l].events <= stored[l]
  /\ snapshot[l].events <= stored[l]
  /\ \A q \in Caller:
       /\ view[q].pods[l].events <= stored[l]
       /\ pc[q] \in {"put", "putstats"} /\ leafOf[q] = l
            => held[q].events <= stored[l]
       /\ pc[q] = "put" /\ leafOf[q] = l => count[q] < stored[l]

\* Nothing is routed to a pod the registry does not hold: a cached pod is in
\* the table, and so is the pod an event is stored under or a query reads.
RoutesAreReal ==
  /\ \A p \in Pod: snapshot[p].present => table[p].present
  /\ \A q \in Caller: pc[q] \in {"store", "freshen", "put", "stats", "putstats"}
                        => table[leafOf[q]].present

\* What makes the two inductive.  Every copy of the rows is backed by stored
\* events and by the table, and what a caller holds agrees with how far it is:
\* routing saw no more events than are stored, and one fewer once this event is
\* stored; a row is only put back where the table has it.
Backed(pods) == \A l \in Leaf: pods[l].events <= stored[l]
Real(pods)   == \A p \in Pod: pods[p].present => table[p].present

CallerAgrees(q) ==
  LET l == leafOf[q]
      formedLeaf == pc[q] = "invalidate" /\ goal[q] = "leaf"
  IN
  /\ Backed(view[q].pods) /\ Real(view[q].pods)
  /\ \/ formedLeaf
     \/ pc[q] \in {"store", "freshen", "put", "stats", "putstats"}
     => table[l].present
  /\ formedLeaf \/ pc[q] = "store" => count[q] <= stored[l]
  /\ pc[q] \in {"freshen", "put"} => count[q] < stored[l]
  /\ pc[q] \in {"put", "putstats"} =>
       held[q].present /\ held[q].events <= stored[l]

IngestInv ==
  /\ TypeOK
  /\ Backed(table)
  /\ Backed(snapshot) /\ Real(snapshot)
  /\ \A q \in Caller: CallerAgrees(q)

\* A newly formed pod is visible on the next read (Cache.UpsertPod): a snapshot
\* that reads are served from holds every pod formed so far.
NewPodVisible ==
  valid /\ age = "fresh" => \A l \in formed: snapshot[l].present

\* A formed pod becomes visible to the reads that the cache serves, for good:
\* a scan that missed it can be installed late, but not survive the TTL.
FormedPodAppears ==
  \A l \in Leaf: l \in formed ~> [](valid => snapshot[l].present)

\* Neither a registry that cannot be listed nor an index pod that cannot be
\* read or written keeps an event from being stored (routeAndCreatePod): every
\* ingest comes to an end, and one that fails has failed over its own leaf.
EventIsStored ==
  \A q \in Ingest: pc[q] = "read" ~>
    pc[q] = "done" \/ (pc[q] = "failed" /\ goal[q] = "leaf")
=============================================================================
