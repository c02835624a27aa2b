-------------------------- MODULE IngestionProofs --------------------------
(***************************************************************************)
(* Theorems about Ingestion, for every set of leaf pods, ingest calls and  *)
(* queries, and every mixture of faults.                                   *)
(***************************************************************************)
EXTENDS Ingestion, TLAPS

USE DEF Pod

\* The registry starts empty, and no caller holds anything.
LEMMA IngestInit == Init => IngestInv
<1> SUFFICES ASSUME Init PROVE IngestInv
  OBVIOUS
<1> USE DEF Init, RegistryInit, NoRow
<1>1. PICK known \in Known: table = Inherited(known)
  OBVIOUS
<1>2. table \in [Pod -> Row] /\ \A l \in Leaf: table[l].events = 0
  <2>1. \A p \in Pod: Inherited(known)[p] \in Row /\ Inherited(known)[p].events = 0
    BY RegistryAssumption DEF Inherited, NewRow, Row
  <2> QED
    BY <1>1, <2>1 DEF Inherited, Pod
<1>3. TypeOK
  BY <1>2, CallerAssumption DEF TypeOK, RegistryTypeOK, Row, View, Step
<1>4. Backed(table) /\ Backed(snapshot) /\ Real(snapshot)
  BY <1>2 DEF Backed, Real, Pod
<1>5. ASSUME NEW q \in Caller PROVE CallerAgrees(q)
  BY DEF CallerAgrees, Backed, Real, Pod
<1> QED
  BY <1>2, <1>3, <1>4, <1>5 DEF IngestInv

\* A step of caller q leaves what the other callers know in order: rows stay,
\* and stored events are only added.
LEMMA OthersAgree ==
  ASSUME IngestInv, NEW q \in Caller, NEW o \in Caller, o # q,
         /\ pc'[o] = pc[o] /\ goal'[o] = goal[o] /\ leafOf'[o] = leafOf[o]
         /\ count'[o] = count[o] /\ held'[o] = held[o] /\ view'[o] = view[o],
         \A p \in Pod: table[p].present => table'[p].present,
         stored' \in [Leaf -> Nat], \A l \in Leaf: stored[l] <= stored'[l]
  PROVE  CallerAgrees(o)'
<1>1. CallerAgrees(o) /\ TypeOK
  BY DEF IngestInv
<1>2. /\ leafOf[o] \in Leaf /\ count[o] \in Nat /\ held[o].events \in Nat
      /\ stored \in [Leaf -> Nat]
      /\ \A l \in Leaf: view[o].pods[l].events \in Nat
  BY <1>1 DEF TypeOK, RegistryTypeOK, View, Row
<1>3. Backed(view[o].pods)' /\ Real(view[o].pods)'
  BY <1>1, <1>2 DEF CallerAgrees, Backed, Real
<1> QED
  BY <1>1, <1>2, <1>3 DEF CallerAgrees

\* So a step is right when the tables, and the caller that takes it, are.
OnlyMoves(q) ==
  /\ \A o \in Caller \ {q}:
       /\ pc'[o] = pc[o] /\ goal'[o] = goal[o] /\ leafOf'[o] = leafOf[o]
       /\ count'[o] = count[o] /\ held'[o] = held[o] /\ view'[o] = view[o]
  /\ \A p \in Pod: table[p].present => table'[p].present
  /\ \A l \in Leaf: stored[l] <= stored'[l]

LEMMA CallerStep ==
  ASSUME IngestInv, NEW q \in Caller, OnlyMoves(q), TypeOK', Backed(table)',
         Backed(snapshot)', Real(snapshot)', CallerAgrees(q)'
  PROVE  IngestInv'
<1>1. ASSUME NEW o \in Caller PROVE CallerAgrees(o)'
  BY <1>1, OthersAgree DEF OnlyMoves, TypeOK
<1> QED
  BY <1>1 DEF IngestInv

\* A snapshot that nobody touches, or that is only aged or invalidated, stays
\* backed and real.
LEMMA SnapshotStays ==
  ASSUME IngestInv, NEW q \in Caller, OnlyMoves(q), TypeOK',
         snapshot' = snapshot
  PROVE  Backed(snapshot)' /\ Real(snapshot)'
<1>1. /\ TypeOK /\ Backed(snapshot) /\ Real(snapshot)
  BY DEF IngestInv
<1>2. \A l \in Leaf: snapshot[l].events \in Nat /\ stored[l] \in Nat /\ stored'[l] \in Nat
  BY <1>1 DEF TypeOK, RegistryTypeOK, Row
<1> QED
  BY <1>1, <1>2 DEF Backed, Real, OnlyMoves

\* Reads, of an ingest or of a query.
LEMMA ReadKeeps ==
  ASSUME IngestInv, NEW q \in Caller, RegistryStep(q)
  PROVE  IngestInv'
<1>1. TypeOK /\ CallerAgrees(q) /\ Backed(table) /\ Backed(snapshot) /\ Real(snapshot)
  BY DEF IngestInv
<1> USE DEF RegistryStep, work, cache, Goto
<1>2. ASSUME ReadHit(q) \/ ReadMiss(q) \/ ListPods(q) \/ ListFails(q)
      PROVE  IngestInv'
  <2>1. TypeOK'
    <3>1. table \in [Pod -> Row] /\ snapshot \in [Pod -> Row] /\ valid \in BOOLEAN
      BY <1>1 DEF TypeOK, RegistryTypeOK
    <3>2. \A ok \in BOOLEAN: /\ [ok |-> ok, pods |-> table] \in View
                             /\ [ok |-> ok, pods |-> snapshot] \in View
      BY <3>1 DEF View
    <3>3. (valid /\ age = "stale") \in BOOLEAN
      OBVIOUS
    <3>4. view' \in [Caller -> View]
      BY <1>1, <1>2, <3>2, <3>3 DEF ReadHit, ReadMiss, ListPods, ListFails,
         TypeOK, RegistryTypeOK
    <3>5. pc' \in [Caller -> Step]
      BY <1>1, <1>2 DEF ReadHit, ReadMiss, ListPods, ListFails, TypeOK, Step
    <3> QED
      BY <1>1, <1>2, <3>4, <3>5 DEF ReadHit, ReadMiss, ListPods, ListFails,
         TypeOK, RegistryTypeOK
  <2>2. OnlyMoves(q) /\ snapshot' = snapshot /\ Backed(table)'
    BY <1>1, <1>2 DEF ReadHit, ReadMiss, ListPods, ListFails, OnlyMoves,
       TypeOK, RegistryTypeOK, Backed
  <2>3. CallerAgrees(q)'
    <3>1. pc'[q] \in {"got", "list", "install"}
      BY <1>1, <1>2 DEF ReadHit, ReadMiss, ListPods, ListFails, TypeOK
    <3>2. \/ view'[q].pods = view[q].pods
          \/ view'[q].pods = snapshot
          \/ view'[q].pods = table
      BY <1>1, <1>2 DEF ReadHit, ReadMiss, ListPods, ListFails, TypeOK,
         RegistryTypeOK, View
    <3>3. table' = table /\ stored' = stored
      BY <1>2 DEF ReadHit, ReadMiss, ListPods, ListFails
    <3> QED
      BY <1>1, <3>1, <3>2, <3>3 DEF CallerAgrees, Backed, Real
  <2> QED
    BY <2>1, <2>2, <2>3, SnapshotStays, CallerStep
<1>3. ASSUME Install(q) PROVE IngestInv'
  <2> USE <1>3 DEF Install
  <2>1. TypeOK'
    BY <1>1 DEF TypeOK, RegistryTypeOK, View, Step
  <2>2. OnlyMoves(q) /\ Backed(table)'
    BY <1>1 DEF OnlyMoves, TypeOK, RegistryTypeOK, Backed
  <2>3. Backed(snapshot)' /\ Real(snapshot)'
    BY <1>1 DEF CallerAgrees, Backed, Real
  <2>4. CallerAgrees(q)'
    BY <1>1 DEF CallerAgrees, Backed, Real, TypeOK
  <2> QED
    BY <2>1, <2>2, <2>3, <2>4, CallerStep
<1> QED
  BY <1>2, <1>3 DEF Read
\* Steps that write no row and store no event.
LEMMA QuietStep ==
  ASSUME IngestInv, NEW q \in Caller, OnlyMoves(q), TypeOK', CallerAgrees(q)',
         table' = table, snapshot' = snapshot, stored' = stored
  PROVE  IngestInv'
<1>1. Backed(table)'
  BY DEF IngestInv, Backed
<1> QED
  BY <1>1, SnapshotStays, CallerStep

\* Steps of an ingest from its route to its store.
LEMMA RouteKeeps ==
  ASSUME IngestInv, NEW q \in Caller,
         \/ Route(q) \/ ShardMapped(q) \/ MapShardFails(q) \/ ReuseLeaf(q)
         \/ CreateLeafFails(q) \/ FinishUpsert(q)
  PROVE  IngestInv'
<1> USE DEF work, cache, Goto, ReadFor
<1>1. /\ TypeOK /\ CallerAgrees(q)
  BY DEF IngestInv
<1>2. CASE Route(q)
  <2> USE <1>2 DEF Route
  <2>1. TypeOK' /\ OnlyMoves(q)
    BY <1>1 DEF TypeOK, RegistryTypeOK, Step, OnlyMoves
  <2>2. CallerAgrees(q)'
    BY <1>1 DEF TypeOK, CallerAgrees, Backed, Real
  <2> QED
    BY <2>1, <2>2, QuietStep
<1>3. CASE ShardMapped(q)
  <2> USE <1>3 DEF ShardMapped
  <2>1. TypeOK' /\ OnlyMoves(q)
    BY <1>1 DEF TypeOK, RegistryTypeOK, Step, OnlyMoves
  <2>2. CallerAgrees(q)'
    BY <1>1 DEF TypeOK, CallerAgrees, Backed, Real
  <2> QED
    BY <2>1, <2>2, QuietStep
<1>4. CASE MapShardFails(q)
  <2> USE <1>4 DEF MapShardFails
  <2>1. TypeOK' /\ OnlyMoves(q)
    BY <1>1 DEF TypeOK, RegistryTypeOK, Step, OnlyMoves
  <2>2. CallerAgrees(q)'
    BY <1>1 DEF TypeOK, CallerAgrees, Backed, Real
  <2> QED
    BY <2>1, <2>2, QuietStep
<1>5. CASE ReuseLeaf(q)
  <2> USE <1>5 DEF ReuseLeaf, Found
  <2>1. view[q].pods[leafOf[q]].events \in Nat
    BY <1>1 DEF TypeOK, RegistryTypeOK, View, Row
  <2>2. TypeOK' /\ OnlyMoves(q)
    BY <1>1, <2>1 DEF TypeOK, RegistryTypeOK, Step, OnlyMoves
  <2>3. CallerAgrees(q)'
    <3>1. /\ pc'[q] = "store" /\ count'[q] = view[q].pods[leafOf[q]].events
          /\ leafOf[q] \in Leaf
      BY <1>1 DEF TypeOK
    <3>2. /\ table[leafOf[q]].present
          /\ view[q].pods[leafOf[q]].events <= stored[leafOf[q]]
      BY <1>1, <3>1 DEF CallerAgrees, Backed, Real
    <3> QED
      BY <1>1, <3>1, <3>2 DEF CallerAgrees, Backed, Real
  <2> QED
    BY <2>2, <2>3, QuietStep
<1>6. CASE CreateLeafFails(q)
  <2> USE <1>6 DEF CreateLeafFails
  <2>1. TypeOK' /\ OnlyMoves(q)
    BY <1>1 DEF TypeOK, RegistryTypeOK, Step, OnlyMoves
  <2>2. CallerAgrees(q)'
    BY <1>1 DEF TypeOK, CallerAgrees, Backed, Real
  <2> QED
    BY <2>1, <2>2, QuietStep
<1>7. CASE FinishUpsert(q)
  <2> USE <1>7 DEF FinishUpsert, Invalidate
  <2>1. TypeOK'
    BY <1>1, ZenonT(60) DEF TypeOK, RegistryTypeOK, Step
  <2>2. OnlyMoves(q)
    BY <1>1 DEF TypeOK, RegistryTypeOK, OnlyMoves
  <2>3. CallerAgrees(q)'
    BY <1>1 DEF TypeOK, CallerAgrees, Backed, Real
  <2> QED
    BY <2>1, <2>2, <2>3, QuietStep
<1> QED
  BY <1>2, <1>3, <1>4, <1>5, <1>6, <1>7

\* Steps of an ingest that write a row, and the store of its event.
LEMMA WriteKeeps ==
  ASSUME IngestInv, NEW q \in Caller,
         MapShard(q) \/ CreateLeaf(q) \/ StoreEvent(q) \/ PutFreshness(q)
  PROVE  IngestInv'
<1> USE DEF work, cache, Goto, PutItem
<1>1. /\ TypeOK /\ CallerAgrees(q) /\ Backed(table)
  BY DEF IngestInv
<1>2. CASE MapShard(q)
  <2> DEFINE row == [Rows(q, Index) EXCEPT !.shards = @ \cup {leafOf[q]}]
  <2>1. /\ table' = [table EXCEPT ![Index] = row]
        /\ pc' = [pc EXCEPT ![q] = "invalidate"]
        /\ UNCHANGED <<cache, view, work>> /\ goal[q] = "index"
    BY <1>2 DEF MapShard
  <2>2. row \in Row /\ row.present
    <3>1. Rows(q, Index) \in Row /\ leafOf[q] \in Leaf
      BY <1>1 DEF TypeOK, RegistryTypeOK, View, Row, Rows, Found, NewRow
    <3>2. Rows(q, Index).present
      BY <1>1 DEF TypeOK, RegistryTypeOK, Rows, Found, NewRow
    <3> QED
      BY <3>1, <3>2 DEF Row
  <2> HIDE DEF row
  <2>3. TypeOK'
    BY <1>1, <2>1, <2>2 DEF TypeOK, RegistryTypeOK, Step
  <2>4. OnlyMoves(q)
    BY <1>1, <2>1, <2>2 DEF TypeOK, RegistryTypeOK, OnlyMoves
  <2>5. Backed(table)'
    BY <1>1, <2>1, RegistryAssumption DEF TypeOK, RegistryTypeOK, Backed
  <2>6. CallerAgrees(q)'
    <3>1. pc'[q] = "invalidate" /\ goal'[q] = "index" /\ view' = view /\ stored' = stored
      BY <1>1, <2>1 DEF TypeOK
    <3>2. Backed(view[q].pods)' /\ Real(view[q].pods)'
      BY <1>1, <2>4, <3>1 DEF CallerAgrees, Backed, Real, OnlyMoves
    <3> QED
      BY <3>1, <3>2 DEF CallerAgrees
  <2> QED
    BY <2>1, <2>3, <2>4, <2>5, <2>6, SnapshotStays, CallerStep
<1>3. CASE CreateLeaf(q)
  <2> USE <1>3 DEF CreateLeaf
  <2>1. NewRow \in Row /\ NewRow.present /\ NewRow.events = 0
    BY DEF NewRow, Row
  <2>2. TypeOK'
    BY <1>1, <2>1 DEF TypeOK, RegistryTypeOK, Step
  <2>3. OnlyMoves(q)
    BY <1>1, <2>1 DEF TypeOK, RegistryTypeOK, OnlyMoves
  <2>4. Backed(table)'
    BY <1>1, <2>1 DEF TypeOK, RegistryTypeOK, Backed
  <2>5. CallerAgrees(q)'
    <3>1. /\ pc'[q] = "invalidate" /\ count'[q] = 0 /\ view' = view
          /\ leafOf' = leafOf /\ leafOf[q] \in Leaf
          /\ stored' = stored /\ stored[leafOf[q]] \in Nat
      BY <1>1 DEF TypeOK
    <3>2. table'[leafOf[q]].present
      BY <1>1, <2>1, <3>1 DEF TypeOK, RegistryTypeOK
    <3>3. Backed(view[q].pods)' /\ Real(view[q].pods)'
      BY <1>1, <2>3, <3>1 DEF CallerAgrees, Backed, Real, OnlyMoves
    <3> QED
      BY <3>1, <3>2, <3>3 DEF CallerAgrees
  <2> QED
    BY <2>2, <2>3, <2>4, <2>5, SnapshotStays, CallerStep
<1>4. CASE StoreEvent(q)
  <2> USE <1>4 DEF StoreEvent
  <2>1. TypeOK'
    BY <1>1 DEF TypeOK, RegistryTypeOK, Step
  <2>2. OnlyMoves(q)
    BY <1>1 DEF TypeOK, RegistryTypeOK, OnlyMoves
  <2>3. Backed(table)'
    BY <1>1, <2>2, <2>1 DEF TypeOK, RegistryTypeOK, Row, Backed, OnlyMoves
  <2>4. CallerAgrees(q)'
    <3>1. /\ pc'[q] = "freshen" /\ leafOf[q] \in Leaf
          /\ stored'[leafOf[q]] = stored[leafOf[q]] + 1
          /\ stored[leafOf[q]] \in Nat /\ count[q] \in Nat
      BY <1>1 DEF TypeOK
    <3>2. Backed(view[q].pods)' /\ Real(view[q].pods)'
      <4>1. \A l \in Leaf: /\ view[q].pods[l].events \in Nat
                           /\ stored[l] \in Nat /\ stored'[l] \in Nat
        BY <1>1, <2>1 DEF TypeOK, RegistryTypeOK, View, Row
      <4> QED
        BY <1>1, <2>2, <4>1 DEF CallerAgrees, Backed, Real, OnlyMoves
    <3> QED
      BY <1>1, <3>1, <3>2 DEF CallerAgrees
  <2> QED
    BY <2>1, <2>2, <2>3, <2>4, SnapshotStays, CallerStep
<1>5. CASE PutFreshness(q)
  <2> DEFINE row == [held[q] EXCEPT !.events = count[q] + 1]
  <2>1. /\ pc[q] = "put" /\ table' = [table EXCEPT ![leafOf[q]] = row]
        /\ pc' = [pc EXCEPT ![q] = "done"]
        /\ UNCHANGED <<cache, view, work>>
    BY <1>5 DEF PutFreshness
  <2>2. row \in Row /\ row.present /\ row.events <= stored[leafOf[q]]
    <3>1. /\ held[q] \in Row /\ held[q].present
          /\ count[q] \in Nat /\ stored[leafOf[q]] \in Nat
          /\ count[q] < stored[leafOf[q]]
      BY <1>1, <2>1 DEF TypeOK, CallerAgrees
    <3>2. row.present
      BY <3>1 DEF Row
    <3>3. row.events = count[q] + 1
      BY <3>1 DEF Row
    <3>4. row \in Row
      BY <3>1 DEF Row
    <3> HIDE DEF row
    <3> QED
      BY <3>1, <3>2, <3>3, <3>4
  <2> HIDE DEF row
  <2>3. TypeOK'
    BY <1>1, <2>1, <2>2 DEF TypeOK, RegistryTypeOK, Step
  <2>4. OnlyMoves(q)
    BY <1>1, <2>1, <2>2 DEF TypeOK, RegistryTypeOK, OnlyMoves
  <2>5. Backed(table)'
    BY <1>1, <2>1, <2>2 DEF TypeOK, RegistryTypeOK, Backed
  <2>6. CallerAgrees(q)'
    <3>1. pc'[q] = "done" /\ view' = view /\ stored' = stored
      BY <1>1, <2>1 DEF TypeOK
    <3>2. Backed(view[q].pods)' /\ Real(view[q].pods)'
      BY <1>1, <2>4, <3>1 DEF CallerAgrees, Backed, Real, OnlyMoves
    <3> QED
      BY <3>1, <3>2 DEF CallerAgrees
  <2> QED
    BY <2>1, <2>3, <2>4, <2>5, <2>6, SnapshotStays, CallerStep
<1> QED
  BY <1>2, <1>3, <1>4, <1>5

\* The other steps of an ingest: a store that fails, and UpdateFreshness.
LEMMA CountKeeps ==
  ASSUME IngestInv, NEW q \in Caller,
         StoreFails(q) \/ GetForFreshness(q) \/ FreshnessFails(q)
  PROVE  IngestInv'
<1> USE DEF work, cache, Goto
<1>1. /\ TypeOK /\ CallerAgrees(q) /\ Backed(table)
  BY DEF IngestInv
<1>2. CASE StoreFails(q) \/ FreshnessFails(q)
  <2> USE <1>2 DEF StoreFails, FreshnessFails
  <2>1. TypeOK' /\ OnlyMoves(q)
    BY <1>1 DEF TypeOK, RegistryTypeOK, Step, OnlyMoves
  <2>2. CallerAgrees(q)'
    BY <1>1 DEF TypeOK, CallerAgrees, Backed, Real
  <2> QED
    BY <2>1, <2>2, QuietStep
<1>3. CASE GetForFreshness(q)
  <2> USE <1>3 DEF GetForFreshness
  <2>1. table[leafOf[q]] \in Row /\ table[leafOf[q]].present
    BY <1>1 DEF TypeOK, RegistryTypeOK, CallerAgrees
  <2>2. /\ held' = [held EXCEPT ![q] = table[leafOf[q]]]
        /\ pc' = [pc EXCEPT ![q] = "put"]
    BY <2>1
  <2>3. TypeOK' /\ OnlyMoves(q)
    BY <1>1, <2>1, <2>2 DEF TypeOK, RegistryTypeOK, Step, OnlyMoves
  <2>4. CallerAgrees(q)'
    BY <1>1, <2>1, <2>2 DEF TypeOK, CallerAgrees, Backed, Real
  <2> QED
    BY <2>3, <2>4, QuietStep
<1> QED
  BY <1>2, <1>3

\* Steps of a query.
LEMMA QueryKeeps ==
  ASSUME IngestInv, NEW q \in Caller, QueryStep(q)
  PROVE  IngestInv'
<1> USE DEF work, cache, Goto, ReadFor
<1>1. /\ TypeOK /\ CallerAgrees(q) /\ Backed(table)
  BY DEF IngestInv
<1>2. CASE BeginQuery(q)
  <2> USE <1>2 DEF BeginQuery
  <2>1. TypeOK' /\ OnlyMoves(q)
    BY <1>1 DEF TypeOK, RegistryTypeOK, Step, OnlyMoves
  <2>2. CallerAgrees(q)'
    BY <1>1 DEF TypeOK, CallerAgrees, Backed, Real
  <2> QED
    BY <2>1, <2>2, QuietStep
<1>3. CASE RouteToShard(q)
  <2> USE <1>3 DEF RouteToShard
  <2>1. TypeOK' /\ OnlyMoves(q)
    BY <1>1 DEF TypeOK, RegistryTypeOK, Step, OnlyMoves
  <2>2. CallerAgrees(q)'
    BY <1>1 DEF TypeOK, CallerAgrees, Backed, Real, Found
  <2> QED
    BY <2>1, <2>2, QuietStep
<1>4. CASE RouteToAll(q)
  <2> USE <1>4 DEF RouteToAll
  <2>1. TypeOK' /\ OnlyMoves(q)
    BY <1>1 DEF TypeOK, RegistryTypeOK, Step, OnlyMoves
  <2>2. CallerAgrees(q)'
    BY <1>1 DEF TypeOK, CallerAgrees, Backed, Real, Found
  <2> QED
    BY <2>1, <2>2, QuietStep
<1>5. CASE GetForStats(q)
  <2> USE <1>5 DEF GetForStats
  <2>1. table[leafOf[q]] \in Row /\ table[leafOf[q]].present
    BY <1>1 DEF TypeOK, RegistryTypeOK, CallerAgrees
  <2>2. TypeOK' /\ OnlyMoves(q)
    BY <1>1, <2>1 DEF TypeOK, RegistryTypeOK, Step, OnlyMoves
  <2>3. CallerAgrees(q)'
    BY <1>1, <2>1 DEF TypeOK, CallerAgrees, Backed, Real
  <2> QED
    BY <2>2, <2>3, QuietStep
<1>6. CASE PutStats(q)
  <2> USE <1>6 DEF PutStats, PutItem
  <2>1. held[q] \in Row /\ held[q].present /\ held[q].events <= stored[leafOf[q]]
    BY <1>1 DEF TypeOK, CallerAgrees
  <2>2. TypeOK'
    BY <1>1, <2>1 DEF TypeOK, RegistryTypeOK, Step
  <2>3. OnlyMoves(q)
    BY <1>1, <2>1 DEF TypeOK, RegistryTypeOK, OnlyMoves
  <2>4. Backed(table)'
    BY <1>1, <2>1 DEF TypeOK, RegistryTypeOK, Backed
  <2>5. CallerAgrees(q)'
    <3>1. pc'[q] = "idle" /\ view' = view /\ stored' = stored
      BY <1>1 DEF TypeOK
    <3>2. Backed(view[q].pods)' /\ Real(view[q].pods)'
      BY <1>1, <2>3, <3>1 DEF CallerAgrees, Backed, Real, OnlyMoves
    <3> QED
      BY <3>1, <3>2 DEF CallerAgrees
  <2> QED
    BY <2>2, <2>3, <2>4, <2>5, SnapshotStays, CallerStep
<1>7. CASE StatsFail(q)
  <2> USE <1>7 DEF StatsFail
  <2>1. TypeOK' /\ OnlyMoves(q)
    BY <1>1 DEF TypeOK, RegistryTypeOK, Step, OnlyMoves
  <2>2. CallerAgrees(q)'
    BY <1>1 DEF TypeOK, CallerAgrees, Backed, Real
  <2> QED
    BY <2>1, <2>2, QuietStep
<1> QED
  BY <1>2, <1>3, <1>4, <1>5, <1>6, <1>7 DEF QueryStep

\* Time, and nothing at all.
LEMMA IdleKeeps ==
  ASSUME IngestInv, (SnapshotAges /\ UNCHANGED work) \/ UNCHANGED vars
  PROVE  IngestInv'
<1>1. TypeOK'
  BY DEF IngestInv, SnapshotAges, Grow, vars, work, cache, TypeOK, RegistryTypeOK
<1>2. UNCHANGED <<table, snapshot, pc, view, work>>
  BY DEF SnapshotAges, vars, cache
<1>3. Backed(table)' /\ Backed(snapshot)' /\ Real(snapshot)'
  BY <1>2 DEF IngestInv, Backed, Real, work
<1>4. ASSUME NEW o \in Caller PROVE CallerAgrees(o)'
  BY <1>2 DEF IngestInv, CallerAgrees, Backed, Real, work
<1> QED
  BY <1>1, <1>3, <1>4 DEF IngestInv

\* Copies of the registry's rows are backed by the store and by the table, and
\* what every call holds agrees with how far it is.
THEOREM IngestInvariant == Spec => []IngestInv
<1>1. IngestInv /\ [Next]_vars => IngestInv'
  <2> SUFFICES ASSUME IngestInv, [Next]_vars PROVE IngestInv'
    OBVIOUS
  <2>1. ASSUME NEW q \in Ingest, IngestStep(q) PROVE IngestInv'
    BY <2>1, CallerAssumption, RouteKeeps, WriteKeeps, CountKeeps DEF IngestStep
  <2>2. ASSUME NEW q \in Query, QueryStep(q) PROVE IngestInv'
    BY <2>2, CallerAssumption, QueryKeeps
  <2>3. ASSUME NEW q \in Caller, RegistryStep(q) PROVE IngestInv'
    BY <2>3, ReadKeeps
  <2>4. CASE (SnapshotAges /\ UNCHANGED work) \/ UNCHANGED vars
    BY <2>4, IdleKeeps
  <2> QED
    BY <2>1, <2>2, <2>3, <2>4 DEF Next
<1> QED
  BY <1>1, IngestInit, PTL DEF Spec

\* Every variable keeps its type.
THEOREM IngestTypeCorrect == Spec => []TypeOK
<1>1. IngestInv => TypeOK
  BY DEF IngestInv
<1> QED
  BY <1>1, IngestInvariant, PTL

\* No copy of a row counts more events than its backend has accepted.
THEOREM CountsAreBacked == Spec => []CountIsBacked
<1>1. IngestInv => CountIsBacked
  BY DEF IngestInv, CallerAgrees, Backed, CountIsBacked
<1> QED
  BY <1>1, IngestInvariant, PTL

\* Events are stored, and queries routed, to pods that the table holds.
THEOREM RoutesStayReal == Spec => []RoutesAreReal
<1>1. IngestInv => RoutesAreReal
  BY DEF IngestInv, CallerAgrees, Real, RoutesAreReal
<1> QED
  BY <1>1, IngestInvariant, PTL
=============================================================================
