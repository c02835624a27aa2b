---------------------------- MODULE PodRegistry ----------------------------
(***************************************************************************)
(* The pod registry of a hub that keeps it in DynamoDB: the table, and the *)
(* in-process snapshot cache every caller reads through (registry.Cache).  *)
(*                                                                         *)
(* A read takes the lock twice: once to look at the snapshot, and once to  *)
(* install a new one, with the table scan between the two and no lock held.*)
(* A set-changing write is a put and then an invalidation.  Both are cut   *)
(* there, so every interleaving of readers and writers is a behaviour.     *)
(*                                                                         *)
(* The module has no Next of its own: a component that uses the registry   *)
(* EXTENDS it and supplies the callers.  A caller reads by setting its pc  *)
(* to "read" and finds the answer in view[q] when pc[q] is "got".          *)
(***************************************************************************)
EXTENDS Naturals

CONSTANTS
  Leaf,     \* leaf pods of one sharded family (live-state shards)
  Index,    \* the family's index pod
  Caller,   \* goroutines that use the registry
  Known,    \* the sets of leaf pods the hub's predecessor may have left
  Fault     \* the kinds of failure this instance admits

(***************************************************************************)
(* "list":  a table scan fails      "index": the index pod's put fails     *)
(* "write": another put fails       "store": the event's own INSERT fails  *)
(***************************************************************************)
FaultKind == {"list", "index", "write", "store"}

ASSUME RegistryAssumption == /\ Index \notin Leaf
                             /\ Fault \subseteq FaultKind
                             /\ Known \subseteq SUBSET Leaf

Pod == Leaf \cup {Index}

\* A registry row: how many events it says the pod holds, and, for the index
\* pod, its shard map.
Row == [present: BOOLEAN, events: Nat, shards: SUBSET Leaf]

NoRow  == [present |-> FALSE, events |-> 0, shards |-> {}]
NewRow == [present |-> TRUE, events |-> 0, shards |-> {}]

VARIABLES
  table,     \* table[p]: the item in DynamoDB
  snapshot,  \* snapshot[p]: the cached copy
  valid,     \* whether the snapshot may be used
  age,       \* "fresh": younger than ttl; "stale": than maxStale; or "old"
  pc,        \* pc[q]: the next step of caller q
  view       \* view[q]: the pod set q's read returned, or may fall back on

cache == <<snapshot, valid, age>>

View == [ok: BOOLEAN, pods: [Pod -> Row]]

RegistryTypeOK ==
  /\ table \in [Pod -> Row]
  /\ snapshot \in [Pod -> Row]
  /\ valid \in BOOLEAN
  /\ age \in {"fresh", "stale", "old"}
  /\ view \in [Caller -> View]

\* A hub starts with the table its predecessor left: the pods it had formed and
\* mapped, none of whose events were counted.  Its cache starts empty.
Inherited(known) == [p \in Pod |->
  IF p \in known THEN NewRow
  ELSE IF p = Index /\ known # {} THEN [NewRow EXCEPT !.shards = known]
  ELSE NoRow]

RegistryInit ==
  /\ \E known \in Known: table = Inherited(known)
  /\ snapshot = [p \in Pod |-> NoRow]
  /\ valid = FALSE
  /\ age = "old"
  /\ view = [q \in Caller |-> [ok |-> FALSE, pods |-> snapshot]]

Goto(q, step) == pc' = [pc EXCEPT ![q] = step]

(***************************************************************************)
(* pods(): every read of the cache                                         *)
(***************************************************************************)

\* Variant: a valid snapshot is served whatever its age.
ReadHit_AnyAge(q) ==
  /\ pc[q] = "read"
  /\ valid
  /\ view' = [view EXCEPT ![q] = [ok |-> TRUE, pods |-> snapshot]]
  /\ Goto(q, "got")
  /\ UNCHANGED <<table, cache>>

ReadHit(q) ==
  /\ pc[q] = "read"
  /\ valid /\ age = "fresh"
  /\ view' = [view EXCEPT ![q] = [ok |-> TRUE, pods |-> snapshot]]
  /\ Goto(q, "got")
  /\ UNCHANGED <<table, cache>>

\* The caller keeps what it saw under the read lock: should the scan fail, it
\* is what it may still serve.
ReadMiss(q) ==
  /\ pc[q] = "read"
  /\ ~(valid /\ age = "fresh")
  /\ view' = [view EXCEPT ![q] = [ok |-> valid /\ age = "stale",
                                  pods |-> snapshot]]
  /\ Goto(q, "list")
  /\ UNCHANGED <<table, cache>>

ListPods(q) ==
  /\ pc[q] = "list"
  /\ view' = [view EXCEPT ![q] = [ok |-> TRUE, pods |-> table]]
  /\ Goto(q, "install")
  /\ UNCHANGED <<table, cache>>

ListFails(q) ==
  /\ pc[q] = "list"
  /\ "list" \in Fault
  /\ Goto(q, "got")
  /\ UNCHANGED <<table, cache, view>>

\* The write lock: whatever has been invalidated since the scan is valid
\* again, with the scan's contents.
Install(q) ==
  /\ pc[q] = "install"
  /\ snapshot' = view[q].pods
  /\ valid' = TRUE
  /\ age' = "fresh"
  /\ Goto(q, "got")
  /\ UNCHANGED <<table, view>>

\* Time passes ttl, then maxStale, since the snapshot was loaded.
Grow == [fresh |-> "stale", stale |-> "old"]

SnapshotAges ==
  /\ valid
  /\ age # "old"
  /\ age' = Grow[age]
  /\ UNCHANGED <<table, snapshot, valid, pc, view>>

Read(q) == ReadHit(q) \/ ReadMiss(q) \/ ListPods(q) \/ ListFails(q) \/ Install(q)

(***************************************************************************)
(* Writes                                                                  *)
(***************************************************************************)

\* Registry.UpsertPod: the whole item, without a condition.
PutItem(p, row) == table' = [table EXCEPT ![p] = row]

Invalidate == valid' = FALSE /\ UNCHANGED <<snapshot, age>>

\* The row p as caller q's read found it; an error of the read and a pod that
\* is not there look the same to the caller.
Found(q, p) == view[q].ok /\ view[q].pods[p].present

Rows(q, p) == IF Found(q, p) THEN view[q].pods[p] ELSE NewRow
=============================================================================
