--------------------------- MODULE FleetInventory ---------------------------
(***************************************************************************)
(* The fleet inventory: the collector of each registered cluster scans it  *)
(* again and again and pushes what it saw -- namespaces with their         *)
(* services, entry points, pod counts -- and the hub keeps, per cluster,   *)
(* the last of each.  It runs beside the admin handlers of Integrations:   *)
(* the collector's credential is a column of the row they edit and delete, *)
(* and its namespaces are pushed into another.                             *)
(***************************************************************************)
EXTENDS Integrations, FiniteSets

ASSUME FleetAssumption == IsFiniteSet(Namespace)

VARIABLES
  live,      \* live[i]: what runs in each namespace of cluster i
  scan,      \* scan[i]: how far the collector's cycle is, what it has read
  hub,       \* hub[i]: how far the hub is with i's push
  services,  \* services[i]: the rows of cluster_services
  ingress,   \* ingress[i]: the rows of cluster_ingress_endpoints
  health     \* health[i]: the rows of cluster_health_snapshots, one at most

tables == <<services, ingress, health>>
fleetVars == <<live, scan, hub, tables>>
vars == <<adminVars, fleetVars>>

(***************************************************************************)
(* A namespace runs nothing, a workload without a Service, one behind a    *)
(* Service, or one behind a Service and an Ingress.  The Service and the   *)
(* Ingress of a namespace are known by the namespace's own name.           *)
(***************************************************************************)
Workload == {"none", "worker", "service", "exposed"}

Active(seen)   == {n \in Namespace: seen[n] # "none"}
Services(seen) == {n \in Namespace: seen[n] \in {"service", "exposed"}}
Entries(seen)  == {n \in Namespace: seen[n] = "exposed"}

\* Variant: a pod is counted again for the Service in front of it.
Counts_PerObject(seen) == {Cardinality(Active(seen)) + Cardinality(Services(seen))}

\* Pods and restarts, summed up: one number stands for the summary.
Counts(seen) == {Cardinality(Active(seen))}

Quiet == [n \in Namespace |-> "none"]

Fresh(phase) == [phase |-> phase, unread |-> Namespace, found |-> Quiet]

After == [inventory |-> "ingress", ingress |-> "health", health |-> "inventory"]

FleetTypeOK ==
  /\ live \in [Integration -> [Namespace -> Workload]]
  /\ scan \in [Integration -> [phase: DOMAIN After, unread: SUBSET Namespace,
                               found: [Namespace -> Workload]]]
  /\ hub \in [Integration -> {"idle", "sent", "authorized", "listed"}]
  /\ services \in [Integration -> SUBSET Namespace]
  /\ ingress \in [Integration -> SUBSET Namespace]
  /\ health \in [Integration -> SUBSET (0..Cardinality(Namespace))]

TypeOK == IntegrationsTypeOK /\ FleetTypeOK

Init ==
  /\ IntegrationsInit
  /\ live \in [Integration -> {[n \in Namespace |-> w]: w \in {"none", "exposed"}}]
  /\ \A i \in Integration \ budget.collectors: live[i] = Quiet
  /\ scan = [i \in Integration |-> Fresh("inventory")]
  /\ hub = [i \in Integration |-> "idle"]
  /\ services = [i \in Integration |-> {}]
  /\ ingress = [i \in Integration |-> {}]
  /\ health = [i \in Integration |-> {}]

(***************************************************************************)
(* The collector: _scan_once, one phase after the other                    *)
(***************************************************************************)

\* A collector is deployed with the credential of a row that was created.
Collecting(i) == i \in budget.collectors /\ row[i].life # "unused"

\* Deployments come and go.
Change(i, n, w) ==
  /\ live[i][n] # w
  /\ Spend("change")
  /\ live' = [live EXCEPT ![i][n] = w]
  /\ UNCHANGED <<row, secret, job, requests, history, scan, hub, tables>>

\* One namespace is read, at its own time.  An answer other than 200 reads as
\* a namespace that runs nothing.
Look(i, n) ==
  /\ Collecting(i) /\ hub[i] = "idle" /\ n \in scan[i].unread
  /\ \/ /\ scan' = [scan EXCEPT ![i].unread = @ \ {n}, ![i].found[n] = live[i][n]]
        /\ UNCHANGED budget
     \/ /\ live[i][n] # "none"
        /\ Spend("fault")
        /\ scan' = [scan EXCEPT ![i].unread = @ \ {n}]
  /\ UNCHANGED <<row, secret, job, requests, history, live, hub, tables>>

NextPhase(i) ==
  /\ scan' = [scan EXCEPT ![i] = Fresh(After[@.phase])]
  /\ hub' = [hub EXCEPT ![i] = "idle"]

\* The K8s API cannot be reached: the phase is given up, the next one tried.
LookRaises(i) ==
  /\ Collecting(i) /\ hub[i] = "idle" /\ scan[i].unread # {}
  /\ Spend("fault")
  /\ NextPhase(i)
  /\ UNCHANGED <<row, secret, job, requests, history, live, tables>>

\* An inventory, or a list of entry points, that is empty is not pushed.
WorthPushing(i) ==
  CASE scan[i].phase = "inventory" -> Active(scan[i].found) # {}
    [] scan[i].phase = "ingress"   -> Entries(scan[i].found) # {}
    [] scan[i].phase = "health"    -> TRUE

Push(i) ==
  /\ Collecting(i) /\ hub[i] = "idle" /\ scan[i].unread = {}
  /\ IF WorthPushing(i) THEN hub' = [hub EXCEPT ![i] = "sent"] /\ UNCHANGED scan
                        ELSE NextPhase(i)
  /\ UNCHANGED <<adminVars, live, tables>>

(***************************************************************************)
(* The hub: one handler per phase                                          *)
(***************************************************************************)

\* Variant: the credential is looked for among the clusters already shown.
resolveTenantContext_Stale(i) ==
  /\ hub[i] = "sent"
  /\ hub' = [hub EXCEPT ![i] = "authorized"]
  /\ UNCHANGED <<adminVars, live, scan, tables>>

\* The credential of a deleted row is unknown: 401.
resolveTenantContext(i) ==
  /\ hub[i] = "sent"
  /\ IF Present(i) THEN hub' = [hub EXCEPT ![i] = "authorized"] /\ UNCHANGED scan
                   ELSE NextPhase(i)
  /\ UNCHANGED <<adminVars, live, tables>>

\* Variant: namespaces an administrator or an earlier scan has set are kept.
UpdateNamespaces_OnlyOnce(i) ==
  /\ hub[i] = "authorized" /\ scan[i].phase = "inventory"
  /\ row' = [row EXCEPT ![i].spaces = IF Present(i) /\ @ = {}
                                       THEN Active(scan[i].found) ELSE @]
  /\ hub' = [hub EXCEPT ![i] = "listed"]
  /\ UNCHANGED <<secret, job, requests, budget, history, live, scan, tables>>

\* HandleClusterInventoryUpsert writes the namespaces column first: no row of
\* a cluster deleted since, no error ...
UpdateNamespaces(i) ==
  /\ hub[i] = "authorized" /\ scan[i].phase = "inventory"
  /\ row' = [row EXCEPT ![i].spaces = IF Present(i) THEN Active(scan[i].found) ELSE @]
  /\ hub' = [hub EXCEPT ![i] = "listed"]
  /\ UNCHANGED <<secret, job, requests, budget, history, live, scan, tables>>

\* Variant: the DELETE forgets the cluster.
ReplaceServices_AllClusters(i) ==
  services' = [j \in Integration |-> IF j = i THEN Services(scan[i].found) ELSE {}]

\* Variant: no DELETE.
ReplaceServices_Merge(i) ==
  services' = [services EXCEPT ![i] = @ \cup Services(scan[i].found)]

\* UpsertClusterServices: a DELETE of the cluster's rows and the INSERTs, in
\* one transaction.
ReplaceServices(i) == services' = [services EXCEPT ![i] = Services(scan[i].found)]

\* ... then the services.
UpsertClusterServices(i) ==
  /\ hub[i] = "listed"
  /\ ReplaceServices(i)
  /\ NextPhase(i)
  /\ UNCHANGED <<adminVars, live, ingress, health>>

ReplaceIngress(i) == ingress' = [ingress EXCEPT ![i] = Entries(scan[i].found)]

UpsertClusterIngress(i) ==
  /\ hub[i] = "authorized" /\ scan[i].phase = "ingress"
  /\ ReplaceIngress(i)
  /\ NextPhase(i)
  /\ UNCHANGED <<adminVars, live, services, health>>

ReplaceHealth(i) == health' = [health EXCEPT ![i] = Counts(scan[i].found)]

UpsertClusterHealth(i) ==
  /\ hub[i] = "authorized" /\ scan[i].phase = "health"
  /\ ReplaceHealth(i)
  /\ NextPhase(i)
  /\ UNCHANGED <<adminVars, live, services, ingress>>

\* The hub is unreachable, a statement fails, or the collector's 5s pass and
\* cancel the handler: what was committed stays, the cycle goes on.
PushFails(i) ==
  /\ hub[i] # "idle"
  /\ Spend("fault")
  /\ NextPhase(i)
  /\ UNCHANGED <<row, secret, job, requests, history, live, tables>>

(***************************************************************************)
(* The readers                                                             *)
(***************************************************************************)

\* GET /api/resolve-cluster: the clusters known to run n's service.
ResolveServiceClusters(n) == {i \in Integration: n \in services[i]}

\* GET /api/cluster-ingress: whose entry points lead into n.
ListClusterIngress(n) == {i \in Integration: n \in ingress[i]}

(***************************************************************************)
(* Specification                                                           *)
(***************************************************************************)

ScanStep(i) ==
  \/ \E n \in Namespace: Look(i, n)
  \/ Push(i) \/ resolveTenantContext(i) \/ UpdateNamespaces(i)
  \/ UpsertClusterServices(i) \/ UpsertClusterIngress(i) \/ UpsertClusterHealth(i)

Next ==
  \/ AdminNext /\ UNCHANGED fleetVars
  \/ \E i \in Integration:
       \/ ScanStep(i) \/ LookRaises(i) \/ PushFails(i)
       \/ \E n \in Namespace, w \in Workload: Change(i, n, w)

Spec == Init /\ [][Next]_vars

\* A collector's loop keeps going round; the hub's handlers run.
FairSpec == Spec /\ \A i \in Integration: WF_vars(ScanStep(i))

(***************************************************************************)
(* Properties                                                              *)
(***************************************************************************)

Kind == {"services", "ingress", "health"}

Payload(kind, seen) == CASE kind = "services" -> Services(seen)
                         [] kind = "ingress"  -> Entries(seen)
                         [] kind = "health"   -> Counts(seen)

Table(kind) == CASE kind = "services" -> services
                 [] kind = "ingress"  -> ingress
                 [] kind = "health"   -> health

\* The row is deleted, and no push authorized before that is on its way.
Withdrawn(i) == row[i].life = "deleted" /\ hub[i] \in {"idle", "sent"}

\* Each of the three tables shows, of each cluster, one whole snapshot of that
\* cluster's own collector, and nothing new of a cluster that was deleted.
Registry == INSTANCE SnapshotRegistry WITH
  Source    <- Kind \X Integration,
  Nothing   <- {},
  taken     <- [s \in Kind \X Integration |-> Payload(s[1], scan[s[2]].found)],
  shown     <- [s \in Kind \X Integration |-> Table(s[1])[s[2]]],
  withdrawn <- {s \in Kind \X Integration: Withdrawn(s[2])}

RegistrySpec == Registry!Spec

\* What the readers and the row say of cluster i is what runs there -- but for
\* what an empty scan does not push: a cluster that runs nothing at all, or
\* that has lost its last entry point, keeps what was there before.
Mirrored(i) ==
  /\ Active(live[i]) # {} =>
       /\ row[i].spaces = Active(live[i])
       /\ {n \in Namespace: i \in ResolveServiceClusters(n)} = Services(live[i])
  /\ Entries(live[i]) # {} =>
       {n \in Namespace: i \in ListClusterIngress(n)} = Entries(live[i])
  /\ health[i] = Counts(live[i])

\* Once deployments, edits and failures come to rest, the hub shows every
\* registered cluster as it is and goes on doing so: no torn push, half-failed
\* scan, stale form or migration leaves a mark that lasts.
FleetConverges ==
  <>[](\A i \in Integration: Present(i) /\ Collecting(i) => Mirrored(i))
=============================================================================
