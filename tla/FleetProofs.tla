---------------------------- MODULE FleetProofs ----------------------------
(***************************************************************************)
(* Theorems about FleetInventory, for any clusters, namespaces and         *)
(* credentials.  The invariant of the registrations holds on when pushes   *)
(* write into the rows beside the administrators' edits and the migration, *)
(* and what the three tables show goes from one whole snapshot to another. *)
(***************************************************************************)
EXTENDS FleetInventory, IntegrationsProofs, FiniteSetTheorems

FleetInv == AdminInv /\ FleetTypeOK

Scan == [phase: DOMAIN After, unread: SUBSET Namespace, found: [Namespace -> Workload]]

HubStep == {"idle", "sent", "authorized", "listed"}

(***************************************************************************)
(* The operators                                                           *)
(***************************************************************************)

\* What is sent of a snapshot is about the cluster's namespaces.
LEMMA Payloads ==
  \A seen: /\ Active(seen) \subseteq Namespace /\ Services(seen) \subseteq Namespace
           /\ Entries(seen) \subseteq Namespace
           /\ Counts(seen) \subseteq 0..Cardinality(Namespace)
<1> SUFFICES ASSUME NEW seen
             PROVE  /\ Active(seen) \subseteq Namespace /\ Services(seen) \subseteq Namespace
                    /\ Entries(seen) \subseteq Namespace
                    /\ Counts(seen) \subseteq 0..Cardinality(Namespace)
  OBVIOUS
<1>1. Active(seen) \in SUBSET Namespace
  BY DEF Active
<1>2. /\ Cardinality(Active(seen)) \in Nat /\ Cardinality(Namespace) \in Nat
      /\ Cardinality(Active(seen)) <= Cardinality(Namespace)
  BY <1>1, FleetAssumption, FS_Subset, FS_CardinalityType
<1>3. Counts(seen) \subseteq 0..Cardinality(Namespace)
  BY <1>2 DEF Counts
<1> QED
  BY <1>1, <1>3 DEF Services, Entries

\* The next phase begins with nothing read.
LEMMA NextPhaseTyped ==
  ASSUME FleetTypeOK, NEW i \in Integration, NextPhase(i)
  PROVE  /\ scan' \in [Integration -> Scan] /\ hub' \in [Integration -> HubStep]
         /\ hub'[i] = "idle" /\ \A j \in Integration: j # i => hub'[j] = hub[j]
<1>1. /\ scan \in [Integration -> Scan] /\ hub \in [Integration -> HubStep]
  BY DEF FleetTypeOK, Scan, HubStep
<1>2. PICK next: next = Fresh(After[scan[i].phase])
  OBVIOUS
<1>3. next \in Scan
  <2>1. scan[i].phase \in DOMAIN After
    BY <1>1 DEF Scan
  <2>2. After[scan[i].phase] \in DOMAIN After
    BY <2>1 DEF After
  <2>3. Quiet \in [Namespace -> Workload]
    BY DEF Quiet, Workload
  <2> QED
    BY <1>2, <2>2, <2>3 DEF Fresh, Scan
<1>4. scan' = [scan EXCEPT ![i] = next] /\ hub' = [hub EXCEPT ![i] = "idle"]
  BY <1>1, <1>2 DEF NextPhase
<1> QED
  BY <1>1, <1>3, <1>4 DEF HubStep

(***************************************************************************)
(* Types                                                                   *)
(***************************************************************************)

LEMMA FleetTypeStart == Init => FleetTypeOK
<1> SUFFICES ASSUME Init PROVE FleetTypeOK
  OBVIOUS
<1>1. live \in [Integration -> [Namespace -> Workload]]
  BY DEF Init, Workload
<1>2. Fresh("inventory") \in Scan
  BY DEF Fresh, Scan, After, Quiet, Workload
<1>3. scan \in [Integration -> Scan]
  BY <1>2 DEF Init
<1> QED
  BY <1>1, <1>3 DEF Init, FleetTypeOK, Scan

LEMMA FleetTypeStep ==
  ASSUME FleetTypeOK, [Next]_vars
  PROVE  FleetTypeOK'
<1>0. /\ live \in [Integration -> [Namespace -> Workload]]
      /\ scan \in [Integration -> Scan] /\ hub \in [Integration -> HubStep]
      /\ services \in [Integration -> SUBSET Namespace]
      /\ ingress \in [Integration -> SUBSET Namespace]
      /\ health \in [Integration -> SUBSET (0..Cardinality(Namespace))]
  BY DEF FleetTypeOK, Scan, HubStep
<1> SUFFICES /\ live' \in [Integration -> [Namespace -> Workload]]
             /\ scan' \in [Integration -> Scan] /\ hub' \in [Integration -> HubStep]
             /\ services' \in [Integration -> SUBSET Namespace]
             /\ ingress' \in [Integration -> SUBSET Namespace]
             /\ health' \in [Integration -> SUBSET (0..Cardinality(Namespace))]
  BY DEF FleetTypeOK, Scan, HubStep
<1>1. CASE UNCHANGED fleetVars
  BY <1>0, <1>1 DEF fleetVars, tables
<1>2. ASSUME NEW i \in Integration, NEW n \in Namespace, NEW w \in Workload, Change(i, n, w)
      PROVE  /\ live' \in [Integration -> [Namespace -> Workload]]
             /\ UNCHANGED <<scan, hub, tables>>
  <2>1. live' = [live EXCEPT ![i][n] = w] /\ UNCHANGED <<scan, hub, tables>>
    BY <1>2 DEF Change
  <2> QED
    BY <1>0, <2>1
<1>3. ASSUME NEW i \in Integration, NEW n \in Namespace, Look(i, n)
      PROVE  scan' \in [Integration -> Scan] /\ UNCHANGED <<live, hub, tables>>
  <2>1. /\ \/ scan' = [scan EXCEPT ![i].unread = @ \ {n}, ![i].found[n] = live[i][n]]
           \/ scan' = [scan EXCEPT ![i].unread = @ \ {n}]
        /\ UNCHANGED <<live, hub, tables>>
    BY <1>3 DEF Look
  <2>2. PICK old: old = scan[i]
    OBVIOUS
  <2>3. old \in Scan /\ live[i][n] \in Workload
    BY <1>0, <2>2
  <2>4. CASE scan' = [scan EXCEPT ![i].unread = @ \ {n}]
    <3> DEFINE new == [old EXCEPT !.unread = @ \ {n}]
    <3>1. new \in Scan
      BY <2>3 DEF Scan
    <3>2. scan' = [scan EXCEPT ![i] = new]
      BY <1>0, <2>2, <2>4
    <3> HIDE DEF new
    <3> QED
      BY <1>0, <2>1, <3>1, <3>2
  <2>5. CASE scan' = [scan EXCEPT ![i].unread = @ \ {n}, ![i].found[n] = live[i][n]]
    <3> DEFINE found == [old.found EXCEPT ![n] = live[i][n]]
               new == [old EXCEPT !.unread = @ \ {n}, !.found = found]
    <3>1. found \in [Namespace -> Workload]
      BY <2>3 DEF Scan
    <3>2. scan' = [scan EXCEPT ![i] = new]
      BY <1>0, <2>2, <2>5, ZenonT(60)
    <3> HIDE DEF found
    <3>3. new \in Scan
      BY <2>3, <3>1 DEF Scan
    <3> HIDE DEF new
    <3> QED
      BY <1>0, <2>1, <3>2, <3>3
  <2> QED
    BY <2>1, <2>4, <2>5
<1>4. ASSUME NEW i \in Integration, LookRaises(i) \/ PushFails(i) \/ Push(i) \/ resolveTenantContext(i)
      PROVE  /\ scan' \in [Integration -> Scan] /\ hub' \in [Integration -> HubStep]
             /\ UNCHANGED <<live, tables>>
  <2>1. /\ UNCHANGED <<live, tables>>
        /\ \/ NextPhase(i)
           \/ UNCHANGED scan /\ hub' = [hub EXCEPT ![i] = "sent"]
           \/ UNCHANGED scan /\ hub' = [hub EXCEPT ![i] = "authorized"]
    BY <1>4 DEF LookRaises, PushFails, Push, resolveTenantContext
  <2>2. CASE NextPhase(i)
    BY <2>1, <2>2, NextPhaseTyped
  <2>3. CASE UNCHANGED scan /\ hub' = [hub EXCEPT ![i] = "sent"]
    BY <1>0, <2>1, <2>3 DEF HubStep
  <2>4. CASE UNCHANGED scan /\ hub' = [hub EXCEPT ![i] = "authorized"]
    BY <1>0, <2>1, <2>4 DEF HubStep
  <2> QED
    BY <2>1, <2>2, <2>3, <2>4
<1>5. ASSUME NEW i \in Integration, UpdateNamespaces(i)
      PROVE  hub' \in [Integration -> HubStep] /\ UNCHANGED <<live, scan, tables>>
  BY <1>0, <1>5 DEF UpdateNamespaces, HubStep
<1>6. ASSUME NEW i \in Integration,
             UpsertClusterServices(i) \/ UpsertClusterIngress(i) \/ UpsertClusterHealth(i)
      PROVE  /\ scan' \in [Integration -> Scan] /\ hub' \in [Integration -> HubStep]
             /\ UNCHANGED live
             /\ services' \in [Integration -> SUBSET Namespace]
             /\ ingress' \in [Integration -> SUBSET Namespace]
             /\ health' \in [Integration -> SUBSET (0..Cardinality(Namespace))]
  <2>1. NextPhase(i) /\ UNCHANGED live
    BY <1>6 DEF UpsertClusterServices, UpsertClusterIngress, UpsertClusterHealth
  <2>2. /\ Services(scan[i].found) \subseteq Namespace
        /\ Entries(scan[i].found) \subseteq Namespace
        /\ Counts(scan[i].found) \subseteq 0..Cardinality(Namespace)
    BY Payloads
  <2>3. /\ services' \in {services, [services EXCEPT ![i] = Services(scan[i].found)]}
        /\ ingress' \in {ingress, [ingress EXCEPT ![i] = Entries(scan[i].found)]}
        /\ health' \in {health, [health EXCEPT ![i] = Counts(scan[i].found)]}
    BY <1>6 DEF UpsertClusterServices, UpsertClusterIngress, UpsertClusterHealth,
       ReplaceServices, ReplaceIngress, ReplaceHealth
  <2>4. scan' \in [Integration -> Scan] /\ hub' \in [Integration -> HubStep]
    BY <2>1, NextPhaseTyped
  <2>5. services' \in [Integration -> SUBSET Namespace]
    BY <1>0, <2>2, <2>3
  <2>6. ingress' \in [Integration -> SUBSET Namespace]
    BY <1>0, <2>2, <2>3
  <2>7. health' \in [Integration -> SUBSET (0..Cardinality(Namespace))]
    <3>1. PICK S: S = 0..Cardinality(Namespace)
      OBVIOUS
    <3>2. /\ Counts(scan[i].found) \subseteq S /\ health \in [Integration -> SUBSET S]
          /\ health' \in {health, [health EXCEPT ![i] = Counts(scan[i].found)]}
      BY <1>0, <2>2, <2>3, <3>1
    <3>3. health' \in [Integration -> SUBSET S]
      BY <3>2
    <3> QED
      BY <3>1, <3>3
  <2> QED
    BY <2>1, <2>4, <2>5, <2>6, <2>7
<1>7. CASE UNCHANGED vars
  BY <1>0, <1>7 DEF vars, fleetVars, tables
<1> QED
  BY <1>0, <1>1, <1>2, <1>3, <1>4, <1>5, <1>6, <1>7 DEF Next, ScanStep, tables

(***************************************************************************)
(* Pushes beside the administrators                                        *)
(***************************************************************************)

\* The namespaces column is of no consequence to the others.
LEMMA ColumnKeeps ==
  ASSUME AdminInv, row' \in [Integration -> Row],
         \A i \in Integration: /\ row'[i].life = row[i].life /\ row'[i].token = row[i].token
                               /\ row'[i].arn = row[i].arn,
         UNCHANGED <<secret, job, requests, history>>
  PROVE  AdminInv'
<1>0. /\ IntegrationsTypeOK /\ RowsAgree /\ NoneManaged /\ RequestsAgree
      /\ GivenAgrees /\ EditsAgree /\ JobAgrees /\ UnmarredAgree /\ EffectiveIsCurrent
      /\ UNCHANGED <<secret, job, pc, ask, during, given, marred>>
  BY DEF AdminInv, requests, history
<1>1. \A q \in Request: ask[q].id \in Integration
  BY <1>0, Shapes
<1>2. /\ \A j: Serving(j)' = Serving(j) /\ \A q \in Serving(j): q \in Request
      /\ \A q \in Request: (Editing(q)' <=> Editing(q)) /\ (Deleting(q)' <=> Deleting(q))
  BY <1>0 DEF Serving, Editing, Deleting
<1>3. IntegrationsTypeOK'
  BY <1>0 DEF IntegrationsTypeOK
<1>4. RowsAgree' /\ NoneManaged' /\ EffectiveIsCurrent'
  BY <1>0 DEF RowsAgree, NoneManaged, Managed, EffectiveIsCurrent, Effective, Present
<1>5. RequestsAgree'
  BY <1>0, <1>1, <1>2, SMTT(30) DEF RequestsAgree, Placed, Managed
<1>6. GivenAgrees'
  BY <1>0 DEF GivenAgrees
<1>7. EditsAgree'
  BY <1>0, <1>1, <1>2 DEF EditsAgree, Brought, Managed, Present
<1>8. JobAgrees'
  <2>1. \A i \in job.left: i \in Integration
    BY <1>0 DEF IntegrationsTypeOK
  <2>2. \A i \in job.stored: i \in job.left
    BY <1>0 DEF JobAgrees
  <2> QED
    BY <1>0, <1>2, <2>1, <2>2 DEF JobAgrees, Present
<1>9. UnmarredAgree'
  BY <1>0, <1>2 DEF UnmarredAgree, Clean, Present
<1> QED
  BY <1>3, <1>4, <1>5, <1>6, <1>7, <1>8, <1>9 DEF AdminInv

\* A scan or a push leaves the invariant of the registrations alone.
LEMMA ScanKeeps ==
  ASSUME AdminInv, NEW i \in Integration,
         \/ ScanStep(i) \/ LookRaises(i) \/ PushFails(i)
         \/ \E n \in Namespace, w \in Workload: Change(i, n, w)
  PROVE  AdminInv' /\ \A j \in Integration: row'[j].life = row[j].life
<1>1. row \in [Integration -> Row]
  BY DEF AdminInv, IntegrationsTypeOK
<1>2. CASE UpdateNamespaces(i)
  <2>1. PICK spaces: spaces = IF Present(i) THEN Active(scan[i].found) ELSE row[i].spaces
    OBVIOUS
  <2>2. PICK old: old = row[i]
    OBVIOUS
  <2> DEFINE new == [old EXCEPT !.spaces = spaces]
  <2>3. old \in Row /\ spaces \subseteq Namespace
    BY <1>1, <2>1, <2>2, Payloads DEF Row
  <2>4. new \in Row /\ new.life = old.life /\ new.token = old.token /\ new.arn = old.arn
    BY <2>3 DEF Row
  <2>5. row' = [row EXCEPT ![i] = new] /\ UNCHANGED <<secret, job, requests, history>>
    BY <1>1, <1>2, <2>1, <2>2 DEF UpdateNamespaces
  <2> HIDE DEF new
  <2>6. /\ row' \in [Integration -> Row]
        /\ \A j \in Integration: /\ row'[j].life = row[j].life /\ row'[j].token = row[j].token
                                 /\ row'[j].arn = row[j].arn
    BY <1>1, <2>2, <2>4, <2>5
  <2> QED
    BY <2>5, <2>6, ColumnKeeps
<1>3. CASE UNCHANGED <<row, secret, job, requests, history>>
  BY <1>1, <1>3, ColumnKeeps
<1> QED
  BY <1>2, <1>3
     DEF ScanStep, Look, LookRaises, Push, resolveTenantContext, UpsertClusterServices,
         UpsertClusterIngress, UpsertClusterHealth, PushFails, Change, adminVars

LEMMA FleetStart == Init => FleetInv
BY FleetTypeStart, AdminStart DEF Init, FleetInv

LEMMA FleetStep == FleetInv /\ [Next]_vars => FleetInv'
<1> SUFFICES ASSUME FleetInv, [Next]_vars PROVE FleetInv'
  OBVIOUS
<1>1. FleetTypeOK'
  BY FleetTypeStep DEF FleetInv
<1>2. CASE [AdminNext]_adminVars
  BY <1>1, <1>2, AdminStep DEF FleetInv
<1>3. ASSUME NEW i \in Integration,
             \/ ScanStep(i) \/ LookRaises(i) \/ PushFails(i)
             \/ \E n \in Namespace, w \in Workload: Change(i, n, w)
      PROVE  AdminInv'
  BY <1>3, ScanKeeps DEF FleetInv
<1> QED
  BY <1>1, <1>2, <1>3 DEF Next, FleetInv, vars

\* The invariant of the registrations and of the fleet's tables together.
THEOREM FleetInvariant == Spec => []FleetInv
<1> QED
  BY FleetStart, FleetStep, PTL DEF Spec

\* Every variable keeps its type, the pod counts their bound: what the readers
\* of the three tables may rely on.
THEOREM FleetTypeCorrect == Spec => []TypeOK
<1>1. FleetInv => TypeOK
  BY DEF FleetInv, AdminInv, TypeOK
<1> QED
  BY <1>1, FleetInvariant, PTL

\* The credential in effect is always one that was given to this integration,
\* by its last acknowledged edit or since (HandleIntegrationUpdate, Store and
\* the migration script, with their failures).
THEOREM CredentialIsCurrent == Spec => []EffectiveIsCurrent
<1>1. FleetInv => EffectiveIsCurrent
  BY DEF FleetInv, AdminInv
<1> QED
  BY <1>1, FleetInvariant, PTL

\* A row never names a secret that is not there, and a secret nobody names is
\* left behind only by a failure or a race (HandleIntegrationDelete).
THEOREM SecretsHaveOwners == Spec => []SecretsAreOwned
<1>1. FleetInv => SecretsAreOwned
  BY OwnedByInvariant DEF FleetInv
<1> QED
  BY <1>1, FleetInvariant, PTL

(***************************************************************************)
(* One whole snapshot after the other                                      *)
(***************************************************************************)

\* A row that was deleted does not come back: its id is not used twice.
LEMMA DeletedForGood ==
  ASSUME AdminInv, [AdminNext]_adminVars, NEW i \in Integration, row[i].life = "deleted"
  PROVE  row'[i].life = "deleted"
<1>0. /\ IntegrationsTypeOK /\ RowsAgree /\ RequestsAgree /\ row \in [Integration -> Row]
  BY DEF AdminInv, IntegrationsTypeOK
<1>1. CASE UNCHANGED row
  BY <1>1
<1>2. ASSUME NEW r \in Request, pc[r] = "row", RowEffect(r) PROVE row'[i].life = "deleted"
  <2>1. ask[r].op = "create" => row[ask[r].id].life = "unused"
    BY <1>0, <1>2 DEF RequestsAgree, Placed
  <2>2. PICK k: k = ask[r].id
    OBVIOUS
  <2>3. /\ \A j \in Integration: j # k => row'[j] = row[j]
        /\ Present(k) => row[k].life # "deleted"
        /\ ~Present(k) /\ ask[r].op # "create" => row'[k] = row[k]
    BY <1>0, <1>2, <2>2, RowWritten DEF Present
  <2> QED
    BY <2>1, <2>2, <2>3
<1>3. ASSUME NEW r \in Request, DeleteIntegration(ask[r].id) PROVE row'[i].life = "deleted"
  BY <1>0, <1>3, Empty DEF DeleteIntegration
<1>4. ASSUME NEW j \in Integration, NEW spaces, UpdateIntegration(j, NoToken, TRUE, spaces)
      PROVE  row'[i].life = "deleted"
  BY <1>0, <1>4 DEF UpdateIntegration
<1>5. ASSUME NEW r \in Request, RequestStep(r) PROVE row'[i].life = "deleted"
  BY <1>1, <1>2, <1>3, <1>5 DEF RequestStep, StoreSecret, PutSecret, WriteRow, Reread,
     LookUp, DropRow, DropSecret
<1>6. ASSUME NEW r \in Request, RequestFails(r) PROVE row'[i].life = "deleted"
  BY <1>1, <1>2, <1>3, <1>6 DEF RequestFails, Effect
<1>7. ASSUME NEW j \in Integration, MigrateStore(j) \/ MigrateRow(j) \/ MigrateFails(j)
      PROVE  row'[i].life = "deleted"
  BY <1>1, <1>4, <1>7 DEF MigrateStore, MigrateRow, MigrateFails
<1> QED
  BY <1>1, <1>5, <1>6, <1>7
     DEF AdminNext, Begin, Cutover, MigrateList, MigrateEnds, adminVars

\* A cluster that was withdrawn stays withdrawn.
LEMMA WithdrawnForGood ==
  ASSUME FleetInv, [Next]_vars, NEW i \in Integration, Withdrawn(i)
  PROVE  Withdrawn(i)'
<1>0. /\ AdminInv /\ FleetTypeOK /\ hub \in [Integration -> HubStep]
      /\ row[i].life = "deleted" /\ ~Present(i) /\ hub[i] \in {"idle", "sent"}
  BY DEF FleetInv, FleetTypeOK, HubStep, Withdrawn, Present
<1> SUFFICES row'[i].life = "deleted" /\ hub'[i] \in {"idle", "sent"}
  BY DEF Withdrawn
<1>1. CASE [AdminNext]_adminVars /\ UNCHANGED fleetVars
  BY <1>0, <1>1, DeletedForGood DEF fleetVars
<1>2. ASSUME NEW j \in Integration,
             \/ ScanStep(j) \/ LookRaises(j) \/ PushFails(j)
             \/ \E n \in Namespace, w \in Workload: Change(j, n, w)
      PROVE  row'[i].life = "deleted" /\ hub'[i] \in {"idle", "sent"}
  <2>1. row'[i].life = "deleted"
    BY <1>0, <1>2, ScanKeeps
  <2>2. CASE NextPhase(j)
    BY <1>0, <2>1, <2>2, NextPhaseTyped
  <2>3. CASE UNCHANGED hub
    BY <1>0, <2>1, <2>3
  <2>4. CASE hub' = [hub EXCEPT ![j] = "sent"]
    BY <1>0, <2>1, <2>4
  <2>5. CASE j # i /\ hub' = [hub EXCEPT ![j] = "authorized"]
    BY <1>0, <2>1, <2>5
  <2>6. CASE j # i /\ hub' = [hub EXCEPT ![j] = "listed"]
    BY <1>0, <2>1, <2>6
  <2> QED
    BY <1>0, <1>2, <2>2, <2>3, <2>4, <2>5, <2>6
       DEF ScanStep, Look, LookRaises, Push, resolveTenantContext, UpdateNamespaces,
           UpsertClusterServices, UpsertClusterIngress, UpsertClusterHealth, PushFails, Change
<1> QED
  BY <1>1, <1>2 DEF Next, vars

Sources == Kind \X Integration

\* A step that replaces one table's rows of one cluster that still may push, by
\* the whole of what that cluster's collector found, is one of the registry's.
LEMMA Replaces ==
  ASSUME FleetInv, [Next]_vars, NEW kind \in Kind, NEW i \in Integration, ~Withdrawn(i),
         \A k \in Kind, j \in Integration:
           Table(k)'[j] = IF k = kind /\ j = i THEN Payload(kind, scan[i].found) ELSE Table(k)[j]
  PROVE  Registry!Next
<1> DEFINE taken == [s \in Sources |-> Payload(s[1], scan[s[2]].found)]
           shown == [s \in Sources |-> Table(s[1])[s[2]]]
           withdrawn == {s \in Sources: Withdrawn(s[2])}
           source == <<kind, i>>
<1>1. source \in Sources \ withdrawn
  BY DEF Sources
<1>2. taken[source] = Payload(kind, scan[i].found)
  BY <1>1
<1>3. ASSUME NEW s \in Sources
      PROVE  Table(s[1])'[s[2]] = IF s = source THEN taken[source] ELSE Table(s[1])[s[2]]
  <2>1. s[1] \in Kind /\ s[2] \in Integration /\ s = <<s[1], s[2]>>
    BY DEF Sources
  <2>2. s = source <=> s[1] = kind /\ s[2] = i
    BY <2>1
  <2> QED
    BY <1>2, <2>1, <2>2
<1>4. shown' = [shown EXCEPT ![source] = taken[source]]
  BY <1>1, <1>3
<1>5. withdrawn \subseteq withdrawn'
  BY WithdrawnForGood DEF Sources
<1> QED
  BY <1>1, <1>4, <1>5 DEF Registry!Next, Sources

\* A step that writes none of the tables is one, too.
LEMMA ShowsOn ==
  ASSUME FleetInv, [Next]_vars, UNCHANGED tables
  PROVE  Registry!Next
<1>1. \A k: Table(k)' = Table(k)
  BY DEF Table, tables
<1>2. {s \in Sources: Withdrawn(s[2])} \subseteq {s \in Sources: Withdrawn(s[2])}'
  BY WithdrawnForGood DEF Sources
<1> QED
  BY <1>1, <1>2 DEF Registry!Next, Sources

LEMMA RegistryStep == FleetInv /\ [Next]_vars => Registry!Next
<1> SUFFICES ASSUME FleetInv, [Next]_vars PROVE Registry!Next
  OBVIOUS
<1>0. /\ services \in [Integration -> SUBSET Namespace]
      /\ ingress \in [Integration -> SUBSET Namespace]
      /\ health \in [Integration -> SUBSET (0..Cardinality(Namespace))]
  BY DEF FleetInv, FleetTypeOK
<1>1. ASSUME NEW i \in Integration, UpsertClusterServices(i) PROVE Registry!Next
  <2>1. /\ ~Withdrawn(i) /\ services' = [services EXCEPT ![i] = Services(scan[i].found)]
        /\ UNCHANGED <<ingress, health>>
    BY <1>1 DEF UpsertClusterServices, ReplaceServices, Withdrawn
  <2>2. \A k \in Kind, j \in Integration:
          Table(k)'[j] = IF k = "services" /\ j = i THEN Payload("services", scan[i].found)
                                                    ELSE Table(k)[j]
    BY <1>0, <2>1 DEF Kind, Table, Payload
  <2> QED
    BY <2>1, <2>2, Replaces DEF Kind
<1>2. ASSUME NEW i \in Integration, UpsertClusterIngress(i) PROVE Registry!Next
  <2>1. /\ ~Withdrawn(i) /\ ingress' = [ingress EXCEPT ![i] = Entries(scan[i].found)]
        /\ UNCHANGED <<services, health>>
    BY <1>2 DEF UpsertClusterIngress, ReplaceIngress, Withdrawn
  <2>2. \A k \in Kind, j \in Integration:
          Table(k)'[j] = IF k = "ingress" /\ j = i THEN Payload("ingress", scan[i].found)
                                                   ELSE Table(k)[j]
    BY <1>0, <2>1 DEF Kind, Table, Payload
  <2> QED
    BY <2>1, <2>2, Replaces DEF Kind
<1>3. ASSUME NEW i \in Integration, UpsertClusterHealth(i) PROVE Registry!Next
  <2>1. /\ ~Withdrawn(i) /\ health' = [health EXCEPT ![i] = Counts(scan[i].found)]
        /\ UNCHANGED <<services, ingress>>
    BY <1>3 DEF UpsertClusterHealth, ReplaceHealth, Withdrawn
  <2>2. \A k \in Kind, j \in Integration:
          Table(k)'[j] = IF k = "health" /\ j = i THEN Payload("health", scan[i].found)
                                                  ELSE Table(k)[j]
    BY <1>0, <2>1 DEF Kind, Table, Payload
  <2> QED
    BY <2>1, <2>2, Replaces DEF Kind
<1>4. CASE UNCHANGED tables
  BY <1>4, ShowsOn
<1> QED
  BY <1>1, <1>2, <1>3, <1>4
     DEF Next, ScanStep, Look, LookRaises, Push, resolveTenantContext, UpdateNamespaces,
         PushFails, Change, fleetVars, vars

LEMMA RegistryStart == Init => Registry!Init
<1> SUFFICES ASSUME Init PROVE Registry!Init
  OBVIOUS
<1>1. \A s \in Kind \X Integration: Table(s[1])[s[2]] = {}
  <2>1. \A k \in Kind, i \in Integration: Table(k)[i] = {}
    BY DEF Init, Kind, Table
  <2> QED
    BY <2>1
<1>2. \A i \in Integration: row[i].life # "deleted"
  <2>1. \A i \in Integration:
          row[i] = IF i \in budget.registered
                     THEN [Gone("present") EXCEPT !.token = CHOOSE t \in Token: TRUE]
                     ELSE Gone("unused")
    BY DEF Init, IntegrationsInit
  <2>2. /\ [Gone("present") EXCEPT !.token = CHOOSE t \in Token: TRUE].life = "present"
        /\ Gone("unused").life = "unused"
    BY DEF Gone
  <2> QED
    BY <2>1, <2>2
<1>3. {s \in Kind \X Integration: Withdrawn(s[2])} = {}
  BY <1>2 DEF Withdrawn
<1> QED
  BY <1>1, <1>3 DEF Registry!Init

\* Each of the three tables goes from one whole snapshot of a cluster's own
\* collector to another, and shows nothing new of a cluster that was deleted:
\* the fleet's pushes implement SnapshotRegistry (UpsertClusterServices,
\* UpsertClusterIngress, UpsertClusterHealth, resolveTenantContext).
THEOREM FleetImplementsRegistry == Spec => RegistrySpec
<1>1. Init => Registry!Init
  BY RegistryStart
<1>2. FleetInv /\ [Next]_vars => Registry!Next
  BY RegistryStep
<1> QED
  BY <1>1, <1>2, FleetInvariant, PTL DEF Spec, RegistrySpec, Registry!Spec
=============================================================================
