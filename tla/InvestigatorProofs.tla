------------------------- MODULE InvestigatorProofs -------------------------
(***************************************************************************)
(* Theorems about Investigator, for any number of namespaces and of new    *)
(* investigations per sweep, any faults, and any bounds.                   *)
(***************************************************************************)
EXTENDS Investigator, FunctionTheorems, FiniteSetTheorems, TLAPS

\* Nothing is open, announced or proposed at first.
LEMMA SweepInit == Init => SweepInv
BY SweepAssumption DEF Init, SweepInv, Word, ChannelAgrees, ProposalsAreAnnounced

\* The clusters change, or a cooldown passes.
LEMMA OutsideKeeps ==
  ASSUME SweepInv, NEW ns \in Namespace, ClusterChanges(ns) \/ CooldownPasses(ns)
  PROVE  SweepInv'
<1> USE DEF SweepInv, cluster, found, plan, memory, outside
<1>1. CASE ClusterChanges(ns)
  BY <1>1 DEF ClusterChanges, Toggle, ChannelAgrees, ProposalsAreAnnounced
<1>2. CASE CooldownPasses(ns)
  BY <1>2 DEF CooldownPasses, ChannelAgrees, ProposalsAreAnnounced
<1> QED
  BY <1>1, <1>2

\* The hub restarts: what it announced is forgotten, and no incident is open.
LEMMA RestartKeeps ==
  ASSUME SweepInv, Restart
  PROVE  SweepInv'
<1> USE DEF SweepInv, Restart, Strikes, cluster
<1>1. ChannelAgrees' /\ word' \in [Namespace -> Word]
  BY DEF ChannelAgrees, Word
<1>2. ProposalsAreAnnounced'
  BY DEF ProposalsAreAnnounced
<1> QED
  BY <1>1, <1>2

\* gather, and decideActions.
LEMMA GatherKeeps ==
  ASSUME SweepInv,
         \/ BeginSweep \/ ListFails \/ FetchCerts \/ Decide
         \/ \E ns \in Namespace: FetchShard(ns)
         \/ \E leaf \in Leaf: FetchFails(leaf)
  PROVE  SweepInv'
<1> USE DEF SweepInv, cluster, found, plan, memory, outside, ChannelAgrees,
        ProposalsAreAnnounced
<1>1. CASE BeginSweep
  <2>1. lasting'.pods = failing /\ lasting'.certs = expiring /\ unread' = Leaf
    BY <1>1 DEF BeginSweep
  <2>2. failing \subseteq Leaf /\ Certs \in Leaf
    BY DEF Leaf
  <2> QED
    BY <1>1, <2>1, <2>2 DEF BeginSweep
<1>2. CASE ListFails
  BY <1>2 DEF ListFails, Strikes
<1>3. CASE FetchCerts
  <2>1. ~(Certs \in Namespace)
    BY DEF Certs, Namespace
  <2>2. /\ lasting.pods \subseteq anomalous' \cup unread' \cup missed
        /\ lasting.certs \ Fleet \subseteq anomalous'
    BY <1>3, <2>1, SweepAssumption DEF FetchCerts
  <2> QED
    BY <1>3, <2>2 DEF FetchCerts
<1>4. CASE Decide
  BY <1>4 DEF Decide, FirstOf, Candidates
<1>5. ASSUME NEW ns \in Namespace, FetchShard(ns) PROVE SweepInv'
  BY <1>5 DEF FetchShard, Namespace, Certs
<1>6. ASSUME NEW leaf \in Leaf, FetchFails(leaf) PROVE SweepInv'
  BY <1>6 DEF FetchFails, Strikes
<1> QED
  BY <1>1, <1>2, <1>3, <1>4, <1>5, <1>6

\* What the sweep then does, one incident after the other.
LEMMA ActKeeps ==
  ASSUME SweepInv, NEW ns \in Namespace,
         \/ CloseIncident(ns) \/ Diagnose(ns) \/ DiagnoseFails(ns)
         \/ RouteFails(ns) \/ SendAlert(ns)
  PROVE  SweepInv'
<1> USE DEF SweepInv, cluster, found, plan, memory, outside, Investigates,
        IsFirst, MarkOpen, Say, Strikes, ProposalsAreAnnounced
<1>1. CASE CloseIncident(ns)
  <2>1. ChannelAgrees' /\ word' \in [Namespace -> Word]
    BY <1>1 DEF CloseIncident, ChannelAgrees, Word
  <2> QED
    BY <1>1, <2>1 DEF CloseIncident
<1>2. CASE Diagnose(ns)
  BY <1>2 DEF Diagnose, ChannelAgrees
<1>3. CASE DiagnoseFails(ns)
  BY <1>3 DEF DiagnoseFails, ChannelAgrees
<1>4. CASE RouteFails(ns)
  <2>1. ChannelAgrees' /\ word' \in [Namespace -> Word]
    BY <1>4 DEF RouteFails, ChannelAgrees, Word
  <2> QED
    BY <1>4, <2>1 DEF RouteFails
<1>5. CASE SendAlert(ns)
  <2>1. ChannelAgrees' /\ word' \in [Namespace -> Word]
    BY <1>5 DEF SendAlert, ChannelAgrees, Word
  <2>2. ProposalsAreAnnounced' /\ orphans' \in Nat /\ faults' \in Nat
    BY <1>5 DEF SendAlert
  <2> QED
    BY <1>5, <2>1, <2>2 DEF SendAlert
<1> QED
  BY <1>1, <1>2, <1>3, <1>4, <1>5

\* A signal that stays bad is found, missed or still to be read, and the loop's
\* decisions agree with what it found.
THEOREM SweepInvariant == Spec => []SweepInv
<1>1. SweepInv /\ [Next]_vars => SweepInv'
  <2> SUFFICES ASSUME SweepInv, [Next]_vars PROVE SweepInv'
    OBVIOUS
  <2>1. CASE UNCHANGED vars
    BY <2>1 DEF vars, cluster, found, plan, memory, outside, SweepInv,
       ChannelAgrees, ProposalsAreAnnounced
  <2>2. ASSUME NEW ns \in Namespace, ClusterChanges(ns) \/ CooldownPasses(ns)
        PROVE  SweepInv'
    BY <2>2, OutsideKeeps
  <2>3. CASE Restart
    BY <2>3, RestartKeeps
  <2>4. CASE BeginSweep \/ ListFails \/ FetchCerts \/ Decide
    BY <2>4, GatherKeeps
  <2>5. ASSUME NEW leaf \in Leaf, FetchFails(leaf) PROVE SweepInv'
    BY <2>5, GatherKeeps
  <2>6. ASSUME NEW ns \in Namespace, FetchShard(ns) PROVE SweepInv'
    BY <2>6, GatherKeeps
  <2>7. ASSUME NEW ns \in Namespace,
               \/ CloseIncident(ns) \/ Diagnose(ns) \/ DiagnoseFails(ns)
               \/ RouteFails(ns) \/ SendAlert(ns)
        PROVE  SweepInv'
    BY <2>7, ActKeeps
  <2>8. CASE Propose
    BY <2>8 DEF Propose, Strikes, SweepInv, ChannelAgrees, ProposalsAreAnnounced,
       cluster, found, memory
  <2>9. CASE EndSweep
    BY <2>9 DEF EndSweep, SweepInv, ChannelAgrees, ProposalsAreAnnounced,
       cluster, found, plan, memory, outside
  <2> QED
    BY <2>1, <2>2, <2>3, <2>4, <2>5, <2>6, <2>7, <2>8, <2>9 DEF Next, Sweep
<1> QED
  BY <1>1, SweepInit, PTL DEF Spec

\* Every open incident was announced, unless the announcement was lost, and no
\* alert is repeated or left without its resolution while the hub runs.
THEOREM ChannelStaysInStep == Spec => []ChannelAgrees
<1>1. SweepInv => ChannelAgrees
  BY DEF SweepInv
<1> QED
  BY <1>1, SweepInvariant, PTL

\* Only failures leave a proposal pending that no alert has named.
THEOREM ProposalsStayAnnounced == Spec => []ProposalsAreAnnounced
<1>1. SweepInv => ProposalsAreAnnounced
  BY DEF SweepInv
<1> QED
  BY <1>1, SweepInvariant, PTL

\* A namespace is only resolved in error when its signal was not fetched.
THEOREM OnlyMissedResolveWrongly == Spec => ResolutionsAreSeen
<1> DEFINE Seen(ns) == /\ ns \in lasting.pods => ns \in missed
                       /\ ns \in lasting.certs \ Fleet => Certs \in missed
<1>1. SweepInv /\ [Next]_vars =>
        [\A ns \in Namespace: Resolves(ns) => Seen(ns)]_vars
  <2> SUFFICES ASSUME SweepInv, Next, NEW ns \in Namespace, Resolves(ns)
               PROVE  Seen(ns)
    OBVIOUS
  <2>1. ns \in toClose
    BY DEF Resolves
  <2>2. ns \notin anomalous /\ unread = {} /\ pc # "idle"
    BY <2>1 DEF SweepInv
  <2> QED
    BY <2>2 DEF SweepInv
<1> QED
  BY <1>1, SweepInvariant, PTL DEF Spec, ResolutionsAreSeen

(***************************************************************************)
(* Types.  That a sweep opens at most MaxPerSweep incidents is a fact      *)
(* about FirstOf.                                                          *)
(***************************************************************************)

\* The first k of a set of namespaces are at most k: how many are smaller
\* tells any two of them apart.
LEMMA FirstOfBounded ==
  ASSUME NEW S \in SUBSET Namespace, NEW k \in Nat
  PROVE  Cardinality(FirstOf(S, k)) <= k
<1> DEFINE Below(x) == {m \in S: m < x}
           rank == [x \in FirstOf(S, k) |-> Cardinality(Below(x))]
<1>1. IsFiniteSet(S) /\ S \subseteq Nat
  <2>1. 1 \in Int /\ N \in Int /\ S \in SUBSET (1 .. N)
    BY SweepAssumption DEF Namespace
  <2>2. IsFiniteSet(1 .. N)
    BY <2>1, FS_Interval
  <2>3. IsFiniteSet(S)
    BY <2>1, <2>2, FS_Subset
  <2> QED
    BY <2>1, <2>3
<1>2. ASSUME NEW x PROVE IsFiniteSet(Below(x)) /\ Cardinality(Below(x)) \in Nat
  BY <1>1, FS_Subset, FS_CardinalityType
<1>3. rank \in [FirstOf(S, k) -> 0 .. k - 1]
  BY <1>2 DEF FirstOf
<1>4. ASSUME NEW x \in FirstOf(S, k), NEW y \in FirstOf(S, k), x < y
      PROVE  rank[x] # rank[y]
  <2> x \in S /\ y \in S
    BY DEF FirstOf
  <2>1. \A m \in S: m < x => m < y
    BY <1>1, <1>4
  <2>2. ~(x < x)
    BY <1>1
  <2>3. Below(x) \subseteq Below(y) /\ x \in Below(y) /\ x \notin Below(x)
    BY <1>4, <2>1, <2>2
  <2> QED
    BY <1>2, <2>3, FS_Subset
<1>5. rank \in Injection(FirstOf(S, k), 0 .. k - 1)
  <2>1. \A x, y \in FirstOf(S, k): rank[x] = rank[y] => x = y
    BY <1>1, <1>4 DEF FirstOf
  <2> QED
    BY <1>3, <2>1 DEF Injection, IsInjective
<1>6. IsFiniteSet(0 .. k - 1) /\ Cardinality(0 .. k - 1) = k
  <2>1. 0 \in Int /\ k - 1 \in Int /\ (0 > k - 1 <=> k = 0) /\ (k - 1) - 0 + 1 = k
    OBVIOUS
  <2> QED
    BY ONLY <2>1, FS_Interval
<1> QED
  BY ONLY <1>5, <1>6, FS_Injection

\* Fewer namespaces left to open are no more of them.
LEMMA FewerToOpen ==
  ASSUME NEW S \in SUBSET Namespace, NEW ns, Cardinality(S) <= MaxPerSweep
  PROVE  Cardinality(S \ {ns}) <= MaxPerSweep
<1>1. IsFiniteSet(S)
  <2>1. 1 \in Int /\ N \in Int /\ S \in SUBSET (1 .. N)
    BY SweepAssumption DEF Namespace
  <2>2. IsFiniteSet(1 .. N)
    BY <2>1, FS_Interval
  <2> QED
    BY <2>1, <2>2, FS_Subset
<1> QED
  BY <1>1, FS_RemoveElement, FS_CardinalityType, SweepAssumption

\* What the loop decides and does is well-typed: it opens at most MaxPerSweep
\* incidents a sweep, only of namespaces that are not open, and closes only
\* those that are.
THEOREM InvestigatorTypeCorrect == Spec => []TypeOK
<1>1. Init => TypeOK
  <2> SUFFICES ASSUME Init PROVE TypeOK
    OBVIOUS
  <2>1. Cardinality(toOpen) <= MaxPerSweep
    BY FS_EmptySet, SweepAssumption DEF Init
  <2>2. orphans \in 0 .. MaxFaults + 1 /\ changes \in 0 .. MaxChanges /\ faults \in 0 .. MaxFaults
    BY SweepAssumption DEF Init
  <2>3. lasting \in [pods: SUBSET failing, certs: SUBSET expiring]
    BY DEF Init
  <2>4. word \in [Namespace -> Word]
    BY DEF Init, Word
  <2> QED
    BY <2>1, <2>2, <2>3, <2>4 DEF Init, TypeOK
<1>2. TypeOK /\ SweepInv /\ SweepInv' /\ [Next]_vars => TypeOK'
  <2> SUFFICES ASSUME TypeOK, SweepInv, SweepInv', [Next]_vars PROVE TypeOK'
    OBVIOUS
  <2>0. ProposalsAreAnnounced' /\ orphans' \in Nat
    BY DEF SweepInv
  <2>1. ASSUME faults' \in 0 .. MaxFaults PROVE orphans' \in 0 .. MaxFaults + 1
    <3>1. PICK f \in 0 .. MaxFaults, o \in Nat: f = faults' /\ o = orphans'
      BY <2>0, <2>1
    <3>2. PICK u \in {0, 1}: u = (IF pc = "alerting" /\ named THEN 1 ELSE 0)'
      OBVIOUS
    <3>3. o <= f + u
      BY <2>0, <3>1, <3>2, Zenon DEF ProposalsAreAnnounced
    <3>4. o \in 0 .. MaxFaults + 1
      BY <3>3, SweepAssumption
    <3> QED
      BY <3>1, <3>4
  <2> USE SweepAssumption DEF cluster, found, plan, memory, outside, vars
  <2>2. ASSUME NEW kind, Strikes(kind) PROVE faults' \in 0 .. MaxFaults
    BY <2>2 DEF Strikes, TypeOK
  <2>3. faults' \in 0 .. MaxFaults
    <3>1. CASE faults' = faults
      BY <3>1 DEF TypeOK
    <3>2. CASE \E kind \in FaultKind: Strikes(kind)
      BY <2>2, <3>2
    <3> QED
      BY <3>1, <3>2 DEF Next, Sweep, BeginSweep, ListFails, FetchCerts, Decide,
         Propose, EndSweep, FetchFails, FetchShard, CloseIncident, Diagnose,
         DiagnoseFails, RouteFails, SendAlert, Restart, ClusterChanges,
         CooldownPasses, FaultKind
  <2>4. changes' \in 0 .. MaxChanges
    BY DEF Next, Sweep, BeginSweep, ListFails, FetchCerts, Decide,
       Propose, EndSweep, FetchFails, FetchShard, CloseIncident, Diagnose,
       DiagnoseFails, RouteFails, SendAlert, Restart, ClusterChanges,
       CooldownPasses, TypeOK
  <2>5. /\ failing' \subseteq Namespace /\ expiring' \subseteq Namespace
        /\ unread' \subseteq Leaf /\ anomalous' \subseteq Namespace
        /\ open' \subseteq Namespace /\ word' \in [Namespace -> Word]
        /\ toClose' \subseteq open' /\ toOpen' \subseteq Namespace \ open'
    BY DEF SweepInv
  <2>6. pc' \in {"idle", "gathering", "acting", "proposing", "alerting"} /\ named' \in BOOLEAN
    BY DEF Next, Sweep, BeginSweep, ListFails, FetchCerts, Decide,
       Propose, EndSweep, FetchFails, FetchShard, CloseIncident, Diagnose,
       DiagnoseFails, RouteFails, SendAlert, Restart, ClusterChanges,
       CooldownPasses, TypeOK
  <2>7. missed' \subseteq Leaf /\ targets' \subseteq anomalous'
    BY DEF Next, Sweep, BeginSweep, ListFails, FetchCerts, Decide,
       Propose, EndSweep, FetchFails, FetchShard, CloseIncident, Diagnose,
       DiagnoseFails, RouteFails, SendAlert, Restart, ClusterChanges,
       CooldownPasses, TypeOK
  <2>8. cooling' \subseteq Namespace
    BY DEF Next, Sweep, BeginSweep, ListFails, FetchCerts, Decide,
       Propose, EndSweep, FetchFails, FetchShard, CloseIncident, Diagnose,
       DiagnoseFails, RouteFails, SendAlert, Restart, ClusterChanges,
       CooldownPasses, MarkOpen, TypeOK
  <2>9. lasting' \in [pods: SUBSET failing', certs: SUBSET expiring']
    BY DEF Next, Sweep, BeginSweep, ListFails, FetchCerts, Decide,
       Propose, EndSweep, FetchFails, FetchShard, CloseIncident, Diagnose,
       DiagnoseFails, RouteFails, SendAlert, Restart, ClusterChanges,
       CooldownPasses, TypeOK
  <2>10. Cardinality(toOpen') <= MaxPerSweep
    <3>1. CASE toOpen' = {}
      BY <3>1, FS_EmptySet
    <3>2. CASE toOpen' = toOpen
      BY <3>2 DEF TypeOK
    <3>3. CASE \E ns \in Namespace: toOpen' = toOpen \ {ns}
      BY <3>3, FewerToOpen DEF TypeOK
    <3>4. CASE Decide
      BY <3>4, FirstOfBounded DEF Decide, Candidates, TypeOK
    <3> QED
      BY <3>1, <3>2, <3>3, <3>4 DEF Next, Sweep, BeginSweep, ListFails, FetchCerts,
         Propose, EndSweep, FetchFails, FetchShard, CloseIncident, Diagnose,
         DiagnoseFails, RouteFails, SendAlert, Restart, ClusterChanges,
         CooldownPasses, MarkOpen
  <2> QED
    BY <2>1, <2>3, <2>4, <2>5, <2>6, <2>7, <2>8, <2>9, <2>10 DEF TypeOK
<1> QED
  BY <1>1, <1>2, SweepInvariant, PTL DEF Spec
=============================================================================
