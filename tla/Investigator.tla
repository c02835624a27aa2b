---------------------------- MODULE Investigator ----------------------------
(***************************************************************************)
(* The proactive loop: sweep the leaf pods, decide which incidents to open *)
(* and to close, tell the webhook, and propose a remediation on the way.   *)
(*                                                                         *)
(* A sweep is one goroutine, cut at each fetch, each call of the agent and *)
(* each notification; between two of them the cluster moves on, a cooldown *)
(* passes, or the hub restarts and forgets its incidents.  The ghost word  *)
(* is what the channel believes of a namespace, which no code keeps.       *)
(***************************************************************************)
EXTENDS Naturals, FiniteSets

CONSTANTS
  N,            \* namespaces, numbered in the order of their names
  Fleet,        \* those of a cluster that reports with a cluster id
  MaxPerSweep,  \* new investigations per sweep
  MaxChanges,   \* bound: how often the clusters change
  MaxFaults,    \* bound: how many failures strike
  Fault         \* the kinds of failure this instance admits

Namespace == 1 .. N

(***************************************************************************)
(* "list":  ListPods fails               "fetch": a leaf's fetch fails     *)
(* "route": the diagnose fan-out fails   "agent": a call of the agent does *)
(* "store": the proposal's INSERT fails  "send":  the webhook does         *)
(* "restart": the hub restarts                                             *)
(***************************************************************************)
FaultKind == {"list", "fetch", "route", "agent", "store", "send", "restart"}

ASSUME SweepAssumption ==
  /\ N \in Nat /\ MaxPerSweep \in Nat \ {0}
  /\ MaxChanges \in Nat /\ MaxFaults \in Nat
  /\ Fleet \subseteq Namespace /\ Fault \subseteq FaultKind

\* The leaf pods a sweep looks at: a live-state shard for each namespace, and
\* k8fy.certificates.
Certs == 0
Leaf  == {Certs} \cup Namespace

VARIABLES
  failing,    \* namespaces with a pod row that PodHealth calls unhealthy
  expiring,   \* namespaces with a certificate that is about to expire
  pc,         \* the next step of the sweep
  unread,     \* leaf pods that gather has yet to fetch
  missed,     \* leaf pods whose fetch failed in this sweep
  anomalous,  \* what gather found
  targets,    \* those of them with a service to propose a remediation for
  toClose, toOpen,  \* what is left to do of the sweep's decisions
  named,      \* whether the alert about to be sent names a proposal
  open,       \* Investigator.open
  cooling,    \* namespaces whose lastAlert is younger than the cooldown
  word,       \* word[ns]: what became of the last word on ns
  orphans,    \* proposals in the store that no delivered alert names
  lasting,    \* what has been bad since the sweep began
  changes, faults

cluster == <<failing, expiring, lasting, changes>>
found   == <<unread, missed, anomalous, targets>>
plan    == <<toClose, toOpen, named>>
memory  == <<open, cooling>>
outside == <<word, orphans>>
vars    == <<cluster, pc, found, plan, memory, outside, faults>>

\* "forgotten": an alert went out, and a restart has lost its incident.
Word == {"none", "alert", "resolved", "lost", "forgotten"}

TypeOK ==
  /\ failing \subseteq Namespace /\ expiring \subseteq Namespace
  /\ pc \in {"idle", "gathering", "acting", "proposing", "alerting"}
  /\ unread \subseteq Leaf /\ missed \subseteq Leaf
  /\ anomalous \subseteq Namespace /\ targets \subseteq anomalous
  /\ toClose \subseteq open /\ toOpen \subseteq Namespace \ open
  /\ Cardinality(toOpen) <= MaxPerSweep
  /\ named \in BOOLEAN
  /\ open \subseteq Namespace /\ cooling \subseteq Namespace
  /\ word \in [Namespace -> Word]
  /\ orphans \in 0 .. MaxFaults + 1
  /\ lasting \in [pods: SUBSET failing, certs: SUBSET expiring]
  /\ changes \in 0 .. MaxChanges /\ faults \in 0 .. MaxFaults

Init ==
  /\ failing = {} /\ expiring = {} /\ lasting = [pods |-> {}, certs |-> {}]
  /\ pc = "idle"
  /\ unread = {} /\ missed = {} /\ anomalous = {} /\ targets = {}
  /\ toClose = {} /\ toOpen = {} /\ named = FALSE
  /\ open = {} /\ cooling = {}
  /\ word = [ns \in Namespace |-> "none"] /\ orphans = 0
  /\ changes = 0 /\ faults = 0

Strikes(kind) == kind \in Fault /\ faults < MaxFaults /\ faults' = faults + 1

Toggle(S, x) == IF x \in S THEN S \ {x} ELSE S \cup {x}

(***************************************************************************)
(* The clusters, and time                                                  *)
(***************************************************************************)

\* A namespace's pods fail or recover; a certificate nears its expiry or is
\* renewed.  current_state follows at once.
ClusterChanges(ns) ==
  /\ changes < MaxChanges /\ changes' = changes + 1
  /\ \/ failing' = Toggle(failing, ns) /\ UNCHANGED expiring
     \/ expiring' = Toggle(expiring, ns) /\ UNCHANGED failing
  /\ lasting' = [pods |-> lasting.pods \cap failing',
                 certs |-> lasting.certs \cap expiring']
  /\ UNCHANGED <<pc, found, plan, memory, outside, faults>>

CooldownPasses(ns) ==
  /\ ns \in cooling
  /\ cooling' = cooling \ {ns}
  /\ UNCHANGED <<cluster, pc, found, plan, open, outside, faults>>

\* The incidents and cooldowns were only in memory.
Restart ==
  /\ Strikes("restart")
  /\ pc' = "idle"
  /\ unread' = {} /\ missed' = {} /\ anomalous' = {} /\ targets' = {}
  /\ toClose' = {} /\ toOpen' = {} /\ named' = FALSE
  /\ open' = {} /\ cooling' = {}
  /\ word' = [ns \in Namespace |-> IF word[ns] = "alert" THEN "forgotten" ELSE word[ns]]
  /\ UNCHANGED <<cluster, orphans>>

(***************************************************************************)
(* gather                                                                  *)
(***************************************************************************)

\* ListPods: the shard of every namespace, and the certificates.
BeginSweep ==
  /\ pc = "idle" /\ pc' = "gathering"
  /\ unread' = Leaf /\ missed' = {} /\ anomalous' = {} /\ targets' = {}
  /\ lasting' = [pods |-> failing, certs |-> expiring]
  /\ UNCHANGED <<plan, memory, outside, faults, failing, expiring, changes>>

\* Without a list there is no sweep.
ListFails ==
  /\ pc = "idle" /\ Strikes("list")
  /\ UNCHANGED <<cluster, pc, found, plan, memory, outside>>

FetchShard(ns) ==
  /\ pc = "gathering" /\ ns \in unread
  /\ unread' = unread \ {ns}
  /\ anomalous' = anomalous \cup (failing \cap {ns})
  /\ targets' = targets \cup (failing \cap {ns})
  /\ UNCHANGED <<cluster, pc, missed, plan, memory, outside, faults>>

\* The leaf named k8fy.certificates holds those reported without a cluster id;
\* a fleet cluster's are in a leaf of its own, which no case of gather takes.
FetchCerts ==
  /\ pc = "gathering" /\ Certs \in unread
  /\ unread' = unread \ {Certs}
  /\ anomalous' = anomalous \cup (expiring \ Fleet)
  /\ UNCHANGED <<cluster, pc, missed, targets, plan, memory, outside, faults>>

\* The leaf is skipped, and its namespaces look healthy.
FetchFails(leaf) ==
  /\ pc = "gathering" /\ leaf \in unread /\ Strikes("fetch")
  /\ unread' = unread \ {leaf} /\ missed' = missed \cup {leaf}
  /\ UNCHANGED <<cluster, pc, anomalous, targets, plan, memory, outside>>

(***************************************************************************)
(* decideActions                                                           *)
(***************************************************************************)

Candidates == (anomalous \ open) \ cooling

\* Variant: one too many.
FirstOf_OneMore(S, k) == {ns \in S: Cardinality({m \in S: m < ns}) <= k}

FirstOf(S, k) == {ns \in S: Cardinality({m \in S: m < ns}) < k}

\* Variant: an incident is closed unless its namespace is a candidate.
Decide_CloseRest ==
  /\ pc = "gathering" /\ unread = {} /\ pc' = "acting"
  /\ toClose' = open \ Candidates
  /\ toOpen' = FirstOf(Candidates, MaxPerSweep)
  /\ UNCHANGED <<cluster, found, named, memory, outside, faults>>

\* Variant: the cap is applied to the anomalous before the open ones and those
\* in cooldown are skipped.
Decide_CapFirst ==
  /\ pc = "gathering" /\ unread = {} /\ pc' = "acting"
  /\ toClose' = open \ anomalous
  /\ toOpen' = (FirstOf(anomalous, MaxPerSweep) \ open) \ cooling
  /\ UNCHANGED <<cluster, found, named, memory, outside, faults>>

Decide ==
  /\ pc = "gathering" /\ unread = {} /\ pc' = "acting"
  /\ toClose' = open \ anomalous
  /\ toOpen' = FirstOf(Candidates, MaxPerSweep)
  /\ UNCHANGED <<cluster, found, named, memory, outside, faults>>

\* What is left of a decision is worked off in the order of the names.
IsFirst(ns, S) == ns \in S /\ \A m \in S: ns <= m

(***************************************************************************)
(* sweep: closing, then opening, each in the order of the names            *)
(***************************************************************************)

Say(ns, w) == word' = [word EXCEPT ![ns] = w]

CloseIncident(ns) ==
  /\ pc = "acting" /\ IsFirst(ns, toClose)
  /\ \/ Say(ns, "resolved") /\ UNCHANGED faults
     \/ Strikes("send") /\ Say(ns, "lost")
  /\ toClose' = toClose \ {ns}
  /\ open' = open \ {ns} /\ cooling' = cooling \cup {ns}
  /\ UNCHANGED <<cluster, pc, found, toOpen, named, orphans>>

\* The incident is open, whether or not anybody was told.
MarkOpen(ns) ==
  /\ toOpen' = toOpen \ {ns}
  /\ open' = open \cup {ns} /\ cooling' = cooling \cup {ns}

Investigates(ns) == pc = "acting" /\ toClose = {} /\ IsFirst(ns, toOpen)

\* The agent has diagnosed.  A proposal needs a service, a verdict of degraded
\* or unhealthy, and the option enabled.
Diagnose(ns) ==
  /\ Investigates(ns)
  /\ pc' \in {"alerting"} \cup (IF ns \in targets THEN {"proposing"} ELSE {})
  /\ named' = FALSE
  /\ UNCHANGED <<cluster, found, toClose, toOpen, memory, outside, faults>>

\* Variant: without a diagnosis there is no alert.
DiagnoseFails_Silent(ns) ==
  /\ Investigates(ns) /\ Strikes("agent")
  /\ MarkOpen(ns)
  /\ UNCHANGED <<cluster, pc, found, toClose, named, outside>>

\* An alert is raised all the same, from the deterministic trigger.
DiagnoseFails(ns) ==
  /\ Investigates(ns) /\ Strikes("agent")
  /\ pc' = "alerting" /\ named' = FALSE
  /\ UNCHANGED <<cluster, found, toClose, toOpen, memory, outside>>

\* Without the diagnose fan-out there is no alert.
RouteFails(ns) ==
  /\ Investigates(ns) /\ Strikes("route")
  /\ Say(ns, "lost") /\ MarkOpen(ns)
  /\ UNCHANGED <<cluster, pc, found, toClose, named, orphans>>

\* proposeRemediation: a pending row, or none when the agent or the store fails.
Propose ==
  /\ pc = "proposing" /\ pc' = "alerting"
  /\ \/ named' = TRUE /\ orphans' = orphans + 1 /\ UNCHANGED faults
     \/ /\ Strikes("agent") \/ Strikes("store")
        /\ UNCHANGED <<named, orphans>>
  /\ UNCHANGED <<cluster, found, toClose, toOpen, memory, word>>

\* Variant: the alert does not carry the proposal's id.
SendAlert_Anonymous(ns) ==
  /\ pc = "alerting" /\ IsFirst(ns, toOpen) /\ pc' = "acting"
  /\ \/ Say(ns, "alert") /\ UNCHANGED faults
     \/ Strikes("send") /\ Say(ns, "lost")
  /\ MarkOpen(ns)
  /\ named' = FALSE
  /\ UNCHANGED <<cluster, found, toClose, orphans>>

SendAlert(ns) ==
  /\ pc = "alerting" /\ IsFirst(ns, toOpen) /\ pc' = "acting"
  /\ \/ /\ Say(ns, "alert")
        /\ orphans' = IF named THEN orphans - 1 ELSE orphans
        /\ UNCHANGED faults
     \/ Strikes("send") /\ Say(ns, "lost") /\ UNCHANGED orphans
  /\ MarkOpen(ns)
  /\ named' = FALSE
  /\ UNCHANGED <<cluster, found, toClose>>

EndSweep ==
  /\ pc = "acting" /\ toClose = {} /\ toOpen = {} /\ pc' = "idle"
  /\ UNCHANGED <<cluster, found, plan, memory, outside, faults>>

(***************************************************************************)
(* Specification                                                           *)
(***************************************************************************)

Sweep ==
  \/ BeginSweep \/ ListFails \/ FetchCerts \/ Decide
  \/ Propose \/ EndSweep
  \/ \E leaf \in Leaf: FetchFails(leaf)
  \/ \E ns \in Namespace:
       \/ FetchShard(ns) \/ CloseIncident(ns)
       \/ Diagnose(ns) \/ DiagnoseFails(ns) \/ RouteFails(ns) \/ SendAlert(ns)

Next ==
  \/ Sweep
  \/ Restart
  \/ \E ns \in Namespace: ClusterChanges(ns) \/ CooldownPasses(ns)

Spec == Init /\ [][Next]_vars

\* The ticker keeps ticking, a sweep runs on, and time passes.
FairSpec == /\ Spec
            /\ WF_vars(Sweep)
            /\ \A ns \in Namespace: WF_vars(CooldownPasses(ns))

(***************************************************************************)
(* Properties                                                              *)
(***************************************************************************)

\* A step that posts the resolution of ns.
Resolves(ns) == word'[ns] = "resolved" /\ ns \in toClose \ toClose'

\* The channel and the loop agree on the open incidents: whoever failed, an
\* open one was announced unless the announcement itself was lost, and an
\* alert is never repeated, nor left without its resolution, while the hub
\* remembers it (spec 009: one alert per incident, a resolve on recovery).
ChannelAgrees == \A ns \in Namespace:
  /\ ns \in open => word[ns] \in {"alert", "lost"}
  /\ word[ns] = "alert" => ns \in open

\* A proposal the loop puts up for approval is named by an alert, but for one
\* per failure: what nobody was told about is not left pending otherwise.
ProposalsAreAnnounced ==
  orphans <= faults + (IF pc = "alerting" /\ named THEN 1 ELSE 0)

\* An incident is only resolved wrongly by a fetch that failed: a signal that
\* was bad for the whole of the sweep was missed by it.
ResolutionsAreSeen == [][
  \A ns \in Namespace: Resolves(ns) =>
    /\ ns \in lasting.pods => ns \in missed
    /\ ns \in lasting.certs \ Fleet => Certs \in missed]_vars

\* What makes the three inductive: a signal that stays bad is found, missed or
\* still to be read; what is to be closed was not found, and is open; what is to
\* be opened is not; and an alert that names a proposal has it in the store.
SweepInv ==
  /\ failing \subseteq Namespace /\ expiring \subseteq Namespace
  /\ unread \subseteq Leaf /\ anomalous \subseteq Namespace
  /\ open \subseteq Namespace
  /\ word \in [Namespace -> Word]
  /\ orphans \in Nat /\ faults \in Nat
  /\ lasting.pods \subseteq failing /\ lasting.certs \subseteq expiring
  /\ pc # "idle" =>
       /\ lasting.pods \subseteq anomalous \cup unread \cup missed
       /\ Certs \in unread \cup missed \/ lasting.certs \ Fleet \subseteq anomalous
  /\ pc # "gathering" => unread = {}
  /\ toClose \subseteq open \ anomalous
  /\ toOpen \subseteq Namespace \ open
  /\ pc \in {"idle", "gathering"} => toClose = {} /\ toOpen = {}
  /\ pc \in {"proposing", "alerting"} => toClose = {}
  /\ named => pc = "alerting" /\ orphans > 0
  /\ ChannelAgrees
  /\ ProposalsAreAnnounced

\* When the clusters stay as they are and failures stop, the open incidents are
\* exactly the anomalous namespaces: neither the cap, nor cooldowns, nor what
\* failures and restarts left behind keeps one from being opened or closed.
IncidentsSettle == <>[](open = failing \cup (expiring \ Fleet))
=============================================================================
