--------------------------- MODULE DeployHistory ---------------------------
(***************************************************************************)
(* From a rollout to its rollback: discovery's watch of deployments turns  *)
(* rollouts into rows of k8fy.events, the hub's deployment guardian turns  *)
(* settled rows into proposals, and an approved rollback reads the rows    *)
(* back to find the images it restores.                                    *)
(*                                                                         *)
(* The approval itself is module Remediation's; here a proposal may be     *)
(* approved, once.  A rollout is named by its place in rollouts[d]: rows   *)
(* say which rollout they report, and images are those of a rollout.       *)
(***************************************************************************)
EXTENDS Naturals, Sequences, FiniteSetsExt

CONSTANTS
  Namespace, Name,  \* of deployments
  Guardian,         \* hub processes whose guardian sweeps
  Redact,           \* REDACTION_ENABLED
  MaxRollouts,      \* bound on what is deployed; rollbacks roll out beyond it
  MaxFaults,        \* bound on dropped watches and restarts
  MaxProposals,     \* bound on the rollbacks proposed
  Fault             \* the kinds of failure and event this instance admits

(***************************************************************************)
(* "watch":  the watch stream drops      "restart": discovery restarts     *)
(* "push":   a push to the hub fails     "hub": the guardian's calls fail  *)
(* "delete": deployments are deleted, and may be created again             *)
(***************************************************************************)
ASSUME DeployAssumption ==
  /\ Redact \in BOOLEAN
  /\ MaxRollouts \in Nat /\ MaxFaults \in Nat /\ MaxProposals \in Nat
  /\ Fault \subseteq {"watch", "restart", "push", "hub", "delete"}

Deployment == Namespace \X Name
NameOf(d) == d[2]

VARIABLES
  rollouts,  \* rollouts[d]: the images of each rollout of d, oldest first
  born,      \* born[d]: how many rollouts d's name had seen when d was created
  present,   \* the deployments in the cluster
  faults,    \* faults so far
  restarted, \* whether discovery was ever restarted
  lost,      \* lost[d]: the latest rollout of d whose push failed
  watching,  \* whether the stream of /apis/apps/v1/deployments is open
  queue,     \* queue[d]: d's frames in the stream
  seen,      \* deploy_revisions, 0 for a missing key
  pushing,   \* the row on its way to the hub, if any
  history,   \* the deploy rows of k8fy.events, oldest first
  settled,   \* how many of them are SettleAfter old
  batch,     \* batch[g]: rows that g's sweep has still to check
  checking,  \* checking[g]: the row whose deploy g is checking, or 0
  proposals  \* the rollback proposals, oldest first

cluster   == <<rollouts, born, present>>
discovery == <<watching, queue, seen, pushing>>
ghosts    == <<restarted, lost>>
guardian  == <<batch, checking>>
vars      == <<cluster, faults, ghosts, discovery, history, settled, guardian, proposals>>

Revision(d) == Len(rollouts[d]) - born[d]

\* What the watch says of d: which rollout it is at, and under which revision
\* number; revision 0 stands for DELETED.
Frame == [rollout: Nat, revision: Nat]
Current(d) == [rollout |-> Len(rollouts[d]), revision |-> Revision(d)]
Deleted(d) == [rollout |-> Len(rollouts[d]), revision |-> 0]

Row == [dep: Deployment, rollout: Nat]

\* target: the row whose images are restored, 0 before it is known.
Proposal == [event: Nat, target: Nat,
             state: {"pending", "approved", "patching", "done", "refused",
                     "imageless"}]

TypeOK ==
  /\ rollouts \in [Deployment -> Seq(Row)]
  /\ born \in [Deployment -> Nat]
  /\ present \subseteq Deployment
  /\ faults \in 0..MaxFaults
  /\ restarted \in BOOLEAN /\ lost \in [Deployment -> Nat]
  /\ watching \in BOOLEAN
  /\ queue \in [Deployment -> Seq(Frame)]
  /\ seen \in [Deployment -> Nat]
  /\ pushing \in Seq(Row) /\ Len(pushing) <= 1
  /\ history \in Seq(Row)
  /\ settled \in 0..Len(history)
  /\ batch \in [Guardian -> SUBSET (1..Len(history))]
  /\ checking \in [Guardian -> 0..Len(history)]
  /\ proposals \in Seq(Proposal)
  /\ \A p \in DOMAIN proposals:
       /\ proposals[p].event \in 1..Len(history)
       /\ proposals[p].state \in {"patching", "done"}
            => proposals[p].target \in 1..Len(history)

Init ==
  /\ rollouts = [d \in Deployment |-> <<>>]
  /\ born = [d \in Deployment |-> 0]
  /\ present = {}
  /\ faults = 0 /\ restarted = FALSE
  /\ lost = [d \in Deployment |-> 0]
  /\ watching = FALSE
  /\ queue = [d \in Deployment |-> <<>>]
  /\ seen = [d \in Deployment |-> 0]
  /\ pushing = <<>>
  /\ history = <<>>
  /\ settled = 0
  /\ batch = [g \in Guardian |-> {}]
  /\ checking = [g \in Guardian |-> 0]
  /\ proposals = <<>>

(***************************************************************************)
(* The cluster                                                             *)
(***************************************************************************)

\* d's pod template changes: the deployment gets its next revision, and a
\* stream that is open a frame.
RollOut(d, images) ==
  /\ rollouts' = [rollouts EXCEPT ![d] = Append(@, images)]
  /\ queue' = IF watching THEN [queue EXCEPT ![d] = Append(@, Current(d)')]
                          ELSE queue

\* Somebody deploys new images.
Deploy(d) ==
  /\ Len(rollouts[d]) < MaxRollouts
  /\ present' = present \cup {d}
  /\ born' = IF d \in present THEN born
             ELSE [born EXCEPT ![d] = Len(rollouts[d])]
  /\ RollOut(d, [dep |-> d, rollout |-> Len(rollouts[d]) + 1])
  /\ UNCHANGED <<faults, ghosts, watching, seen, pushing, history, settled, guardian,
                 proposals>>

\* MaxRollouts bounds the deletions too: only what may be deployed again is
\* deleted.
Delete(d) ==
  /\ "delete" \in Fault
  /\ d \in present
  /\ Len(rollouts[d]) < MaxRollouts
  /\ present' = present \ {d}
  /\ queue' = IF watching THEN [queue EXCEPT ![d] = Append(@, Deleted(d))]
                          ELSE queue
  /\ UNCHANGED <<rollouts, born, faults, ghosts, watching, seen, pushing, history,
                 settled, guardian, proposals>>

(***************************************************************************)
(* Discovery: _watch_loop, watch_resource and the deployment handler       *)
(***************************************************************************)

\* Variant: the revisions are those of one connection.
Connect_ForgetsRevisions ==
  /\ ~watching /\ pushing = <<>>
  /\ watching' = TRUE
  /\ queue' = [d \in Deployment |-> IF d \in present THEN <<Current(d)>> ELSE <<>>]
  /\ seen' = [d \in Deployment |-> 0]
  /\ UNCHANGED <<cluster, faults, ghosts, pushing, history, settled, guardian, proposals>>

\* Every connection starts with an ADDED frame for all there is.
Connect ==
  /\ ~watching /\ pushing = <<>>
  /\ watching' = TRUE
  /\ queue' = [d \in Deployment |-> IF d \in present THEN <<Current(d)>> ELSE <<>>]
  /\ UNCHANGED <<cluster, faults, ghosts, seen, pushing, history, settled, guardian,
                 proposals>>

\* The handler runs to its end before the next frame is read.  It notes the
\* revision before it pushes the event.
HandleFrame(d) ==
  /\ pushing = <<>>
  /\ queue[d] # <<>>
  /\ queue' = [queue EXCEPT ![d] = Tail(@)]
  /\ LET f == Head(queue[d]) IN
       /\ seen' = [seen EXCEPT ![d] = f.revision]
       /\ pushing' = IF f.revision \in {0, seen[d]} THEN <<>>
                     ELSE <<[dep |-> d, rollout |-> f.rollout]>>
  /\ UNCHANGED <<cluster, faults, ghosts, watching, history, settled, guardian, proposals>>

\* The hub ingests the event: a row of its own.
PushLands ==
  /\ pushing # <<>>
  /\ history' = history \o pushing
  /\ pushing' = <<>>
  /\ UNCHANGED <<cluster, faults, ghosts, watching, queue, seen, settled, guardian,
                 proposals>>

\* push_event is best-effort: an error, or a timeout that may follow the
\* INSERT, is logged and the event never sent again.
PushFails ==
  /\ "push" \in Fault
  /\ pushing # <<>>
  /\ pushing' = <<>>
  /\ lost' = [lost EXCEPT ![pushing[1].dep] = pushing[1].rollout]
  /\ UNCHANGED <<cluster, faults, restarted, watching, queue, seen, history,
                 settled, guardian, proposals>>

NoFrames == queue' = [d \in Deployment |-> <<>>]

Faulty(kind) == kind \in Fault /\ faults < MaxFaults /\ faults' = faults + 1

WatchDrops ==
  /\ Faulty("watch")
  /\ watching
  /\ watching' = FALSE
  /\ NoFrames
  /\ UNCHANGED <<cluster, ghosts, seen, pushing, history, settled, guardian,
                 proposals>>

\* Variant: the revisions survive a restart.
Restart_KeepsRevisions ==
  /\ Faulty("restart")
  /\ watching' = FALSE
  /\ NoFrames
  /\ pushing' = <<>>
  /\ restarted' = TRUE
  /\ UNCHANGED <<cluster, lost, seen, history, settled, guardian, proposals>>

\* The revisions are only in memory, and so is an event not yet pushed.
Restart ==
  /\ Faulty("restart")
  /\ watching' = FALSE
  /\ NoFrames
  /\ seen' = [d \in Deployment |-> 0]
  /\ pushing' = <<>>
  /\ restarted' = TRUE
  /\ UNCHANGED <<cluster, lost, history, settled, guardian, proposals>>

(***************************************************************************)
(* The guardian: sweep and checkDeploy                                     *)
(***************************************************************************)

\* SettleAfter passes for the next row.
Settle ==
  /\ settled < Len(history)
  /\ settled' = settled + 1
  /\ UNCHANGED <<cluster, faults, ghosts, discovery, history, guardian, proposals>>

\* The settled rows of the lookback window, a suffix of the history.
Sweep(g) ==
  /\ batch[g] = {} /\ checking[g] = 0
  /\ \E oldest \in 1..settled: batch' = [batch EXCEPT ![g] = oldest..settled]
  /\ UNCHANGED <<cluster, faults, ghosts, discovery, history, settled, checking, proposals>>

Proposed(i) == \E p \in DOMAIN proposals: proposals[p].event = i

\* ProposalExistsForEvent, newest row first; an error skips the row.
CheckRow(g) ==
  /\ batch[g] # {} /\ checking[g] = 0
  /\ LET i == Max(batch[g]) IN
       /\ batch' = [batch EXCEPT ![g] = @ \ {i}]
       /\ \/ ~Proposed(i) /\ checking' = [checking EXCEPT ![g] = i]
          \/ (Proposed(i) \/ "hub" \in Fault) /\ UNCHANGED checking
  /\ UNCHANGED <<cluster, faults, ghosts, discovery, history, settled, proposals>>

\* Variant: there is no index on the row of a proposal.
CreateRemediationProposal_NoIndex(i) ==
  /\ Len(proposals) < MaxProposals
  /\ proposals' = Append(proposals, [event |-> i, target |-> 0, state |-> "pending"])

\* The INSERT.  The unique index on source_event_id refuses a second proposal
\* for a row, whatever its hub has read before.
CreateRemediationProposal(i) ==
  /\ ~Proposed(i)
  /\ Len(proposals) < MaxProposals
  /\ proposals' = Append(proposals, [event |-> i, target |-> 0, state |-> "pending"])

\* A long call of the skill later the deploy is found degraded and a rollback
\* proposed, or it is not, or the call fails, or the INSERT: then the row is
\* looked at again next sweep, unless it has a proposal by then.
CheckDeploy(g) ==
  /\ checking[g] # 0
  /\ CreateRemediationProposal(checking[g]) \/ UNCHANGED proposals
  /\ checking' = [checking EXCEPT ![g] = 0]
  /\ UNCHANGED <<cluster, faults, ghosts, discovery, history, settled, batch>>

(***************************************************************************)
(* rollback_deployment                                                     *)
(***************************************************************************)

SetProposal(p, state, target) ==
  proposals' = [proposals EXCEPT ![p].state = state, ![p].target = target]

Approve(p) ==
  /\ proposals[p].state = "pending"
  /\ SetProposal(p, "approved", 0)
  /\ UNCHANGED <<cluster, faults, ghosts, discovery, history, settled, guardian>>

\* The rows get_change_history finds for p: those of the deployment's name,
\* in whatever namespace.
RowsFor(p) ==
  {i \in DOMAIN history:
     NameOf(history[i].dep) = NameOf(history[proposals[p].event].dep)}

\* Variant: the rows are not counted.
ReadHistory_NoMinimum(p) ==
  /\ proposals[p].state = "approved"
  /\ IF Redact THEN SetProposal(p, "imageless", 0)
     ELSE LET older == RowsFor(p) \ {Max(RowsFor(p))} IN
          SetProposal(p, "patching", IF older = {} THEN 0 ELSE Max(older))
  /\ UNCHANGED <<cluster, faults, ghosts, discovery, history, settled, guardian>>

\* The last two rows, of which the older is what to roll back to.  Redaction
\* leaves no images in their payload.
ReadHistory(p) ==
  /\ proposals[p].state = "approved"
  /\ IF Cardinality(RowsFor(p)) < 2 THEN SetProposal(p, "refused", 0)
     ELSE IF Redact THEN SetProposal(p, "imageless", 0)
     ELSE SetProposal(p, "patching", Max(RowsFor(p) \ {Max(RowsFor(p))}))
  /\ UNCHANGED <<cluster, faults, ghosts, discovery, history, settled, guardian>>

\* The images of that row are patched in; the API server starts a rollout
\* unless the template has them already.
PatchImages(p) ==
  LET d      == history[proposals[p].event].dep
      row    == history[proposals[p].target]
      images == rollouts[row.dep][row.rollout]
  IN
  /\ proposals[p].state = "patching"
  /\ d \in present
  /\ SetProposal(p, "done", proposals[p].target)
  /\ UNCHANGED <<born, present, faults, ghosts, watching, seen, pushing, history,
                 settled, guardian>>
  /\ IF images = rollouts[d][Len(rollouts[d])] THEN UNCHANGED <<rollouts, queue>>
                                               ELSE RollOut(d, images)

\* The deployment is gone, has another number of containers, or an HTTP
\* request fails.
PatchFails(p) ==
  /\ proposals[p].state = "patching"
  /\ SetProposal(p, "refused", 0)
  /\ UNCHANGED <<cluster, faults, ghosts, discovery, history, settled, guardian>>

Discovery == \/ Connect \/ PushLands \/ PushFails \/ WatchDrops \/ Restart
             \/ \E d \in Deployment: HandleFrame(d)

Sweeping(g) == Sweep(g) \/ CheckRow(g) \/ CheckDeploy(g)

Rollback(p) == Approve(p) \/ ReadHistory(p) \/ PatchImages(p) \/ PatchFails(p)

Next == \/ \E d \in Deployment: Deploy(d) \/ Delete(d)
        \/ Discovery
        \/ Settle
        \/ \E g \in Guardian: Sweeping(g)
        \/ \E p \in DOMAIN proposals: Rollback(p)

Spec == Init /\ [][Next]_vars

(***************************************************************************)
(* Fairness: discovery reconnects after its backoff, reads the frames it   *)
(* is sent, and its pushes end.                                            *)
(***************************************************************************)
FairSpec == /\ Spec
            /\ WF_vars(Connect) /\ WF_vars(PushLands)
            /\ \A d \in Deployment: WF_vars(HandleFrame(d))

(***************************************************************************)
(* Properties                                                              *)
(***************************************************************************)

\* The rows of a deployment are rollouts it went through, in their order,
\* whatever drops, restarts, reconnects and deletions fall between them; and
\* each once, as long as discovery is not restarted (watch.py: only genuine
\* rollouts emit a change event).
HistoryIsRollouts ==
  /\ \A i \in DOMAIN history: history[i].rollout <= Len(rollouts[history[i].dep])
  /\ \A i, j \in DOMAIN history:
       i < j /\ history[i].dep = history[j].dep
         => \/ history[i].rollout < history[j].rollout
            \/ restarted /\ history[i].rollout = history[j].rollout

\* A rollout is proposed for at most once, whichever hubs sweep and however often
\* the watch drops: it has one row (watch.py: only genuine rollouts emit a change
\* event), and of the hubs that found no proposal for the row one stores its own
\* (source_event_id "dedupes deploy-guardian checks").  A discovery that was
\* restarted reports the rollout again, in a row of its own.
OneProposalPerRollout ==
  \A p, q \in DOMAIN proposals:
    history[proposals[p].event] = history[proposals[q].event] => p = q \/ restarted

\* The history catches up again and again with a deployment that nobody deletes:
\* its latest rollout is recorded, unless its push failed.  Neither a dropped
\* watch nor a restart between the note of a revision and its push loses it.
RolloutRecorded ==
  \A d \in Deployment: []<>(
    LET latest == Len(rollouts[d]) IN
    \/ \E i \in DOMAIN history: history[i] = [dep |-> d, rollout |-> latest]
    \/ latest = 0 \/ d \notin present \/ born[d] > 0
    \/ lost[d] = latest)

\* A rollback restores images of the deployment it was approved for
\* (rollback_deployment: the previous deploy's recorded images).
RollbackRestoresOwn ==
  \A p \in DOMAIN proposals:
    proposals[p].state = "done" =>
      history[proposals[p].target].dep = history[proposals[p].event].dep

\* The deploy rows a rollback reads have the images they were recorded with
\* (ADR 0020: it replays the previous deploy event's recorded images).
RowsHaveImages == \A p \in DOMAIN proposals: proposals[p].state # "imageless"
=============================================================================
