------------------------- MODULE ProposalLifecycle -------------------------
(***************************************************************************)
(* What the approval gate promises of one row of remediation_proposals     *)
(* (ADR 0020), with no handlers, agents or faults in it: a proposal is     *)
(* decided once, only an approved one may act on its cluster, it acts at   *)
(* most once, and "executed" is recorded only of one that did act.         *)
(***************************************************************************)
EXTENDS Naturals

CONSTANT Proposal

VARIABLES
  status,  \* status[p]: the status column, "absent" before the row exists
  writes   \* writes[p]: how often p's action was applied to the cluster

lifecycleVars == <<status, writes>>

Status == {"absent", "pending", "approved", "rejected", "expired",
           "executed", "failed"}

Init ==
  /\ status = [p \in Proposal |-> "absent"]
  /\ writes = [p \in Proposal |-> 0]

Propose(p) ==
  /\ status[p] = "absent"
  /\ status' = [status EXCEPT ![p] = "pending"]
  /\ UNCHANGED writes

Decide(p) ==
  /\ status[p] = "pending"
  /\ \E s \in {"approved", "rejected", "expired"}:
       status' = [status EXCEPT ![p] = s]
  /\ UNCHANGED writes

\* The action may land after "failed" was recorded: the hub gave up waiting.
Act(p) ==
  /\ status[p] \in {"approved", "failed"}
  /\ writes[p] = 0
  /\ writes' = [writes EXCEPT ![p] = 1]
  /\ UNCHANGED status

Record(p) ==
  /\ status[p] = "approved"
  /\ \/ writes[p] = 1 /\ status' = [status EXCEPT ![p] = "executed"]
     \/ status' = [status EXCEPT ![p] = "failed"]
  /\ UNCHANGED writes

Next == \E p \in Proposal: Propose(p) \/ Decide(p) \/ Act(p) \/ Record(p)

Spec == Init /\ [][Next]_lifecycleVars
=============================================================================
