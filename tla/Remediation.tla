---------------------------- MODULE Remediation ----------------------------
(***************************************************************************)
(* The approval gate for write actions: the remediation_proposals table,   *)
(* the approve/reject handlers that run concurrently against it (several   *)
(* clicks, webhook retries, several hub replicas), and the agent that      *)
(* patches the cluster on behalf of an approved proposal.                  *)
(*                                                                         *)
(* One Request is one POST to /admin/remediation/{id}/approve or /reject.  *)
(* Its handler is cut into steps at each database statement and each call  *)
(* to the agent: between two of them any other handler may run.  Time is   *)
(* only ever compared with ExpiresAt, so the clock is the set `late` of    *)
(* proposals whose deadline has passed.                                    *)
(***************************************************************************)
EXTENDS Naturals

CONSTANTS
  Proposal,  \* ids of remediation_proposals rows
  Request,   \* decision requests that clients may send, each served once
  Fault,     \* the kinds of failure this instance admits
  Exposed    \* the requests whose statements, client or replica may fail

(***************************************************************************)
(* "agent":      the HTTP call to the agent fails or times out (180s), or  *)
(*               the agent loses the answer to its own PATCH               *)
(* "db":         a statement fails, or commits and its reply is lost       *)
(* "disconnect": the client goes away, which cancels r.Context()           *)
(* "crash":      the replica serving a request stops                       *)
(***************************************************************************)
FaultKind == {"agent", "db", "disconnect", "crash"}

ASSUME FaultAssumption == Fault \subseteq FaultKind /\ Exposed \subseteq Request

VARIABLES
  status,        \* status[p]: the row's status column, "absent": no row
  useCase,       \* useCase[p]: which skill proposed it
  action,        \* action[p]: the proposed action
  late,          \* the proposals whose ExpiresAt is in the past
  asked,         \* asked[r]: what request r asks, and whether its token is good
  pc,            \* pc[r]: the next step of r's handler
  outcome,       \* outcome[r]: the status executeRemediation will record
  answer,        \* answer[r]: the HTTP answer r's client was sent
  disconnected,  \* the requests whose context is cancelled
  call,          \* call[r]: the agent's progress on r's execute call
  writes         \* writes[p]: how often p's action was applied to the cluster

store    == <<status, useCase, action>>
hub      == <<pc, outcome, answer>>
agent    == <<call, writes>>
vars     == <<store, late, asked, hub, disconnected, agent>>

UseCase == {"incident_responder", "deployment_guardian"}

\* restart stands for the three actions RemediationExecutorSkill dispatches;
\* human_escalation for those it refuses.
ProposedAction == {"restart_deployment", "human_escalation"}

Ask == [proposal: Proposal, decision: {"approved", "rejected"},
        authorized: BOOLEAN]

Status == {"absent", "pending", "approved", "rejected", "expired",
           "executed", "failed"}

Step == {"new", "read", "expiring", "deciding", "approved", "waiting",
         "verifying", "completing", "rereading", "done", "dead"}

\* A 200 answer carries a status; the others are named by their HTTP code.
Answer == Status \cup {"none", "401", "404", "409", "410", "500"}

CallState == {"none", "sent", "written", "ok", "error"}

TypeOK ==
  /\ status \in [Proposal -> Status]
  /\ useCase \in [Proposal -> UseCase]
  /\ action \in [Proposal -> ProposedAction]
  /\ late \subseteq Proposal
  /\ asked \in [Request -> Ask]
  /\ pc \in [Request -> Step]
  /\ outcome \in [Request -> {"none", "executed", "failed"}]
  /\ answer \in [Request -> Answer]
  /\ disconnected \subseteq Request
  /\ call \in [Request -> CallState]
  /\ writes \in [Proposal -> Nat]

Init ==
  /\ status = [p \in Proposal |-> "absent"]
  /\ useCase = [p \in Proposal |-> "incident_responder"]
  /\ action = [p \in Proposal |-> "human_escalation"]
  /\ late = {}
  /\ asked \in [Request -> Ask]
  /\ pc = [r \in Request |-> "new"]
  /\ outcome = [r \in Request |-> "none"]
  /\ answer = [r \in Request |-> "none"]
  /\ disconnected = {}
  /\ call = [r \in Request |-> "none"]
  /\ writes = [p \in Proposal |-> 0]

(***************************************************************************)
(* Helpers                                                                 *)
(***************************************************************************)

Target(r) == asked[r].proposal

Goto(r, step) == pc' = [pc EXCEPT ![r] = step]

Reply(r, a) == Goto(r, "done") /\ answer' = [answer EXCEPT ![r] = a]

SetStatus(p, s) == status' = [status EXCEPT ![p] = s]

May(r, kind) == r \in Exposed /\ kind \in Fault

\* A statement run with r's context may succeed, and may fail.
DbServes(r) == r \notin disconnected
DbFails(r)  == r \in disconnected \/ May(r, "db")

(***************************************************************************)
(* Proposals and time                                                      *)
(***************************************************************************)

\* createProposalFromResponse: whoever proposes (HandleIncidentRespond, the
\* guardian, the investigator), an agent call that writes nothing, then one
\* INSERT of a pending row.
CreateProposal(p, u, a) ==
  /\ status[p] = "absent"
  /\ SetStatus(p, "pending")
  /\ useCase' = [useCase EXCEPT ![p] = u]
  /\ action' = [action EXCEPT ![p] = a]
  /\ UNCHANGED <<late, asked, hub, disconnected, agent>>

\* The clock passes ExpiresAt.
DeadlinePasses(p) ==
  /\ status[p] # "absent"
  /\ p \notin late
  /\ late' = late \cup {p}
  /\ UNCHANGED <<store, asked, hub, disconnected, agent>>

(***************************************************************************)
(* decideRemediation                                                       *)
(***************************************************************************)

\* Variant: the bearer check is dropped.
ReadRow_NoAuth(r) ==
  /\ pc[r] = "new"
  /\ status[Target(r)] = "pending"
  /\ Goto(r, "read")
  /\ UNCHANGED <<store, late, asked, outcome, answer, disconnected, agent>>

\* The bearer check, then the first read of the row and the early returns on
\* it: any error of the read is a 404, any status but pending a 409.
ReadRow(r) ==
  /\ pc[r] = "new"
  /\ \/ /\ ~asked[r].authorized
        /\ Reply(r, "401")
     \/ /\ asked[r].authorized
        /\ DbServes(r)
        /\ status[Target(r)] = "pending"
        /\ Goto(r, "read")
        /\ UNCHANGED answer
     \/ /\ asked[r].authorized
        /\ DbServes(r)
        /\ status[Target(r)] \notin {"absent", "pending"}
        /\ Reply(r, "409")
     \/ /\ asked[r].authorized
        /\ DbFails(r) \/ status[Target(r)] = "absent"
        /\ Reply(r, "404")
  /\ UNCHANGED <<store, late, asked, outcome, disconnected, agent>>

\* time.Now().After(p.ExpiresAt), on the row as it was read.
CheckExpiry(r) ==
  /\ pc[r] = "read"
  /\ Goto(r, IF Target(r) \in late THEN "expiring" ELSE "deciding")
  /\ UNCHANGED <<store, late, asked, outcome, answer, disconnected, agent>>

\* Variant: the UPDATE to "expired" loses its WHERE status = 'pending'.
ExpireRow_NoGuard(r) ==
  /\ pc[r] = "expiring"
  /\ SetStatus(Target(r), "expired")
  /\ Reply(r, "410")
  /\ UNCHANGED <<useCase, action, late, asked, outcome, disconnected, agent>>

\* The guarded UPDATE to "expired".  Its result is ignored: the client is told
\* 410 whether a row changed, none did, or the statement failed.
ExpireRow(r) ==
  /\ pc[r] = "expiring"
  /\ \/ /\ DbServes(r)
        /\ status[Target(r)] = "pending"
        /\ SetStatus(Target(r), "expired")
     \/ /\ DbFails(r) \/ status[Target(r)] # "pending"
        /\ UNCHANGED status
  /\ Reply(r, "410")
  /\ UNCHANGED <<useCase, action, late, asked, outcome, disconnected, agent>>

\* Variant: the deciding UPDATE loses its WHERE status = 'pending'.
DecideRow_NoGuard(r) ==
  /\ pc[r] = "deciding"
  /\ SetStatus(Target(r), asked[r].decision)
  /\ \/ asked[r].decision = "rejected" /\ Reply(r, "rejected")
     \/ asked[r].decision = "approved" /\ Goto(r, "approved")
        /\ UNCHANGED answer
  /\ UNCHANGED <<useCase, action, late, asked, outcome, disconnected, agent>>

\* Variant: the UPDATE is guarded but its row count is not looked at.
DecideRow_IgnoreOk(r) ==
  /\ pc[r] = "deciding"
  /\ status' = [status EXCEPT ![Target(r)] =
                  IF @ = "pending" THEN asked[r].decision ELSE @]
  /\ \/ asked[r].decision = "rejected" /\ Reply(r, "rejected")
     \/ asked[r].decision = "approved" /\ Goto(r, "approved")
        /\ UNCHANGED answer
  /\ UNCHANGED <<useCase, action, late, asked, outcome, disconnected, agent>>

\* The guarded UPDATE that decides.  WHERE status = 'pending' makes it the
\* linearization point: a request that changes no row lost the race.
DecideRow(r) ==
  /\ pc[r] = "deciding"
  /\ DbServes(r)
  /\ \/ /\ status[Target(r)] = "pending"
        /\ SetStatus(Target(r), asked[r].decision)
        /\ \/ asked[r].decision = "rejected" /\ Reply(r, "rejected")
           \/ asked[r].decision = "approved" /\ Goto(r, "approved")
              /\ UNCHANGED answer
     \/ /\ status[Target(r)] # "pending"
        /\ Reply(r, "409")
        /\ UNCHANGED status
  /\ UNCHANGED <<useCase, action, late, asked, outcome, disconnected, agent>>

\* DecideRemediationProposal returns an error: the UPDATE did not run, or it
\* committed and the reply was lost.  Either way the answer is 500 and
\* nothing executes.
DecideFails(r) ==
  /\ pc[r] = "deciding"
  /\ DbFails(r)
  /\ \/ UNCHANGED status
     \/ /\ DbServes(r)
        /\ status[Target(r)] = "pending"
        /\ SetStatus(Target(r), asked[r].decision)
  /\ Reply(r, "500")
  /\ UNCHANGED <<useCase, action, late, asked, outcome, disconnected, agent>>

(***************************************************************************)
(* executeRemediation                                                      *)
(***************************************************************************)

\* Reason("execute_remediation"): sent without the request's context.
CallAgent(r) ==
  /\ pc[r] = "approved"
  /\ Goto(r, "waiting")
  /\ call' = [call EXCEPT ![r] = "sent"]
  /\ UNCHANGED <<store, late, asked, outcome, answer, disconnected, writes>>

\* Variant: an agent call without a timeout.
AgentCallFails_Never(r) == FALSE

\* Variant: the error of the call is not looked at.
AgentCallFails_Executed(r) ==
  /\ pc[r] = "waiting"
  /\ "agent" \in Fault
  /\ outcome' = [outcome EXCEPT ![r] = "executed"]
  /\ Goto(r, "completing")
  /\ UNCHANGED <<store, late, asked, answer, disconnected, agent>>

\* A transport error or the client's 180s timeout is recorded as failed.
AgentCallFails(r) ==
  /\ pc[r] = "waiting"
  /\ "agent" \in Fault
  /\ outcome' = [outcome EXCEPT ![r] = "failed"]
  /\ Goto(r, "completing")
  /\ UNCHANGED <<store, late, asked, answer, disconnected, agent>>

\* Variant: the early return on resp.Status == "error" records nothing.
AgentAnswers_NoRecord(r) ==
  /\ pc[r] = "waiting"
  /\ \/ call[r] = "error" /\ Goto(r, "rereading") /\ UNCHANGED outcome
     \/ /\ call[r] = "ok"
        /\ outcome' = [outcome EXCEPT ![r] = "executed"]
        /\ Goto(r, "completing")
  /\ UNCHANGED <<store, late, asked, answer, disconnected, agent>>

\* Variant: the agent's own status is recorded as the outcome.
AgentAnswers_RawStatus(r) ==
  /\ pc[r] = "waiting"
  /\ call[r] \in {"ok", "error"}
  /\ outcome' = [outcome EXCEPT ![r] = call[r]]
  /\ Goto(r, "completing")
  /\ UNCHANGED <<store, late, asked, answer, disconnected, agent>>

\* resp.Status == "error" is recorded as failed; otherwise the outcome is
\* executed, after a verifying diagnose for incident_responder proposals.
AgentAnswers(r) ==
  /\ pc[r] = "waiting"
  /\ \/ /\ call[r] = "error"
        /\ outcome' = [outcome EXCEPT ![r] = "failed"]
        /\ Goto(r, "completing")
     \/ /\ call[r] = "ok"
        /\ outcome' = [outcome EXCEPT ![r] = "executed"]
        /\ Goto(r, IF useCase[Target(r)] = "incident_responder"
                     THEN "verifying" ELSE "completing")
  /\ UNCHANGED <<store, late, asked, answer, disconnected, agent>>

\* fetchNamespaceData and one diagnose call.  Its verdict, or its error, goes
\* into the result and decides nothing: no second action follows.
VerifyOutcome(r) ==
  /\ pc[r] = "verifying"
  /\ Goto(r, "completing")
  /\ UNCHANGED <<store, late, asked, outcome, answer, disconnected, agent>>

\* CompleteRemediationProposal: WHERE id only, and its error is dropped.
CompleteRow(r) ==
  /\ pc[r] = "completing"
  /\ \/ DbServes(r) /\ SetStatus(Target(r), outcome[r])
     \/ DbFails(r) /\ UNCHANGED status
  /\ Goto(r, "rereading")
  /\ UNCHANGED <<useCase, action, late, asked, outcome, answer, disconnected,
                 agent>>

\* The row is read again for the answer; if that fails the answer is
\* {"status": "executed"} whatever happened.
AnswerFromRow(r) ==
  /\ pc[r] = "rereading"
  /\ \/ DbServes(r) /\ Reply(r, status[Target(r)])
     \/ DbFails(r) /\ Reply(r, "executed")
  /\ UNCHANGED <<store, late, asked, outcome, disconnected, agent>>

Handler(r) ==
  \/ ReadRow(r) \/ CheckExpiry(r) \/ ExpireRow(r) \/ DecideRow(r)
  \/ DecideFails(r) \/ CallAgent(r) \/ AgentCallFails(r) \/ AgentAnswers(r)
  \/ VerifyOutcome(r) \/ CompleteRow(r) \/ AnswerFromRow(r)

(***************************************************************************)
(* The agent: RemediationExecutorSkill and action_executor.  It serves r's *)
(* call to its end, whatever has become of the hub's side of it.           *)
(***************************************************************************)

AgentUnchanged == UNCHANGED <<store, late, asked, hub, disconnected>>

\* An unsupported action, a missing parameter, no credentials, too little
\* change history, or a PATCH the API server rejects.
AgentRefuses(r) ==
  /\ call[r] = "sent"
  /\ call' = [call EXCEPT ![r] = "error"]
  /\ UNCHANGED writes
  /\ AgentUnchanged

\* The API server applies the PATCH.
AgentWrites(r) ==
  /\ call[r] = "sent"
  /\ action[Target(r)] = "restart_deployment"
  /\ call' = [call EXCEPT ![r] = "written"]
  /\ writes' = [writes EXCEPT ![Target(r)] = @ + 1]
  /\ AgentUnchanged

\* An httpx error after the PATCH was applied reads as a failed action.
AgentReplies(r) ==
  /\ call[r] = "written"
  /\ \/ call' = [call EXCEPT ![r] = "ok"]
     \/ "agent" \in Fault /\ call' = [call EXCEPT ![r] = "error"]
  /\ UNCHANGED writes
  /\ AgentUnchanged

Agent(r) == AgentRefuses(r) \/ AgentWrites(r) \/ AgentReplies(r)

(***************************************************************************)
(* Faults                                                                  *)
(***************************************************************************)

InFlight(r) == pc[r] \notin {"new", "done", "dead"}

Disconnect(r) ==
  /\ May(r, "disconnect")
  /\ InFlight(r)
  /\ r \notin disconnected
  /\ disconnected' = disconnected \cup {r}
  /\ UNCHANGED <<store, late, asked, hub, agent>>

\* The replica stops: nothing resumes or compensates what r had begun.
Crash(r) ==
  /\ May(r, "crash")
  /\ InFlight(r)
  /\ Goto(r, "dead")
  /\ UNCHANGED <<store, late, asked, outcome, answer, disconnected, agent>>

Next ==
  \/ \E p \in Proposal:
       \/ \E u \in UseCase, a \in ProposedAction: CreateProposal(p, u, a)
       \/ DeadlinePasses(p)
  \/ \E r \in Request: Handler(r) \/ Agent(r) \/ Disconnect(r) \/ Crash(r)

Spec == Init /\ [][Next]_vars

(***************************************************************************)
(* Fairness: a goroutine that can run does (Go's scheduler), and the HTTP  *)
(* client's timeout means it can always leave "waiting".  Nothing is       *)
(* assumed of the agent, the clients or the clock.                         *)
(***************************************************************************)
FairSpec == Spec /\ \A r \in Request: WF_vars(Handler(r))

(***************************************************************************)
(* Properties                                                              *)
(***************************************************************************)

\* r's handler is between the UPDATE it won and the record of the outcome.
Holding(r) == pc[r] \in {"approved", "waiting", "verifying", "completing"}

\* r's call is at the agent, or was.
Called(r) == call[r] # "none"

Executing(r) == Holding(r) \/ pc[r] = "rereading" \/ Called(r)

\* An approved action is applied to the cluster at most once, however many
\* clicks, retries and replicas decide it at the same time (ADR 0020,
\* point 4: a duplicate click or webhook retry cannot double-execute).
AtMostOneWrite == \A p \in Proposal: writes[p] <= 1

\* A proposal that was rejected, expired or never decided has no call at the
\* agent and never touched the cluster: no late approval, completion or
\* retry overtakes the refusal (ADR 0020, points 1 and 2).
RefusedNeverActs ==
  \A p \in Proposal:
    status[p] \in {"absent", "pending", "rejected", "expired"} =>
      /\ writes[p] = 0
      /\ \A r \in Request: Target(r) = p => ~Called(r)

\* Some client with a good token asked for decision d on p.
Asked(p, d) ==
  \E r \in Request: Target(r) = p /\ asked[r].decision = d
                      /\ asked[r].authorized = TRUE

\* Nothing is decided without an authorized request for that very decision:
\* who approved what is never mixed up between concurrent requests.
DecisionWasAsked ==
  \A p \in Proposal:
    /\ status[p] \in {"approved", "executed", "failed"} => Asked(p, "approved")
    /\ status[p] = "rejected" => Asked(p, "rejected")

\* "executed" is recorded only of an action the API server applied (the
\* converse fails: a call that timed out is recorded as failed and may yet
\* be applied).
ExecutedWasWritten ==
  \A p \in Proposal: status[p] = "executed" => writes[p] = 1

\* What a client was told stays true: the winner of the race is told the
\* decision that is on the row, a loser is told 409 only of a proposal that
\* is decided, and an outcome in the answer is the recorded one (unless the
\* row could not be read back).
AnswersHold ==
  \A r \in Request:
    LET s == status[Target(r)] IN
    /\ answer[r] \in {"rejected", "failed"} => s = answer[r]
    /\ answer[r] = "409" => s \notin {"absent", "pending"}
    /\ answer[r] = "executed" /\ ~DbFails(r) => s = "executed"

(***************************************************************************)
(* The inductive invariant behind them: whoever is executing is the one    *)
(* winner of the guarded UPDATE, and its row waits for it as approved.     *)
(***************************************************************************)

\* At most one request ever executes a proposal, on an authorized approval,
\* and no other statement moves the row until its outcome is recorded.
SingleWinner ==
  /\ \A r \in Request: Executing(r) =>
       /\ asked[r].decision = "approved"
       /\ asked[r].authorized = TRUE
       /\ status[Target(r)] \in {"approved", "executed", "failed"}
  /\ \A r \in Request: Holding(r) => status[Target(r)] = "approved"
  /\ \A r1, r2 \in Request:
       Executing(r1) /\ Executing(r2) /\ Target(r1) = Target(r2) => r1 = r2

\* How far the winner's handler, its call and the cluster are agrees.
StepsAgree ==
  /\ \A r \in Request:
       /\ pc[r] \in {"read", "expiring", "deciding"} =>
            asked[r].authorized = TRUE /\ status[Target(r)] # "absent"
       /\ Called(r) => pc[r] \in {"waiting", "verifying", "completing",
                                  "rereading", "done", "dead"}
       /\ call[r] = "sent" \/ pc[r] = "approved" => writes[Target(r)] = 0
       /\ call[r] \in {"written", "ok"} => writes[Target(r)] = 1
       /\ outcome[r] = "executed" => call[r] = "ok"
       /\ pc[r] \in {"verifying", "completing"} => outcome[r] # "none"
  /\ \A p \in Proposal: writes[p] > 0 =>
       status[p] \in {"approved", "executed", "failed"}

GateInv ==
  /\ TypeOK
  /\ SingleWinner
  /\ StepsAgree
  /\ AtMostOneWrite
  /\ DecisionWasAsked
  /\ ExecutedWasWritten

\* The gate implements the lifecycle a proposal is promised: rows only move
\* forward, decided rows are never decided again, and an action falls only
\* between its approval and its record (or after a record of failure).
Lifecycle == INSTANCE ProposalLifecycle WITH status <- status, writes <- writes

LifecycleSpec == Lifecycle!Spec

\* The outcome of every execution is recorded before its client is answered
\* (ADR 0020, point 6: "that result is recorded and surfaced").
OutcomeRecorded ==
  \A r \in Request:
    outcome[r] # "none" /\ pc[r] = "done" =>
      status[Target(r)] \in {"executed", "failed"}

\* Every request a replica takes up is answered, whatever the agent and the
\* client do, unless that replica stops.
RequestsAnswered ==
  \A r \in Request: InFlight(r) ~> pc[r] \in {"done", "dead"}

\* Whoever may approve p keeps its client, its replica and its statements.
ApprovedSafely(p) ==
  /\ status[p] = "approved"
  /\ \A r \in Exposed: ~(Target(r) = p /\ asked[r].decision = "approved")

\* Then p does not stay approved: its outcome is recorded in the end, whatever
\* becomes of the agent and of the requests that lost the race.
ApprovalSettles ==
  \A p \in Proposal: ApprovedSafely(p) ~> status[p] \in {"executed", "failed"}
=============================================================================
