------------------------- MODULE RemediationProofs -------------------------
(***************************************************************************)
(* Theorems about Remediation, for every set of proposals and requests and *)
(* every mixture of faults.                                                *)
(***************************************************************************)
EXTENDS Remediation, TLAPS

\* The gate starts with no rows, no calls and no winner.
LEMMA GateInit == Init => GateInv
BY DEF Init, GateInv, TypeOK, SingleWinner, StepsAgree, AtMostOneWrite,
       DecisionWasAsked, ExecutedWasWritten, Status, UseCase, ProposedAction,
       Step, Answer, CallState, Executing, Holding, Called, Target

\* No step of a client, handler, agent or fault breaks the invariant.
LEMMA GateStep == GateInv /\ [Next]_vars => GateInv'
<1> SUFFICES ASSUME GateInv, [Next]_vars PROVE GateInv'
  OBVIOUS
<1> USE DEF GateInv, TypeOK, Ask, Target
<1>1. ASSUME NEW p \in Proposal, NEW u \in UseCase, NEW a \in ProposedAction,
             CreateProposal(p, u, a)
      PROVE  GateInv'
  <2> USE <1>1 DEF CreateProposal, SetStatus, hub, agent
  <2>1. TypeOK'
    BY DEF Status, Step, Answer, CallState
  <2>2. SingleWinner'
    BY DEF SingleWinner, StepsAgree, Executing, Holding, Called
  <2>3. StepsAgree'
    BY DEF SingleWinner, StepsAgree, Executing, Holding, Called, AtMostOneWrite
  <2>4. AtMostOneWrite'
    BY DEF AtMostOneWrite, StepsAgree
  <2>5. DecisionWasAsked'
    BY DEF DecisionWasAsked, Asked, SingleWinner, Holding
  <2>6. ExecutedWasWritten'
    BY DEF ExecutedWasWritten, StepsAgree, SingleWinner, AtMostOneWrite, Holding, Executing, Called
  <2> QED
    BY <2>1, <2>2, <2>3, <2>4, <2>5, <2>6
<1>2. ASSUME NEW p \in Proposal, DeadlinePasses(p)
      PROVE  GateInv'
  <2> USE <1>2 DEF DeadlinePasses, store, hub, agent
  <2>1. TypeOK'
    BY DEF Status, Step, Answer, CallState
  <2>2. SingleWinner'
    BY DEF SingleWinner, StepsAgree, Executing, Holding, Called
  <2>3. StepsAgree'
    BY DEF SingleWinner, StepsAgree, Executing, Holding, Called, AtMostOneWrite
  <2>4. AtMostOneWrite'
    BY DEF AtMostOneWrite, StepsAgree
  <2>5. DecisionWasAsked'
    BY DEF DecisionWasAsked, Asked, SingleWinner, Holding
  <2>6. ExecutedWasWritten'
    BY DEF ExecutedWasWritten, StepsAgree, SingleWinner, AtMostOneWrite, Holding, Executing, Called
  <2> QED
    BY <2>1, <2>2, <2>3, <2>4, <2>5, <2>6
<1>3. ASSUME NEW r \in Request, ReadRow(r)
      PROVE  GateInv'
  <2> USE <1>3 DEF ReadRow, store, agent, Goto, Reply
  <2>1. TypeOK'
    BY ZenonT(60) DEF Status, Step, Answer, CallState
  <2>2. SingleWinner'
    BY DEF SingleWinner, StepsAgree, Executing, Holding, Called
  <2>3. StepsAgree'
    BY DEF SingleWinner, StepsAgree, Executing, Holding, Called, AtMostOneWrite
  <2>4. AtMostOneWrite'
    BY DEF AtMostOneWrite, StepsAgree
  <2>5. DecisionWasAsked'
    BY DEF DecisionWasAsked, Asked, SingleWinner, Holding
  <2>6. ExecutedWasWritten'
    BY DEF ExecutedWasWritten, StepsAgree, SingleWinner, AtMostOneWrite, Holding, Executing, Called
  <2> QED
    BY <2>1, <2>2, <2>3, <2>4, <2>5, <2>6
<1>4. ASSUME NEW r \in Request, CheckExpiry(r)
      PROVE  GateInv'
  <2> USE <1>4 DEF CheckExpiry, store, agent, Goto
  <2>1. TypeOK'
    BY DEF Status, Step, Answer, CallState
  <2>2. SingleWinner'
    BY DEF SingleWinner, StepsAgree, Executing, Holding, Called
  <2>3. StepsAgree'
    BY DEF SingleWinner, StepsAgree, Executing, Holding, Called, AtMostOneWrite
  <2>4. AtMostOneWrite'
    BY DEF AtMostOneWrite, StepsAgree
  <2>5. DecisionWasAsked'
    BY DEF DecisionWasAsked, Asked, SingleWinner, Holding
  <2>6. ExecutedWasWritten'
    BY DEF ExecutedWasWritten, StepsAgree, SingleWinner, AtMostOneWrite, Holding, Executing, Called
  <2> QED
    BY <2>1, <2>2, <2>3, <2>4, <2>5, <2>6
<1>5. ASSUME NEW r \in Request, ExpireRow(r)
      PROVE  GateInv'
  <2> USE <1>5 DEF ExpireRow, agent, SetStatus, Goto, Reply
  <2>1. TypeOK'
    BY DEF Status, Step, Answer, CallState
  <2>2. SingleWinner'
    BY DEF SingleWinner, StepsAgree, Executing, Holding, Called
  <2>3. StepsAgree'
    <3>1. \A p \in Proposal: \/ status'[p] = status[p]
                             \/ status[p] = "pending" /\ status'[p] = "expired"
      OBVIOUS
    <3>2. call[r] = "none" /\ pc'[r] = "done" /\ outcome' = outcome
      BY DEF StepsAgree, Called
    <3>3. \A q \in Request: q # r => pc'[q] = pc[q]
      OBVIOUS
    <3>4. call' = call /\ writes' = writes /\ asked' = asked
      OBVIOUS
    <3> HIDE <1>5
    <3> QED
      BY <3>1, <3>2, <3>3, <3>4 DEF StepsAgree, Called
  <2>4. AtMostOneWrite'
    BY DEF AtMostOneWrite, StepsAgree
  <2>5. DecisionWasAsked'
    BY DEF DecisionWasAsked, Asked, SingleWinner, Holding
  <2>6. ExecutedWasWritten'
    BY DEF ExecutedWasWritten, StepsAgree, SingleWinner, AtMostOneWrite, Holding, Executing, Called
  <2> QED
    BY <2>1, <2>2, <2>3, <2>4, <2>5, <2>6
<1>6. ASSUME NEW r \in Request, DecideRow(r)
      PROVE  GateInv'
  <2> USE <1>6 DEF DecideRow, agent, SetStatus, Goto, Reply
  <2>1. TypeOK'
    <3>1. status' \in [Proposal -> Status]
      BY DEF Status
    <3>2. pc' \in [Request -> Step] /\ answer' \in [Request -> Answer]
      BY DEF Step, Answer, Status
    <3> QED
      BY <3>1, <3>2
  <2>2. SingleWinner'
    <3>1. \A q \in Request: q # r => /\ pc'[q] = pc[q] /\ call'[q] = call[q]
                                     /\ asked'[q] = asked[q]
      OBVIOUS
    <3>2. /\ asked' = asked /\ asked[r].authorized = TRUE
          /\ pc[r] = "deciding" /\ call'[r] = "none"
      BY DEF StepsAgree, Called
    <3>3. CASE status[asked[r].proposal] = "pending"
      <4>1. \A q \in Request:
              Executing(q) => asked[q].proposal # asked[r].proposal
        BY <3>3 DEF SingleWinner
      <4>2. \/ pc'[r] = "approved" /\ asked[r].decision = "approved"
            \/ pc'[r] = "done"
        BY <3>3
      <4>3. \A q \in Request: status'[asked[q].proposal] =
              IF asked[q].proposal = asked[r].proposal THEN asked[r].decision
              ELSE status[asked[q].proposal]
        BY <3>3
      <4>4. \A q \in Request: q # r => /\ Executing(q)' <=> Executing(q)
                                       /\ Holding(q)' <=> Holding(q)
        BY <3>1 DEF Executing, Holding, Called
      <4>5. Executing(r)' \/ Holding(r)' => asked[r].decision = "approved"
        BY <3>2, <4>2 DEF Executing, Holding, Called
      <4> HIDE <1>6
      <4>6. ASSUME NEW q \in Request, Executing(q)'
            PROVE  /\ asked[q].decision = "approved"
                   /\ asked[q].authorized = TRUE
                   /\ status'[asked[q].proposal] \in
                        {"approved", "executed", "failed"}
        BY <3>2, <4>1, <4>3, <4>4, <4>5, <4>6 DEF SingleWinner
      <4>7. ASSUME NEW q \in Request, Holding(q)'
            PROVE  status'[asked[q].proposal] = "approved"
        BY <4>1, <4>3, <4>4, <4>5, <4>7 DEF SingleWinner, Executing
      <4>8. ASSUME NEW q1 \in Request, NEW q2 \in Request, Executing(q1)',
                   Executing(q2)', asked[q1].proposal = asked[q2].proposal
            PROVE  q1 = q2
        BY <4>1, <4>4, <4>8 DEF SingleWinner
      <4> QED
        BY <3>2, <4>6, <4>7, <4>8 DEF SingleWinner
    <3>4. CASE status[asked[r].proposal] # "pending"
      BY <3>1, <3>2, <3>4 DEF SingleWinner, Executing, Holding, Called
    <3> QED
      BY <3>3, <3>4
  <2>3. StepsAgree'
    <3>1. \A q \in Request: pc'[q] = "approved" => writes[asked[q].proposal] = 0
      BY DEF StepsAgree
    <3>2. \A p \in Proposal: writes[p] > 0 => status'[p] \in {"approved", "executed", "failed"}
      BY DEF StepsAgree
    <3>3. \A q \in Request: q = r => pc'[q] \in {"done", "approved"} /\ call[q] = "none"
      BY DEF StepsAgree, Called
    <3> QED
      BY <3>1, <3>2, <3>3 DEF StepsAgree, Called
  <2>4. AtMostOneWrite'
    BY DEF AtMostOneWrite, StepsAgree
  <2>5. DecisionWasAsked'
    <3>1. asked[r].authorized = TRUE /\ asked' = asked
      BY DEF StepsAgree
    <3>2. ASSUME NEW p \in Proposal
          PROVE  \/ status'[p] = status[p]
                 \/ /\ p = asked[r].proposal
                    /\ status'[p] = asked[r].decision
      OBVIOUS
    <3>3. asked[r].decision \in {"approved", "rejected"}
      OBVIOUS
    <3> HIDE <1>6
    <3> QED
      BY <3>1, <3>2, <3>3 DEF DecisionWasAsked, Asked
  <2>6. ExecutedWasWritten'
    BY DEF ExecutedWasWritten, StepsAgree, SingleWinner, AtMostOneWrite, Holding, Executing, Called
  <2> QED
    BY <2>1, <2>2, <2>3, <2>4, <2>5, <2>6
<1>7. ASSUME NEW r \in Request, DecideFails(r)
      PROVE  GateInv'
  <2> USE <1>7 DEF DecideFails, agent, SetStatus, Goto, Reply
  <2>1. TypeOK'
    BY DEF Status, Step, Answer, CallState
  <2>2. SingleWinner'
    BY DEF SingleWinner, StepsAgree, Executing, Holding, Called
  <2>3. StepsAgree'
    BY DEF SingleWinner, StepsAgree, Executing, Holding, Called, AtMostOneWrite
  <2>4. AtMostOneWrite'
    BY DEF AtMostOneWrite, StepsAgree
  <2>5. DecisionWasAsked'
    <3>1. asked[r].authorized = TRUE /\ asked' = asked
      BY DEF StepsAgree
    <3>2. ASSUME NEW p \in Proposal
          PROVE  \/ status'[p] = status[p]
                 \/ /\ p = asked[r].proposal
                    /\ status'[p] = asked[r].decision
      OBVIOUS
    <3>3. asked[r].decision \in {"approved", "rejected"}
      OBVIOUS
    <3> HIDE <1>7
    <3> QED
      BY <3>1, <3>2, <3>3 DEF DecisionWasAsked, Asked
  <2>6. ExecutedWasWritten'
    BY DEF ExecutedWasWritten, StepsAgree, SingleWinner, AtMostOneWrite, Holding, Executing, Called
  <2> QED
    BY <2>1, <2>2, <2>3, <2>4, <2>5, <2>6
<1>8. ASSUME NEW r \in Request, CallAgent(r)
      PROVE  GateInv'
  <2> USE <1>8 DEF CallAgent, store, Goto
  <2>1. TypeOK'
    BY DEF Status, Step, Answer, CallState
  <2>2. SingleWinner'
    BY DEF SingleWinner, StepsAgree, Executing, Holding, Called
  <2>3. StepsAgree'
    BY DEF SingleWinner, StepsAgree, Executing, Holding, Called, AtMostOneWrite
  <2>4. AtMostOneWrite'
    BY DEF AtMostOneWrite, StepsAgree
  <2>5. DecisionWasAsked'
    BY DEF DecisionWasAsked, Asked, SingleWinner, Holding
  <2>6. ExecutedWasWritten'
    BY DEF ExecutedWasWritten, StepsAgree, SingleWinner, AtMostOneWrite, Holding, Executing, Called
  <2> QED
    BY <2>1, <2>2, <2>3, <2>4, <2>5, <2>6
<1>9. ASSUME NEW r \in Request, AgentCallFails(r)
      PROVE  GateInv'
  <2> USE <1>9 DEF AgentCallFails, store, agent, Goto
  <2>1. TypeOK'
    BY DEF Status, Step, Answer, CallState
  <2>2. SingleWinner'
    BY DEF SingleWinner, StepsAgree, Executing, Holding, Called
  <2>3. StepsAgree'
    BY DEF SingleWinner, StepsAgree, Executing, Holding, Called, AtMostOneWrite
  <2>4. AtMostOneWrite'
    BY DEF AtMostOneWrite, StepsAgree
  <2>5. DecisionWasAsked'
    BY DEF DecisionWasAsked, Asked, SingleWinner, Holding
  <2>6. ExecutedWasWritten'
    BY DEF ExecutedWasWritten, StepsAgree, SingleWinner, AtMostOneWrite, Holding, Executing, Called
  <2> QED
    BY <2>1, <2>2, <2>3, <2>4, <2>5, <2>6
<1>10. ASSUME NEW r \in Request, AgentAnswers(r)
      PROVE  GateInv'
  <2> USE <1>10 DEF AgentAnswers, store, agent, Goto
  <2>1. TypeOK'
    <3>1. pc' \in [Request -> Step]
      BY DEF Step
    <3>2. outcome' \in [Request -> {"none", "executed", "failed"}]
      OBVIOUS
    <3> QED
      BY <3>1, <3>2
  <2>2. SingleWinner'
    BY DEF SingleWinner, StepsAgree, Executing, Holding, Called
  <2>3. StepsAgree'
    BY DEF SingleWinner, StepsAgree, Executing, Holding, Called, AtMostOneWrite
  <2>4. AtMostOneWrite'
    BY DEF AtMostOneWrite, StepsAgree
  <2>5. DecisionWasAsked'
    BY DEF DecisionWasAsked, Asked, SingleWinner, Holding
  <2>6. ExecutedWasWritten'
    BY DEF ExecutedWasWritten, StepsAgree, SingleWinner, AtMostOneWrite, Holding, Executing, Called
  <2> QED
    BY <2>1, <2>2, <2>3, <2>4, <2>5, <2>6
<1>11. ASSUME NEW r \in Request, VerifyOutcome(r)
      PROVE  GateInv'
  <2> USE <1>11 DEF VerifyOutcome, store, agent, Goto
  <2>1. TypeOK'
    BY DEF Status, Step, Answer, CallState
  <2>2. SingleWinner'
    BY DEF SingleWinner, StepsAgree, Executing, Holding, Called
  <2>3. StepsAgree'
    BY DEF SingleWinner, StepsAgree, Executing, Holding, Called, AtMostOneWrite
  <2>4. AtMostOneWrite'
    BY DEF AtMostOneWrite, StepsAgree
  <2>5. DecisionWasAsked'
    BY DEF DecisionWasAsked, Asked, SingleWinner, Holding
  <2>6. ExecutedWasWritten'
    BY DEF ExecutedWasWritten, StepsAgree, SingleWinner, AtMostOneWrite, Holding, Executing, Called
  <2> QED
    BY <2>1, <2>2, <2>3, <2>4, <2>5, <2>6
<1>12. ASSUME NEW r \in Request, CompleteRow(r)
      PROVE  GateInv'
  <2> USE <1>12 DEF CompleteRow, agent, SetStatus, Goto
  <2>1. TypeOK'
    BY DEF StepsAgree, Status, Step
  <2>2. SingleWinner'
    BY DEF SingleWinner, StepsAgree, Executing, Holding, Called
  <2>3. StepsAgree'
    BY SMTT(30) DEF SingleWinner, StepsAgree, Executing, Holding, Called, AtMostOneWrite
  <2>4. AtMostOneWrite'
    BY DEF AtMostOneWrite, StepsAgree
  <2>5. DecisionWasAsked'
    BY SMTT(30) DEF DecisionWasAsked, Asked, SingleWinner, Holding
  <2>6. ExecutedWasWritten'
    BY DEF ExecutedWasWritten, StepsAgree, SingleWinner, AtMostOneWrite, Holding, Executing, Called
  <2> QED
    BY <2>1, <2>2, <2>3, <2>4, <2>5, <2>6
<1>13. ASSUME NEW r \in Request, AnswerFromRow(r)
      PROVE  GateInv'
  <2> USE <1>13 DEF AnswerFromRow, store, agent, Goto, Reply
  <2>1. TypeOK'
    <3>1. pc' \in [Request -> Step]
      BY DEF Step
    <3>2. answer' \in [Request -> Answer]
      BY DEF Answer, Status
    <3> QED
      BY <3>1, <3>2
  <2>2. SingleWinner'
    BY DEF SingleWinner, StepsAgree, Executing, Holding, Called
  <2>3. StepsAgree'
    BY DEF StepsAgree, Called
  <2>4. AtMostOneWrite'
    BY DEF AtMostOneWrite, StepsAgree
  <2>5. DecisionWasAsked'
    BY DEF DecisionWasAsked, Asked, SingleWinner, Holding
  <2>6. ExecutedWasWritten'
    BY DEF ExecutedWasWritten, StepsAgree, SingleWinner, AtMostOneWrite, Holding, Executing, Called
  <2> QED
    BY <2>1, <2>2, <2>3, <2>4, <2>5, <2>6
<1>14. ASSUME NEW r \in Request, AgentRefuses(r)
      PROVE  GateInv'
  <2> USE <1>14 DEF AgentRefuses, AgentUnchanged, store, hub
  <2>1. TypeOK'
    BY DEF Status, Step, Answer, CallState
  <2>2. SingleWinner'
    BY DEF SingleWinner, StepsAgree, Executing, Holding, Called
  <2>3. StepsAgree'
    BY DEF SingleWinner, StepsAgree, Executing, Holding, Called, AtMostOneWrite
  <2>4. AtMostOneWrite'
    BY DEF AtMostOneWrite, StepsAgree
  <2>5. DecisionWasAsked'
    BY DEF DecisionWasAsked, Asked, SingleWinner, Holding
  <2>6. ExecutedWasWritten'
    BY DEF ExecutedWasWritten, StepsAgree, SingleWinner, AtMostOneWrite, Holding, Executing, Called
  <2> QED
    BY <2>1, <2>2, <2>3, <2>4, <2>5, <2>6
<1>15. ASSUME NEW r \in Request, AgentWrites(r)
      PROVE  GateInv'
  <2> USE <1>15 DEF AgentWrites, AgentUnchanged, store, hub
  <2>1. TypeOK'
    BY DEF Status, Step, Answer, CallState
  <2>2. SingleWinner'
    BY DEF SingleWinner, StepsAgree, Executing, Holding, Called
  <2>3. StepsAgree'
    BY DEF SingleWinner, StepsAgree, Executing, Holding, Called, AtMostOneWrite
  <2>4. AtMostOneWrite'
    BY DEF AtMostOneWrite, StepsAgree
  <2>5. DecisionWasAsked'
    BY DEF DecisionWasAsked, Asked, SingleWinner, Holding
  <2>6. ExecutedWasWritten'
    BY DEF ExecutedWasWritten, StepsAgree, SingleWinner, AtMostOneWrite, Holding, Executing, Called
  <2> QED
    BY <2>1, <2>2, <2>3, <2>4, <2>5, <2>6
<1>16. ASSUME NEW r \in Request, AgentReplies(r)
      PROVE  GateInv'
  <2> USE <1>16 DEF AgentReplies, AgentUnchanged, store, hub
  <2>1. TypeOK'
    <3>1. call' \in [Request -> CallState]
      BY DEF CallState
    <3> QED
      BY <3>1
  <2>2. SingleWinner'
    BY DEF SingleWinner, StepsAgree, Executing, Holding, Called
  <2>3. StepsAgree'
    BY DEF SingleWinner, StepsAgree, Executing, Holding, Called, AtMostOneWrite
  <2>4. AtMostOneWrite'
    BY DEF AtMostOneWrite, StepsAgree
  <2>5. DecisionWasAsked'
    BY DEF DecisionWasAsked, Asked, SingleWinner, Holding
  <2>6. ExecutedWasWritten'
    BY DEF ExecutedWasWritten, StepsAgree, SingleWinner, AtMostOneWrite, Holding, Executing, Called
  <2> QED
    BY <2>1, <2>2, <2>3, <2>4, <2>5, <2>6
<1>17. ASSUME NEW r \in Request, Disconnect(r)
      PROVE  GateInv'
  <2> USE <1>17 DEF Disconnect, store, hub, agent
  <2>1. TypeOK'
    BY DEF Status, Step, Answer, CallState
  <2>2. SingleWinner'
    BY DEF SingleWinner, StepsAgree, Executing, Holding, Called
  <2>3. StepsAgree'
    BY DEF SingleWinner, StepsAgree, Executing, Holding, Called, AtMostOneWrite
  <2>4. AtMostOneWrite'
    BY DEF AtMostOneWrite, StepsAgree
  <2>5. DecisionWasAsked'
    BY DEF DecisionWasAsked, Asked, SingleWinner, Holding
  <2>6. ExecutedWasWritten'
    BY DEF ExecutedWasWritten, StepsAgree, SingleWinner, AtMostOneWrite, Holding, Executing, Called
  <2> QED
    BY <2>1, <2>2, <2>3, <2>4, <2>5, <2>6
<1>18. ASSUME NEW r \in Request, Crash(r)
      PROVE  GateInv'
  <2> USE <1>18 DEF Crash, store, agent, Goto
  <2>1. TypeOK'
    BY DEF Status, Step, Answer, CallState
  <2>2. SingleWinner'
    BY DEF SingleWinner, StepsAgree, Executing, Holding, Called
  <2>3. StepsAgree'
    BY DEF SingleWinner, StepsAgree, Executing, Holding, Called, AtMostOneWrite
  <2>4. AtMostOneWrite'
    BY DEF AtMostOneWrite, StepsAgree
  <2>5. DecisionWasAsked'
    BY DEF DecisionWasAsked, Asked, SingleWinner, Holding
  <2>6. ExecutedWasWritten'
    BY DEF ExecutedWasWritten, StepsAgree, SingleWinner, AtMostOneWrite, Holding, Executing, Called
  <2> QED
    BY <2>1, <2>2, <2>3, <2>4, <2>5, <2>6
<1>19. CASE UNCHANGED vars
  BY <1>19 DEF vars, store, hub, agent, SingleWinner, StepsAgree, AtMostOneWrite,
     DecisionWasAsked, Asked, ExecutedWasWritten, Executing, Holding, Called
<1> QED
  BY <1>1, <1>2, <1>3, <1>4, <1>5, <1>6, <1>7, <1>8, <1>9, <1>10, <1>11, <1>12, <1>13, <1>14, <1>15, <1>16, <1>17, <1>18, <1>19 DEF Next, Handler, Agent

\* Every reachable state has at most one winner per proposal, and its
\* handler, its call, the row and the cluster agree.
THEOREM GateInvariant == Spec => []GateInv
BY GateInit, GateStep, PTL DEF Spec

\* The tables, handlers and agent calls stay well typed.
THEOREM TypeCorrect == Spec => []TypeOK
BY GateInvariant, PTL DEF GateInv

\* An approved action reaches the cluster at most once, whatever clicks,
\* retries, replicas and faults there are.
THEOREM SingleShot == Spec => []AtMostOneWrite
BY GateInvariant, PTL DEF GateInv

\* Only an authorized request for a decision puts that decision on the row.
THEOREM DecisionsAuthorized == Spec => []DecisionWasAsked
BY GateInvariant, PTL DEF GateInv

\* A recorded execution did reach the cluster.
THEOREM RecordedWasWritten == Spec => []ExecutedWasWritten
BY GateInvariant, PTL DEF GateInv

\* A rejected, expired or undecided proposal has no call at the agent and
\* has not touched the cluster.
THEOREM RefusalIsFinal == Spec => []RefusedNeverActs
<1>1. GateInv => RefusedNeverActs
  BY DEF GateInv, TypeOK, SingleWinner, StepsAgree, RefusedNeverActs, Executing,
         Called, Target, Ask
<1> QED
  BY <1>1, GateInvariant, PTL

(***************************************************************************)
(* Refinement: under the invariant, every step of the gate is a step of    *)
(* ProposalLifecycle or leaves status and writes alone.                    *)
(***************************************************************************)

\* Steps that touch neither the status column nor the cluster.
LEMMA QuietStep ==
  ASSUME UNCHANGED <<status, writes>>
  PROVE  [Lifecycle!Next]_(Lifecycle!lifecycleVars)
BY DEF Lifecycle!lifecycleVars

\* One step of the gate is one lifecycle step or none.
LEMMA LifecycleStep ==
  GateInv /\ [Next]_vars => [Lifecycle!Next]_(Lifecycle!lifecycleVars)
<1> SUFFICES ASSUME GateInv, [Next]_vars
             PROVE  [Lifecycle!Next]_(Lifecycle!lifecycleVars)
  OBVIOUS
<1> USE DEF GateInv, TypeOK, Ask, Target
<1>1. ASSUME NEW p \in Proposal, NEW u \in UseCase, NEW a \in ProposedAction,
             CreateProposal(p, u, a)
      PROVE  Lifecycle!Propose(p)
  BY <1>1 DEF CreateProposal, SetStatus, agent, Lifecycle!Propose
<1>2. ASSUME NEW r \in Request, ExpireRow(r)
      PROVE  Lifecycle!Decide(asked[r].proposal) \/ UNCHANGED <<status, writes>>
  BY <1>2 DEF ExpireRow, SetStatus, agent, Lifecycle!Decide
<1>3. ASSUME NEW r \in Request, DecideRow(r)
      PROVE  Lifecycle!Decide(asked[r].proposal) \/ UNCHANGED <<status, writes>>
  BY <1>3 DEF DecideRow, SetStatus, agent, Lifecycle!Decide
<1>4. ASSUME NEW r \in Request, DecideFails(r)
      PROVE  Lifecycle!Decide(asked[r].proposal) \/ UNCHANGED <<status, writes>>
  BY <1>4 DEF DecideFails, SetStatus, agent, Lifecycle!Decide
<1>5. ASSUME NEW r \in Request, CompleteRow(r)
      PROVE  Lifecycle!Record(asked[r].proposal) \/ UNCHANGED <<status, writes>>
  <2>1. /\ status[asked[r].proposal] = "approved"
        /\ outcome[r] \in {"executed", "failed"}
        /\ outcome[r] = "executed" => writes[asked[r].proposal] = 1
    BY <1>5 DEF CompleteRow, SingleWinner, StepsAgree, Holding
  <2> QED
    BY <1>5, <2>1 DEF CompleteRow, SetStatus, agent, Lifecycle!Record
<1>6. ASSUME NEW r \in Request, AgentWrites(r)
      PROVE  Lifecycle!Act(asked[r].proposal)
  <2>1. /\ writes[asked[r].proposal] = 0
        /\ status[asked[r].proposal] \in {"approved", "failed"}
    BY <1>6 DEF AgentWrites, StepsAgree, SingleWinner, Executing, Called,
                ExecutedWasWritten
  <2> QED
    BY <1>6, <2>1 DEF AgentWrites, AgentUnchanged, store, Lifecycle!Act
<1>7. ASSUME NEW r \in Request,
             \/ ReadRow(r) \/ CheckExpiry(r) \/ CallAgent(r)
             \/ AgentCallFails(r) \/ AgentAnswers(r) \/ VerifyOutcome(r)
             \/ AnswerFromRow(r) \/ AgentRefuses(r) \/ AgentReplies(r)
             \/ Disconnect(r) \/ Crash(r)
      PROVE  UNCHANGED <<status, writes>>
  BY <1>7 DEF ReadRow, CheckExpiry, CallAgent, AgentCallFails, AgentAnswers,
              VerifyOutcome, AnswerFromRow, AgentRefuses, AgentReplies,
              AgentUnchanged, Disconnect, Crash, store, agent
<1>8. ASSUME NEW p \in Proposal, DeadlinePasses(p)
      PROVE  UNCHANGED <<status, writes>>
  BY <1>8 DEF DeadlinePasses, store, agent
<1>9. CASE UNCHANGED vars
  BY <1>9, QuietStep DEF vars, store, agent
<1>10. ASSUME NEW r \in Request PROVE asked[r].proposal \in Proposal
  OBVIOUS
<1> HIDE DEF GateInv, TypeOK, Target
<1> QED
  BY <1>1, <1>2, <1>3, <1>4, <1>5, <1>6, <1>7, <1>8, <1>9, <1>10, QuietStep
     DEF Next, Handler, Agent, Lifecycle!Next

\* The concurrent gate implements the lifecycle promised of every proposal.
THEOREM GateImplementsLifecycle == Spec => LifecycleSpec
<1>1. Init => Lifecycle!Init
  BY DEF Init, Lifecycle!Init
<1> QED
  BY <1>1, LifecycleStep, GateInvariant, PTL DEF Spec, LifecycleSpec, Lifecycle!Spec

(***************************************************************************)
(* What clients are told.  Rows only move forward, so an answer that was   *)
(* true when it was sent stays true.                                       *)
(***************************************************************************)

\* A terminal row never changes, a decided one is never undecided.
LEMMA DecidedRowsStay ==
  ASSUME GateInv, [Next]_vars, NEW p \in Proposal
  PROVE  /\ status[p] \in {"rejected", "executed", "failed"} =>
              status'[p] = status[p]
         /\ status[p] \notin {"absent", "pending"} =>
              status'[p] \notin {"absent", "pending"}
<1>1. [Lifecycle!Next]_(Lifecycle!lifecycleVars)
  BY LifecycleStep
<1>2. status \in [Proposal -> Status]
  BY DEF GateInv, TypeOK
<1> QED
  BY <1>1, <1>2 DEF Lifecycle!Next, Lifecycle!lifecycleVars, Lifecycle!Propose,
     Lifecycle!Decide, Lifecycle!Act, Lifecycle!Record

\* An answer is sent once, and is true when it is sent.
LEMMA AnswerStep ==
  ASSUME GateInv, [Next]_vars, NEW r \in Request, answer'[r] # answer[r]
  PROVE  /\ answer'[r] \in {"rejected", "failed"} =>
              status'[Target(r)] = answer'[r]
         /\ answer'[r] = "409" => status'[Target(r)] \notin {"absent", "pending"}
         /\ answer'[r] = "executed" /\ ~DbFails(r) =>
              status'[Target(r)] = "executed"
<1> USE DEF GateInv, TypeOK, Ask, Target, Goto, Reply, SetStatus
<1>1. CASE ReadRow(r)
  BY <1>1 DEF ReadRow, store
<1>2. CASE ExpireRow(r)
  BY <1>2 DEF ExpireRow
<1>3. CASE DecideRow(r)
  BY <1>3 DEF DecideRow, StepsAgree
<1>4. CASE DecideFails(r)
  BY <1>4 DEF DecideFails
<1>5. CASE AnswerFromRow(r)
  BY <1>5 DEF AnswerFromRow, store, Status, DbServes, DbFails
<1>6. \/ ReadRow(r) \/ ExpireRow(r) \/ DecideRow(r) \/ DecideFails(r)
      \/ AnswerFromRow(r)
  <2>1. answer' # answer
    OBVIOUS
  <2>2. ~UNCHANGED vars /\ \A p \in Proposal, u \in UseCase, a \in ProposedAction:
                             ~CreateProposal(p, u, a) /\ ~DeadlinePasses(p)
    BY <2>1 DEF vars, hub, CreateProposal, DeadlinePasses
  <2>3. \A q \in Request: ~Agent(q) /\ ~Disconnect(q) /\ ~Crash(q)
    BY <2>1 DEF Agent, AgentUnchanged, AgentRefuses, AgentWrites, AgentReplies,
       Disconnect, Crash, hub
  <2>4. PICK q \in Request: Handler(q)
    BY <2>1, <2>2, <2>3 DEF Next, DeadlinePasses, hub
  <2>5. ~CheckExpiry(q) /\ ~CallAgent(q) /\ ~AgentCallFails(q) /\ ~AgentAnswers(q)
        /\ ~VerifyOutcome(q) /\ ~CompleteRow(q)
    BY <2>1 DEF CheckExpiry, CallAgent, AgentCallFails, AgentAnswers, VerifyOutcome,
       CompleteRow
  <2>6. \/ ReadRow(q) \/ ExpireRow(q) \/ DecideRow(q) \/ DecideFails(q)
        \/ AnswerFromRow(q)
    BY <2>4, <2>5 DEF Handler
  <2>7. q = r
    <3>1. PICK a: answer' = [answer EXCEPT ![q] = a]
      BY <2>1, <2>6 DEF ReadRow, ExpireRow, DecideRow, DecideFails, AnswerFromRow
    <3> QED
      BY <3>1
  <2> QED
    BY <2>6, <2>7
<1> QED
  BY <1>1, <1>2, <1>3, <1>4, <1>5, <1>6

\* Contexts stay cancelled, and requests ask what they ask.
LEMMA RequestsStay ==
  ASSUME [Next]_vars
  PROVE  asked' = asked /\ disconnected \subseteq disconnected'
BY DEF Next, vars, hub, store, agent, Handler, Agent, AgentUnchanged,
   CreateProposal, DeadlinePasses, ReadRow, CheckExpiry, ExpireRow, DecideRow,
   DecideFails, CallAgent, AgentCallFails, AgentAnswers, VerifyOutcome,
   CompleteRow, AnswerFromRow, AgentRefuses, AgentWrites, AgentReplies,
   Disconnect, Crash

\* What a client was told of its proposal stays true of the row.
THEOREM AnswersStayTrue == Spec => []AnswersHold
<1>1. Init => AnswersHold
  BY DEF Init, AnswersHold
<1>2. GateInv /\ AnswersHold /\ [Next]_vars => AnswersHold'
  <2> SUFFICES ASSUME GateInv, AnswersHold, [Next]_vars, NEW r \in Request
               PROVE  LET s == status'[Target(r)] IN
                      /\ answer'[r] \in {"rejected", "failed"} => s = answer'[r]
                      /\ answer'[r] = "409" => s \notin {"absent", "pending"}
                      /\ answer'[r] = "executed" /\ ~DbFails(r)' =>
                           s = "executed"
    BY RequestsStay DEF AnswersHold, Target
  <2>1. ~DbFails(r)' => ~DbFails(r)
    BY RequestsStay DEF DbFails
  <2>2. Target(r) \in Proposal
    BY DEF GateInv, TypeOK, Ask, Target
  <2>3. CASE answer'[r] = answer[r]
    BY <2>1, <2>2, <2>3, DecidedRowsStay DEF AnswersHold
  <2>4. CASE answer'[r] # answer[r]
    BY <2>1, <2>4, AnswerStep
  <2> QED
    BY <2>3, <2>4
<1> QED
  BY <1>1, <1>2, GateInvariant, PTL DEF Spec
=============================================================================
