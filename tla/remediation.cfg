SPECIFICATION FairSpec
CONSTANTS
  Proposal = {p1}
  Request = {r1, r2, r3}
  Exposed = {r3}
  Fault = {"agent", "db", "disconnect", "crash"}
CHECK_DEADLOCK FALSE
INVARIANTS
  TypeOK
  AtMostOneWrite
  RefusedNeverActs
  DecisionWasAsked
  ExecutedWasWritten
  AnswersHold
PROPERTIES
  LifecycleSpec
  RequestsAnswered
  ApprovalSettles
