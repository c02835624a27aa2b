SPECIFICATION Spec
CONSTANTS
  Proposal = {p1}
  Request = {r1}
  Exposed = {r1}
  Fault = {"disconnect"}
CHECK_DEADLOCK FALSE
INVARIANTS
  OutcomeRecorded
