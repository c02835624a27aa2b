SPECIFICATION Spec
CONSTANTS
  Namespace = {n1}
  Name = {d1}
  Guardian = {g1}
  Redact = TRUE
  MaxRollouts = 2
  MaxFaults = 0
  MaxProposals = 2
  Fault = {}
CHECK_DEADLOCK FALSE
INVARIANT RowsHaveImages
