SPECIFICATION Spec
CONSTANTS
  Namespace = {n1, n2}
  Name = {d1}
  Guardian = {g1}
  Redact = FALSE
  MaxRollouts = 2
  MaxFaults = 0
  MaxProposals = 2
  Fault = {}
CHECK_DEADLOCK FALSE
SYMMETRY Symmetry
INVARIANT RollbackRestoresOwn
