SPECIFICATION FairSpec
CONSTANTS
  Namespace = {n1}
  Name = {d1}
  Guardian = {g1, g2}
  Redact = FALSE
  MaxRollouts = 2
  MaxFaults = 1
  MaxProposals = 2
  Fault = {"watch", "restart", "push", "hub", "delete"}
CHECK_DEADLOCK FALSE
INVARIANTS
  TypeOK
  HistoryIsRollouts
  OneProposalPerRollout
PROPERTY RolloutRecorded
