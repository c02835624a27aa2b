SPECIFICATION FairSpec
CONSTANTS
  N = 3
  Fleet = {3}
  MaxPerSweep = 1
  MaxChanges = 3
  MaxFaults = 2
  Fault = {"list", "fetch", "route", "agent", "store", "send", "restart"}
CHECK_DEADLOCK FALSE
INVARIANTS
  TypeOK
  ChannelAgrees
  ProposalsAreAnnounced
PROPERTIES
  ResolutionsAreSeen
  IncidentsSettle
