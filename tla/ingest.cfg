SPECIFICATION FairSpec
CONSTANTS
  Leaf = {l1, l2}
  Index = index
  Ingest = {i1}
  Query = {q1}
  Caller = {i1, q1}
  Known = {{}, {l1}}
  Fault = {"list", "index", "write", "store"}
CHECK_DEADLOCK FALSE
INVARIANTS
  TypeOK
  CountIsBacked
  RoutesAreReal
PROPERTIES
  FormedPodAppears
  EventIsStored
