SPECIFICATION FairSpec
CONSTANTS
  Call = {r1, r2}
  Nobody = nobody
  Collector = {k1}
  MaxConn = 3
  MaxDrops = 1
  Fault = {"drop", "silence", "unknown"}
CHECK_DEADLOCK FALSE
INVARIANTS
  TypeOK
  NoCrossTalk
  RegisteredIsRead
  PendingIsWaiting
  ReaderNeverStalls
PROPERTIES
  CallsReturn
  CollectorReturns
