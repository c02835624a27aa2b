SPECIFICATION FairSpec
CONSTANTS
  Asker = {q1, s1, s2, s3}
  Query = {q1}
  Send = {s1, s2, s3}
  Session = {c1, c2}
  Awkward = {s3}
  Untitled = untitled
  Space = {n1, n2}
  Certs = certs
  Entity = {e1, e2, w1}
  Worker = {w1}
  Budgets <- SomeBudgets
CHECK_DEADLOCK FALSE
INVARIANTS
  TypeOK
  VerdictIsOfOneInstant
  ConversationHolds
PROPERTIES
  RequestsSettle
