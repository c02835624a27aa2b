SPECIFICATION Spec
CONSTANTS
  Asker = {q1, s1}
  Query = {q1}
  Send = {s1}
  Session = {c1}
  Awkward = {}
  Untitled = untitled
  Space = {n1, n2}
  Certs = certs
  Entity = {e1, w1}
  Worker = {w1}
  Budgets <- SomeBudgets
CHECK_DEADLOCK FALSE
INVARIANT IncidentsAreRemembered
