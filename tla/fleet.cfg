SPECIFICATION FairSpec
CONSTANTS
  Integration = {c1, c2}
  Namespace = {n1, n2}
  Token = {t1, t2}
  NoToken = none
  Request = {r1, r2}
  Budgets <- SomeBudgets
CHECK_DEADLOCK FALSE
INVARIANTS
  TypeOK
  EffectiveIsCurrent
  SecretsAreOwned
PROPERTIES
  RegistrySpec
  FleetConverges
