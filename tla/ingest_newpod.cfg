SPECIFICATION Spec
CONSTANTS
  Leaf = {l1}
  Index = index
  Ingest = {i1}
  Query = {q1}
  Caller = {i1, q1}
  Known = {{}}
  Fault = {}
CHECK_DEADLOCK FALSE
INVARIANT NewPodVisible
