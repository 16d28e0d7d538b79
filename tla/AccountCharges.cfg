\* Two completions, a provisioning and a revocation race for one account; any
\* query, append or process may fail.
CONSTANTS
  Completion = {c1, c2}
  Provision = {p1}
  Revocation = {o1}
  Demand = {2}
  Metered = {0, 3}
  Limit = 2
  QueryMayFail = TRUE
SPECIFICATION Spec
SYMMETRY Alike
INVARIANTS
  TrailExplainsAnswer
  EntitledWhenRouted
  ChargesInOrder
  DebitsAddUp
\* The requests end.
CHECK_DEADLOCK FALSE
