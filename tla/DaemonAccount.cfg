CONSTANTS
  Login = {l1}
  Session = {s1}
  Query = {q1}
  Hook = {h1}
  Steer = {c1}
  Power = {p1}
  MaxChanges = 2
  MaxFaults = 2
SPECIFICATION AccountSpec
INVARIANTS
  PlanOfOneAccount
PROPERTIES
  RestartKeepsAcked
\* The requests end.
CHECK_DEADLOCK FALSE
