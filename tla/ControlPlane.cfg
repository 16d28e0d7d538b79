\* Any four of eight requests, for one e-mail address and one SSO user.
CONSTANTS
  Signup = {g1, g2}
  Provision = {p1}
  Login = {l1}
  Sso = {x1, x2}
  Revoke = {o1}
  Read = {r1}
  User = {u1}
  MaxRequests = 4
  QueryMayFail = TRUE
SPECIFICATION PlaneSpec
SYMMETRY Alike
INVARIANTS
  AnswersHold
  ServedUntilRevoked
\* The requests end.
CHECK_DEADLOCK FALSE
