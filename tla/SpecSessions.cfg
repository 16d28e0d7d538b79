\* Room for two sessions of three; one spec of three transitions.
CONSTANTS
  Session = {s1, s2, s3}
  SpecId = {sp1}
  Steps = 3
  MaxResident = 2
  MaxFaults = 2
SPECIFICATION SpecSessionsSpec
SYMMETRY SessionsAlike
INVARIANTS
  CitationsHold
  SpecFilesAgree
\* The requests end.
CHECK_DEADLOCK FALSE
