\* Two chat turns and the task of a command.
CONSTANTS
  Turn = {t1, t2}
  Task = {k1}
  Evidence = 1
  MaxClicks = 1
  InFlight = 1
SPECIFICATION Spec
SYMMETRY Alike
INVARIANTS
  EvidenceInPlace
  OneAbortReachesAll
\* The runs end.
CHECK_DEADLOCK FALSE
