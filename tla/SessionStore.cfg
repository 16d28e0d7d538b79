\* Two runs into one directory, two exports into one pack, one alteration.
CONSTANTS
  Lengths = {5, 6}
  MaxRuns = 2
  MaxExports = 2
  MaxTampers = 1
SPECIFICATION Spec
INVARIANTS
  PersistedLoads
  GreenPackProves
  CalmExportIsGreen
PROPERTIES
  AlteredPackIsRed
\* The bounds stop the runs.
CHECK_DEADLOCK FALSE
