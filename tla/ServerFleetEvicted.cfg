\* A session of a sealed fleet is evicted for a new one.
CONSTANTS
  Client = {c1}
  Fleet = {f1}
  FleetSize = 2
  MaxStarts = 3
  MaxEvents = 0
  MaxSessions = 2
  MaxSubscribers = 1
  MaxLate = 1
  Keyed = FALSE
  HasPersistDir = TRUE
  PersistMayFail = FALSE
SPECIFICATION Spec
INVARIANTS
  FleetVerdictCovers
\* The daemon may be closed, or all its sessions started.
CHECK_DEADLOCK FALSE
