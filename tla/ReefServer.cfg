\* Two clients, one fleet and room for two sessions out of the three started.
CONSTANTS
  Client = {c1, c2}
  Fleet = {f1}
  FleetSize = 2
  MaxStarts = 3
  MaxEvents = 1
  MaxSessions = 2
  MaxSubscribers = 1
  MaxLate = 1
  Keyed = FALSE
  HasPersistDir = FALSE
  PersistMayFail = FALSE
SPECIFICATION FairSpec
INVARIANTS
  RunningStaysResident
  StreamsFaithful
  FleetBindsAll
PROPERTIES
  StreamsEnd
  FleetsSeal
\* The daemon may be closed, or all its sessions started.
CHECK_DEADLOCK FALSE
