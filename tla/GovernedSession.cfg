\* A driver of up to four steps; any await may abort, any emission throw or be
\* impossible to mint.
CONSTANTS
  MaxSteps = 4
  SinkMayThrow = TRUE
  MintMayFail = TRUE
SPECIFICATION FairSpec
INVARIANTS
  SealVerifies
  SealCounts
  CancellationWins
  AbortStopsEffects
  TruthfulFeedback
PROPERTIES
  KeepsContract
  EventuallyEnds
\* A session runs once, and ends.
CHECK_DEADLOCK FALSE
