\* One session over any power; two answers may come again or late.
CONSTANTS
  Duplicates = 2
SPECIFICATION FairSpec
INVARIANTS
  OwnAnswers
  NothingOutlives
  HonestOutcome
PROPERTIES
  SessionFinishes
\* The session ends.
CHECK_DEADLOCK FALSE
