\* A plan of up to two subtasks, an agent of two turns with two tool uses
\* each and one retry, an external agent over one plain and one skipped file.
CONSTANTS
  MaxTurns = 2
  MaxRetries = 1
  MaxUses = 2
  File = {"source", "git"}
  Skipped = {"git"}
  Team = {"agent", "cli", "guest"}
  MaxSubtasks = 2
SPECIFICATION FairSpec
INVARIANTS
  ConversationFaithful
  LedgerBindsWork
  ReturnsWhatItProves
PROPERTIES
  Settles
\* An orchestration runs once.
CHECK_DEADLOCK FALSE
