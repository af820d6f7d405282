CONSTANTS
  Items <- SomeItems
  MaxRetry = 3
  ParserSignals = TRUE

SPECIFICATION FairSpec
INVARIANTS
  ExitNamesFailure
  GivesUpAfterAllAttempts
  ReadyWhenAllAcked
PROPERTIES
  StaysRegistered
  Settles

\* The process ends, or runs on with nothing left to start.
CHECK_DEADLOCK FALSE
