\* Each event of the bindings, up to three logs, a channel of two.
SPECIFICATION FairSpec
CONSTANTS
  Bindings <- AllBindings
  MaxLogs = 3
  Buffer = 2
INVARIANTS
  TypeOK
  DeliversInOrder
  FalseTellsTheTruth
PROPERTIES
  FailureIsFinal
  NextReturns
  CloseReleases
CHECK_DEADLOCK FALSE
