\* Every combination of four intervals, six timeouts and four latencies.
SPECIFICATION FairSpec
CONSTANTS
  Settings <- AllSettings
INVARIANTS
  TypeOK
  NoReceiptMissed
  ReturnsInTime
  PollsKeepUp
PROPERTY
  Returns
CHECK_DEADLOCK FALSE
