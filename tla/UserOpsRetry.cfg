\* Two objects of one account, two calls each, every configuration.
SPECIFICATION Spec
CONSTANTS
  o1 = o1
  o2 = o2
  o3 = o3
  a1 = a1
  Nil = Nil
  Ops <- AllOps
  Accounts <- OneAccount
  Sender <- SenderOf
  Configs <- AllConfigs
  MaxCalls = 2
SYMMETRY Symmetry
INVARIANTS
  TypeOK
  FilledOnce
  OneExecutionHash
  AtMostOnce
  PaymasterCoversOp
  ReturnedHashIsExecuted
PROPERTIES
  ImplementsOpLedger
  HashStableOnceDeployed
CHECK_DEADLOCK FALSE
