\* First fills only, no paymaster address configured.
SPECIFICATION Spec
CONSTANTS
  o1 = o1
  o2 = o2
  o3 = o3
  a1 = a1
  Nil = Nil
  Ops <- TwoOps
  Accounts <- OneAccount
  Sender <- SenderOf
  Configs <- NoPaymaster
  MaxCalls = 1
INVARIANT
  SignedAsSent
CHECK_DEADLOCK FALSE
