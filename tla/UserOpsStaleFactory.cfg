\* A refill after the account was deployed, fully configured client.
SPECIFICATION Spec
CONSTANTS
  o1 = o1
  o2 = o2
  o3 = o3
  a1 = a1
  Nil = Nil
  Ops <- TwoOps
  Accounts <- OneAccount
  Sender <- SenderOf
  Configs <- FullConfig
  MaxCalls = 2
INVARIANT
  SignedAsSent
CHECK_DEADLOCK FALSE
