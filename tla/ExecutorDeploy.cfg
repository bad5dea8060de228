\* DeployAccount with the address of the account.
SPECIFICATION Spec
CONSTANTS
  g1 = g1
  g2 = g2
  k1 = k1
  k2 = k2
  a = a
  b = b
  Nil = Nil
  Owner = k1
  Goroutines <- TwoGoroutines
  Signers <- TwoSigners
  Joining <- TwoSigners
  Deadlined <- OneGoroutine
  Configs <- Verifies
  MaxKeys = 2
  Initials <- NoRotation
  Senders <- TwoSenders
  Programs <- DeploysAddress
INVARIANT
  AccountIsDeployed
CHECK_DEADLOCK FALSE
