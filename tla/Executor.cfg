\* Two goroutines, a rotation of no or one key that another, or the same, may join, three calls.
SPECIFICATION FairSpec
CONSTANTS
  g1 = g1
  g2 = g2
  k1 = k1
  k2 = k2
  a = a
  b = b
  Nil = Nil
  Owner = k1
  Goroutines <- TwoGoroutines
  Signers <- TwoSigners
  Joining <- TwoSigners
  Deadlined <- OneGoroutine
  Configs <- TwoConfigs
  MaxKeys = 2
  Initials <- Rotations
  Senders <- TwoSenders
  Programs <- Repeats
INVARIANTS
  TypeOK
  ClashOnlyIfLapped
  ExecutedIsNotResent
  SentOncePerCall
  PrefundIsThere
  OwnerIsDeployed
  Accounted
PROPERTY
  CallsReturn
CHECK_DEADLOCK FALSE
