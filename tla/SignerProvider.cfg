\* Two goroutines, created empty or with two signers, any mix of six operations.
SPECIFICATION FairSpec
CONSTANTS
  g1 = g1
  g2 = g2
  k1 = k1
  k2 = k2
  Nil = Nil
  Goroutines <- TwoGoroutines
  Signers <- TwoSigners
  Initials <- NoneOrTwo
  MaxOps = 6
INVARIANTS
  TypeOK
  EvenShare
  HandleOpsGetsSigner
PROPERTIES
  ImplementsRotation
  OperationsReturn
CHECK_DEADLOCK FALSE
