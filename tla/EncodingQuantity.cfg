\* A few numbers on each side of every width.
SPECIFICATION Spec
CONSTANTS
  Base = 2
  HalfWidth = 2
  MaxDigits = 7
  MaxData = 2
  MaxReturn = 4
  Nil = Nil
  Numbers <- FewNumbers
INVARIANT
  QuantityIsExact
CHECK_DEADLOCK FALSE
