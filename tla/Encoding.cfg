\* Digit strings of up to seven digits, numbers of up to three bytes,
\* every kind of response.
SPECIFICATION Spec
CONSTANTS
  Base = 2
  HalfWidth = 2
  MaxDigits = 7
  MaxData = 2
  MaxReturn = 4
  Nil = Nil
  Numbers <- SmallNumbers
INVARIANTS
  EstimateReadsPairs
  PackIntSplits
  PaymasterFieldsSplit
  ErrorIsReported
  AnswerIsTheirs
CHECK_DEADLOCK FALSE
