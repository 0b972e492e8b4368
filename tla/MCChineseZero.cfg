\* Chinese numbers with a zero before tens; no operators.
CONSTANTS
  MaxDiscretePoints = 2
  MaxFactorial = 3
  MinInt <- MCMinInt
  MaxInt = 2
  Atoms = {0}
  MaxDepth = 1
  MaxOps = 0
  Numerals <- MCChineseZero
  InBraces <- MCInBraces
SPECIFICATION Spec
INVARIANTS ScalesMultiplyOneDigit
CHECK_DEADLOCK FALSE
