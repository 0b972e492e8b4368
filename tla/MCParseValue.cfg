\* Sets of more than two points turn into ranges; exponents from -2 to 2.
CONSTANTS
  MaxDiscretePoints = 2
  MaxFactorial = 3
  MinInt <- MCMinInt
  MaxInt = 2
  Atoms = {1, 2}
  MaxDepth = 3
  MaxOps = 4
  Numerals <- MCNumerals
  InBraces <- MCInBraces
SPECIFICATION Spec
INVARIANTS ValuesAreWellFormed ValuesEnclose ReadsWhatIsMeant
CHECK_DEADLOCK FALSE
