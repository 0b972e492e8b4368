\* Check against its declarative meaning, for every list of the bound.
CONSTANTS
  MaxLen = 3
  Top = 2
  Lists <- MCLists
SPECIFICATION Spec
INVARIANTS TypeOK VerdictCorrect
