SPECIFICATION Spec
CONSTANTS
  Spelling = {0, 1}
  Length <- MCLength
  Address = {}
  Opens = {}
  Opaque = {}
  Holds = {}
  Dollar = 0
  AfterDot = 1
  KeyOrder <- MCKeyOrder
  Terms <- MCTerms
  Sample <- MCSample
  MaxTerms = 3
INVARIANT TypeOK
INVARIANT ChoiceIsExact
INVARIANT DefaultIsFree
CHECK_DEADLOCK FALSE
