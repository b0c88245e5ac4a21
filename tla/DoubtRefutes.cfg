SPECIFICATION Spec
CONSTANTS
  Docs <- MCDoubt
  Form <- MCForm
  Atom <- MCAtom
  Concrete = {"1"}
  Above <- MCAbove
  Unclear <- MCUnclear
  Domainless = {"len0"}
  Sample <- MCSample
  Passes <- MCPasses
  Counts <- MCCounts
INVARIANT NoNamesAValue
CHECK_DEADLOCK FALSE
