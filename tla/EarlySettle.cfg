SPECIFICATION Spec
CONSTANTS
  Docs <- Knots
  Form <- MCForm
  Atom <- MCAtom
  Concrete = {"1"}
  Above <- MCAbove
  Unclear <- MCUnclear
  Domainless = {"len0"}
  Sample = {}
  Passes <- MCPasses
  Counts <- MCCounts
INVARIANT SettledIsRight
CHECK_DEADLOCK FALSE
