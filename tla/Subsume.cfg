SPECIFICATION LiveSpec
CONSTANTS
  Docs <- MCDocs
  Form <- MCForm
  Atom <- MCAtom
  Concrete = {"1"}
  Above <- MCAbove
  Unclear <- MCUnclear
  Domainless = {"len0"}
  Sample <- MCSample
  Passes <- MCPasses
  Counts <- MCCounts
INVARIANT TypeOK
INVARIANT VerdictIsGreatest
INVARIANT YesIsBelow
INVARIANT NoHasWitness
PROPERTY WalkEnds
CHECK_DEADLOCK FALSE
