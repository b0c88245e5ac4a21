SPECIFICATION Spec
CONSTANTS
  Key = {"a", "b"}
  Rank <- MCRank
  Pkg = {"a", "b"}
  Names <- MCNames
  MaxVersion = 2
  Meaning = {"m1", "m2"}
  DepsOf <- SharedDeps
  MeaningOf <- Distinct
  RootBids <- SharedRoots
  MaxEngine = 1
  FirstListed <- AllReleases
  Verbs = {"sync", "get"}
  Faults = {}
  MaxFaults = 0
INVARIANT ErrorMeansBroken
