SPECIFICATION LiveSpec
CONSTANTS
  Key = {"a", "b"}
  Rank <- MCRank
  Pkg = {"a", "b"}
  Names <- MCNames
  MaxVersion = 2
  Meaning = {"m1", "m2"}
  DepsOf <- CyclicDeps
  MeaningOf <- Distinct
  RootBids <- SharedRoots
  MaxEngine = 2
  FirstListed <- AllReleases
  Verbs = {"sync", "remove", "vendor", "refreeze"}
  Faults = {"hand", "clean", "refuse"}
  MaxFaults = 2
INVARIANT Idempotent
PROPERTY VerbsEnd
