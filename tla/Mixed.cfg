SPECIFICATION Spec
CONSTANTS
  Key = {"a", "alias:b", "b", "c", "bad key!"}
  Rank <- MCRank
  Pkg = {"a", "b", "c"}
  Names <- MCNames
  MaxVersion = 2
  Meaning = {"m1", "m2"}
  DepsOf <- MixedDeps
  MeaningOf <- MixedMeaning
  RootBids <- MixedRoots
  MaxEngine = 1
  FirstListed <- AllReleases
  Verbs = {"sync", "frozen", "tidy"}
  Faults = {"clean", "refuse"}
  MaxFaults = 0
INVARIANT LockIsHighestMinima
INVARIANT TreesFound
