SPECIFICATION Spec
CONSTANTS
  Key = {"a", "b"}
  Rank <- MCRank
  Pkg = {"a", "b"}
  Names <- MCNames
  MaxVersion = 2
  Meaning = {"m1", "m2"}
  DepsOf <- SharedDeps
  MeaningOf <- Distinct
  RootBids <- SharedRoots
  MaxEngine = 1
  FirstListed <- FirstReleases
  Verbs = {"sync", "frozen", "get", "remove"}
  Faults = {"crash", "throw", "damage", "hand", "publish"}
  MaxFaults = 1
INVARIANT TypeOK
INVARIANT OfflineBuild
INVARIANT MinimaAreMet
INVARIANT EmptyPinsAreRefused
INVARIANT TakenBack
PROPERTY KeepsPromise
