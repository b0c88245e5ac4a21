SPECIFICATION Spec
CONSTANTS
  Key = {"b", "c", "d", "e"}
  Rank <- MCRank
  Pkg = {"b", "c", "d", "e"}
  Names <- MCNames
  MaxVersion = 2
  Meaning = {"m1", "m2"}
  DepsOf <- SharedPlaceDeps
  MeaningOf <- MixedMeaning
  RootBids <- SharedPlaceRoots
  MaxEngine = 1
  FirstListed <- AllReleases
  Verbs = {"sync"}
  Faults = {}
  MaxFaults = 0
INVARIANT OfflineBuild
