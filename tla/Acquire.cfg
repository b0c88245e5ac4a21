SPECIFICATION Spec
CONSTANTS
  Key = {"a", "b", "p", "q", "bad"}
  Rank <- MCRank
  Pkg = {"a", "b", "p", "q"}
  Names <- MCNames
  MaxVersion = 2
  Meaning = {"m1"}
  DepsOf <- Tangle
  MeaningOf <- OneMeaning
  Client = {"x", "y"}
  Wanted <- TangleWanted
  FirstPublished <- TangleFirst
  Fickle <- Moving
  Moved <- Moving
  MaxDepth = 3
  MaxClosure = 4
  Mishaps = {"publish", "rollback", "withdraw", "crash", "unreachable"}
  MaxMishaps = 1
INVARIANT TypeOK
INVARIANT StoreIsVerified
INVARIANT CacheStandsAlone
INVARIANT AcquiredIsFiled
PROPERTY NoRollbackTaken
