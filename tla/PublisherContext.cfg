SPECIFICATION Spec
CONSTANTS
  Key = {"a", "b", "p", "q", "bad"}
  Rank <- MCRank
  Pkg = {"a", "b", "p", "q"}
  Names <- MCNames
  MaxVersion = 2
  Meaning = {"m1"}
  DepsOf <- Tangle
  MeaningOf <- OneMeaning
  Client = {"x"}
  Wanted <- AllWanted
  FirstPublished <- TangleFirst
  Fickle <- Moving
  Moved <- Moving
  MaxDepth = 3
  MaxClosure = 4
  Mishaps = {}
  MaxMishaps = 1
INVARIANT InPublishersContext
