SPECIFICATION Spec
CONSTANTS
  MaxVersion = 3
  Publisher = {"p", "q"}
  Builds <- MCBuilds
  Against = {"q"}
  Retracts <- MCRetracts
  Moved <- MCMoved
  Breaking <- MCBreaking
  Mishaps = {"crash", "outage"}
  MaxMishaps = 1
INVARIANT TypeOK
INVARIANT ListedIsComplete
INVARIANT ProxyKeepsGood
INVARIANT NeverRolledBack
PROPERTY SendIsWhole
PROPERTY MoveIsFinal
PROPERTY NeverReused
PROPERTY GateIsCurrent
