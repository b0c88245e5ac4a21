SPECIFICATION Spec
CONSTANTS
  MaxVersion = 3
  Publisher = {"p"}
  Builds <- AllBuilds
  Against = {}
  Retracts <- MCRetracts
  Moved = {}
  Breaking = {}
  Mishaps = {"outage"}
  MaxMishaps = 1
PROPERTY RetractedNotChosen
