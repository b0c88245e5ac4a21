SPECIFICATION Spec
CONSTANTS
  x = x
  y = y
  Uri = {x, y}
  Text = {"plain", "wide"}
  Wide = {"wide"}
  Setting = {"confined"}
  Wires = {"frame", "line"}
  MaxSent = 4
  MaxOdd = 1
  MaxAhead = 2
SYMMETRY Alike
INVARIANT TypeOK
INVARIANT HandledAsSent
INVARIANT ShownIsCurrent
INVARIANT AnsweredAsAsked
CHECK_DEADLOCK FALSE
