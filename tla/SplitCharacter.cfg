SPECIFICATION Spec
CONSTANTS
  x = x
  y = y
  Uri = {x, y}
  Text = {"plain", "wide"}
  Wide = {"wide"}
  Setting = {"confined"}
  Wires = {"frame", "line"}
  MaxSent = 2
  MaxOdd = 1
  MaxAhead = 2
SYMMETRY Alike
INVARIANT ReadAsSent
CHECK_DEADLOCK FALSE
