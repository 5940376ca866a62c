SPECIFICATION MCSpec
CONSTANTS
  Sources = {a, b}
  Files = {f}
  Reads <- ReadsAll
  MaxVersion = 2
  MaxMoves = 0
  EventLimit = 9
  Settings = {"own"}
PROPERTIES
  AcceptsNothingLate
CHECK_DEADLOCK FALSE
