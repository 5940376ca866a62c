SPECIFICATION MCSpec
CONSTANTS
  Sources = {a}
  Files = {f, g}
  Reads <- ReadsAll
  MaxVersion = 2
  MaxMoves = 1
  EventLimit = 9
  Settings = {"own", "shared"}
INVARIANTS
  StaleNoticed
PROPERTIES
  EventsCount
  SettlesFresh
CHECK_DEADLOCK FALSE
