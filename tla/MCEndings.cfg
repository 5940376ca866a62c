SPECIFICATION MCSpec
CONSTANTS
  Helpers = {"h1", "h2"}
  Denials = "any"
  Documents = {"d1", "d2", "d3"}
  Limit = 2
  MaxEdits = 6
  Reports <- ShortReports
  WorkerLimit = 2
  Lookahead = 1
  ChunkCapacity = 1
  Pieces = 2
INVARIANTS
  TypingIsServed
  RunsSettleCleanly
  ReportIsSequential
PROPERTIES
  OwedIsServed
  ComesToRest
CHECK_DEADLOCK FALSE
