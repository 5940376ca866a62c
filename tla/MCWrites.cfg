SPECIFICATION MCSpec
CONSTANTS
  FileCount = 3
  Templates = {3}
  Contents <- ThreeContents
  Repaired <- RepairTable
  Dirty = {"messy", "stuck"}
  MaxMoves = 1
  MaxRuns = 2
  Commands = {1, 2}
  Asked <- Mixed
  Spelling <- ThroughLink
INVARIANTS
  FilesStayWhole
  RefusedBatchWritesNothing
  VerdictTellsDisk
  ScaffoldIsExact
PROPERTIES
  OnlyAdmittedFixesWrite
  NothingExistingIsReplaced
CHECK_DEADLOCK FALSE
