SPECIFICATION MCSpec
CONSTANTS
  Paths <- LoadPaths
  YamlNames <- LoadYamlNames
  JinjaNames <- LoadJinjaNames
  Plays <- LoadPlays
  Broken <- LoadBroken
  Declares <- LoadDeclares
  Reads <- LoadNothing
  Copies <- LoadNothing
  Worlds <- LoadWorlds
  Requests <- LoadRequests
  Contents <- LoadContents
  LinkTargets <- LoadLinkTargets
  IgnoreRules <- LoadIgnoreRules
  MaxMoves = 1
  Readers = 2
  ChangedPaths <- ChainPaths
  ChangedYamlNames <- MCYamlNames
  ChangedJinjaNames <- MCJinjaNames
  ChangedPlays <- MCPlays
  ChangedBroken <- MCBroken
  ChangedDeclares <- MCDeclares
  ChangedReads <- MCReads
  ChangedCopies <- MCCopies
  Commits <- ChainCommits
  Edits <- MCEdits
  ChangedTargets <- ChainTargets
  ChangedRules <- MCIgnoreRules
  Configs <- MCConfigs
  ChangedMoves = 1
  Parts = {"changed"}
INVARIANTS ResolvedBytesAreSelected
CHECK_DEADLOCK FALSE
