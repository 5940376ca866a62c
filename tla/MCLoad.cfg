SPECIFICATION MCSpec
CONSTANTS
  Paths <- LoadPaths
  YamlNames <- LoadYamlNames
  JinjaNames <- LoadJinjaNames
  Plays <- LoadPlays
  Broken <- LoadBroken
  Declares <- LoadDeclares
  Reads <- LoadNothing
  Copies <- LoadNothing
  Worlds <- LoadWorlds
  Requests <- LoadRequests
  Contents <- LoadContents
  LinkTargets <- LoadLinkTargets
  IgnoreRules <- LoadIgnoreRules
  MaxMoves = 1
  Readers = 2
  ChangedPaths <- MCPaths
  ChangedYamlNames <- MCYamlNames
  ChangedJinjaNames <- MCJinjaNames
  ChangedPlays <- MCPlays
  ChangedBroken <- MCBroken
  ChangedDeclares <- MCDeclares
  ChangedReads <- MCReads
  ChangedCopies <- MCCopies
  Commits <- MCCommits
  Edits <- MCEdits
  ChangedTargets <- MCLinkTargets
  ChangedRules <- MCIgnoreRules
  Configs <- MCConfigs
  ChangedMoves = 2
  Parts = {"changed", "load"}
INVARIANTS SourcesAreWhatTheyClaim LoadIsComplete ChangesAreSelected
CHECK_DEADLOCK FALSE
