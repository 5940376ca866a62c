SPECIFICATION MCSpec
CONSTANTS
  HeaderLimit = 7
  Comments = {"c1", "c2"}
  Codes = {"v1", "v2"}
  Literals <- AllLiterals
  Numbers <- NumberTexts
  ComponentOf <- Components
  RoleVariable <- Variables
  DiagnosticLimit = 128
  TagLimit = 4096
  BlockLimit = 128
  TokenLimit = 512
  TotalTokens = 32768
  DelimiterLimit = 32
  Letters = {"a"}
  Digits = {"1"}
  MaxEdits = 2
  MaxCharacters = 4
  MaxPhrases = 5
  MaxTags = 3
  Vocabularies <- Small
  Shapes <- SomeScalars
  PathOrder <- Order
  RoleOfPath <- RolesOfPaths
  MainPaths <- Mains
  TemplatePath <- Templates
  AdapterLiteral <- AdapterLiterals
  InitialProjects <- SomeProjects
  TaskEdits <- SomeTasks
  TemplateEdits <- SomeTemplates
  Declarations <- SomeDeclarations
  Dashed <- DashedParts
  NotLiteral = {""}
INVARIANTS
  ExpressionsHaveOneReading
  RepairsAreFinal
  FixesKeepComments
  TagsAreDelimited
  TemplatesAreScanned
  ContractIsReported
  LookupsHaveOneAnswer
PROPERTIES
  SelectionMovesFindings
  BrokenFilesMoveNoLookup
CHECK_DEADLOCK FALSE
