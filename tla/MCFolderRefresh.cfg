SPECIFICATION MCSpec
CONSTANTS
  Folders = {"one", "two"}
  Sources = {"dir", "link"}
  Realpath <- OneDirectory
  Documents = {"doc"}
  None = "none"
  MaxInputs = 3
  rootA = rootA
  rootB = rootB
  Roots = {rootA}
  Files = {x, y}
  OpenDocuments = {}
  Controls = {c}
  FolderOf <- OneRoot
  Vanishing = {}
  Asked = {}
  MayDispose = TRUE
  MaxEvents = 2
  Settings = {"own", "two", "roots"}
INVARIANTS
  OwedAndArmed
  ClosedFilesSettle
  DocumentsAreOwed
  RootsAreCurrent
PROPERTIES
  ReadyMeansProbed
SYMMETRY FilesAlike
CHECK_DEADLOCK FALSE
