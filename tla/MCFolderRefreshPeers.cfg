SPECIFICATION MCSpec
CONSTANTS
  Folders = {"one", "two"}
  Sources = {"dir", "link"}
  Realpath <- OneDirectory
  Documents = {"doc"}
  None = "none"
  MaxInputs = 3
  rootA = rootA
  rootB = rootB
  Roots = {rootA}
  Files = {x, y}
  OpenDocuments = {}
  Controls = {}
  FolderOf <- OneRoot
  Vanishing = {x}
  Asked = {}
  MayDispose = FALSE
  MaxEvents = 3
  Settings = {"own"}
INVARIANTS ClosedFilesAreCurrent
CONSTRAINT Covered
CHECK_DEADLOCK FALSE
