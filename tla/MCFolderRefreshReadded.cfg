SPECIFICATION MCSpec
CONSTANTS
  Folders = {"one", "two"}
  Sources = {"dir", "link"}
  Realpath <- OneDirectory
  Documents = {"doc"}
  None = "none"
  MaxInputs = 3
  rootA = rootA
  rootB = rootB
  Roots = {rootA, rootB}
  Files = {x}
  OpenDocuments = {d}
  Controls = {}
  FolderOf <- TwoRoots
  Vanishing = {}
  Asked = {}
  MayDispose = FALSE
  MaxEvents = 2
  Settings = {"own"}
INVARIANTS OpenDocumentsAreChecked
CHECK_DEADLOCK FALSE
CONSTRAINT LastMarked
