CONSTANTS
  Parts = {"terminal"}
  KeysOf <- MCInterrupt
  BufSize = 5
  MaxKeys = 2
  Installs <- MCInstalls
  BinOf <- MCBinOf
  DefaultDirs <- MCDefaultDirs
  NoDir = "NoDir"
  Paths <- MCPaths
  Disks <- MCDisks
  ValidKeys = {"x", "y"}
  Templates <- MCTemplates
  ParamMaps <- MCParamMaps
  Graphs <- MCGraphs
  Roots = {"A"}
  MaxDepth = 8
  VariantLists <- MCVariantLists
SPECIFICATION Spec
INVARIANT CtrlCInterrupts
CHECK_DEADLOCK FALSE
