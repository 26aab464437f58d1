CONSTANTS
  Parts = {"schema"}
  KeysOf <- MCKeysOf
  BufSize = 5
  MaxKeys = 1
  Installs <- MCInstalls
  BinOf <- MCBinOf
  DefaultDirs <- MCDefaultDirs
  NoDir = "NoDir"
  Paths <- MCPaths
  Disks <- MCDisks
  ValidKeys = {"x", "y"}
  Templates <- MCTemplates
  ParamMaps <- MCParamMaps
  Graphs <- MCGraphs
  Roots = {"A"}
  MaxDepth = 8
  VariantLists <- MCVariantLists
SPECIFICATION Spec
INVARIANT RecursionIsRefused
CHECK_DEADLOCK FALSE
