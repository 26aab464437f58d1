CONSTANTS
  Parts = {"terminal", "install", "prompt", "schema", "union"}
  KeysOf <- MCKeysOf
  BufSize = 5
  MaxKeys = 4
  Installs <- MCInstalls
  BinOf <- MCBinOf
  DefaultDirs <- MCDefaultDirs
  NoDir = "NoDir"
  Paths <- MCPaths
  Disks <- MCDisks
  ValidKeys = {"x", "y"}
  Templates <- MCTemplates
  ParamMaps <- MCParamMaps
  Graphs <- MCGraphs
  Roots = {"A"}
  MaxDepth = 8
  VariantLists <- MCVariantLists
SPECIFICATION Spec
INVARIANTS
  TermTypeOK DecodesKeys LineStartIsLine
  InstallTypeOK FoundResolves
  VerdictIsOrderless OnePass DebugShowsPrompt LeftoversAreTemplates
  VisitingIsOpen VerdictExact 
  UnionVerdict MergedField
PROPERTIES PathKeepsDirs WalkEnds
\* Calls end: every part stops when its calls are made.
CHECK_DEADLOCK FALSE
