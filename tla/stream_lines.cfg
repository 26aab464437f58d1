CONSTANTS
  Text = {"x"}
  PipeCap = 3
  StdinCap = 1
  PromptLen = 2
  MaxOutput = 5
  MaxWrite = 4
SPECIFICATION FairSpec
INVARIANTS
  TypeOK
  LinesDelivered
  BytesInOrder
PROPERTY CallEnds
CHECK_DEADLOCK FALSE
