CONSTANTS
  c1 = c1  c2 = c2
  Calls = {c1, c2}
  Requests <- MCRequests
  Names <- MCNames
  DebugName <- MCDebugName
  Slashed = {"a/b"}
  Claude = {"result", "assistant", "malformed"}
  Codex = {"agent_message", "thread.started", "error"}
  MaxTime = 1
  MaxLines <- MCMaxLines
SPECIFICATION MCSpec
INVARIANTS
  TypeOK
  AnswerIsFinal
  NoAnswerWithError
  FailureLeavesTrace
  SchemaIsOwn
  SchemaDirLasts
  LogPairsUp
CHECK_DEADLOCK FALSE
