CONSTANTS
  r1 = r1  r2 = r2  h1 = h1  h2 = h2  p1 = p1  p2 = p2
  Runs = {r1, r2}
  Streams = {r2}
  Helpers = {h1}
  Pids = {p1, p2}
  NoPid = NoPid
  Unix = TRUE
  Escapes = TRUE
  ReadErrors = FALSE
  MaxSignals = 2
SYMMETRY PidSymmetry
SPECIFICATION Spec
INVARIANTS
  TypeOK
  GuardScoped
  OwnKillReportsInterrupted
  OkMeansWholeOutput
PROPERTIES
  SparesOthers
  GuardedCallsShieldHost
  ImplementsGuardedCall
CHECK_DEADLOCK FALSE
