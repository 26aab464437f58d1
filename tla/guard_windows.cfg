CONSTANTS
  r1 = r1  r2 = r2  h1 = h1  h2 = h2  p1 = p1  p2 = p2
  Runs = {r1, r2}
  Streams = {r2}
  Helpers = {h1}
  Pids = {p1, p2}
  NoPid = NoPid
  Unix = FALSE
  Escapes = FALSE
  ReadErrors = TRUE
  MaxSignals = 1
SYMMETRY PidSymmetry
SPECIFICATION Spec
INVARIANT
  OwnKillReportsInterrupted
PROPERTIES
  ImplementsGuardedCall
CHECK_DEADLOCK FALSE
