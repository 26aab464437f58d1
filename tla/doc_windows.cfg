CONSTANTS
  r1 = r1  r2 = r2  h1 = h1  h2 = h2  p1 = p1  p2 = p2
  Runs = {r2}
  Streams = {r2}
  Helpers = {h1}
  Pids = {p1}
  NoPid = NoPid
  Unix = FALSE
  Escapes = FALSE
  ReadErrors = FALSE
  MaxSignals = 1
SPECIFICATION FairSpec
PROPERTY
  SignalEndsCall
CHECK_DEADLOCK FALSE
