\* One worker, two calls, two SIGINTs or errors; or two workers that share the
\* files. When the calls are used up the system may stop.
SPECIFICATION FairSpec
CONSTANTS
  w1 = w1
  w2 = w2
  m1 = m1
  m2 = m2
  m3 = m3
  Workers = {w1, w2}
  Magnets = {m1, m2, m3}
  NoMagnet = NoMagnet
  Pieces <- MCPieces
  MaxRequests = 1
  Bounds <- MCBounds
INVARIANTS TypeOK FinishedIsSaved TornByTwo
PROPERTY Leaves
CHECK_DEADLOCK FALSE
