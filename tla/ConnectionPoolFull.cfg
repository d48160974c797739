\* A queue of one, and no accept that fails.
SPECIFICATION Spec
CONSTANTS
  Clients = {c1, c2, c3}
  Workers = {w1, w2}
  Capacity = 1
  BadFd = BadFd
  NoFd = NoFd
  MainThread = MainThread
  MaxMishaps = 0
INVARIANTS
  EveryRequestKept
CHECK_DEADLOCK FALSE
