\* The clients are finite in number: the server ends up blocked in accept, or has exited.
SPECIFICATION Spec
CONSTANTS
  Clients = {c1, c2, c3}
  Workers = {w1, w2}
  Capacity = 2
  BadFd = BadFd
  NoFd = NoFd
  MainThread = MainThread
  MaxMishaps = 1
INVARIANTS
  TypeOK
  OneOwner
  NoLostSignal
PROPERTIES
  QueuedIsServed
  ImplementsQueue
CHECK_DEADLOCK FALSE
