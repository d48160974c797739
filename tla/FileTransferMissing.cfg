\* A file that is not on the system.
SPECIFICATION Spec
CONSTANTS
  u1 = u1
  u2 = u2
  f1 = f1
  f2 = f2
  Users = {u1}
  Files = {f1}
  NoFile = NoFile
  HeaderLen = 2
  NameLen = 3
  Chunk = 2
  MaxFds = 3
  MaxSize = 1
  Bounds <- MCOne
INVARIANT ServerSurvives
CHECK_DEADLOCK FALSE
