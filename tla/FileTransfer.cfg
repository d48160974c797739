\* One user, three commands over two files, one header in pieces, file changed or copy not written;
\* or two users of the server. The users may stop typing: the system may stop.
SPECIFICATION FairSpec
CONSTANTS
  u1 = u1
  u2 = u2
  f1 = f1
  f2 = f2
  Users = {u1, u2}
  Files = {f1, f2}
  NoFile = NoFile
  HeaderLen = 2
  NameLen = 3
  Chunk = 2
  MaxFds = 3
  MaxSize = 3
  Bounds <- MCBounds
INVARIANTS TypeOK StreamIsFile CopyIsFile NoLeftovers StatIsTrue
PROPERTY Answered
CHECK_DEADLOCK FALSE
