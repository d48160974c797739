\* Two processes are killed or not forked. Nobody need type: the system may stop.
SPECIFICATION FairSpec
CONSTANTS
  PipeSize = 2
  ReadSize = 2
  MaxLines = 3
  MaxReports = 1
  MaxMishaps = 2
INVARIANTS TypeOK EndsAreHeld ShownIsWritten
PROPERTY EachLineShown
CHECK_DEADLOCK FALSE
