\* The table of the source, no spurious wake-ups.
SPECIFICATION HistorySpec
CONSTANTS
  NumStudents = 5
  MaxCycles = 2
  MaxSpurious = 0
PROPERTIES
  LongestWaitFirst
