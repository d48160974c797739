\* The server's user may stop, and the client then waits.
SPECIFICATION Spec
CONSTANTS
  Plans <- MCPlans
  MaxBlocks = 2
  MaxFlips <- MCMaxFlips
  MaxAstray = 1
INVARIANTS TypeOK NoFalseAlarm ReportsByDivision OneFlipIsSeen
CHECK_DEADLOCK FALSE
