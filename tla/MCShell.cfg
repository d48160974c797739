\* The user may stop typing: the system may stop.
SPECIFICATION FairSpec
CONSTANTS
  Lines <- MCLines
  Files <- MCFiles
  Dirs <- MCDirs
  Home = "home"
  Nothing = "nothing"
  MaxDepth = 3
  Limits <- MCLimits
  MaxTyped = 3
  MaxLives = 2
INVARIANTS HistoryComplete CrashHasCause
PROPERTY LineEnds
CHECK_DEADLOCK FALSE
