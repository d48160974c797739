\* Four students: two may eat at once, and each comes back to wait once more.
SPECIFICATION Spec
CONSTANTS
  NumStudents = 4
  MaxCycles = 2
  MaxSpurious = 1
INVARIANTS
  TypeOK
  SpoonExclusion
  NoLostWakeup
  LogConsistent
PROPERTIES
  AllJoined
  ImplementsTable
