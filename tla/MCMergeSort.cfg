\* h = -1, 0, 1 and 2: no thread but the root, one, three and seven.
SPECIFICATION Spec
CONSTANTS
  Inputs <- MCInputs
  ThreadArgs = {1, 3, 7, 8}
  MaxLen = 3
INVARIANTS
  TypeOK
  HandlesKept
  NoRace
  Sorted
  AbortsIffTooSmall
PROPERTIES
  Ends
