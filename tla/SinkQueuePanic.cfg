SPECIFICATION Spec
CONSTANTS
  j1 = j1  j2 = j2  j3 = j3  j4 = j4
  Jobs = {j1, j2, j3, j4}
  Budget = 1
  Faulty = {j1}
  NoJob = NoJob
SYMMETRY Symmetry
CHECK_DEADLOCK FALSE
INVARIANTS
  StepsNeverOverlap
PROPERTIES
  StepsAreKept
