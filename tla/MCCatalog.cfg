\* Two tables and two index names; other connections commit up to twice.
SPECIFICATION Spec
CONSTANTS
  Tables = {1, 2}
  Indexes = {i1, i2}
  MaxCommits = 2
SYMMETRY Interchangeable
INVARIANTS
  UniqueWasSo
  NoneForgotten
PROPERTIES
  UndisturbedTrue
\* The call ends.
CHECK_DEADLOCK FALSE
