\* Two threads, a path with an alias; every failure and one other program.
SPECIFICATION Spec
CONSTANTS
  Connections = {c1, c2}
  Spellings = {"direct", "alias"}
  MaxRecoveries = 2
  MaxReplaced = 1
  MaxFaults = 2
SYMMETRY Interchangeable
INVARIANTS
  CountsExact
  RecoveriesApart
  ReadIsArchived
  OrphansWereLate
PROPERTIES
  GuardTells
