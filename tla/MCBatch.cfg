\* Two writers; every operation kind with every verb the kind is meant for.
SPECIFICATION Spec
CONSTANTS
  Connections = {c1, c2}
  Keys = {1, 2}
  Verbs = {"select", "insert", "ignore", "upsert", "bare", "delete", "create", "with"}
  MaxBatch = 2
  MaxFaults = 1
INVARIANTS
  TypeOK
  NoTransactionLeft
  ResultsTrue
PROPERTIES
  CallsReturn
  ImplementsStore
