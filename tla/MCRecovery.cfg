\* Quiesced directory, except for entries created at unused names.
SPECIFICATION Spec
CONSTANTS
  N = 3
  MaxForeign = 1
  MaxDisplaced = 0
  MaxFaults = 2
INVARIANTS
  TypeOK
  OriginalNeverLost
  ActivationIsDurable
  SuccessHolds
  FailureRestores
  DatabaseWhole
PROPERTIES
  NothingDestroyed
  Returns
  ImplementsCustody
