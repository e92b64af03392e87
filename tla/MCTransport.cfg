SPECIFICATION Spec
CONSTANTS
  MaxOperations = 2
  MaxAttempts = 2
INVARIANTS TypeOK OnlyWritesStored DoubledOnlyIfOpen
PROPERTIES CallReturns ImplementsDelivery
CHECK_DEADLOCK FALSE
