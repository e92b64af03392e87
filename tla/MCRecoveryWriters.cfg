\* Other writers also replace entries, between any two system calls.
SPECIFICATION Spec
CONSTANTS
  N = 2
  MaxForeign = 1
  MaxDisplaced = 1
  MaxFaults = 1
INVARIANTS
  CustodyInv
PROPERTIES
  IntruderNoticed
