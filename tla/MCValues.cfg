\* Integers of four bits, reals exact up to 4, blobs of one byte of two bits.
SPECIFICATION Spec
CONSTANTS
  Top = 8
  Exact = 4
  MaxByte = 3
  Columns = {1, 2}
  MaxCopies = 2
CHECK_DEADLOCK FALSE
INVARIANTS
  NothingAltered
  ReadsBack
  LookupTrue
PROPERTIES
  CopyExact
  ParametersArrive
