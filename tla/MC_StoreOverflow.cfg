\* A pod whose spec holds a 40000-byte string is saved and the agent
\* restarts: the int16 length prefix does not read back.
CONSTANTS
  Keys = {k1, k2}
  SpecIds = {s1, s2}
  Lengths <- LongLengths
  Version = 9
  InjectIOErrors = FALSE
  MaxUpdates = 3
  MaxCrashes = 1
SPECIFICATION Spec
INVARIANT DiskHoldsLastSave
CHECK_DEADLOCK FALSE
