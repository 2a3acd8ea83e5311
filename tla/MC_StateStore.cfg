\* Two pods added and deleted with their saves interrupted by crashes at
\* every step and by I/O errors: a restart loads the last completed save.
CONSTANTS
  Keys = {k1, k2}
  SpecIds = {s1, s2}
  Lengths <- ShortLengths
  Version = 9
  InjectIOErrors = TRUE
  MaxUpdates = 4
  MaxCrashes = 3
SPECIFICATION Spec
INVARIANT DiskHoldsLastSave
CHECK_DEADLOCK FALSE
