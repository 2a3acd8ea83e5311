\* Secret cache where SweepStale drops a watched secret.
CONSTANTS
  Names = {a}
  Vals = {v1, v2}
  Nil = nil
  NoEvent = noevent
  SweepNames = {a}
  MaxWatches = 2
  MaxChanges = 2
  MaxSweeps = 1
SPECIFICATION Spec
INVARIANT NoNilDeref
CHECK_DEADLOCK FALSE
