\* Secret cache with sweeps that keep every watched secret.
CONSTANTS
  Names = {a, b}
  Vals = {v1, v2}
  Nil = nil
  NoEvent = noevent
  SweepNames = {}
  MaxWatches = 2
  MaxChanges = 3
  MaxSweeps = 1
SPECIFICATION Spec
INVARIANT CacheStaleOnlyWhilePending
PROPERTY ClientConverges
