\* A secret swept and watched again: the stopped controller's late callback
\* against the cache staying in step with the API server.
CONSTANTS
  Names = {a}
  Vals = {v1, v2}
  Nil = nil
  NoEvent = noevent
  SweepNames = {a}
  MaxWatches = 2
  MaxChanges = 2
  MaxSweeps = 1
SPECIFICATION Spec
INVARIANT CacheStaleOnlyWhilePending
CHECK_DEADLOCK FALSE
