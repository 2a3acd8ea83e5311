\* A multi-network pod is added, its network definition changes or goes
\* away, and the pod is deleted: teardown looks the tables up again.
CONSTANTS
  Pods = {p1}
  VrfIds = {t1, t2, t3, t4}
  PblIds = {b1, b2}
  Networks = {n1}
  MainTable = main
  PuntTable = punt
  PodVRFIndex = podvrf
  NetTables = {nt1, nt2}
  NoNet = NoNet
  NoDef = NoDef
  NoId = NoId
  FailedAllocID = zero
  n1 = n1
  nt1 = nt1
  nt2 = nt2
  Configs <- NetLeakConfigs
  Definitions <- NetDefinitions
  InjectFailures = FALSE
  ArbitraryIds = TRUE
  VrfOrder <- VrfSeq
  PblOrder <- PblSeq
  MaxAttach = 1
  MaxRegistryChanges = 1
SPECIFICATION Spec
INVARIANT TeardownLeavesNothing
SYMMETRY Symm
CHECK_DEADLOCK FALSE
