\* A dual-stack pod with PBL port filtering is added and deleted: one PBL
\* client per address is created, only the last recorded one is deleted.
CONSTANTS
  Pods = {p1}
  VrfIds = {t1, t2, t3, t4}
  PblIds = {b1, b2}
  Networks = {n1}
  MainTable = main
  PuntTable = punt
  PodVRFIndex = podvrf
  NetTables = {nt1, nt2}
  NoNet = NoNet
  NoDef = NoDef
  NoId = NoId
  FailedAllocID = zero
  n1 = n1
  nt1 = nt1
  nt2 = nt2
  Configs <- PblLeakConfigs
  Definitions <- NetDefinitions
  InjectFailures = FALSE
  ArbitraryIds = TRUE
  VrfOrder <- VrfSeq
  PblOrder <- PblSeq
  MaxAttach = 1
  MaxRegistryChanges = 0
SPECIFICATION Spec
INVARIANT TeardownLeavesNothing
SYMMETRY Symm
CHECK_DEADLOCK FALSE
