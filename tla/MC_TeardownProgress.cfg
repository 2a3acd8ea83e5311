\* CNI add then CNI del of v4, multi-network and dual-stack pods against a
\* dataplane that only refuses impossible calls and hands out ids in order:
\* teardown completeness, and every add completes.
CONSTANTS
  Pods = {p1, p2}
  VrfIds = {t1, t2, t3, t4}
  PblIds = {b1, b2}
  Networks = {n1}
  MainTable = main
  PuntTable = punt
  PodVRFIndex = podvrf
  NetTables = {nt1, nt2}
  NoNet = NoNet
  NoDef = NoDef
  NoId = NoId
  FailedAllocID = zero
  n1 = n1
  nt1 = nt1
  nt2 = nt2
  Configs <- TeardownConfigs
  Definitions <- NetDefinitions
  InjectFailures = FALSE
  ArbitraryIds = FALSE
  VrfOrder <- VrfSeq
  PblOrder <- PblSeq
  MaxAttach = 1
  MaxRegistryChanges = 0
SPECIFICATION Spec
INVARIANT TeardownLeavesNothing
PROPERTY EventuallyUp
CHECK_DEADLOCK FALSE
