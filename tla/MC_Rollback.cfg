\* Rollback completeness and isolation under injected dataplane failures at
\* every call: single-network pods (single and dual stack, memif, PBL,
\* strict RPF) or multi-network pods and an unparsable spoofing annotation
\* under network definition changes (the OneFamily constraint).
CONSTANTS
  Pods = {p1, p2}
  VrfIds = {t1, t2, t3}
  PblIds = {b1, b2}
  Networks = {n1}
  MainTable = main
  PuntTable = punt
  PodVRFIndex = podvrf
  NetTables = {nt1, nt2}
  NoNet = NoNet
  NoDef = NoDef
  NoId = NoId
  FailedAllocID = zero
  n1 = n1
  nt1 = nt1
  nt2 = nt2
  Configs <- RollbackFamilies
  Definitions <- NetDefinitions
  InjectFailures = TRUE
  ArbitraryIds = TRUE
  VrfOrder <- VrfSeq
  PblOrder <- PblSeq
  MaxAttach = 1
  MaxRegistryChanges = 1
SYMMETRY Symm
CONSTRAINT OneFamily
SPECIFICATION Spec
INVARIANT TypeOK
INVARIANT RollbackLeavesNothing
INVARIANT ProvisionedHandlesValid
PROPERTY NoInterference
CHECK_DEADLOCK FALSE
