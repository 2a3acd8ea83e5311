\* A dual-stack pod allowed to spoof an IPv4 prefix beside a single-stack
\* pod: the prefix route goes to the table id of each address's family.
CONSTANTS
  Pods = {p1, p2}
  VrfIds = {t1, t2, t3, t4}
  PblIds = {b1, b2}
  Networks = {n1}
  MainTable = main
  PuntTable = punt
  PodVRFIndex = podvrf
  NetTables = {nt1, nt2}
  NoNet = NoNet
  NoDef = NoDef
  NoId = NoId
  FailedAllocID = zero
  n1 = n1
  nt1 = nt1
  nt2 = nt2
  Configs <- SpoofConfigs
  Definitions <- NetDefinitions
  InjectFailures = FALSE
  ArbitraryIds = TRUE
  VrfOrder <- VrfSeq
  PblOrder <- PblSeq
  MaxAttach = 1
  MaxRegistryChanges = 0
SPECIFICATION Spec
PROPERTY NoInterference
SYMMETRY Symm
CHECK_DEADLOCK FALSE
