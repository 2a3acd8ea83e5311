------------------------ MODULE MC_PodProvisioning ------------------------
(* Instantiation of PodProvisioning for TLC: small pod configurations.     *)
EXTENDS PodProvisioning

CONSTANTS n1, nt1, nt2   \* the network and its tables (model values)

\* Pods, table ids and PBL indexes are interchangeable.
Symm == Permutations(Pods) \cup Permutations(VrfIds) \cup Permutations(PblIds)

\* Allocation orders of table ids and client indexes.
VrfSeq == SetToSeq(VrfIds)
PblSeq == SetToSeq(PblIds)

\* Pod spec configurations: container address families in ContainerIps
\* order, network, L3, memif, PBL port filtering, spoofing prefixes.
Cfg(ips, net, l3, memif, pblOn, spoof, bad) ==
  [ips |-> ips, net |-> net, l3 |-> l3, memif |-> memif, pbl |-> pblOn,
   spoof |-> spoof, spoofBad |-> bad]

V4Plain   == Cfg(<<"v4">>, NoNet, TRUE, FALSE, FALSE, {}, FALSE)
V4Full    == Cfg(<<"v4">>, NoNet, FALSE, TRUE, TRUE, {"v4"}, FALSE)
V6Pbl     == Cfg(<<"v6">>, NoNet, TRUE, TRUE, TRUE, {}, FALSE)
DualFull  == Cfg(<<"v4", "v6">>, NoNet, FALSE, TRUE, TRUE, {}, FALSE)
DualPlain == Cfg(<<"v4", "v6">>, NoNet, TRUE, FALSE, FALSE, {}, FALSE)
DualPbl   == Cfg(<<"v4", "v6">>, NoNet, TRUE, TRUE, TRUE, {}, FALSE)
DualSpoof == Cfg(<<"v4", "v6">>, NoNet, TRUE, FALSE, FALSE, {"v4"}, FALSE)
V4Bad     == Cfg(<<"v4">>, NoNet, TRUE, FALSE, FALSE, {}, TRUE)
V4Net     == Cfg(<<"v4">>, n1, FALSE, FALSE, FALSE, {}, FALSE)
DualNet   == Cfg(<<"v4", "v6">>, n1, TRUE, FALSE, FALSE, {}, FALSE)

\* Two network definitions of network n1, differing in their tables.
DefA == [vrf |-> [f \in {"v4", "v6"} |-> nt1], podVrf |-> [f \in {"v4", "v6"} |-> nt2]]
DefB == [vrf |-> [f \in {"v4", "v6"} |-> nt2], podVrf |-> [f \in {"v4", "v6"} |-> nt1]]
NetDefinitions == {DefA, DefB}

\* Rollback of single-network pods: every provisioning function, single
\* and dual stack.
RollbackConfigs == {V4Full, DualFull}
\* Multi-network pods, an annotation that does not parse, and network
\* definitions that change or disappear under them.
NetConfigs == {V4Net, DualNet, V4Bad}
\* The rollback run takes the two pods of a behaviour from one family of
\* specs (single-network or multi-network), and changes network
\* definitions only under multi-network pods, which are the only readers.
Family(cs) == \A p \in Pods : attaches[p] = 0 \/ cfg[p] \in cs
OneFamily ==
  \/ Family(RollbackConfigs) /\ regChanges = 0
  \/ Family(NetConfigs)
RollbackFamilies == RollbackConfigs \cup NetConfigs
\* Teardown: single- and dual-stack pods, RPF, memif and PBL with one address.
TeardownConfigs == {V4Full, V4Net, DualPlain}
\* Progress: a single-stack pod with every feature and a dual-stack pod.
ProgressConfigs == {V4Full, DualPlain}
\* Findings: a dual-stack pod with PBL; a multi-network pod; a dual-stack
\* pod with a spoofing annotation beside a single-stack pod.
PblLeakConfigs == {DualPbl}
NetLeakConfigs == {V4Net}
SpoofConfigs == {DualSpoof, V4Plain}

=============================================================================
