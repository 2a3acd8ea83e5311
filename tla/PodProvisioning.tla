-------------------------- MODULE PodProvisioning --------------------------
(***************************************************************************)
(* The pod network provisioning engine of the calico-vpp agent             *)
(* (calico-vpp-agent/cni/network_vpp_routes.go) driven by the CNI add/del  *)
(* handler, against an abstract VPP dataplane.                             *)
(*                                                                         *)
(* Every engine function is one action: it issues a sequence of dataplane  *)
(* calls, any of which may fail; the calls before the failing one took     *)
(* effect and pushed their undo on the pod's cleanup stack, and the        *)
(* function returns at the first failure.  The CNI handler (not under      *)
(* src/, modelled from the spec) runs the functions in order and, on an    *)
(* error, executes the cleanup stack.  Teardown functions delete           *)
(* best-effort from the handles recorded in the pod spec.                  *)
(*                                                                         *)
(* The dataplane is a function from resources to the pod whose call        *)
(* created them (a ghost owner, so that leaks can be attributed).          *)
(* Deleting a VRF flushes the routes of that table; deleting an interface  *)
(* removes the neighbours and the uRPF setting bound to it.                *)
(***************************************************************************)
EXTENDS Naturals, Sequences, FiniteSets, SequencesExt, TLC

CONSTANTS
  Pods,             \* pod network attachments (netns, interface) keys
  VrfIds,           \* table ids VPP may hand out in AllocateVRF
  PblIds,           \* client indexes VPP may hand out in AddPblClient
  Networks,         \* multi-network names
  MainTable, PuntTable, PodVRFIndex,  \* tables created at agent start
  NetTables,        \* tables created for network definitions
  NoNet,            \* NetworkName == ""
  NoDef,            \* no entry in the network definition registry
  NoId,             \* vpplink.InvalidID, the unset handle
  FailedAllocID,    \* the id AllocateVRF returns together with an error
  Configs,          \* the pod network specs a CNI add may carry
  Definitions,      \* network definitions the watcher may publish
  InjectFailures,   \* may a dataplane call fail for a reason of its own
  ArbitraryIds,     \* may VPP answer with any free id, or only the next one
  VrfOrder,         \* the order in which VPP hands out free table ids
  PblOrder,         \* the order in which VPP hands out free client indexes
  MaxAttach,        \* CNI adds per pod
  MaxRegistryChanges

Fams == {"v4", "v6"}
IPFamilies == <<"v4", "v6">>   \* vpplink.IPFamilies, iterated in this order
StaticTables == {MainTable, PuntTable, PodVRFIndex} \cup NetTables

ConfigType ==
  [ips: Seq(Fams), net: Networks \cup {NoNet}, l3: BOOLEAN, memif: BOOLEAN,
   pbl: BOOLEAN, spoof: SUBSET Fams, spoofBad: BOOLEAN]
ASSUME Configs \subseteq ConfigType
ASSUME ToSet(VrfOrder) = VrfIds /\ ToSet(PblOrder) = PblIds
ASSUME \A c \in Configs : c.pbl => c.memif
ASSUME Definitions \subseteq [vrf: [Fams -> NetTables], podVrf: [Fams -> NetTables]]

VARIABLES
  dp,         \* VPP state: resource -> the pod whose call created it
  registry,   \* networkDefinitions: network name -> definition or NoDef
  phase,      \* per pod: idle, adding, failed, up, deleting
  at,         \* per pod: index of the next engine call in the handler's plan
  cfg,        \* per pod: the LocalPodSpec's configuration fields
  vrf,        \* per pod: V4VrfID / V6VrfID
  rpf,        \* per pod: V4RPFVrfID / V6RPFVrfID
  pbl,        \* per pod: PblIndex
  stack,      \* per pod: the CleanupStack, a sequence of resources to delete
  lastDone,   \* per pod: how the last attachment ended (history)
  attaches,   \* per pod: CNI adds so far (bound)
  regChanges  \* registry updates so far (bound)

vars == <<dp, registry, phase, at, cfg, vrf, rpf, pbl, stack, lastDone,
          attaches, regChanges>>

-----------------------------------------------------------------------------
(* Addresses, interfaces and dataplane resources.                          *)

Addr(p, f) == <<"ip", p, f>>        \* GetContainerIps: the host prefix of family f
Prefix(f) == <<"pfx", f, f>>        \* an allowed-spoofing prefix of family f
Tun(p) == <<"tun", p>>
Memif(p) == <<"memif", p>>

Vrf(f, id) == <<"vrf", f, id>>
Route(f, table, dst, path) == <<"route", f, table, dst, path>>
Dflt(f, v, via) == <<"dflt", f, v, via>>
MDflt(f, v, via) == <<"mdflt", f, v, via>>
Nbr(if, ip) == <<"nbr", if, ip>>
Pbl(id) == <<"pbl", id>>
Urpf(if, v) == <<"urpf", if, v>>
Iface(if) == <<"if", if>>
NoRes == <<"none">>

\* A dataplane call: the resource it creates and whether the caller pushes
\* its deletion on the cleanup stack.  Abort is an early `return err` that
\* is not a dataplane call (a failed lookup or parse).
Call(r, push) == [res |-> r, push |-> push, abort |-> FALSE]
Abort == [res |-> NoRes, push |-> FALSE, abort |-> TRUE]

\* VPP refuses a route in a table that does not exist for its family, and
\* an allocation from an exhausted pool.
Possible(c, d) ==
  /\ ~c.abort
  /\ c.res[1] \in {"vrf", "pbl"} => c.res[Len(c.res)] \notin {FailedAllocID, NoId}
  /\ c.res[1] = "route" => c.res[3] \in StaticTables \/ Vrf(c.res[2], c.res[3]) \in d
  /\ c.res[1] \in {"dflt", "mdflt"} => Vrf(c.res[2], c.res[3]) \in d

Before(calls, i) == DOMAIN dp \cup {calls[j].res : j \in 1..(i - 1)}

\* The numbers of calls that can succeed before the function returns.
Outcomes(calls) ==
  {n \in 0..Len(calls) :
     /\ \A i \in 1..n : Possible(calls[i], Before(calls, i))
     /\ n < Len(calls) =>
          InjectFailures \/ ~Possible(calls[n + 1], Before(calls, n + 1))}

Undos(calls, n) ==
  LET pushed == SelectSeq(SubSeq(calls, 1, n), LAMBDA c : c.push)
  IN  [i \in 1..Len(pushed) |-> pushed[i].res]

\* What deleting r removes besides r: a VRF takes its routes, an interface
\* its neighbours and uRPF configuration.
Flushed(d, r) ==
  CASE r[1] = "vrf" ->
         {x \in DOMAIN d : x[1] \in {"route", "dflt", "mdflt"} /\ x[2] = r[2] /\ x[3] = r[3]}
    [] r[1] = "if" ->
         {x \in DOMAIN d : x[1] \in {"nbr", "urpf"} /\ x[2] = r[2]}
    [] OTHER -> {}

\* Best-effort deletion of a set of resources; absent ones are logged.
DeleteAll(d, rs) ==
  LET gone == rs \cup UNION {Flushed(d, r) : r \in rs \cap DOMAIN d}
  IN  [x \in DOMAIN d \ gone |-> d[x]]

Owned(p) == {r \in DOMAIN dp : dp[r] = p}
FreeVrfIds(f) == {id \in VrfIds : Vrf(f, id) \notin DOMAIN dp}
FreePblIds == {id \in PblIds : Pbl(id) \notin DOMAIN dp}

\* The ids VPP may answer one AllocateVRF per family with: a free table id
\* (any, or the first in VrfOrder), or an error (FailedAllocID) when the
\* pool is exhausted.
VrfCandidates(f) ==
  IF FreeVrfIds(f) = {} THEN {FailedAllocID}
  ELSE IF ArbitraryIds THEN FreeVrfIds(f)
  ELSE {SelectSeq(VrfOrder, LAMBDA t : t \in FreeVrfIds(f))[1]}
VrfChoices ==
  {ids \in [Fams -> VrfIds \cup {FailedAllocID}] : \A f \in Fams : ids[f] \in VrfCandidates(f)}

\* The client indexes k AddPblClient calls may obtain: distinct free ones
\* (any, or the next ones in PblOrder), and an error (NoId) once the pool
\* is exhausted.
PblChoices(k) ==
  LET next == SelectSeq(PblOrder, LAMBDA b : b \in FreePblIds) IN
  {pid \in [1..k -> FreePblIds \cup {NoId}] :
     /\ \A i \in 1..k : pid[i] = NoId <=> i > Len(next)
     /\ \A i, j \in 1..k : i # j /\ pid[i] # NoId => pid[i] # pid[j]
     /\ ~ArbitraryIds => \A i \in 1..k : pid[i] # NoId => pid[i] = next[i]}

-----------------------------------------------------------------------------
(* The CNI handler's plans (spec-modelled: AddVppInterface/DelVppInterface *)
(* are not under src/).                                                    *)

AddPlan(c) ==
  <<"CreatePodVRF">>
  \o (IF c.net = NoNet THEN <<"CreateVRFRoutesToPod">> ELSE <<>>)
  \o <<"CreateInterfaces", "SetupPuntRoutes", "RoutePodInterface">>
  \o (IF c.pbl THEN <<"RoutePblPortsPodInterface">> ELSE <<>>)
  \o (IF c.net = NoNet THEN <<"ActivateStrictRPF">> ELSE <<>>)

DelPlan(c) ==
  (IF c.net = NoNet THEN <<"DeactivateStrictRPF">> ELSE <<>>)
  \o (IF c.pbl THEN <<"UnroutePblPortsPodInterface">> ELSE <<>>)
  \o <<"UnroutePodInterface", "RemovePuntRoutes", "DeleteInterfaces">>
  \o (IF c.net = NoNet THEN <<"DeleteVRFRoutesToPod">> ELSE <<>>)
  \o <<"DeletePodVRF">>

AtAdd(p, name) == phase[p] = "adding" /\ AddPlan(cfg[p])[at[p]] = name
AtDel(p, name) == phase[p] = "deleting" /\ DelPlan(cfg[p])[at[p]] = name

\* Fault variant of Apply: the plan position is not reset when the pod is up.
ApplyNoReset(p, calls, n) ==
  /\ dp' = dp @@ [r \in {calls[i].res : i \in 1..n} |-> p]
  /\ stack' = [stack EXCEPT ![p] = @ \o Undos(calls, n)]
  /\ IF n < Len(calls)
       THEN phase' = [phase EXCEPT ![p] = "failed"] /\ UNCHANGED at
     ELSE IF at[p] = Len(AddPlan(cfg[p]))
       THEN phase' = [phase EXCEPT ![p] = "up"] /\ at' = [at EXCEPT ![p] = @ + 1]
     ELSE at' = [at EXCEPT ![p] = @ + 1] /\ UNCHANGED phase
  /\ UNCHANGED <<registry, cfg, lastDone, attaches, regChanges>>

\* The engine function issued its calls; the first n took effect.
Apply(p, calls, n) ==
  /\ dp' = dp @@ [r \in {calls[i].res : i \in 1..n} |-> p]
  /\ stack' = [stack EXCEPT ![p] = @ \o Undos(calls, n)]
  /\ IF n < Len(calls)
       THEN phase' = [phase EXCEPT ![p] = "failed"] /\ UNCHANGED at
     ELSE IF at[p] = Len(AddPlan(cfg[p]))
       THEN phase' = [phase EXCEPT ![p] = "up"] /\ at' = [at EXCEPT ![p] = 1]
     ELSE at' = [at EXCEPT ![p] = @ + 1] /\ UNCHANGED phase
  /\ UNCHANGED <<registry, cfg, lastDone, attaches, regChanges>>

\* A teardown function deleted rs, logging what was already gone.
DelStep(p, rs) ==
  /\ dp' = DeleteAll(dp, rs)
  /\ IF at[p] = Len(DelPlan(cfg[p]))
       THEN /\ phase' = [phase EXCEPT ![p] = "idle"]
            /\ at' = [at EXCEPT ![p] = 1]
            /\ lastDone' = [lastDone EXCEPT ![p] = "deleted"]
       ELSE at' = [at EXCEPT ![p] = @ + 1] /\ UNCHANGED <<phase, lastDone>>
  /\ UNCHANGED <<registry, cfg, vrf, rpf, pbl, stack, attaches, regChanges>>

\* networkDefinitions.Load: a missing entry leaves the table at 0.
NetTable(net, kind, f) ==
  IF registry[net] = NoDef THEN MainTable ELSE registry[net][kind][f]

\* The handle AllocateVRF number i of a function wrote when n calls succeeded.
AllocHandle(old, id, i, n) ==
  IF i <= n THEN id ELSE IF i = n + 1 THEN FailedAllocID ELSE old

\* SetVrfID / SetRPFVrfID for the two allocations (v4 first) of a function.
SetVrfIDs(p, ids, n) ==
  /\ vrf' = [vrf EXCEPT ![p] = [f \in Fams |-> AllocHandle(@[f], ids[f],
                                                  IF f = "v4" THEN 1 ELSE 2, n)]]
  /\ UNCHANGED rpf

SetRPFVrfIDs(p, ids, n) ==
  /\ rpf' = [rpf EXCEPT ![p] = [f \in Fams |-> AllocHandle(@[f], ids[f],
                                                  IF f = "v4" THEN 1 ELSE 2, n)]]
  /\ UNCHANGED vrf

\* Fault variant of PodIfTable: GetRPFVrfID where GetVrfID is meant.
PodIfTableRPF(p, f) ==
  IF cfg[p].net # NoNet THEN NetTable(cfg[p].net, "vrf", f) ELSE rpf[p][f]

\* The table the pod's interface routes live in: the network's VRF table
\* (table 0 when the definition is missing) or the pod VRF.
PodIfTable(p, f) ==
  IF cfg[p].net # NoNet THEN NetTable(cfg[p].net, "vrf", f) ELSE vrf[p][f]

\* Fault variant of PodVrfs: the IPv4 VRF id used for both families.
PodVrfsFirstFamily(p) == {Vrf(f, vrf[p]["v4"]) : f \in Fams}

\* The VRFs DeletePodVRF and DeactivateStrictRPF delete: GetVrfID and
\* GetRPFVrfID of each family.
PodVrfs(p) == {Vrf(f, vrf[p][f]) : f \in Fams}
RPFVrfs(p) == {Vrf(f, rpf[p][f]) : f \in Fams}

\* Per container address, in ContainerIps order.
PerIP(c, F(_)) == FlattenSeq([i \in 1..Len(c.ips) |-> F(c.ips[i])])

-----------------------------------------------------------------------------
(* Provisioning functions (network_vpp_routes.go).                         *)

\* CreatePodVRF: allocate one VRF per family, recording each id even when
\* the allocation failed, then a unicast and a multicast default route from
\* each pod VRF into the node's pod VRF or the network's PodVRF table.
CreatePodVRF(p) ==
  /\ AtAdd(p, "CreatePodVRF")
  /\ \E ids \in VrfChoices :
       /\ LET c == cfg[p]
              via(f) == IF c.net = NoNet THEN PodVRFIndex
                        ELSE registry[c.net].podVrf[f]
              allocs == [i \in 1..2 |-> Call(Vrf(IPFamilies[i], ids[IPFamilies[i]]), TRUE)]
              defaults ==
                IF c.net # NoNet /\ registry[c.net] = NoDef THEN <<Abort>>
                ELSE FlattenSeq([i \in 1..2 |->
                       LET f == IPFamilies[i] IN
                       <<Call(Dflt(f, ids[f], via(f)), TRUE),
                         Call(MDflt(f, ids[f], via(f)), TRUE)>>])
              calls == allocs \o defaults
          IN  \E n \in Outcomes(calls) : Apply(p, calls, n) /\ SetVrfIDs(p, ids, n)
  /\ UNCHANGED pbl

\* CreateVRFRoutesToPod: in the main table, each container address is
\* routed by table lookup into the pod VRF of its family.
CreateVRFRoutesToPod(p) ==
  /\ AtAdd(p, "CreateVRFRoutesToPod")
  /\ LET calls == PerIP(cfg[p], LAMBDA f :
                    <<Call(Route(f, MainTable, Addr(p, f), <<"tbl", vrf[p][f]>>), TRUE)>>)
     IN  \E n \in Outcomes(calls) : Apply(p, calls, n)
  /\ UNCHANGED <<vrf, rpf, pbl>>

\* The tun (and memif) interface drivers create the pod's interfaces and
\* push their deletion (spec-modelled: the drivers are not under src/).
CreateInterfaces(p) ==
  /\ AtAdd(p, "CreateInterfaces")
  /\ LET calls == <<Call(Iface(Tun(p)), TRUE)>>
                  \o (IF cfg[p].memif THEN <<Call(Iface(Memif(p)), TRUE)>> ELSE <<>>)
     IN  \E n \in Outcomes(calls) : Apply(p, calls, n)
  /\ UNCHANGED <<vrf, rpf, pbl>>

\* Fault variant of SetupPuntRoutes: the route's deletion is not pushed.
SetupPuntRoutesNoPush(p) ==
  /\ AtAdd(p, "SetupPuntRoutes")
  /\ LET calls == PerIP(cfg[p], LAMBDA f :
                    <<Call(Route(f, PuntTable, Addr(p, f), Tun(p)), FALSE)>>)
     IN  \E n \in Outcomes(calls) : Apply(p, calls, n)
  /\ UNCHANGED <<vrf, rpf, pbl>>

\* SetupPuntRoutes: in the punt table, each container address via the tun.
SetupPuntRoutes(p) ==
  /\ AtAdd(p, "SetupPuntRoutes")
  /\ LET calls == PerIP(cfg[p], LAMBDA f :
                    <<Call(Route(f, PuntTable, Addr(p, f), Tun(p)), TRUE)>>)
     IN  \E n \in Outcomes(calls) : Apply(p, calls, n)
  /\ UNCHANGED <<vrf, rpf, pbl>>

\* Fault variant of RoutePodInterface: the route's deletion is not pushed.
RoutePodInterfaceNoPush(p) ==
  /\ AtAdd(p, "RoutePodInterface")
  /\ LET c == cfg[p]
         calls == PerIP(c, LAMBDA f :
                    <<Call(Route(f, PodIfTable(p, f), Addr(p, f), Tun(p)), FALSE)>>
                    \o (IF c.l3 THEN <<>> ELSE <<Call(Nbr(Tun(p), Addr(p, f)), FALSE)>>))
     IN  \E n \in Outcomes(calls) : Apply(p, calls, n)
  /\ UNCHANGED <<vrf, rpf, pbl>>

\* RoutePodInterface(tun, inPodVrf = NetworkName == ""): a route per address
\* into the network's VRF table (table 0 when the definition is missing) or
\* the pod VRF; when not L3, a static neighbour whose undo is never pushed.
RoutePodInterface(p) ==
  /\ AtAdd(p, "RoutePodInterface")
  /\ LET c == cfg[p]
         calls == PerIP(c, LAMBDA f :
                    <<Call(Route(f, PodIfTable(p, f), Addr(p, f), Tun(p)), TRUE)>>
                    \o (IF c.l3 THEN <<>> ELSE <<Call(Nbr(Tun(p), Addr(p, f)), FALSE)>>))
     IN  \E n \in Outcomes(calls) : Apply(p, calls, n)
  /\ UNCHANGED <<vrf, rpf, pbl>>

\* RoutePblPortsPodInterface(memif): one PBL client per address; PblIndex
\* is overwritten by each client in turn.
RoutePblPortsPodInterface(p) ==
  /\ AtAdd(p, "RoutePblPortsPodInterface")
  /\ LET c == cfg[p] IN
     \E pid \in PblChoices(Len(c.ips)) :
       /\ LET calls == FlattenSeq([i \in 1..Len(c.ips) |->
                         <<Call(Pbl(pid[i]), TRUE)>>
                         \o (IF c.l3 THEN <<>>
                             ELSE <<Call(Nbr(Memif(p), Addr(p, c.ips[i])), FALSE)>>)])
              made(n) == {i \in 1..n : calls[i].res[1] = "pbl"}
          IN  \E n \in Outcomes(calls) :
                /\ Apply(p, calls, n)
                /\ pbl' = [pbl EXCEPT ![p] =
                             IF made(n) = {} THEN @ ELSE calls[Max(made(n))].res[2]]
  /\ UNCHANGED <<vrf, rpf>>

\* ActivateStrictRPF = CreatePodRPFVRF; AddRPFRoutes; SetCustomURPF.
\* The RPF VRF of an address's family receives the address and every
\* allowed-spoofing prefix, via the tun and the memif.
ActivateStrictRPF(p) ==
  /\ AtAdd(p, "ActivateStrictRPF")
  /\ \E ids \in VrfChoices :
       /\ LET c == cfg[p]
              paths == <<"paths", {Tun(p)} \cup (IF c.memif THEN {Memif(p)} ELSE {})>>
              allocs == [i \in 1..2 |-> Call(Vrf(IPFamilies[i], ids[IPFamilies[i]]), TRUE)]
              spoofed(f) ==
                IF c.spoofBad THEN <<Abort>>
                ELSE LET s == SetToSeq(c.spoof) IN
                     [i \in 1..Len(s) |-> Call(Route(s[i], ids[f], Prefix(s[i]), paths), TRUE)]
              routes == PerIP(c, LAMBDA f :
                          <<Call(Route(f, ids[f], Addr(p, f), paths), TRUE)>> \o spoofed(f))
              calls == allocs \o routes \o <<Call(Urpf(Tun(p), ids["v4"]), TRUE)>>
          IN  \E n \in Outcomes(calls) : Apply(p, calls, n) /\ SetRPFVrfIDs(p, ids, n)
  /\ UNCHANGED pbl

\* The handler's error path: stack.Execute() deletes, best-effort, all that
\* was pushed (the deletions commute, so their LIFO order is not visible).
Unwind(p) ==
  /\ phase[p] = "failed"
  /\ dp' = DeleteAll(dp, ToSet(stack[p]))
  /\ stack' = [stack EXCEPT ![p] = <<>>]
  /\ phase' = [phase EXCEPT ![p] = "idle"]
  /\ at' = [at EXCEPT ![p] = 1]
  /\ lastDone' = [lastDone EXCEPT ![p] = "rolledback"]
  /\ UNCHANGED <<registry, cfg, vrf, rpf, pbl, attaches, regChanges>>

-----------------------------------------------------------------------------
(* Teardown functions: unconditional, best-effort.                         *)

DeactivateStrictRPF(p) ==
  /\ AtDel(p, "DeactivateStrictRPF")
  /\ LET c == cfg[p]
         paths == <<"paths", {Tun(p)} \cup (IF c.memif THEN {Memif(p)} ELSE {})>>
         ips == ToSet(c.ips)
         spoofed == IF c.spoofBad THEN {}   \* parse error: logged, nothing deleted
                    ELSE {Route(s, rpf[p][f], Prefix(s), paths) : f \in ips, s \in c.spoof}
     IN  DelStep(p, {Route(f, rpf[p][f], Addr(p, f), paths) : f \in ips}
                   \cup spoofed \cup RPFVrfs(p))

UnroutePblPortsPodInterface(p) ==
  /\ AtDel(p, "UnroutePblPortsPodInterface")
  /\ DelStep(p, {Pbl(pbl[p])})

\* UnroutePodInterface looks the network definition up again.
UnroutePodInterface(p) ==
  /\ AtDel(p, "UnroutePodInterface")
  /\ DelStep(p, {Route(f, PodIfTable(p, f), Addr(p, f), Tun(p)) : f \in ToSet(cfg[p].ips)})

RemovePuntRoutes(p) ==
  /\ AtDel(p, "RemovePuntRoutes")
  /\ DelStep(p, {Route(f, PuntTable, Addr(p, f), Tun(p)) : f \in ToSet(cfg[p].ips)})

\* Interface deletion by the drivers (spec-modelled).
DeleteInterfaces(p) ==
  /\ AtDel(p, "DeleteInterfaces")
  /\ DelStep(p, {Iface(Tun(p))} \cup (IF cfg[p].memif THEN {Iface(Memif(p))} ELSE {}))

DeleteVRFRoutesToPod(p) ==
  /\ AtDel(p, "DeleteVRFRoutesToPod")
  /\ DelStep(p, {Route(f, MainTable, Addr(p, f), <<"tbl", vrf[p][f]>>) : f \in ToSet(cfg[p].ips)})

\* DeletePodVRF: default routes via the table looked up again (0 when the
\* definition is gone), then both VRFs.
DeletePodVRF(p) ==
  /\ AtDel(p, "DeletePodVRF")
  /\ LET c == cfg[p]
         via(f) == IF c.net = NoNet THEN PodVRFIndex ELSE NetTable(c.net, "podVrf", f)
     IN  DelStep(p, {Dflt(f, vrf[p][f], via(f)) : f \in Fams}
                   \cup {MDflt(f, vrf[p][f], via(f)) : f \in Fams}
                   \cup PodVrfs(p))

-----------------------------------------------------------------------------
(* Requests and the environment.                                           *)

\* A CNI add arrives with a new LocalPodSpec whose handles are unset.
Attach(p) ==
  /\ phase[p] = "idle"
  /\ attaches[p] < MaxAttach
  /\ \E c \in Configs :
       /\ cfg' = [cfg EXCEPT ![p] = c]
       /\ phase' = [phase EXCEPT ![p] = "adding"]
       /\ at' = [at EXCEPT ![p] = 1]
       /\ vrf' = [vrf EXCEPT ![p] = [f \in Fams |-> NoId]]
       /\ rpf' = [rpf EXCEPT ![p] = [f \in Fams |-> NoId]]
       /\ pbl' = [pbl EXCEPT ![p] = NoId]
       /\ stack' = [stack EXCEPT ![p] = <<>>]
       /\ lastDone' = [lastDone EXCEPT ![p] = "none"]
       /\ attaches' = [attaches EXCEPT ![p] = @ + 1]
  /\ UNCHANGED <<dp, registry, regChanges>>

\* A CNI del for a provisioned pod.
Detach(p) ==
  /\ phase[p] = "up"
  /\ phase' = [phase EXCEPT ![p] = "deleting"]
  /\ UNCHANGED <<dp, registry, at, cfg, vrf, rpf, pbl, stack, lastDone,
                 attaches, regChanges>>

\* The network watcher publishes, changes or removes a definition.
UpdateNetwork ==
  /\ regChanges < MaxRegistryChanges
  /\ \E n \in Networks, d \in Definitions \cup {NoDef} :
       /\ registry[n] # d
       /\ registry' = [registry EXCEPT ![n] = d]
  /\ regChanges' = regChanges + 1
  /\ UNCHANGED <<dp, phase, at, cfg, vrf, rpf, pbl, stack, lastDone, attaches>>

-----------------------------------------------------------------------------

Init ==
  /\ dp = << >>
  /\ registry \in [Networks -> Definitions]
  /\ phase = [p \in Pods |-> "idle"]
  /\ at = [p \in Pods |-> 1]
  /\ cfg = [p \in Pods |-> CHOOSE c \in Configs : TRUE]  \* no spec before the first add
  /\ vrf = [p \in Pods |-> [f \in Fams |-> NoId]]
  /\ rpf = [p \in Pods |-> [f \in Fams |-> NoId]]
  /\ pbl = [p \in Pods |-> NoId]
  /\ stack = [p \in Pods |-> <<>>]
  /\ lastDone = [p \in Pods |-> "none"]
  /\ attaches = [p \in Pods |-> 0]
  /\ regChanges = 0

\* One step of the goroutine serving pod p's CNI request.
Provision(p) ==
  \/ CreatePodVRF(p)
  \/ CreateVRFRoutesToPod(p)
  \/ CreateInterfaces(p)
  \/ SetupPuntRoutes(p)
  \/ RoutePodInterface(p)
  \/ RoutePblPortsPodInterface(p)
  \/ ActivateStrictRPF(p)
  \/ Unwind(p)

Teardown(p) ==
  \/ DeactivateStrictRPF(p)
  \/ UnroutePblPortsPodInterface(p)
  \/ UnroutePodInterface(p)
  \/ RemovePuntRoutes(p)
  \/ DeleteInterfaces(p)
  \/ DeleteVRFRoutesToPod(p)
  \/ DeletePodVRF(p)

Next ==
  \/ \E p \in Pods : Attach(p) \/ Detach(p) \/ Provision(p) \/ Teardown(p)
  \/ UpdateNetwork

\* A CNI request's goroutine runs to completion: weak fairness per pod.
Spec == Init /\ [][Next]_vars /\ \A p \in Pods : WF_vars(Provision(p) \/ Teardown(p))

-----------------------------------------------------------------------------
(* Properties.                                                             *)

Phases == {"idle", "adding", "failed", "up", "deleting"}
Handle == VrfIds \cup {NoId, FailedAllocID}

TypeOK ==
  /\ registry \in [Networks -> Definitions \cup {NoDef}]
  /\ phase \in [Pods -> Phases]
  /\ cfg \in [Pods -> Configs]
  /\ \A p \in Pods : at[p] \in 1..Len(IF phase[p] = "deleting" THEN DelPlan(cfg[p])
                                     ELSE AddPlan(cfg[p]))
  /\ vrf \in [Pods -> [Fams -> Handle]]
  /\ rpf \in [Pods -> [Fams -> Handle]]
  /\ pbl \in [Pods -> PblIds \cup {NoId}]
  /\ \A r \in DOMAIN dp : dp[r] \in Pods
  /\ \A p \in Pods : \A r \in ToSet(stack[p]) :
        r[1] \in {"vrf", "route", "dflt", "mdflt", "pbl", "urpf", "if"}
  /\ lastDone \in [Pods -> {"none", "rolledback", "deleted"}]

\* Rollback completeness (CleanupStack contract): after a CNI add failed at
\* any call and the handler executed its cleanup stack, nothing that pod's
\* calls created is left in VPP.
RollbackLeavesNothing ==
  \A p \in Pods : phase[p] = "idle" /\ lastDone[p] = "rolledback" => Owned(p) = {}

\* Teardown completeness: after the CNI del ran every teardown function,
\* nothing the pod's provisioning created is left in VPP.
TeardownLeavesNothing ==
  \A p \in Pods : phase[p] = "idle" /\ lastDone[p] = "deleted" => Owned(p) = {}

\* The handles a provisioned pod spec records (and persists) name resources
\* that exist: its pod VRFs, its RPF VRFs and its PBL client.
ProvisionedHandlesValid ==
  \A p \in Pods : phase[p] = "up" =>
    /\ \A f \in Fams : Vrf(f, vrf[p][f]) \in DOMAIN dp
    /\ cfg[p].net = NoNet => \A f \in Fams : Vrf(f, rpf[p][f]) \in DOMAIN dp
    /\ cfg[p].pbl => Pbl(pbl[p]) \in DOMAIN dp

\* Isolation: while a pod stays provisioned, no step of any pod removes a
\* resource that pod's provisioning created.
NoInterference ==
  [][\A p \in Pods : phase[p] = "up" /\ phase'[p] = "up" => Owned(p) \subseteq DOMAIN dp']_vars

\* With a dataplane that does not fail on its own and a stable registry,
\* every CNI add of a well-formed spec ends with the pod provisioned.
EventuallyUp == \A p \in Pods : phase[p] = "adding" ~> phase[p] = "up"

=============================================================================
