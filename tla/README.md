# TLA+ models of the calico-vpp agent and vpp-manager

This directory holds TLA+ models of the code under `src/`. They cover the
parts that have concurrency, failure handling or persistent state. Each
model is checked with TLC. `PROJECT.json` lists:

- every component,
- every run and what it checks,
- the mutants that show each property can fail,
- the source lines each definition models,
- the findings and hazards.

## The system

The code covers three areas, plus the value types of `vpplink/types`.

- **The agent's CNI side** (`calico-vpp-agent/cni`).
  - `network_vpp_routes.go` is the provisioning engine. The CNI add handler
    calls it step by step. It allocates the pod's VRFs, routes between the
    main, punt and pod tables, optional PBL port filtering, and strict RPF.
    It pushes an undo for every resource it creates on a cleanup stack. On
    any error the handler runs that stack. CNI del runs the best-effort
    teardown functions, using the handles recorded in the pod's
    `LocalPodSpec`.
  - `storage/storage.go` defines `LocalPodSpec`. It also persists the map of
    live specs to a versioned struc-packed file, which the agent reads back
    at start.
- **The agent's watchers.**
  - `watchers/secret_watcher.go` caches Kubernetes secrets for the BGP peer
    watcher.
  - It starts an informer (a controller goroutine) per secret.
  - Callbacks from the informer update the cache under a mutex.
- **vpp-manager.**
  - `startup/startup.go` reads the host state.
  - The uplink drivers (`uplink/{virtio,rdma,vmxnet3}.go`) take the NIC away
    from Linux before VPP starts and give it back when VPP exits.
- **vpplink types.** `vpplink/types/wireguard.go` defines the WireGuard peer
  that the agent compares and edits before it reprograms VPP.

These parts interact through data, not through concurrency between modules:

- the engine fills in the handles that the store persists;
- the secret watcher feeds the BGP peer watcher, which is not under `src/`;
- vpp-manager's uplink lifecycle brackets VPP's life.

So each part is one module, with its environment modelled inside that
module.

## Modules

### `PodProvisioning.tla` (`MC_PodProvisioning.tla`)

**What it models.** The provisioning engine, driven by the CNI add and del
handler against an abstract VPP.

**State.**

| Variable | What it holds |
|---|---|
| `dp` | The VPP dataplane: a function from resources to the pod whose call created them. The owner is a ghost field, so leaks can be attributed. A resource is a VRF, route, default route, neighbour, PBL client, uRPF setting or interface. |
| `registry` | The network-definition registry that `networkDefinitions.Load` reads. |
| `vrf`, `rpf`, `pbl` | The pod-spec handles: `SetVrfID`, `SetRPFVrfID` and `PblIndex`. |
| `stack` | The cleanup stack of each pod. |
| `phase`, `at`, `cfg`, `lastDone` | Each pod's CNI request: its phase, its position in the handler's plan, its spec, and how its last request ended. |

**Actions.** Each engine function is one action. Each is translated from its
own lines and named after the function:

- provisioning: `CreatePodVRF`, `CreateVRFRoutesToPod`, `SetupPuntRoutes`,
  `RoutePodInterface`, `RoutePblPortsPodInterface`, `ActivateStrictRPF`;
- teardown: `DeactivateStrictRPF`, `UnroutePblPortsPodInterface`,
  `UnroutePodInterface`, `RemovePuntRoutes`, `DeleteVRFRoutesToPod`,
  `DeletePodVRF`.

An action computes the sequence of dataplane calls the function makes.
`Outcomes` chooses how many of them succeed before the first error: the
earlier calls take effect and push their undos as the code does. The
function's own assignments to the spec, such as recording a VRF id before
checking the error, are part of the same step.

**VPP's side.** VPP is abstracted to the rules the properties depend on:

- a route into a table that does not exist for its family is refused;
- `AllocateVRF` returns a free table id, or an error once the pool is
  exhausted;
- deleting a VRF flushes its routes;
- deleting an interface removes its neighbours and its uRPF setting.

**Modelled from the spec.** The CNI handler and the interface drivers are
not under `src/`:

- `AddPlan` and `DelPlan` give the order of the steps;
- `Apply` and `Unwind` implement the error return and `stack.Execute`;
- `CreateInterfaces` and `DeleteInterfaces` stand for the interface drivers;
- `Attach`, `Detach` and `UpdateNetwork` are the requests and the network
  watcher.

**Concurrency.** Pods are served concurrently. Each engine function is atomic
with respect to the other pods, because it holds no state across calls
except the spec it owns.

### `StateStore.tla` (`MC_StateStore.tla`)

**What it models.** `PersistCniServerState` and `LoadCniServerState`.

**State.**

- `mem`: the in-memory map, as a set of specs.
- `files`: the state file and `fname~`.
- `pc`: the saving goroutine: idle, write or rename.
- `lastSaved`: a history variable for the last completed save.

**Data abstraction.** A spec is reduced to its key, an identity, and the byte
length of one variable-length string. struc writes that length in an `int16`
sizeof field, and `Int16` models that conversion by what it does, including
the wrap.

**Actions.**

- `Packings` enumerates every map iteration order.
- `Load` follows `LoadCniServerState`:
  - a missing file is an empty result;
  - a truncated file fails;
  - a negative or wrong length fails the unpack;
  - the version is checked after the unpack.
- `Update` is a CNI add or del followed by the save, modelled from the spec.
- `WriteTmp` and `RenameTmp` are the two I/O steps, each of which may fail.
- `Crash` stops the agent between any two steps. A crash during `WriteFile`
  may truncate `fname~`.
- `Restart` runs `Load`. An error or a panic keeps the agent down.

**No separate abstract spec.** An atomically replaced snapshot, with
`durable <- Load(files["state"]).specs`, and "a restarted agent comes back
with the last save" both follow from `DiskHoldsLastSave` and the shape of
`Update`, `Crash`, `Restart` and `RenameTmp`. A refinement or a recovery
property would therefore be checked by the same states and add nothing, so
the state_store run checks the one invariant.

### `SecretWatcher.tla` (`MC_SecretWatcher.tla`)

**What it models.** The secret cache in `secret_watcher.go`.

**State.**

- `watches`: `sw.watches`.
- `ctl`: the controllers started, each with its stop flag, the last secret
  value it delivered, and an event popped but not yet delivered.
- `caller`: the goroutine calling `GetSecret` and `SweepStale`.
- `client`: what `OnSecretUpdate` last gave the BGP side.
- `api`: the API server's secrets.

**Atomicity.** Every critical section under `sw.mutex` is one step. The one
place where `GetSecret` releases the mutex is the sync wait in
`allowTimeForControllerSync`. So `GetSecret` of an unwatched name is two
actions, `GetSecret` and `Relock`.

**Actions.**

- `Pop` and `Deliver` are the informer, modelled from client-go's documented
  behaviour. The informer pops the change since the last event. The callback
  (`SetSecret` and `NotifyClient`) then runs once it holds the mutex, even if
  the controller was stopped meanwhile.
- `SweepStale` deletes the chosen watches and stops their controllers.
- The caller is one process. The BGP peer watcher, which is not under
  `src/`, calls `GetSecret` and `SweepStale` from its single loop.

### `UplinkDrivers.tla` (`MC_UplinkDrivers.tla`)

**What it models.** One uplink's life under vpp-manager: `PreconfigureLinux`,
`CreateMainVppInterface`, VPP running and exiting, then `RestoreLinux`.

**State.** `host` holds the vfio `enable_unsafe_noiommu_mode`, the kernel
driver bound to the device, the interface's namespace and its link state.
`host0` records the host as it was at start.

**Actions.**

- Each driver's functions are separate actions. Their call order and early
  returns follow the Go code.
- Every kernel or VPP call may fail, and whether its error is returned or
  only logged follows the code.
- `Params` covers the startup read of the initial noiommu mode, including a
  failed read.

### `WireguardPeer.tla` (`MC_WireguardPeer.tla`)

**What it models.** `WireguardPeer` from `vpplink/types/wireguard.go`:
`AddAllowedIP`, `DelAllowedIP` and `Equal`.

**State.** `peers` maps each peer to its attributes and its `AllowedIPs`
slice. The attributes are the key, port, keepalive, table, address and
indices that `Equal` compares one by one, abstracted to a single value.

**Actions.**

- `AddAllowedIP` appends a prefix only when `allowedIpsMap` does not
  already hold it.
- `DelAllowedIP` keeps every other prefix, in order.
- `Equal` compares the attributes and the lengths, then checks each of
  `o`'s prefixes against `t`'s map.

## Runs

| Run | cfg | Expect | What it shows |
|---|---|---|---|
| rollback | `MC_Rollback.cfg` | pass | Two pods are provisioned concurrently and any dataplane call may fail. The pods are either both single-network (v4 and dual-stack, with memif, PBL and strict RPF) or both multi-network, including an unparsable spoofing annotation; in the latter case a network definition may be published, changed or removed meanwhile. Every failed add is fully unwound (`RollbackLeavesNothing`), and a provisioned pod's handles name live resources (`ProvisionedHandlesValid`). No step of either pod deletes what the other, provisioned pod owns (`NoInterference`, an action property). |
| teardown | `MC_TeardownProgress.cfg` | pass | v4, multi-network and dual-stack pods without PBL, with VPP handing out ids in order and failing only impossible calls. A CNI del removes everything the CNI add created (`TeardownLeavesNothing`), and every CNI add of two concurrent pods ends with the pod up (`EventuallyUp`). |
| pbl_leak | `MC_PblLeak.cfg` | violation | A dual-stack pod with port filtering leaves a PBL client behind after CNI del. |
| net_leak | `MC_NetLeak.cfg` | violation | A network definition that changes or disappears between add and del leaves the pod's routes in the old network's tables. |
| spoof_table | `MC_SpoofTable.cfg` | violation | The allowed-spoofing prefixes of a dual-stack pod go into the table numbered like the other family's RPF VRF. That table can be another pod's VRF. |
| state_store | `MC_StateStore.cfg` | pass | Crashes can happen at every step and I/O calls can fail, yet the state file always loads to exactly the last completed save (`DiskHoldsLastSave`). |
| wireguard_equal | `MC_WireguardPeer.cfg` | pass | For two peers whose allowed IPs only change through `AddAllowedIP` and `DelAllowedIP`, `Equal` holds exactly when the attributes and the sets of prefixes agree (`EqualMeansSamePeer`). |
| store_overflow | `MC_StoreOverflow.cfg` | violation | A 40000-byte name wraps the int16 length, and the saved file no longer loads. |
| secret_watcher | `MC_SecretWatcher.cfg` | pass | `GetSecret` on two secrets races the callbacks while secrets change. The cache is stale only while the live controller still owes an event (`CacheStaleOnlyWhilePending`). The BGP side ends with every watched secret's current value, deletions included (`ClientConverges`). |
| secret_sweep | `MC_SecretSweep.cfg` | violation | `SweepStale` deletes a watch whose controller has popped an event. The callback then dereferences the deleted entry (`NoNilDeref`). |
| secret_rewatch | `MC_SecretRewatch.cfg` | violation | A swept secret is watched again before the stopped controller's popped `OnAdd` runs. The callback fills the new watch, the secret is then deleted, and the new controller's empty initial list never corrects the cache (`CacheStaleOnlyWhilePending`). |
| uplink_restore | `MC_UplinkRestore.cfg` | violation | Three uplinks (virtio, rdma and vmxnet3) are taken by VPP and given back with no call failing. A vmxnet3 uplink that was down is left with no-IOMMU mode enabled (`RestoreLinuxRestoresHost`). |

Each property of a passing run has a mutant in `PROJECT.json`. A mutant is a
fault variant defined next to the definition it replaces, such as:

- an undo that is not pushed;
- RPF ids stored as pod VRF ids;
- the IPv4 VRF id deleted for both families;
- the RPF VRF used for the interface route;
- a plan position that is not reset;
- an unchecked rename;
- `AddAllowedIP` without its duplicate check;
- `OnUpdate` storing the old object;
- `OnDelete` not notifying the client.

TLC finds each of them.

## Findings

1. **PBL leak** (`network_vpp_routes.go:153`). `RoutePblPortsPodInterface`
   stores each address's PBL client index in the single `PblIndex`, so
   teardown deletes only the last one.
2. **Network definition read twice** (`network_vpp_routes.go:87`, `:384`).
   Teardown looks the network definition up again. Routes programmed in the
   old network's table leak, or the code deletes from table 0.
3. **Spoofing prefix in the wrong table** (`network_vpp_routes.go:303`).
   `AddRPFRoutes` uses the RPF VRF id of the container address's family for
   prefixes of either family.
4. **int16 length fields** (`storage.go:191`). Strings longer than 32767
   bytes do not survive a save and load round trip, which the spec requires.
5. **Nil dereference after `SweepStale`** (`secret_watcher.go:167`, `183`,
   `195`). A popped event's callback writes through a deleted watch.
6. **Stale secret after a re-watch** (`secret_watcher.go:167`). This has the
   same cause as finding 5: the callbacks find their watch by name. If
   `GetSecret` re-creates the watch first, the stopped controller's late
   `OnAdd` stores its value in the new watch. If the secret is then deleted,
   the new controller's initial list is empty, so no `OnDelete` ever
   corrects the cache. The BGP server keeps using the deleted secret.
7. **vmxnet3 restore** (`vmxnet3.go:74`). The early return for a down link
   skips restoring `enable_unsafe_noiommu_mode`. virtio restores it first.

## Bounds

- **Pods.** Two pods and three or four table ids are enough for two pods to
  allocate in an interleaved order, and for a table id freed by one pod to be
  reused by the other. The rollback run uses three ids, so the dual-stack
  pod's RPF allocation can find the pool exhausted.
- **PBL.** Two PBL ids give a dual-stack pod both its clients.
- **Symmetry.** Symmetry over pods and table ids is used only in the safety
  runs. The teardown run has none, because it checks liveness.
- **Requests.** `MaxAttach = 1` gives each pod one add and one del. The
  interesting failures happen within one request, and a second request would
  only revisit the same states with other ids.
- **Registry.** `MaxRegistryChanges = 1` allows one change of network
  definition, which is enough to change or remove it between a pod's add and
  its del.
- **Spec families.** In the rollback run, the state constraint `OneFamily`
  takes both pods of a behaviour from one family: either the single-network
  specs or the multi-network ones. It allows a definition change only under
  multi-network pods, because they are the only readers of the registry.
  A single-network pod next to a multi-network pod is not checked. Both
  would share the main and punt tables, and a removed definition falls back
  to the main table. Mixing the families triples the state space, to 1.44
  million states and over three minutes. A one-off check of the mixed
  configuration, without the constraint, found no violation.
- **State store.**
  - Two keys and two spec contents make saves of different sizes and orders.
  - Four updates and three crashes put a crash after every kind of step,
    including a crash after a restart. They also allow a save to complete
    between two crashes, and a second crash while a save of a reloaded map
    is in flight (748,827 states, about a minute).
  - The lengths 0 and 63 exercise the empty string.
  - The overflow run uses 40000 > 32767.
- **Wireguard.** Two peers, two attribute values and three prefixes reach
  every slice of at most three distinct prefixes, in every order.
- **Secret watcher.**
  - Two names, two values and three API changes cover create, update and
    delete, both before and after the initial list.
  - Two controllers allow a re-watch after a sweep.
- **Deadlock.** It is checked where the system runs forever, which is the
  secret watcher's pass run. The runs whose bounded requests end in a final
  state declare `CHECK_DEADLOCK FALSE`: the provisioning, store and uplink
  runs.

## Fairness

- **PodProvisioning.** It has weak fairness on each pod's provisioning and
  teardown steps. A goroutine serving a CNI request runs to completion
  unless a call fails, and the engine never waits on another pod. There is
  no fairness on requests, registry changes or failures: those come from the
  environment.
- **SecretWatcher.** It has weak fairness on each controller's `Pop` and
  `Deliver`. An informer goroutine keeps processing events until its stop
  channel is closed, and a callback that waits for the mutex gets it,
  because every critical section is short. The caller, the API server and
  sweeps get no fairness.
- **StateStore, UplinkDrivers and WireguardPeer.** Their runs check only
  safety, so they assume no fairness.

## Not modelled

- **Agent main** (`cmd/calico_vpp_dataplane.go`). It wires together servers
  that are not under `src/`, and the spec treats process bootstrap and
  signal handling as external. Its one concurrency hazard is the
  `t.Alive()` check before `t.Go` in `Go`. That hazard lies between the
  tomb library, the watchdog and those servers, so it is listed in
  `PROJECT.json` without a model.
- **Rollback across spec families.** The rollback run never pairs a
  single-network pod with a multi-network one (see Bounds).
- **Wireguard callers.** A caller that sets `AllowedIPs` to a slice with
  duplicates can make `Equal` report different peers as equal. Those
  callers are not under `src/`.
- **Debug CLI** (`util/dbghelper.go`). It only wraps terminal and process
  I/O.
- **Formatting.** The string formatting and tag hashing of `LocalPodSpec`
  are left out.
- **Power loss.** The store model's crash is a process crash. Loss of
  unsynced page cache (no `fsync` before the rename) is a listed hazard
  without a property.
- **Address restore.** The uplink model does not restore link addresses.
  `removeLinuxIfConf` and `restoreLinuxIfConf` are not under `src/`.
