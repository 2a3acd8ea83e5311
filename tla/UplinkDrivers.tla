---------------------------- MODULE UplinkDrivers ----------------------------
(***************************************************************************)
(* The lifecycle of one uplink NIC under vpp-manager                       *)
(* (vpp-manager/uplink/{virtio,rdma,vmxnet3}.go): PreconfigureLinux takes  *)
(* the interface from Linux (vfio no-IOMMU mode, link down, driver swap),  *)
(* CreateMainVppInterface gives it to VPP, VPP runs and exits, and         *)
(* RestoreLinux hands it back.  The host state is the vfio                 *)
(* enable_unsafe_noiommu_mode value, the kernel driver bound to the PCI    *)
(* device, the network namespace of the Linux interface and its link       *)
(* state.  Any kernel or VPP call may fail when InjectFailures holds.      *)
(***************************************************************************)
EXTENDS Naturals

CONSTANTS
  Drivers,         \* the uplink drivers: "virtio", "rdma", "vmxnet3"
  InjectFailures   \* may a call to the kernel or to VPP fail

VARIABLES
  params,  \* what vpp-manager found at startup and the uplink's spec
  host,    \* [iommu, bound, ns, up]
  host0,   \* the host state when vpp-manager started (history)
  pc,      \* pre, create, run, restore, done
  failed   \* some call has failed (history)

vars == <<params, host, host0, pc, failed>>

Ok == IF InjectFailures THEN BOOLEAN ELSE {TRUE}

\* VppManagerParams / LinuxInterfaceState / UplinkInterfaceSpec: the
\* initial noiommu mode ("unknown" when reading it failed), whether the
\* link was up, whether every uplink is physical, the driver to swap to
\* ("" by default) and DoSwapDriver.
Params == [drv: Drivers, iommu: {"Y", "N", "unknown"}, isUp: BOOLEAN,
           allPhys: BOOLEAN, newDriver: {"", "uio"}, doSwap: BOOLEAN]

\* removeLinuxIfConf(down): the link goes down (its addresses go with it).
LinkDown(h) == [h EXCEPT !.up = FALSE]

-----------------------------------------------------------------------------
(* virtio                                                                  *)

\* VirtioDriver.PreconfigureLinux: vfio-pci unless NewDriverName is set;
\* a failed driver swap is only logged.
VirtioPreconfigureLinux ==
  /\ params.drv = "virtio" /\ pc = "pre"
  /\ \E setOk, swapOk \in Ok :
       LET setIommu == params.iommu = "N"
           doSwap   == params.newDriver = "" \/ params.doSwap
           newDrv   == IF params.newDriver = "" THEN "vfio" ELSE params.newDriver
       IN  IF setIommu /\ ~setOk
             THEN pc' = "restore" /\ failed' = TRUE /\ UNCHANGED host
             ELSE /\ host' = [LinkDown(host) EXCEPT
                                !.iommu = IF setIommu THEN "Y" ELSE @,
                                !.bound = IF doSwap /\ swapOk THEN newDrv ELSE @]
                  /\ failed' = (failed \/ (doSwap /\ ~swapOk))
                  /\ pc' = "create"
  /\ UNCHANGED <<params, host0>>

\* VirtioDriver.RestoreLinux: noiommu mode first, then the original
\* driver, the namespace, and the link if it was up.
VirtioRestoreLinux ==
  /\ params.drv = "virtio" /\ pc = "restore"
  /\ \E setOk, swapOk, moveOk, upOk \in Ok :
       LET setIommu == params.iommu = "N"
           move     == ~params.allPhys /\ host.ns = "vpp"
           bringUp  == params.isUp
       IN  /\ host' = [host EXCEPT
                         !.iommu = IF setIommu /\ setOk THEN "N" ELSE @,
                         !.bound = IF swapOk THEN "orig" ELSE @,
                         !.ns    = IF move /\ moveOk THEN "host" ELSE @,
                         !.up    = IF bringUp /\ upOk THEN TRUE ELSE @]
           /\ failed' = (failed \/ (setIommu /\ ~setOk) \/ ~swapOk
                                \/ (move /\ ~moveOk) \/ (bringUp /\ ~upOk))
  /\ pc' = "done"
  /\ UNCHANGED <<params, host0>>

-----------------------------------------------------------------------------
(* rdma                                                                    *)

\* RDMADriver.PreconfigureLinux: the mlx5 driver stays bound.
RdmaPreconfigureLinux ==
  /\ params.drv = "rdma" /\ pc = "pre"
  /\ host' = LinkDown(host)
  /\ pc' = "create"
  /\ UNCHANGED <<params, host0, failed>>

\* RDMADriver.CreateMainVppInterface: the Linux interface is moved into
\* VPP's namespace after CreateRDMA; either call may fail.
RdmaCreateMainVppInterface ==
  /\ params.drv = "rdma" /\ pc = "create"
  /\ \E createOk, moveOk \in Ok :
       /\ host' = IF createOk /\ moveOk THEN [host EXCEPT !.ns = "vpp"] ELSE host
       /\ failed' = (failed \/ ~createOk \/ ~moveOk)
       /\ pc' = IF createOk /\ moveOk THEN "run" ELSE "restore"
  /\ UNCHANGED <<params, host0>>

\* RDMADriver.RestoreLinux: the namespace, then the link if it was up.
RdmaRestoreLinux ==
  /\ params.drv = "rdma" /\ pc = "restore"
  /\ \E moveOk, upOk \in Ok :
       LET move    == ~params.allPhys /\ host.ns = "vpp"
           bringUp == params.isUp
       IN  /\ host' = [host EXCEPT
                         !.ns = IF move /\ moveOk THEN "host" ELSE @,
                         !.up = IF bringUp /\ upOk THEN TRUE ELSE @]
           /\ failed' = (failed \/ (move /\ ~moveOk) \/ (bringUp /\ ~upOk))
  /\ pc' = "done"
  /\ UNCHANGED <<params, host0>>

-----------------------------------------------------------------------------
(* vmxnet3                                                                 *)

\* Vmxnet3Driver.PreconfigureLinux: every failure is returned.
Vmxnet3PreconfigureLinux ==
  /\ params.drv = "vmxnet3" /\ pc = "pre"
  /\ \E setOk, nameOk, swapOk \in Ok :
       LET setIommu == params.iommu = "N"
           iommu1   == IF setIommu THEN "Y" ELSE host.iommu
           doSwap   == host.bound # "vfio"
       IN  CASE setIommu /\ ~setOk ->
                  pc' = "restore" /\ failed' = TRUE /\ UNCHANGED host
             [] ~nameOk \/ (doSwap /\ ~swapOk) ->
                  /\ host' = [LinkDown(host) EXCEPT !.iommu = iommu1]
                  /\ pc' = "restore" /\ failed' = TRUE
             [] OTHER ->
                  /\ host' = [LinkDown(host) EXCEPT !.iommu = iommu1, !.bound = "vfio"]
                  /\ pc' = "create" /\ UNCHANGED failed
  /\ UNCHANGED <<params, host0>>

\* Vmxnet3Driver.RestoreLinux: the original driver, then the link if it
\* was up (returning early if it was not, or if bringing it up fails),
\* and only then the noiommu mode.
Vmxnet3RestoreLinux ==
  /\ params.drv = "vmxnet3" /\ pc = "restore"
  /\ \E swapOk, upOk, setOk \in Ok :
       LET reachesIommu == params.isUp /\ upOk
           setIommu     == reachesIommu /\ params.iommu = "N"
       IN  /\ host' = [host EXCEPT
                         !.bound = IF swapOk THEN "orig" ELSE @,
                         !.up    = IF params.isUp /\ upOk THEN TRUE ELSE @,
                         !.iommu = IF setIommu /\ setOk THEN "N" ELSE @]
           /\ failed' = (failed \/ ~swapOk \/ (params.isUp /\ ~upOk)
                                \/ (setIommu /\ ~setOk))
  /\ pc' = "done"
  /\ UNCHANGED <<params, host0>>

-----------------------------------------------------------------------------
(* The shared steps.                                                       *)

\* virtio / vmxnet3 CreateMainVppInterface: CreateVirtio / CreateVmxnet3
\* then TagMainInterface; an error stops vpp-manager.
CreateMainVppInterface ==
  /\ params.drv # "rdma" /\ pc = "create"
  /\ \E createOk, tagOk \in Ok :
       /\ failed' = (failed \/ ~createOk \/ ~tagOk)
       /\ pc' = IF createOk /\ tagOk THEN "run" ELSE "restore"
  /\ UNCHANGED <<params, host, host0>>

\* VPP exits; its namespace goes with it and a physical interface in it
\* returns to the host namespace.
VppExit ==
  /\ pc = "run"
  /\ host' = IF params.allPhys THEN [host EXCEPT !.ns = "host"] ELSE host
  /\ pc' = "restore"
  /\ UNCHANGED <<params, host0, failed>>

\* NewVppManagerParams reads the noiommu mode (a failed read leaves it
\* "unknown" and the drivers then never touch it).
Init ==
  /\ params \in Params
  /\ host \in {h \in [iommu: {"Y", "N"}, bound: {"orig"}, ns: {"host"}, up: BOOLEAN] :
                 /\ params.iommu # "unknown" => h.iommu = params.iommu
                 /\ h.up = params.isUp}
  /\ host0 = host
  /\ pc = "pre"
  /\ failed = FALSE

Next ==
  \/ VirtioPreconfigureLinux \/ VirtioRestoreLinux
  \/ RdmaPreconfigureLinux \/ RdmaCreateMainVppInterface \/ RdmaRestoreLinux
  \/ Vmxnet3PreconfigureLinux \/ Vmxnet3RestoreLinux
  \/ CreateMainVppInterface \/ VppExit

Spec == Init /\ [][Next]_vars

-----------------------------------------------------------------------------
(* Properties.                                                             *)

\* RestoreLinux hands the NIC back as vpp-manager found it: when every
\* call succeeded, the noiommu mode, the bound driver, the namespace and
\* the link state are those before PreconfigureLinux.
RestoreLinuxRestoresHost ==
  pc = "done" /\ ~failed => host = host0

=============================================================================
