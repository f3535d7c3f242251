-------------------------------- MODULE Vpci --------------------------------
(***************************************************************************)
(* Passthrough PCI devices moving between the Service VM (SOS) and the     *)
(* post-launched VMs: vpci_assign_pcidev, vpci_deassign_pcidev and         *)
(* deinit_vpci of hypervisor/dm/vpci/vpci.c, behind the hypercalls that    *)
(* guard them by the state of the VM, called by one device model (acrn-dm) *)
(* process per VM in the order of its boot, reset, suspend and power-off   *)
(* paths.                                                                  *)
(*                                                                         *)
(* The SOS has one vdev per device; its `user` field names who uses the    *)
(* device: the SOS itself, the vdev of a VM, or nobody.  A VM has an array *)
(* of vdevs that only grows until the VM is created again.  The IOMMU      *)
(* context entry of a device holds the domain its DMA goes to; attaching a *)
(* present entry, or detaching one of another domain, panics the host.     *)
(***************************************************************************)
EXTENDS Naturals, Sequences, FiniteSets

CONSTANTS
    VMs,             \* the post-launched VMs, one device model each
    Devices,         \* the physical devices that can be passed through
    Passthru,        \* [VMs -> Seq(Devices)]: the slots of each acrn-dm
    Rtvm,            \* the real-time VMs, whose DM never deassigns or resets
    SystemResets,    \* the VMs whose guests ask for a system reset
    MaxVdevs,        \* CONFIG_MAX_PCI_DEV_NUM
    SOS, NULL

(* The slots of a device model fit into the array of its VM.               *)
ASSUME VpciAssumption ==
    /\ MaxVdevs \in Nat /\ NULL # SOS /\ {NULL, SOS} \intersect (VMs \union Devices) = {}
    /\ \A v \in VMs : /\ Passthru[v] \in Seq(Devices) /\ Len(Passthru[v]) <= MaxVdevs
                      /\ \A i \in 0..MaxVdevs : <<v, i>> \notin {NULL, SOS}

VARIABLES
    vm_state,        \* [VMs -> state of the VM]
    vdevs,           \* [VMs -> the pci_vdevs array up to pci_vdev_cnt]
    sos_user,        \* [Devices -> `user` of the vdev of the SOS]
    iommu,           \* [Devices -> the domain of the context entry]
    handing,         \* [VMs -> device whose parent vdev is still to be initialised]
    panicked,        \* a panic() of the IOMMU moves was reached
    dm,              \* [VMs -> where the device model is]
    todo             \* [VMs -> the devices it has yet to initialise or deinitialise]

hvvars == <<vdevs, sos_user, iommu, handing, panicked>>
vpci_vars == <<vm_state, vdevs, sos_user, iommu, handing, panicked, dm, todo>>

VpciInit ==
    /\ vm_state = [v \in VMs |-> "off"]
    /\ vdevs = [v \in VMs |-> <<>>]
    /\ sos_user = [d \in Devices |-> SOS]
    /\ iommu = [d \in Devices |-> SOS]
    /\ handing = [v \in VMs |-> NULL]
    /\ panicked = FALSE
    /\ dm = [v \in VMs |-> "off"]
    /\ todo = [v \in VMs |-> <<>>]

-----------------------------------------------------------------------------
(* The hypervisor.                                                         *)

(* move_pt_device: a move out of `from` and into `to`, either of them      *)
(* NULL; a step that fails panics.                                         *)
detach_ok(d, from) == iommu[d] = from
attach_ok(d) == iommu[d] = NULL

(* pci_find_vdev: the list of a bucket is filled at its head, so of        *)
(* several vdevs at the bdf the newest is found.                           *)
found(v, d) == {i \in 1..Len(vdevs[v]) :
                  /\ vdevs[v][i].dev = d
                  /\ \A j \in 1..Len(vdevs[v]) : vdevs[v][j].dev = d => j <= i}

(* hcall_assign_pcidev: only while the VM is being created.                *)
may_assign(v) == vm_state[v] = "created"

(* The vdev of the SOS must be its own user to be given away.              *)
available(d) == sos_user[d] = SOS

(* The device is taken from the SOS, a vdev of the VM is appended and      *)
(* initialised, and the SOS's vdev points to it, all under the vpci lock   *)
(* of the SOS.                                                             *)
vpci_assign_pcidev(v, d) ==
    /\ vdevs' = [vdevs EXCEPT ![v] = Append(@, [dev |-> d, user |-> TRUE])]
    /\ sos_user' = [sos_user EXCEPT ![d] = <<v, Len(vdevs'[v])>>]
    /\ iommu' = [iommu EXCEPT ![d] = v]
    /\ panicked' = (panicked \/ ~detach_ok(d, SOS))
    /\ UNCHANGED handing

(* Mutant: the vdev stays its own user. *)
vpci_deinit_pt_devKeepsUser(v, i) ==
    LET d == vdevs[v][i].dev IN
    /\ iommu' = [iommu EXCEPT ![d] = NULL]
    /\ panicked' = (panicked \/ ~detach_ok(d, v))
    /\ handing' = [handing EXCEPT ![v] = d]
    /\ UNCHANGED <<vdevs, sos_user>>

(* The vdev of the VM gives its device up: out of the domain of the VM and *)
(* without a user.  The caller remembered the parent vdev before.          *)
vpci_deinit_pt_dev(v, i) ==
    LET d == vdevs[v][i].dev IN
    /\ vdevs' = [vdevs EXCEPT ![v][i].user = FALSE]
    /\ iommu' = [iommu EXCEPT ![d] = NULL]
    /\ panicked' = (panicked \/ ~detach_ok(d, v))
    /\ handing' = [handing EXCEPT ![v] = d]
    /\ UNCHANGED sos_user

(* vpci_init_pt_dev on the parent, under the vpci lock of the SOS, which   *)
(* deassignment and shutdown take only now.                                *)
init_parent(v) ==
    LET d == handing[v] IN
    /\ sos_user' = [sos_user EXCEPT ![d] = SOS]
    /\ iommu' = [iommu EXCEPT ![d] = SOS]
    /\ panicked' = (panicked \/ ~attach_ok(d))
    /\ handing' = [handing EXCEPT ![v] = NULL]
    /\ UNCHANGED vdevs

-----------------------------------------------------------------------------
(* acrn-dm of VM v.  A hypercall that is still handing a device back has   *)
(* not returned.                                                           *)

Returned(v) == handing[v] = NULL
DmAt(v, place) == Returned(v) /\ dm[v] = place
DmGoto(v, place, devs) == dm' = [dm EXCEPT ![v] = place] /\ todo' = [todo EXCEPT ![v] = devs]
SetState(v, s) == vm_state' = [vm_state EXCEPT ![v] = s]

(* vm_create: create_vm clears the VM's vpci.                              *)
vm_create(v) == /\ DmAt(v, "off") /\ vm_state[v] = "off"
                /\ SetState(v, "created")
                /\ vdevs' = [vdevs EXCEPT ![v] = <<>>]
                /\ DmGoto(v, "boot_init", Passthru[v])
                /\ UNCHANGED <<sos_user, iommu, handing, panicked>>

(* init_pci, one slot: the hypercall assigns when the VM is in CREATED and *)
(* the SOS uses the device itself; otherwise init_pci gives up and         *)
(* deinitialises the slots it had initialised.                             *)
passthru_init(v) ==
    /\ \/ DmAt(v, "boot_init") \/ DmAt(v, "reset_init")
    /\ todo[v] # <<>>
    /\ LET d == Head(todo[v]) IN
       IF may_assign(v) /\ available(d)
         THEN vpci_assign_pcidev(v, d) /\ DmGoto(v, dm[v], Tail(todo[v]))
         ELSE /\ UNCHANGED hvvars
              /\ DmGoto(v, IF dm[v] = "boot_init" THEN "boot_undo" ELSE "reset_undo",
                      SubSeq(Passthru[v], 1, Len(Passthru[v]) - Len(todo[v])))
    /\ UNCHANGED vm_state

(* One slot of deinit_pci, or of an init_pci that gives up.  The DM of a   *)
(* real-time VM leaves its devices to the hypervisor; a slot whose device  *)
(* the VM no longer uses makes the hypercall fail.                         *)
passthru_deinit(v) ==
    /\ Returned(v) /\ dm[v] \in {"boot_undo", "reset_undo", "reset_deinit", "deinit"}
    /\ todo[v] # <<>>
    /\ DmGoto(v, dm[v], Tail(todo[v]))
    /\ UNCHANGED vm_state
    /\ LET live == {i \in found(v, Head(todo[v])) : vdevs[v][i].user} IN
       IF v \notin Rtvm /\ vm_state[v] \in {"created", "paused"} /\ live # {}
         THEN \E i \in live : vpci_deinit_pt_dev(v, i)
         ELSE UNCHANGED hvvars

(* hcall_start_vm after init_pci, also after an init_pci that failed       *)
(* during a system reset: vm_reset_vdevs ignores its result.               *)
vm_run(v) == /\ \/ DmAt(v, "boot_init") /\ todo[v] = <<>>
                \/ DmAt(v, "run")
             /\ vm_state[v] = "created"
             /\ SetState(v, "started") /\ DmGoto(v, "loop", <<>>)
             /\ UNCHANGED hvvars

(* vm_system_reset up to deinit_pci; vm_suspend_resume up to vm_reset; and *)
(* the end of vm_loop on a power-off or a full reset.                      *)
vm_system_reset(v) == /\ DmAt(v, "loop") /\ v \in SystemResets \ Rtvm
                      /\ SetState(v, "paused") /\ DmGoto(v, "reset_deinit", Passthru[v])
                      /\ UNCHANGED hvvars

vm_suspend_resume(v) == /\ DmAt(v, "loop")
                        /\ SetState(v, "paused") /\ DmGoto(v, "reset", <<>>)
                        /\ UNCHANGED hvvars

vm_poweroff(v) == /\ DmAt(v, "loop")
                  /\ SetState(v, "paused") /\ DmGoto(v, "deinit", Passthru[v])
                  /\ UNCHANGED hvvars

reset_init(v) == /\ DmAt(v, "reset_deinit") /\ todo[v] = <<>>
                 /\ DmGoto(v, "reset_init", Passthru[v])
                 /\ UNCHANGED <<vm_state, vdevs, sos_user, iommu, handing, panicked>>

(* Mutant: a reset clears the vpci of the VM. *)
vm_resetDropsDevices(v) == /\ DmAt(v, "reset") /\ vm_state[v] = "paused"
                           /\ SetState(v, "created") /\ DmGoto(v, "run", <<>>)
                           /\ vdevs' = [vdevs EXCEPT ![v] = <<>>]
                           /\ UNCHANGED <<sos_user, iommu, handing, panicked>>

(* hcall_reset_vm: the VM is CREATED again; its vpci is left alone.        *)
vm_reset(v) == /\ \/ DmAt(v, "reset")
                  \/ DmAt(v, "reset_undo") /\ todo[v] = <<>>
                  \/ DmAt(v, "reset_init") /\ todo[v] = <<>>
               /\ vm_state[v] = "paused"
               /\ SetState(v, "created") /\ DmGoto(v, "run", <<>>)
               /\ UNCHANGED hvvars

(* Failed boots and the end of the process: vm_pause (again), then         *)
(* hcall_destroy_vm, which powers the VM off and runs deinit_vpci.         *)
vm_destroy(v) == /\ \/ DmAt(v, "boot_undo") \/ DmAt(v, "deinit")
                 /\ todo[v] = <<>>
                 /\ SetState(v, "off") /\ DmGoto(v, "destroy", <<>>)
                 /\ UNCHANGED hvvars

(* Mutant: the devices of a real-time VM are forgotten. *)
ownUnlessRt(v) == {i \in 1..Len(vdevs[v]) : vdevs[v][i].user /\ v \notin Rtvm}
(* The vdevs deinit_vpci deinitialises: the VM's own.                      *)
own(v) == {i \in 1..Len(vdevs[v]) : vdevs[v][i].user}

(* One iteration of deinit_vpci on a vdev the VM uses, in array order.     *)
deinit_vpci(v) == /\ DmAt(v, "destroy")
                  /\ \E i \in own(v) : /\ \A j \in own(v) : i <= j
                                       /\ vpci_deinit_pt_dev(v, i)
                  /\ UNCHANGED <<vm_state, dm, todo>>

destroyed(v) == /\ DmAt(v, "destroy") /\ own(v) = {}
                /\ DmGoto(v, "off", <<>>)
                /\ UNCHANGED <<vm_state, vdevs, sos_user, iommu, handing, panicked>>

hand_back(v) == /\ handing[v] # NULL
                /\ init_parent(v)
                /\ UNCHANGED <<vm_state, dm, todo>>

VpciStep(v) == \/ vm_create(v) \/ passthru_init(v) \/ passthru_deinit(v) \/ vm_run(v)
               \/ vm_system_reset(v) \/ vm_suspend_resume(v) \/ vm_poweroff(v)
               \/ reset_init(v) \/ vm_reset(v) \/ vm_destroy(v) \/ deinit_vpci(v)
               \/ destroyed(v) \/ hand_back(v)

VpciNext == \E v \in VMs : VpciStep(v)

VpciSpec == VpciInit /\ [][VpciNext]_vpci_vars

(* acrn-dm goes on until it is in vm_loop, and a hypercall returns.        *)
DmStep(v) == dm[v] # "loop" /\ dm[v] # "off" /\ VpciStep(v)
VpciFairSpec == /\ VpciSpec
                /\ \A v \in VMs : WF_vpci_vars(DmStep(v))

-----------------------------------------------------------------------------
(* Types; a vdev array, which only grows, stays within its size (the       *)
(* precondition of vpci_init_vdev) because only a CREATED VM is given      *)
(* devices; and the state the VM is in at each place of its device model,  *)
(* which is what the hypercalls' guards will find.                         *)
VpciTypeOK ==
    /\ vm_state \in [VMs -> {"off", "created", "started", "paused"}]
    /\ \A v \in VMs : /\ vdevs[v] \in Seq([dev : Devices, user : BOOLEAN])
                      /\ Len(vdevs[v]) <= MaxVdevs
                      /\ todo[v] \in Seq(Devices)
    /\ sos_user \in [Devices -> {SOS, NULL} \cup (VMs \X Nat)]
    /\ iommu \in [Devices -> {SOS, NULL} \cup VMs]
    /\ handing \in [VMs -> Devices \cup {NULL}]
    /\ panicked \in BOOLEAN
    /\ dm \in [VMs -> {"off", "boot_init", "boot_undo", "run", "loop", "reset_deinit", "reset_init",
                       "reset_undo", "reset", "deinit", "destroy"}]
    /\ \A v \in VMs :
         vm_state[v] = CASE dm[v] \in {"off", "destroy"} -> "off"
                         [] dm[v] \in {"boot_init", "boot_undo", "run"} -> "created"
                         [] dm[v] = "loop" -> "started"
                         [] OTHER -> "paused"

(* No sequence of assignments, deassignments and shutdowns of VMs that     *)
(* want the same devices reaches one of the two panics ("failed to assign  *)
(* iommu device!", "failed to unassign iommu device!") that take the host  *)
(* down.                                                                   *)
NoPanic == ~panicked

Users(d) == {v \in VMs : \E i \in 1..Len(vdevs[v]) : vdevs[v][i].dev = d /\ vdevs[v][i].user}

(* DMA follows the user: the IOMMU domain of a device is that of the one   *)
(* VM with a live vdev for it, or the SOS's exactly when the SOS's vdev is *)
(* its own user; in between it is nobody's.                                *)
IommuFollowsUser ==
    \A d \in Devices : /\ \A v \in VMs : v \in Users(d) <=> iommu[d] = v
                       /\ sos_user[d] = SOS <=> iommu[d] = SOS

(* The SOS's vdev never keeps a pointer to a vdev that is gone: what `user`*)
(* names belongs to a VM that is not off, also when its device model, that *)
(* of a real-time VM, deassigns nothing; and it is a live vdev for the     *)
(* same device, or one whose hypercall is about to hand the device back    *)
(* (find_available_vdev follows the pointer on every configuration access  *)
(* of the SOS).                                                            *)
UserIsLive ==
    \A d \in Devices : \A v \in VMs : \A i \in 0..MaxVdevs :
        sos_user[d] = <<v, i>> =>
            /\ dm[v] # "off"
            /\ \/ handing[v] = d
               \/ i \in 1..Len(vdevs[v]) /\ vdevs[v][i] = [dev |-> d, user |-> TRUE]

(* A started VM has every device its device model was told to pass         *)
(* through, also after a suspend and resume, which leaves them alone.  Not *)
(* so after a system reset: vm_reset_vdevs gives the devices up and asks   *)
(* for them again while the VM is paused, and hcall_assign_pcidev refuses  *)
(* a VM that is not CREATED.                                               *)
RunsWithDevices ==
    \A v \in VMs \ SystemResets : vm_state[v] = "started" =>
        \A i \in 1..Len(Passthru[v]) : v \in Users(Passthru[v][i])

(* Types, the pointers that vpci_init_vdev and deinit_vpci maintain, no    *)
(* panic, the IOMMU domains, and the devices of the VMs that run.          *)
VpciInv == VpciTypeOK /\ UserIsLive /\ NoPanic /\ IommuFollowsUser /\ RunsWithDevices

(* A device that is with no VM, while it is handed over, gets back to one. *)
DeviceWaits(d) == iommu[d] = NULL
=============================================================================
