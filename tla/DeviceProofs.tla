---------------------------- MODULE DeviceProofs ----------------------------
(***************************************************************************)
(* Two parts of what a device model does, for any number of VMs, devices   *)
(* and events.                                                             *)
(*                                                                         *)
(* Passthrough devices change hands (Vpci). The inductive invariant says,  *)
(* for each point of a device model's course, in which state its VM is and *)
(* which of its vdevs are live, and ties the pointer in the vdev of the    *)
(* Service VM and the IOMMU domain of a device to the one live vdev there  *)
(* may be.                                                                 *)
(*                                                                         *)
(* The event loop (Mevent): what an operation that is under way still has  *)
(* to do to its event, and what the batch of the loop may hold.            *)
(***************************************************************************)
EXTENDS Vpci, Mevent, Integers, TLAPS

Vdev == [dev : Devices, user : BOOLEAN]
States == {"off", "created", "started", "paused"}
Deinits == {"boot_undo", "reset_undo", "reset_deinit", "deinit", "destroy"}
Dm == {"off", "boot_init", "run", "loop", "reset_init", "reset"} \union Deinits
Resetting == {"reset_deinit", "reset_init", "reset_undo"}
StateAt(place) == CASE place \in {"off", "destroy"} -> "off"
                    [] place \in {"boot_init", "boot_undo", "run"} -> "created"
                    [] place = "loop" -> "started"
                    [] OTHER -> "paused"

VpciTyped ==
    /\ vm_state \in [VMs -> States] /\ dm \in [VMs -> Dm]
    /\ vdevs \in [VMs -> Seq(Vdev)] /\ todo \in [VMs -> Seq(Devices)]
    /\ sos_user \in [Devices -> {SOS} \union (VMs \X (1..MaxVdevs))]
    /\ iommu \in [Devices -> {SOS, NULL} \union VMs]
    /\ handing \in [VMs -> Devices \union {NULL}]
    /\ panicked = FALSE

(* The i-th vdev of v is a live one for d.                                 *)
Live(v, i, d) == i \in 1..Len(vdevs[v]) /\ vdevs[v][i] = [dev |-> d, user |-> TRUE]
Points(d, v, i) == i \in 1..Len(vdevs[v]) /\ sos_user[d] = <<v, i>>

(* A device is with the SOS, or with the VM whose live vdev the SOS's vdev *)
(* points to, or on its way back from there, and its domain says which.    *)
DeviceOK(d) ==
    /\ sos_user[d] = SOS <=> iommu[d] = SOS
    /\ \A v \in VMs : handing[v] = d => iommu[d] = NULL /\ \E i \in Nat : Points(d, v, i)
    /\ \A v \in VMs, i \in Nat : Live(v, i, d) => iommu[d] = v /\ Points(d, v, i)
    /\ sos_user[d] # SOS =>
         \E v \in VMs, i \in Nat : Points(d, v, i) /\ (handing[v] = d \/ Live(v, i, d))
DeviceInv == \A d \in Devices : DeviceOK(d)

(* What each place of the device model of v knows of its vdevs.            *)
Booting(v) ==
    /\ Len(todo[v]) = Len(Passthru[v]) - Len(vdevs[v])
    /\ \A i \in 1..Len(todo[v]) : todo[v][i] = Passthru[v][Len(vdevs[v]) + i]
    /\ \A i \in 1..Len(vdevs[v]) : Live(v, i, Passthru[v][i])
Equipped(v) == \A i \in 1..Len(Passthru[v]) : Live(v, i, Passthru[v][i])
DmOK(v) ==
    /\ vm_state[v] = StateAt(dm[v])
    /\ handing[v] # NULL => dm[v] \in Deinits
    /\ dm[v] = "off" => own(v) = {}
    /\ Len(vdevs[v]) <= Len(Passthru[v])
    /\ dm[v] = "boot_init" => Booting(v)
    /\ dm[v] \in {"loop", "reset", "run"} /\ v \notin SystemResets => Equipped(v)
    /\ dm[v] \in Resetting => v \in SystemResets
DmInv == \A v \in VMs : DmOK(v)

VpciIInv == VpciTyped /\ DeviceInv /\ DmInv

-----------------------------------------------------------------------------
LEMMA Slots ==
    ASSUME NEW v \in VMs
    PROVE  /\ Passthru[v] \in Seq(Devices) /\ Len(Passthru[v]) \in Nat /\ Len(Passthru[v]) <= MaxVdevs
           /\ v # NULL /\ v # SOS /\ NULL # SOS
           /\ \A i \in 0..MaxVdevs : <<v, i>> # NULL /\ <<v, i>> # SOS
<1>1. Passthru[v] \in Seq(Devices) /\ Len(Passthru[v]) <= MaxVdevs
  BY VpciAssumption, Zenon
<1>2. Len(Passthru[v]) \in Nat
  BY <1>1
<1>3. v # NULL /\ v # SOS
  BY VpciAssumption, Zenon
<1>. QED  BY <1>1, <1>2, <1>3, VpciAssumption, Zenon

LEMMA Lengths ==
    ASSUME VpciTyped, NEW v \in VMs
    PROVE  /\ vdevs[v] \in Seq(Vdev) /\ Len(vdevs[v]) \in Nat
           /\ todo[v] \in Seq(Devices) /\ Len(todo[v]) \in Nat
           /\ \A i \in 1..Len(vdevs[v]) : vdevs[v][i] \in Vdev
<1>1. vdevs[v] \in Seq(Vdev) /\ todo[v] \in Seq(Devices)
  BY Zenon DEF VpciTyped
<1>. QED  BY <1>1

LEMMA Indexes ==
    ASSUME VpciIInv, NEW v \in VMs, NEW i \in 1..Len(vdevs[v])
    PROVE  i \in 1..MaxVdevs /\ i \in 0..MaxVdevs
<1>1. Len(vdevs[v]) <= Len(Passthru[v])
  BY Zenon DEF VpciIInv, DmInv, DmOK
<1>2. Len(vdevs[v]) \in Nat /\ Len(Passthru[v]) \in Nat /\ Len(Passthru[v]) <= MaxVdevs /\ MaxVdevs \in Nat
  BY Lengths, Slots, VpciAssumption, Zenon DEF VpciIInv
<1>. QED  BY <1>1, <1>2

LEMMA Pointing ==
    ASSUME VpciIInv, NEW d \in Devices, NEW v \in VMs, NEW i \in Nat, Points(d, v, i)
    PROVE  sos_user[d] # SOS /\ \A w \in VMs, j \in Nat : Points(d, w, j) => w = v /\ j = i
<1>1. sos_user[d] # SOS
  BY Indexes, Slots, Zenon DEF Points
<1>. QED  BY <1>1 DEF Points

LEMMA NotADevice ==
    ASSUME NEW d \in Devices
    PROVE  d # NULL /\ d # SOS
BY VpciAssumption, Zenon

LEMMA Appending ==
    ASSUME NEW S, NEW q \in Seq(S), NEW x \in S
    PROVE  /\ Append(q, x) \in Seq(S) /\ Len(Append(q, x)) = Len(q) + 1
           /\ \A i \in 1..Len(q) : Append(q, x)[i] = q[i]
           /\ Append(q, x)[Len(q) + 1] = x
OBVIOUS

LEMMA Taking ==
    ASSUME NEW S, NEW q \in Seq(S), q # <<>>
    PROVE  /\ Head(q) \in S /\ Head(q) = q[1] /\ Len(q) >= 1
           /\ Tail(q) \in Seq(S) /\ Len(Tail(q)) = Len(q) - 1
           /\ \A i \in 1..Len(Tail(q)) : Tail(q)[i] = q[i + 1]
OBVIOUS

(* A device that a step does not touch.                                    *)
LEMMA Elsewhere ==
    ASSUME NEW d, DeviceOK(d), sos_user'[d] = sos_user[d], iommu'[d] = iommu[d],
           \A v \in VMs : handing'[v] = d <=> handing[v] = d,
           \A v \in VMs, i \in Nat : (Live(v, i, d)' <=> Live(v, i, d)) /\ (Points(d, v, i) => Points(d, v, i)')
    PROVE  DeviceOK(d)'
BY Zenon DEF DeviceOK

(* The device model goes on and the hypervisor does not.                   *)
LEMMA Moving ==
    ASSUME VpciIInv, NEW v \in VMs, UNCHANGED hvvars,
           NEW place \in Dm, NEW devs \in Seq(Devices), DmGoto(v, place, devs),
           vm_state' = [vm_state EXCEPT ![v] = StateAt(place)],
           handing[v] # NULL => place \in Deinits,
           place = "off" => own(v) = {},
           place # "boot_init",
           place \in {"loop", "reset", "run"} /\ v \notin SystemResets => Equipped(v),
           place \in Resetting => v \in SystemResets
    PROVE  VpciIInv'
<1>1. UNCHANGED <<vdevs, sos_user, iommu, handing, panicked>>
  BY Zenon DEF hvvars
<1>2. StateAt(place) \in States
  BY Zenon DEF StateAt, States
<1>3. /\ dm' \in [VMs -> Dm] /\ dm'[v] = place /\ todo' \in [VMs -> Seq(Devices)]
      /\ \A w \in VMs : w # v => dm'[w] = dm[w] /\ todo'[w] = todo[w]
  BY Zenon DEF VpciIInv, VpciTyped, DmGoto
<1>4. /\ vm_state' \in [VMs -> States] /\ vm_state'[v] = StateAt(place)
      /\ \A w \in VMs : w # v => vm_state'[w] = vm_state[w]
  BY <1>2, Zenon DEF VpciIInv, VpciTyped
<1>5. VpciTyped'
  BY <1>1, <1>3, <1>4, Zenon DEF VpciIInv, VpciTyped
<1>6. DeviceInv'
  <2>. SUFFICES ASSUME NEW d \in Devices
                PROVE  DeviceOK(d)'
    BY Zenon DEF DeviceInv
  <2>1. \A w \in VMs, i \in Nat : (Live(w, i, d)' <=> Live(w, i, d)) /\ (Points(d, w, i) => Points(d, w, i)')
    BY <1>1, Zenon DEF Live, Points
  <2>. QED  BY <1>1, <2>1, Elsewhere, Zenon DEF VpciIInv, DeviceInv
<1>7. DmInv'
  <2>. SUFFICES ASSUME NEW w \in VMs
                PROVE  DmOK(w)'
    BY Zenon DEF DmInv
  <2>1. DmOK(w)
    BY Zenon DEF VpciIInv, DmInv
  <2>2. (Equipped(w)' <=> Equipped(w)) /\ own(w)' = own(w) /\ vdevs'[w] = vdevs[w] /\ handing'[w] = handing[w]
    BY <1>1, Zenon DEF Equipped, Live, own
  <2>3. CASE w # v
    <3>1. Booting(w)' <=> Booting(w)
      BY <1>1, <1>3, <2>3, Zenon DEF Booting, Live
    <3>. QED  BY <1>3, <1>4, <2>1, <2>2, <2>3, <3>1, Zenon DEF DmOK
  <2>4. CASE w = v
    BY <1>3, <1>4, <2>1, <2>2, <2>4, Zenon DEF DmOK
  <2>. QED  BY <2>3, <2>4, Zenon
<1>. QED  BY <1>5, <1>6, <1>7, Zenon DEF VpciIInv

LEMMA Step_moves ==
    ASSUME VpciIInv, NEW v \in VMs,
           \/ vm_run(v) \/ vm_system_reset(v) \/ vm_suspend_resume(v) \/ vm_poweroff(v)
           \/ reset_init(v) \/ vm_reset(v) \/ vm_destroy(v) \/ destroyed(v)
    PROVE  VpciIInv'
<1>1. /\ UNCHANGED hvvars /\ handing[v] = NULL /\ DmOK(v)
      /\ vm_state \in [VMs -> States] /\ <<>> \in Seq(Devices) /\ Passthru[v] \in Seq(Devices)
  <2>1. UNCHANGED hvvars /\ handing[v] = NULL
    BY Zenon DEF vm_run, vm_system_reset, vm_suspend_resume, vm_poweroff, reset_init, vm_reset,
       vm_destroy, destroyed, DmAt, Returned, hvvars
  <2>2. <<>> \in Seq(Devices)
    OBVIOUS
  <2>. QED  BY <2>1, <2>2, Slots, Zenon DEF VpciIInv, VpciTyped, DmInv
<1>. USE DEF Dm, Deinits, Resetting
<1>2. CASE vm_run(v)
  <2>1. DmGoto(v, "loop", <<>>) /\ vm_state' = [vm_state EXCEPT ![v] = StateAt("loop")]
    BY <1>2, Zenon DEF vm_run, SetState, StateAt
  <2>2. v \notin SystemResets => Equipped(v)
    <3>1. CASE dm[v] = "run"
      BY <1>1, <3>1, Zenon DEF DmOK
    <3>2. CASE dm[v] = "boot_init" /\ todo[v] = <<>>
      <4>1. Booting(v) /\ Len(todo[v]) = 0
        BY <1>1, <3>2, Zenon DEF DmOK
      <4>2. Len(vdevs[v]) \in Nat /\ Len(Passthru[v]) \in Nat /\ 0 = Len(Passthru[v]) - Len(vdevs[v])
        BY <4>1, Lengths, Slots, Zenon DEF Booting, VpciIInv
      <4>3. Len(vdevs[v]) = Len(Passthru[v])
        BY <4>2
      <4>. QED  BY <4>1, <4>3, Zenon DEF Booting, Equipped
    <3>. QED  BY <1>2, <3>1, <3>2, Zenon DEF vm_run, DmAt
  <2>. QED  BY <1>1, <2>1, <2>2, Moving, Zenon
<1>3. CASE vm_system_reset(v)
  <2>1. /\ DmGoto(v, "reset_deinit", Passthru[v]) /\ v \in SystemResets
        /\ vm_state' = [vm_state EXCEPT ![v] = StateAt("reset_deinit")]
    BY <1>3, Zenon DEF vm_system_reset, SetState, StateAt
  <2>. QED  BY <1>1, <2>1, Moving, Zenon
<1>4. CASE vm_suspend_resume(v)
  <2>1. DmGoto(v, "reset", <<>>) /\ vm_state' = [vm_state EXCEPT ![v] = StateAt("reset")] /\ dm[v] = "loop"
    BY <1>4, Zenon DEF vm_suspend_resume, SetState, StateAt, DmAt
  <2>. QED  BY <1>1, <2>1, Moving, Zenon DEF DmOK
<1>5. CASE vm_poweroff(v)
  <2>1. DmGoto(v, "deinit", Passthru[v]) /\ vm_state' = [vm_state EXCEPT ![v] = StateAt("deinit")]
    BY <1>5, Zenon DEF vm_poweroff, SetState, StateAt
  <2>. QED  BY <1>1, <2>1, Moving, Zenon
<1>6. CASE reset_init(v)
  <2>1. DmGoto(v, "reset_init", Passthru[v]) /\ dm[v] = "reset_deinit" /\ vm_state' = vm_state
    BY <1>6, Zenon DEF reset_init, DmAt
  <2>2. vm_state[v] = StateAt("reset_init") /\ v \in SystemResets
    BY <1>1, <2>1, Zenon DEF DmOK, StateAt
  <2>3. vm_state' = [vm_state EXCEPT ![v] = StateAt("reset_init")]
    BY <1>1, <2>1, <2>2, Zenon
  <2>. QED  BY <1>1, <2>1, <2>2, <2>3, Moving, Zenon
<1>7. CASE vm_reset(v)
  <2>1. DmGoto(v, "run", <<>>) /\ vm_state' = [vm_state EXCEPT ![v] = StateAt("run")]
    BY <1>7, Zenon DEF vm_reset, SetState, StateAt
  <2>2. dm[v] = "reset" \/ dm[v] \in Resetting
    BY <1>7, Zenon DEF vm_reset, DmAt
  <2>. QED  BY <1>1, <2>1, <2>2, Moving, Zenon DEF DmOK
<1>8. CASE vm_destroy(v)
  <2>1. DmGoto(v, "destroy", <<>>) /\ vm_state' = [vm_state EXCEPT ![v] = StateAt("destroy")]
    BY <1>8, Zenon DEF vm_destroy, SetState, StateAt
  <2>. QED  BY <1>1, <2>1, Moving, Zenon
<1>9. CASE destroyed(v)
  <2>1. DmGoto(v, "off", <<>>) /\ dm[v] = "destroy" /\ vm_state' = vm_state /\ own(v) = {}
    BY <1>9, Zenon DEF destroyed, DmAt
  <2>2. vm_state[v] = StateAt("off")
    BY <1>1, <2>1, Zenon DEF DmOK, StateAt
  <2>3. vm_state' = [vm_state EXCEPT ![v] = StateAt("off")]
    BY <1>1, <2>1, <2>2, Zenon
  <2>. QED  BY <1>1, <2>1, <2>3, Moving, Zenon
<1>. QED  BY <1>2, <1>3, <1>4, <1>5, <1>6, <1>7, <1>8, <1>9, Zenon

LEMMA Step_create ==
    ASSUME VpciIInv, NEW v \in VMs, vm_create(v)
    PROVE  VpciIInv'
<1>1. /\ UNCHANGED <<sos_user, iommu, handing, panicked>> /\ handing[v] = NULL /\ dm[v] = "off"
      /\ DmGoto(v, "boot_init", Passthru[v]) /\ SetState(v, "created")
      /\ vdevs' = [vdevs EXCEPT ![v] = <<>>]
  BY Zenon DEF vm_create, DmAt, Returned
<1>2. "boot_init" \in Dm /\ "created" \in States /\ <<>> \in Seq(Vdev)
  BY DEF Dm, States
<1>3. /\ dm' \in [VMs -> Dm] /\ dm'[v] = "boot_init"
      /\ todo' \in [VMs -> Seq(Devices)] /\ todo'[v] = Passthru[v]
      /\ \A w \in VMs : w # v => dm'[w] = dm[w] /\ todo'[w] = todo[w]
  BY <1>1, <1>2, Slots, Zenon DEF VpciIInv, VpciTyped, DmGoto
<1>4. /\ vm_state' \in [VMs -> States] /\ vm_state'[v] = "created"
      /\ vdevs' \in [VMs -> Seq(Vdev)] /\ vdevs'[v] = <<>>
      /\ \A w \in VMs : w # v => vm_state'[w] = vm_state[w] /\ vdevs'[w] = vdevs[w]
  BY <1>1, <1>2, Zenon DEF VpciIInv, VpciTyped, SetState
<1>5. VpciTyped'
  BY <1>1, <1>3, <1>4, Zenon DEF VpciIInv, VpciTyped
<1>6. \A i \in Nat, d \in Devices : ~Live(v, i, d) /\ ~Live(v, i, d)' /\ ~Points(d, v, i)
  <2>1. own(v) = {}
    BY <1>1, Zenon DEF VpciIInv, DmInv, DmOK
  <2>2. \A i \in Nat, d \in Devices : ~Live(v, i, d)
    BY <2>1 DEF Live, own
  <2>3. \A i \in Nat, d \in Devices : ~Live(v, i, d)'
    BY <1>4 DEF Live
  <2>4. ASSUME NEW i \in Nat, NEW d \in Devices, Points(d, v, i)
        PROVE  FALSE
    <3>2. sos_user[d] # SOS
      BY <2>4, Pointing, Zenon
    <3>3. PICK w \in VMs, j \in Nat : Points(d, w, j) /\ (handing[w] = d \/ Live(w, j, d))
      BY <3>2, Zenon DEF VpciIInv, DeviceInv, DeviceOK
    <3>4. w = v
      BY <2>4, <3>3, Pointing, Zenon
    <3>. QED  BY <1>1, <2>2, <3>3, <3>4, NotADevice, Zenon
  <2>. QED  BY <2>2, <2>3, <2>4, Zenon
<1>7. DeviceInv'
  <2>. SUFFICES ASSUME NEW d \in Devices
                PROVE  DeviceOK(d)'
    BY Zenon DEF DeviceInv
  <2>1. \A w \in VMs, i \in Nat : (Live(w, i, d)' <=> Live(w, i, d)) /\ (Points(d, w, i) => Points(d, w, i)')
    <3>. SUFFICES ASSUME NEW w \in VMs, NEW i \in Nat
                  PROVE  (Live(w, i, d)' <=> Live(w, i, d)) /\ (Points(d, w, i) => Points(d, w, i)')
      BY Zenon
    <3>1. CASE w = v
      BY <1>6, <3>1, Zenon
    <3>2. CASE w # v
      BY <1>1, <1>4, <3>2, Zenon DEF Live, Points
    <3>. QED  BY <3>1, <3>2, Zenon
  <2>. QED  BY <1>1, <2>1, Elsewhere, Zenon DEF VpciIInv, DeviceInv
<1>8. DmInv'
  <2>. SUFFICES ASSUME NEW w \in VMs
                PROVE  DmOK(w)'
    BY Zenon DEF DmInv
  <2>1. DmOK(w)
    BY Zenon DEF VpciIInv, DmInv
  <2>2. CASE w # v
    <3>1. /\ Booting(w)' <=> Booting(w)
          /\ Equipped(w)' <=> Equipped(w)
          /\ own(w)' = own(w)
      BY <1>3, <1>4, <2>2, Zenon DEF Booting, Live, Equipped, own
    <3>. QED  BY <1>1, <1>3, <1>4, <2>1, <2>2, <3>1, Zenon DEF DmOK
  <2>3. CASE w = v
    <3>1. Len(vdevs'[v]) = 0
      BY <1>4
    <3>2. Booting(v)'
      BY <1>3, <3>1, Slots DEF Booting
    <3>3. /\ StateAt("boot_init") = "created" /\ "boot_init" # "off"
          /\ "boot_init" \notin {"loop", "reset", "run"} /\ "boot_init" \notin Resetting
      BY Zenon DEF StateAt, Resetting
    <3>4. Len(vdevs'[v]) <= Len(Passthru[v])
      BY <3>1, Slots
    <3>. QED  BY <1>1, <1>3, <1>4, <2>3, <3>2, <3>3, <3>4, Zenon DEF DmOK
  <2>. QED  BY <2>2, <2>3, Zenon
<1>. QED  BY <1>5, <1>7, <1>8, Zenon DEF VpciIInv

-----------------------------------------------------------------------------
(* A device is given to a VM that boots.                                   *)
LEMMA Assigning ==
    ASSUME VpciIInv, NEW v \in VMs, dm[v] = "boot_init", handing[v] = NULL,
           todo[v] # <<>>, NEW d, d = Head(todo[v]), available(d), vpci_assign_pcidev(v, d),
           DmGoto(v, dm[v], Tail(todo[v])), UNCHANGED vm_state
    PROVE  VpciIInv'
<1>1. /\ vdevs[v] \in Seq(Vdev) /\ Len(vdevs[v]) \in Nat /\ todo[v] \in Seq(Devices)
      /\ Passthru[v] \in Seq(Devices) /\ Len(Passthru[v]) \in Nat /\ DmOK(v) /\ Booting(v)
  BY Lengths, Slots, Zenon DEF VpciIInv, DmInv, DmOK
<1>2. PICK n \in Nat : n = Len(vdevs[v])
  BY <1>1, Zenon
<1>3. /\ d \in Devices /\ d = todo[v][1] /\ Len(todo[v]) >= 1 /\ Len(todo[v]) \in Nat
      /\ Tail(todo[v]) \in Seq(Devices) /\ Len(Tail(todo[v])) = Len(todo[v]) - 1
      /\ \A i \in 1..Len(Tail(todo[v])) : Tail(todo[v])[i] = todo[v][i + 1]
  BY <1>1, Taking, Lengths, Zenon DEF VpciIInv
<1>4. /\ d = Passthru[v][n + 1] /\ n + 1 \in Nat /\ n + 1 <= Len(Passthru[v])
      /\ Len(todo[v]) = Len(Passthru[v]) - n
  <2>1. Len(todo[v]) = Len(Passthru[v]) - n /\ \A i \in 1..Len(todo[v]) : todo[v][i] = Passthru[v][n + i]
    BY <1>1, <1>2, Zenon DEF Booting
  <2>2. 1 \in 1..Len(todo[v])
    BY <1>3
  <2>3. d = Passthru[v][n + 1]
    BY <1>3, <2>1, <2>2, Zenon
  <2>. QED  BY <1>1, <1>3, <2>1, <2>3
<1>5. PICK x : x = [dev |-> d, user |-> TRUE]
  BY Zenon
<1>6. x \in Vdev
  BY <1>3, <1>5, Zenon DEF Vdev
<1>7. PICK q : q = Append(vdevs[v], x)
  BY Zenon
<1>8. /\ q \in Seq(Vdev) /\ Len(q) = n + 1 /\ q[n + 1] = x
      /\ \A i \in 1..n : q[i] = vdevs[v][i]
  <2>1. /\ Append(vdevs[v], x) \in Seq(Vdev) /\ Len(Append(vdevs[v], x)) = Len(vdevs[v]) + 1
        /\ \A i \in 1..Len(vdevs[v]) : Append(vdevs[v], x)[i] = vdevs[v][i]
        /\ Append(vdevs[v], x)[Len(vdevs[v]) + 1] = x
    BY <1>1, <1>6, Appending
  <2>. QED  BY <1>2, <1>7, <2>1, Zenon
<1>9. /\ vdevs' \in [VMs -> Seq(Vdev)] /\ vdevs'[v] = q
      /\ \A w \in VMs : w # v => vdevs'[w] = vdevs[w]
  <2>1. vdevs' = [vdevs EXCEPT ![v] = q]
    BY <1>5, <1>7, Zenon DEF vpci_assign_pcidev
  <2>. QED  BY <1>8, <2>1, Zenon DEF VpciIInv, VpciTyped
<1>10. n + 1 \in 1..MaxVdevs /\ n + 1 \in 0..MaxVdevs
  <2>1. Len(Passthru[v]) <= MaxVdevs /\ MaxVdevs \in Nat
    BY Slots, VpciAssumption, Zenon
  <2>. QED  BY <1>1, <1>4, <2>1
<1>11. /\ sos_user' \in [Devices -> {SOS} \union (VMs \X (1..MaxVdevs))] /\ sos_user'[d] = <<v, n + 1>>
       /\ \A e \in Devices : e # d => sos_user'[e] = sos_user[e]
  <2>1. sos_user' = [sos_user EXCEPT ![d] = <<v, n + 1>>]
    BY <1>8, <1>9, Zenon DEF vpci_assign_pcidev
  <2>2. <<v, n + 1>> \in VMs \X (1..MaxVdevs)
    BY <1>10, Zenon
  <2>. QED  BY <1>3, <2>1, <2>2, Zenon DEF VpciIInv, VpciTyped
<1>12. /\ iommu' \in [Devices -> {SOS, NULL} \union VMs] /\ iommu'[d] = v
       /\ \A e \in Devices : e # d => iommu'[e] = iommu[e]
  BY <1>3, Zenon DEF VpciIInv, VpciTyped, vpci_assign_pcidev
<1>13. DeviceOK(d) /\ iommu[d] = SOS
  BY <1>3, Zenon DEF VpciIInv, DeviceInv, DeviceOK, available
<1>14. panicked' = FALSE /\ UNCHANGED handing
  BY <1>13, Zenon DEF VpciIInv, VpciTyped, vpci_assign_pcidev, detach_ok
<1>15. /\ dm' \in [VMs -> Dm] /\ todo' \in [VMs -> Seq(Devices)] /\ todo'[v] = Tail(todo[v])
       /\ \A w \in VMs : dm'[w] = dm[w] /\ (w # v => todo'[w] = todo[w])
  BY <1>3, Zenon DEF VpciIInv, VpciTyped, DmGoto
<1>16. VpciTyped'
  BY <1>9, <1>11, <1>12, <1>14, <1>15, Zenon DEF VpciIInv, VpciTyped
<1>17. /\ \A w \in VMs, i \in Nat, e \in Devices : Live(w, i, e)' <=> Live(w, i, e) \/ (w = v /\ i = n + 1 /\ e = d)
       /\ \A w \in VMs, i \in Nat, e \in Devices : e # d /\ Points(e, w, i) => Points(e, w, i)'
  <2>. SUFFICES ASSUME NEW w \in VMs, NEW i \in Nat, NEW e \in Devices
                PROVE  /\ Live(w, i, e)' <=> Live(w, i, e) \/ (w = v /\ i = n + 1 /\ e = d)
                       /\ e # d /\ Points(e, w, i) => Points(e, w, i)'
    BY Zenon
  <2>1. CASE w # v
    BY <1>9, <1>11, <2>1, Zenon DEF Live, Points
  <2>2. CASE w = v
    <3>1. e # d /\ Points(e, w, i) => Points(e, w, i)'
      BY <1>2, <1>8, <1>9, <1>11, <2>2 DEF Points
    <3>2. CASE i \in 1..n
      <4>1. i \in 1..Len(vdevs'[v]) /\ i # n + 1 /\ i \in 1..Len(vdevs[v]) /\ vdevs'[v][i] = vdevs[v][i]
        BY <1>2, <1>8, <1>9, <3>2
      <4>. QED  BY <2>2, <3>1, <4>1, Zenon DEF Live
    <3>3. CASE i = n + 1
      <4>1. i \in 1..Len(vdevs'[v]) /\ i \notin 1..Len(vdevs[v]) /\ vdevs'[v][i] = x
        BY <1>2, <1>8, <1>9, <3>3
      <4>2. x = [dev |-> e, user |-> TRUE] <=> e = d
        BY <1>5, Zenon
      <4>. QED  BY <2>2, <3>1, <3>3, <4>1, <4>2, Zenon DEF Live
    <3>4. CASE i \notin 1..n /\ i # n + 1
      <4>1. i \notin 1..Len(vdevs'[v]) /\ i \notin 1..Len(vdevs[v])
        BY <1>2, <1>8, <1>9, <3>4
      <4>. QED  BY <2>2, <3>1, <3>4, <4>1, Zenon DEF Live
    <3>. QED  BY <3>2, <3>3, <3>4, Zenon
  <2>. QED  BY <2>1, <2>2, Zenon
<1>18. DeviceInv'
  <2>. SUFFICES ASSUME NEW e \in Devices
                PROVE  DeviceOK(e)'
    BY Zenon DEF DeviceInv
  <2>1. CASE e # d
    <3>1. \A w \in VMs, i \in Nat : (Live(w, i, e)' <=> Live(w, i, e)) /\ (Points(e, w, i) => Points(e, w, i)')
      BY <1>17, <2>1, Zenon
    <3>. QED  BY <1>11, <1>12, <1>14, <2>1, <3>1, Elsewhere, Zenon DEF VpciIInv, DeviceInv
  <2>2. CASE e = d
    <3>1. Points(d, v, n + 1)'
      BY <1>8, <1>9, <1>11 DEF Points
    <3>2. iommu'[d] # SOS /\ sos_user'[d] # SOS
      BY <1>10, <1>11, <1>12, Slots, Zenon
    <3>3. \A w \in VMs : handing'[w] # d
      BY <1>13, <1>14, Slots, Zenon DEF DeviceOK
    <3>4. \A w \in VMs, i \in Nat : Live(w, i, d)' => w = v /\ i = n + 1
      BY <1>3, <1>13, <1>17, Slots, Zenon DEF DeviceOK
    <3>5. Live(v, n + 1, d)'
      BY <1>3, <1>4, <1>17, Zenon
    <3>. QED  BY <1>4, <1>12, <2>2, <3>1, <3>2, <3>3, <3>4, <3>5, Zenon DEF DeviceOK
  <2>. QED  BY <2>1, <2>2, Zenon
<1>19. DmInv'
  <2>. SUFFICES ASSUME NEW w \in VMs
                PROVE  DmOK(w)'
    BY Zenon DEF DmInv
  <2>1. DmOK(w) /\ vm_state'[w] = vm_state[w] /\ handing'[w] = handing[w] /\ dm'[w] = dm[w]
    BY <1>14, <1>15, Zenon DEF VpciIInv, DmInv
  <2>2. CASE w # v
    <3>1. /\ Booting(w)' <=> Booting(w)
          /\ Equipped(w)' <=> Equipped(w)
          /\ own(w)' = own(w) /\ vdevs'[w] = vdevs[w]
      BY <1>9, <1>15, <2>2, Zenon DEF Booting, Live, Equipped, own
    <3>. QED  BY <2>1, <2>2, <3>1, Zenon DEF DmOK
  <2>3. CASE w = v
    <3>1. "boot_init" # "off" /\ "boot_init" \notin {"loop", "reset", "run"} /\ "boot_init" \notin Resetting
      BY Zenon DEF Resetting
    <3>2. Booting(v)'
      <4>1. Len(todo'[v]) = Len(Passthru[v]) - Len(vdevs'[v])
        <5>1. Len(todo'[v]) = Len(todo[v]) - 1 /\ Len(vdevs'[v]) = n + 1
          BY <1>3, <1>8, <1>9, <1>15, Zenon
        <5>2. Len(todo[v]) = Len(Passthru[v]) - n /\ Len(Passthru[v]) \in Nat
          BY <1>1, <1>4, Zenon
        <5>. QED  BY <5>1, <5>2
      <4>2. ASSUME NEW i \in 1..Len(todo'[v])
            PROVE  todo'[v][i] = Passthru[v][Len(vdevs'[v]) + i]
        <5>1. i + 1 \in 1..Len(todo[v]) /\ i \in 1..Len(Tail(todo[v])) /\ n + (i + 1) = (n + 1) + i
          BY <1>3, <1>15, <4>2, SMTT(20)
        <5>2. todo[v][i + 1] = Passthru[v][n + (i + 1)]
          BY <1>1, <1>2, <5>1, Zenon DEF Booting
        <5>. QED  BY <1>3, <1>8, <1>9, <1>15, <5>1, <5>2, Zenon
      <4>3. ASSUME NEW i \in 1..Len(vdevs'[v])
            PROVE  Live(v, i, Passthru[v][i])'
        <5>1. i \in Nat /\ i \in 1..Len(Passthru[v]) /\ (i \in 1..n \/ i = n + 1)
          BY <1>1, <1>4, <1>8, <1>9, <4>3
        <5>2. Passthru[v][i] \in Devices
          BY <1>1, <5>1
        <5>3. i \in 1..n => Live(v, i, Passthru[v][i])
          BY <1>1, <1>2, Zenon DEF Booting
        <5>. QED  BY <1>4, <1>17, <5>1, <5>2, <5>3, Zenon
      <4>. QED  BY <4>1, <4>2, <4>3, Zenon DEF Booting
    <3>3. Len(vdevs'[v]) <= Len(Passthru[v])
      BY <1>4, <1>8, <1>9, Zenon
    <3>. QED  BY <2>1, <2>3, <3>1, <3>2, <3>3, Zenon DEF DmOK
  <2>. QED  BY <2>2, <2>3, Zenon
<1>. QED  BY <1>16, <1>18, <1>19, Zenon DEF VpciIInv

(* A live vdev gives its device up.                                        *)
LEMMA Deinitialising ==
    ASSUME VpciIInv, NEW v \in VMs, handing[v] = NULL, dm[v] \in Deinits,
           NEW i \in 1..Len(vdevs[v]), vdevs[v][i].user, vpci_deinit_pt_dev(v, i),
           UNCHANGED <<dm, vm_state>>, todo' \in [VMs -> Seq(Devices)],
           \A w \in VMs : w # v => todo'[w] = todo[w]
    PROVE  VpciIInv'
<1>1. /\ vdevs[v] \in Seq(Vdev) /\ vdevs[v][i] \in Vdev /\ i \in Nat
  BY Lengths DEF VpciIInv
<1>2. PICK d : d = vdevs[v][i].dev
  OBVIOUS
<1>3. d \in Devices /\ Live(v, i, d)
  BY <1>1, <1>2, Zenon DEF Vdev, Live
<1>4. DeviceOK(d) /\ iommu[d] = v /\ Points(d, v, i)
  BY <1>1, <1>3, Zenon DEF VpciIInv, DeviceInv, DeviceOK
<1>5. PICK q : q = [vdevs[v] EXCEPT ![i].user = FALSE]
  BY Zenon
<1>6. /\ q \in Seq(Vdev) /\ Len(q) = Len(vdevs[v]) /\ q[i].user = FALSE
      /\ \A j \in 1..Len(vdevs[v]) : j # i => q[j] = vdevs[v][j]
  <2>1. [vdevs[v][i] EXCEPT !.user = FALSE] \in Vdev /\ [vdevs[v][i] EXCEPT !.user = FALSE].user = FALSE
    BY <1>1, Zenon DEF Vdev
  <2>2. q = [vdevs[v] EXCEPT ![i] = [vdevs[v][i] EXCEPT !.user = FALSE]]
    BY <1>5, Zenon
  <2>. QED  BY <1>1, <2>1, <2>2
<1>7. /\ vdevs' \in [VMs -> Seq(Vdev)] /\ vdevs'[v] = q
      /\ \A w \in VMs : w # v => vdevs'[w] = vdevs[w]
  <2>1. vdevs' = [vdevs EXCEPT ![v] = q]
    BY <1>5, Zenon DEF vpci_deinit_pt_dev
  <2>. QED  BY <1>6, <2>1, Zenon DEF VpciIInv, VpciTyped
<1>8. /\ iommu' \in [Devices -> {SOS, NULL} \union VMs] /\ iommu'[d] = NULL
      /\ \A e \in Devices : e # d => iommu'[e] = iommu[e]
      /\ handing' \in [VMs -> Devices \union {NULL}] /\ handing'[v] = d
      /\ \A w \in VMs : w # v => handing'[w] = handing[w]
      /\ sos_user' = sos_user
  BY <1>2, <1>3, Zenon DEF VpciIInv, VpciTyped, vpci_deinit_pt_dev
<1>9. panicked' = FALSE
  BY <1>2, <1>4, Zenon DEF VpciIInv, VpciTyped, vpci_deinit_pt_dev, detach_ok
<1>10. VpciTyped'
  BY <1>7, <1>8, <1>9, Zenon DEF VpciIInv, VpciTyped
<1>11. /\ \A w \in VMs, j \in Nat, e \in Devices : Live(w, j, e)' <=> Live(w, j, e) /\ ~(w = v /\ j = i)
       /\ \A w \in VMs, j \in Nat, e \in Devices : Points(e, w, j) <=> Points(e, w, j)'
  <2>. SUFFICES ASSUME NEW w \in VMs, NEW j \in Nat, NEW e \in Devices
                PROVE  /\ Live(w, j, e)' <=> Live(w, j, e) /\ ~(w = v /\ j = i)
                       /\ Points(e, w, j) <=> Points(e, w, j)'
    BY Zenon
  <2>1. CASE w # v
    BY <1>7, <1>8, <2>1, Zenon DEF Live, Points
  <2>2. CASE w = v
    <3>1. Points(e, w, j) <=> Points(e, w, j)'
      BY <1>6, <1>7, <1>8, <2>2, Zenon DEF Points
    <3>2. CASE j # i
      BY <1>6, <1>7, <2>2, <3>1, <3>2, Zenon DEF Live
    <3>3. CASE j = i
      <4>1. ~Live(w, j, e)'
        BY <1>6, <1>7, <2>2, <3>3 DEF Live
      <4>. QED  BY <2>2, <3>1, <3>3, <4>1, Zenon
    <3>. QED  BY <3>2, <3>3, Zenon
  <2>. QED  BY <2>1, <2>2, Zenon
<1>12. DeviceInv'
  <2>. SUFFICES ASSUME NEW e \in Devices
                PROVE  DeviceOK(e)'
    BY Zenon DEF DeviceInv
  <2>1. CASE e # d
    <3>1. ~Live(v, i, e)
      BY <1>2, <2>1 DEF Live
    <3>2. \A w \in VMs, j \in Nat : (Live(w, j, e)' <=> Live(w, j, e)) /\ (Points(e, w, j) => Points(e, w, j)')
      BY <1>11, <3>1, Zenon
    <3>3. \A w \in VMs : handing'[w] = e <=> handing[w] = e
      BY <1>8, <2>1, NotADevice, Zenon
    <3>. QED  BY <1>8, <2>1, <3>2, <3>3, Elsewhere, Zenon DEF VpciIInv, DeviceInv
  <2>2. CASE e = d
    <3>1. sos_user'[d] # SOS /\ iommu'[d] # SOS
      BY <1>1, <1>3, <1>4, <1>8, Pointing, Slots, Zenon
    <3>2. \A w \in VMs : handing'[w] = d => w = v
      BY <1>4, <1>8, Slots, Zenon DEF DeviceOK
    <3>3. \A w \in VMs, j \in Nat : ~Live(w, j, d)'
      <4>. SUFFICES ASSUME NEW w \in VMs, NEW j \in Nat, Live(w, j, d)'
                    PROVE  FALSE
        BY Zenon
      <4>1. Live(w, j, d) /\ ~(w = v /\ j = i)
        BY <1>3, <1>11, Zenon
      <4>2. Points(d, w, j)
        BY <1>4, <4>1, Zenon DEF DeviceOK
      <4>. QED  BY <1>1, <1>3, <1>4, <4>1, <4>2, Pointing, Zenon
    <3>4. Points(d, v, i)'
      BY <1>1, <1>3, <1>4, <1>11, Zenon
    <3>5. sos_user'[d] = SOS <=> iommu'[d] = SOS
      BY <3>1, Zenon
    <3>6. \A w \in VMs : handing'[w] = d => iommu'[d] = NULL /\ \E j \in Nat : Points(d, w, j)'
      BY <1>1, <1>8, <3>2, <3>4, Zenon
    <3>7. \E w \in VMs, j \in Nat : Points(d, w, j)' /\ (handing'[w] = d \/ Live(w, j, d)')
      BY <1>1, <1>8, <3>4, Zenon
    <3>. QED  BY <2>2, <3>3, <3>5, <3>6, <3>7, Zenon DEF DeviceOK
  <2>. QED  BY <2>1, <2>2, Zenon
<1>13. DmInv'
  <2>. SUFFICES ASSUME NEW w \in VMs
                PROVE  DmOK(w)'
    BY Zenon DEF DmInv
  <2>1. DmOK(w)
    BY Zenon DEF VpciIInv, DmInv
  <2>2. CASE w # v
    <3>1. /\ Booting(w)' <=> Booting(w)
          /\ Equipped(w)' <=> Equipped(w)
          /\ own(w)' = own(w) /\ vdevs'[w] = vdevs[w] /\ handing'[w] = handing[w]
      BY <1>7, <1>8, <2>2, Zenon DEF Booting, Live, Equipped, own
    <3>. QED  BY <2>1, <2>2, <3>1, Zenon DEF DmOK
  <2>3. CASE w = v
    <3>1. dm[v] # "off" /\ dm[v] # "boot_init" /\ dm[v] \notin {"loop", "reset", "run"}
      BY Zenon DEF Deinits
    <3>2. Len(vdevs'[v]) <= Len(Passthru[v])
      BY <1>6, <1>7, <2>1, <2>3, Zenon DEF DmOK
    <3>. QED  BY <2>1, <2>3, <3>1, <3>2, Zenon DEF DmOK
  <2>. QED  BY <2>2, <2>3, Zenon
<1>. QED  BY <1>10, <1>12, <1>13, Zenon DEF VpciIInv

(* The device is with the SOS again.                                       *)
LEMMA Step_hand_back ==
    ASSUME VpciIInv, NEW v \in VMs, hand_back(v)
    PROVE  VpciIInv'
<1>1. PICK d : d = handing[v]
  OBVIOUS
<1>2. d \in Devices /\ UNCHANGED <<vm_state, dm, todo, vdevs>>
  BY <1>1, Zenon DEF VpciIInv, VpciTyped, hand_back, init_parent
<1>3. DeviceOK(d) /\ iommu[d] = NULL /\ \E i \in Nat : Points(d, v, i)
  BY <1>1, <1>2, Zenon DEF VpciIInv, DeviceInv, DeviceOK
<1>4. /\ iommu' \in [Devices -> {SOS, NULL} \union VMs] /\ iommu'[d] = SOS
      /\ sos_user' \in [Devices -> {SOS} \union (VMs \X (1..MaxVdevs))] /\ sos_user'[d] = SOS
      /\ \A e \in Devices : e # d => iommu'[e] = iommu[e] /\ sos_user'[e] = sos_user[e]
      /\ handing' \in [VMs -> Devices \union {NULL}] /\ handing'[v] = NULL
      /\ \A w \in VMs : w # v => handing'[w] = handing[w]
  BY <1>1, <1>2, Zenon DEF VpciIInv, VpciTyped, hand_back, init_parent
<1>5. panicked' = FALSE
  BY <1>1, <1>3, Zenon DEF VpciIInv, VpciTyped, hand_back, init_parent, attach_ok
<1>6. VpciTyped'
  BY <1>2, <1>4, <1>5, Zenon DEF VpciIInv, VpciTyped
<1>7. DeviceInv'
  <2>. SUFFICES ASSUME NEW e \in Devices
                PROVE  DeviceOK(e)'
    BY Zenon DEF DeviceInv
  <2>0. \A w \in VMs, j \in Nat : Live(w, j, e)' <=> Live(w, j, e)
    BY <1>2, Zenon DEF Live
  <2>1. CASE e # d
    <3>1. \A w \in VMs, j \in Nat : Points(e, w, j) => Points(e, w, j)'
      BY <1>2, <1>4, <2>1, Zenon DEF Points
    <3>2. \A w \in VMs : handing'[w] = e <=> handing[w] = e
      BY <1>1, <1>4, <2>1, NotADevice, Zenon
    <3>. QED  BY <1>4, <2>0, <2>1, <3>1, <3>2, Elsewhere, Zenon DEF VpciIInv, DeviceInv
  <2>2. CASE e = d
    <3>1. \A w \in VMs : handing'[w] # d
      <4>. SUFFICES ASSUME NEW w \in VMs, handing'[w] = d
                    PROVE  FALSE
        BY Zenon
      <4>1. w # v /\ handing[w] = d
        BY <1>2, <1>4, NotADevice, Zenon
      <4>2. \E j \in Nat : Points(d, w, j)
        BY <1>3, <4>1, Zenon DEF DeviceOK
      <4>. QED  BY <1>2, <1>3, <4>1, <4>2, Pointing, Zenon
    <3>2. \A w \in VMs, j \in Nat : ~Live(w, j, d)'
      BY <1>3, <2>0, <2>2, Slots, Zenon DEF DeviceOK
    <3>. QED  BY <1>4, <2>2, <3>1, <3>2, Zenon DEF DeviceOK
  <2>. QED  BY <2>1, <2>2, Zenon
<1>8. DmInv'
  <2>. SUFFICES ASSUME NEW w \in VMs
                PROVE  DmOK(w)'
    BY Zenon DEF DmInv
  <2>1. DmOK(w) /\ (handing'[w] # NULL => handing[w] # NULL)
    BY <1>4, Zenon DEF VpciIInv, DmInv
  <2>2. /\ Booting(w)' <=> Booting(w)
        /\ Equipped(w)' <=> Equipped(w)
        /\ own(w)' = own(w)
    BY <1>2, Zenon DEF Booting, Live, Equipped, own
  <2>. QED  BY <1>2, <2>1, <2>2, Zenon DEF DmOK
<1>. QED  BY <1>6, <1>7, <1>8, Zenon DEF VpciIInv

LEMMA Step_init ==
    ASSUME VpciIInv, NEW v \in VMs, passthru_init(v)
    PROVE  VpciIInv'
<1>1. /\ handing[v] = NULL /\ dm[v] \in {"boot_init", "reset_init"} /\ todo[v] # <<>> /\ vm_state' = vm_state
  BY Zenon DEF passthru_init, DmAt, Returned
<1>2. PICK d : d = Head(todo[v])
  OBVIOUS
<1>3. DmOK(v) /\ Passthru[v] \in Seq(Devices) /\ Len(Passthru[v]) \in Nat /\ Len(todo[v]) \in Nat
  BY Lengths, Slots, Zenon DEF VpciIInv, DmInv
<1>4. CASE may_assign(v) /\ available(d)
  <2>1. dm[v] = "boot_init"
    BY <1>1, <1>3, <1>4, Zenon DEF DmOK, StateAt, may_assign
  <2>2. vpci_assign_pcidev(v, d) /\ DmGoto(v, dm[v], Tail(todo[v]))
    BY <1>2, <1>4, Zenon DEF passthru_init
  <2>. QED  BY <1>1, <1>2, <1>4, <2>1, <2>2, Assigning, Zenon
<1>5. CASE ~(may_assign(v) /\ available(d))
  <2>1. PICK place : place = IF dm[v] = "boot_init" THEN "boot_undo" ELSE "reset_undo"
    BY Zenon
  <2>2. PICK devs : devs = SubSeq(Passthru[v], 1, Len(Passthru[v]) - Len(todo[v]))
    BY Zenon
  <2>3. UNCHANGED hvvars /\ DmGoto(v, place, devs)
    BY <1>2, <1>5, <2>1, <2>2, Zenon DEF passthru_init
  <2>4. devs \in Seq(Devices)
    BY <1>3, <2>2
  <2>5. /\ place \in Dm /\ place \in Deinits /\ place \notin {"off", "boot_init", "loop", "reset", "run"}
        /\ StateAt(place) = StateAt(dm[v]) /\ (place \in Resetting => dm[v] \in Resetting)
    BY <1>1, <2>1, Zenon DEF Dm, Deinits, StateAt, Resetting
  <2>6. vm_state' = [vm_state EXCEPT ![v] = StateAt(place)]
    <3>1. vm_state \in [VMs -> States] /\ vm_state[v] = StateAt(place)
      BY <1>3, <2>5, Zenon DEF VpciIInv, VpciTyped, DmOK
    <3>. QED  BY <1>1, <3>1, Zenon
  <2>7. place \in Resetting => v \in SystemResets
    BY <1>3, <2>5, Zenon DEF DmOK
  <2>. QED  BY <1>1, <2>3, <2>4, <2>5, <2>6, <2>7, Moving, Zenon
<1>. QED  BY <1>4, <1>5, Zenon

LEMMA Step_deinit ==
    ASSUME VpciIInv, NEW v \in VMs, passthru_deinit(v)
    PROVE  VpciIInv'
<1>1. /\ handing[v] = NULL /\ todo[v] # <<>> /\ vm_state' = vm_state
      /\ dm[v] \in {"boot_undo", "reset_undo", "reset_deinit", "deinit"}
      /\ DmGoto(v, dm[v], Tail(todo[v]))
  BY Zenon DEF passthru_deinit, Returned
<1>2. /\ dm[v] \in Dm /\ dm[v] \in Deinits /\ dm[v] \notin {"off", "boot_init", "loop", "reset", "run"}
  BY <1>1, Zenon DEF Dm, Deinits
<1>3. DmOK(v) /\ Tail(todo[v]) \in Seq(Devices)
  BY <1>1, Lengths, Taking, Zenon DEF VpciIInv, DmInv
<1>4. PICK live : live = {i \in found(v, Head(todo[v])) : vdevs[v][i].user}
  BY Zenon
<1>5. (\E i \in live : vpci_deinit_pt_dev(v, i)) \/ UNCHANGED hvvars
  BY <1>4, Zenon DEF passthru_deinit
<1>6. dm' = dm /\ todo' \in [VMs -> Seq(Devices)] /\ \A w \in VMs : w # v => todo'[w] = todo[w]
  BY <1>1, <1>3, Zenon DEF VpciIInv, VpciTyped, DmGoto
<1>7. ASSUME NEW i \in live, vpci_deinit_pt_dev(v, i)
      PROVE  VpciIInv'
  <2>1. i \in 1..Len(vdevs[v]) /\ vdevs[v][i].user
    BY <1>4, <1>7, Zenon DEF found
  <2>. QED  BY <1>1, <1>2, <1>6, <1>7, <2>1, Deinitialising, Zenon
<1>8. CASE UNCHANGED hvvars
  <2>1. vm_state' = [vm_state EXCEPT ![v] = StateAt(dm[v])]
    BY <1>1, <1>3, Zenon DEF VpciIInv, VpciTyped, DmOK
  <2>. QED  BY <1>1, <1>2, <1>3, <1>8, <2>1, Moving, Zenon DEF DmOK
<1>. QED  BY <1>5, <1>7, <1>8, Zenon

LEMMA Step_deinit_vpci ==
    ASSUME VpciIInv, NEW v \in VMs, deinit_vpci(v)
    PROVE  VpciIInv'
<1>1. PICK i \in own(v) : vpci_deinit_pt_dev(v, i)
  BY Zenon DEF deinit_vpci
<1>2. i \in 1..Len(vdevs[v]) /\ vdevs[v][i].user
  BY <1>1, Zenon DEF own
<1>3. /\ handing[v] = NULL /\ dm[v] \in Deinits /\ UNCHANGED <<vm_state, dm, todo>>
  BY Zenon DEF deinit_vpci, DmAt, Returned, Deinits
<1>4. todo' \in [VMs -> Seq(Devices)]
  BY <1>3, Zenon DEF VpciIInv, VpciTyped
<1>. QED  BY <1>1, <1>2, <1>3, <1>4, Deinitialising, Zenon

LEMMA VpciInitially ==
    ASSUME VpciInit
    PROVE  VpciIInv
<1>1. /\ "off" \in States /\ "off" \in Dm /\ StateAt("off") = "off" /\ "off" \notin Resetting
      /\ "off" \notin {"boot_init", "loop", "reset", "run"}
      /\ <<>> \in Seq(Vdev) /\ <<>> \in Seq(Devices) /\ Len(<<>>) = 0
  BY DEF States, Dm, StateAt, Resetting
<1>2. VpciTyped
  BY <1>1, Zenon DEF VpciInit, VpciTyped
<1>3. \A v \in VMs, i \in Nat, d \in Devices : ~Live(v, i, d)
  BY DEF VpciInit, Live
<1>4. DeviceInv
  <2>. SUFFICES ASSUME NEW d \in Devices
                PROVE  DeviceOK(d)
    BY Zenon DEF DeviceInv
  <2>. QED  BY <1>3, NotADevice, Zenon DEF VpciInit, DeviceOK
<1>5. DmInv
  <2>. SUFFICES ASSUME NEW v \in VMs
                PROVE  DmOK(v)
    BY Zenon DEF DmInv
  <2>1. own(v) = {}
    BY DEF VpciInit, own
  <2>2. Len(vdevs[v]) = 0 /\ Len(vdevs[v]) <= Len(Passthru[v])
    BY Slots DEF VpciInit
  <2>3. dm[v] = "off" /\ vm_state[v] = "off" /\ handing[v] = NULL
    BY Zenon DEF VpciInit
  <2>. QED  BY <1>1, <2>1, <2>2, <2>3, Zenon DEF DmOK
<1>. QED  BY <1>2, <1>4, <1>5, Zenon DEF VpciIInv

LEMMA VpciStepKeeps ==
    ASSUME VpciIInv, [VpciNext]_vpci_vars
    PROVE  VpciIInv'
<1>1. CASE UNCHANGED vpci_vars
  <2>1. UNCHANGED <<vm_state, vdevs, sos_user, iommu, handing, panicked, dm, todo>>
    BY <1>1, Zenon DEF vpci_vars
  <2>2. VpciTyped'
    BY <2>1, Zenon DEF VpciIInv, VpciTyped
  <2>3. ASSUME NEW d \in Devices
        PROVE  DeviceOK(d)'
    <3>1. \A v \in VMs, i \in Nat : (Live(v, i, d)' <=> Live(v, i, d)) /\ (Points(d, v, i) => Points(d, v, i)')
      BY <2>1, Zenon DEF Live, Points
    <3>. QED  BY <2>1, <3>1, Elsewhere, Zenon DEF VpciIInv, DeviceInv
  <2>4. ASSUME NEW v \in VMs
        PROVE  DmOK(v)'
    BY <2>1, Zenon DEF VpciIInv, DmInv, DmOK, Booting, Equipped, Live, own
  <2>. QED  BY <2>2, <2>3, <2>4, Zenon DEF VpciIInv, DeviceInv, DmInv
<1>2. ASSUME NEW v \in VMs, VpciStep(v)
      PROVE  VpciIInv'
  BY <1>2, Step_moves, Step_create, Step_init, Step_deinit, Step_deinit_vpci, Step_hand_back, Zenon DEF VpciStep
<1>. QED  BY <1>1, <1>2, Zenon DEF VpciNext

LEMMA VpciImplies ==
    ASSUME VpciIInv
    PROVE  VpciInv
<1>1. \A v \in VMs, d \in Devices : v \in Users(d) <=> \E i \in Nat : Live(v, i, d)
  <2>. SUFFICES ASSUME NEW v \in VMs, NEW d \in Devices
                PROVE  v \in Users(d) <=> \E i \in Nat : Live(v, i, d)
    BY Zenon
  <2>1. ASSUME NEW i \in 1..Len(vdevs[v])
        PROVE  i \in Nat /\ (Live(v, i, d) <=> vdevs[v][i].dev = d /\ vdevs[v][i].user)
    <3>1. vdevs[v][i] \in Vdev /\ i \in Nat
      BY Lengths DEF VpciIInv
    <3>2. PICK x \in Vdev : x = vdevs[v][i]
      BY <3>1, Zenon
    <3>3. x = [dev |-> d, user |-> TRUE] <=> x.dev = d /\ x.user
      BY DEF Vdev
    <3>. QED  BY <3>1, <3>2, <3>3, Zenon DEF Live
  <2>2. v \in Users(d) <=> \E i \in 1..Len(vdevs[v]) : vdevs[v][i].dev = d /\ vdevs[v][i].user
    BY Zenon DEF Users
  <2>. QED  BY <2>1, <2>2, Zenon DEF Live
<1>2. VpciTypeOK
  <2>1. \A v \in VMs : Len(vdevs[v]) <= MaxVdevs
    <3>. SUFFICES ASSUME NEW v \in VMs
                  PROVE  Len(vdevs[v]) <= MaxVdevs
      BY Zenon
    <3>1. Len(vdevs[v]) <= Len(Passthru[v])
      BY Zenon DEF VpciIInv, DmInv, DmOK
    <3>2. Len(vdevs[v]) \in Nat /\ Len(Passthru[v]) \in Nat /\ Len(Passthru[v]) <= MaxVdevs /\ MaxVdevs \in Nat
      BY Lengths, Slots, VpciAssumption, Zenon DEF VpciIInv
    <3>. QED  BY <3>1, <3>2
  <2>2. sos_user \in [Devices -> {SOS, NULL} \union (VMs \X Nat)]
    <3>1. ASSUME NEW d \in Devices PROVE sos_user[d] \in {SOS, NULL} \union (VMs \X Nat)
      <4>1. sos_user[d] \in {SOS} \union (VMs \X (1..MaxVdevs))
        BY Zenon DEF VpciIInv, VpciTyped
      <4>2. 1..MaxVdevs \subseteq Nat
        OBVIOUS
      <4>. QED  BY <4>1, <4>2, Zenon
    <3>. QED  BY <3>1, Zenon DEF VpciIInv, VpciTyped
  <2>3. /\ vm_state \in [VMs -> {"off", "created", "started", "paused"}]
        /\ \A v \in VMs : vdevs[v] \in Seq([dev : Devices, user : BOOLEAN]) /\ todo[v] \in Seq(Devices)
        /\ iommu \in [Devices -> {SOS, NULL} \union VMs]
        /\ handing \in [VMs -> Devices \union {NULL}]
        /\ panicked \in BOOLEAN
    BY Zenon DEF VpciIInv, VpciTyped, States, Vdev
  <2>4. dm \in [VMs -> {"off", "boot_init", "boot_undo", "run", "loop", "reset_deinit", "reset_init",
                        "reset_undo", "reset", "deinit", "destroy"}]
    <3>1. dm \in [VMs -> Dm]
      BY Zenon DEF VpciIInv, VpciTyped
    <3>2. Dm = {"off", "boot_init", "boot_undo", "run", "loop", "reset_deinit", "reset_init",
                "reset_undo", "reset", "deinit", "destroy"}
      BY Zenon DEF Dm, Deinits
    <3>. QED  BY <3>1, <3>2, Zenon
  <2>5. \A v \in VMs : vm_state[v] = StateAt(dm[v])
    BY Zenon DEF VpciIInv, DmInv, DmOK
  <2>. QED  BY <2>1, <2>2, <2>3, <2>4, <2>5, Zenon DEF VpciTypeOK, StateAt
<1>3. UserIsLive
  <2>. SUFFICES ASSUME NEW d \in Devices, NEW v \in VMs, NEW i \in 0..MaxVdevs, sos_user[d] = <<v, i>>
                PROVE  dm[v] # "off" /\ (handing[v] = d \/ Live(v, i, d))
    BY Zenon DEF UserIsLive, Live
  <2>1. sos_user[d] # SOS
    BY Slots, Zenon
  <2>2. PICK w \in VMs, j \in Nat : Points(d, w, j) /\ (handing[w] = d \/ Live(w, j, d))
    BY <2>1, Zenon DEF VpciIInv, DeviceInv, DeviceOK
  <2>3. w = v /\ j = i
    BY <2>2 DEF Points
  <2>4. DmOK(v) /\ (handing[v] = d \/ Live(v, i, d))
    BY <2>2, <2>3, Zenon DEF VpciIInv, DmInv
  <2>5. CASE dm[v] = "off"
    <3>1. own(v) = {} /\ handing[v] # d
      BY <2>4, <2>5, NotADevice, Zenon DEF DmOK, Deinits
    <3>2. ~Live(v, i, d)
      BY <3>1 DEF own, Live
    <3>. QED  BY <2>4, <3>1, <3>2, Zenon
  <2>. QED  BY <2>4, <2>5, Zenon
<1>4. NoPanic
  BY Zenon DEF VpciIInv, VpciTyped, NoPanic
<1>5. IommuFollowsUser
  <2>. SUFFICES ASSUME NEW d \in Devices
                PROVE  /\ \A v \in VMs : v \in Users(d) <=> iommu[d] = v
                       /\ sos_user[d] = SOS <=> iommu[d] = SOS
    BY Zenon DEF IommuFollowsUser
  <2>1. DeviceOK(d)
    BY Zenon DEF VpciIInv, DeviceInv
  <2>2. ASSUME NEW v \in VMs, iommu[d] = v
        PROVE  \E i \in Nat : Live(v, i, d)
    <3>1. iommu[d] # SOS /\ iommu[d] # NULL
      BY <2>2, Slots, Zenon
    <3>. QED  BY <2>1, <2>2, <3>1, Zenon DEF DeviceOK
  <2>. QED  BY <1>1, <2>1, <2>2, Zenon DEF DeviceOK
<1>6. RunsWithDevices
  <2>. SUFFICES ASSUME NEW v \in VMs, v \notin SystemResets, vm_state[v] = "started", NEW i \in 1..Len(Passthru[v])
                PROVE  v \in Users(Passthru[v][i])
    BY Zenon DEF RunsWithDevices
  <2>1. dm[v] = "loop"
    <3>1. StateAt(dm[v]) = "started"
      BY Zenon DEF VpciIInv, DmInv, DmOK
    <3>. QED  BY <3>1, Zenon DEF StateAt
  <2>2. Live(v, i, Passthru[v][i])
    BY <2>1, Zenon DEF VpciIInv, DmInv, DmOK, Equipped
  <2>3. i \in Nat /\ Passthru[v][i] \in Devices
    BY Slots
  <2>. QED  BY <1>1, <2>2, <2>3, Zenon
<1>. QED  BY <1>2, <1>3, <1>4, <1>5, <1>6, Zenon DEF VpciInv

(* Whatever VMs want whatever devices and however their device models, the *)
(* hypercalls and the two halves of a handover interleave: no panic of     *)
(* move_pt_device, the IOMMU domain of a device is that of the one VM with *)
(* a live vdev for it, the SOS's vdev points to no vdev that is gone, and  *)
(* a running VM that is never system-reset has every device it was given.  *)
THEOREM VpciInvariance == VpciSpec => []VpciInv
<1>1. VpciInit => VpciIInv
  BY VpciInitially, Zenon
<1>2. VpciIInv /\ [VpciNext]_vpci_vars => VpciIInv'
  BY VpciStepKeeps, Zenon
<1>3. VpciIInv => VpciInv
  BY VpciImplies, Zenon
<1>. QED  BY <1>1, <1>2, <1>3, PTL DEF VpciSpec

-----------------------------------------------------------------------------

(* The event loop of the device model.                                     *)

(* The call of the other thread. *)
OpCalls == [call : {"add", "delete"}, e : Events, at : 1..4] \union [call : {"suspend"}, e : {NONE}, at : {1}]

MeventTyped ==
    /\ where \in [Events -> {"freed", "new", "global_head", "out", "del_head"}]
    /\ me_state \in [Events -> BOOLEAN] /\ torn \in [Events -> BOOLEAN]
    /\ epoll \subseteq Events \union {PIPE} /\ ready \subseteq Events \union {PIPE}
    /\ eventlist \in Seq(Events \union {PIPE})
    /\ op # NONE => op \in OpCalls
    /\ misused \in BOOLEAN

(* How far the other thread is with the event that it adds or deletes. *)
OpInv ==
    op # NONE =>
        /\ op.call = "add" => where[op.e] = "new"
        /\ op.call = "delete" /\ op.at \in 1..3 => where[op.e] = "out"
        /\ op.call = "delete" /\ op.at \in 2..3 => ~me_state[op.e]
        /\ op.call = "delete" /\ op.at = 3 => op.e \notin epoll

(* The batch holds no event twice and none that is freed, unless it is one that
   another thread frees under it; a handler runs for its head. *)
BatchInv ==
    /\ \A i, j \in 1..Len(eventlist) : eventlist[i] = eventlist[j] => i = j
    /\ "free" \notin races => \A i \in 1..Len(eventlist) : eventlist[i] \in Events => where[eventlist[i]] # "freed"
    /\ dispatch = "run" => eventlist # <<>> /\ Head(eventlist) \in Events
    /\ dispatch = "done" => eventlist = <<>>

MeventIInv == MeventTyped /\ OpInv /\ BatchInv /\ MeventInv

(* What is left of a batch, and a batch from epoll_wait. *)
LEMMA RestOfBatch ==
  ASSUME NEW S, NEW q \in Seq(S), q # <<>>, \A i, j \in 1..Len(q) : q[i] = q[j] => i = j
  PROVE  /\ Tail(q) \in Seq(S) /\ Head(q) \in S
         /\ \A i, j \in 1..Len(Tail(q)) : Tail(q)[i] = Tail(q)[j] => i = j
         /\ \A i \in 1..Len(Tail(q)) : Tail(q)[i] # Head(q) /\ \E j \in 1..Len(q) : Tail(q)[i] = q[j]
<1>1. Len(q) \in Nat /\ Len(q) >= 1 /\ Len(Tail(q)) = Len(q) - 1 /\ Tail(q) \in Seq(S) /\ Head(q) = q[1] /\ q[1] \in S
  OBVIOUS
<1>2. \A i \in 1..Len(Tail(q)) : Tail(q)[i] = q[i + 1] /\ i + 1 \in 1..Len(q) /\ i + 1 # 1
  BY <1>1
<1> DEFINE t == Tail(q)
<1> HIDE DEF t
<1>3. \A i, j \in 1..Len(t) : t[i] = t[j] => i = j
  <2> SUFFICES ASSUME NEW i \in 1..Len(t), NEW j \in 1..Len(t), t[i] = t[j] PROVE i = j
    OBVIOUS
  <2>1. i + 1 = j + 1
    BY <1>2, Zenon DEF t
  <2> QED
    BY <1>1, <2>1 DEF t
<1>4. \A i \in 1..Len(t) : t[i] # Head(q) /\ \E j \in 1..Len(q) : t[i] = q[j]
  <2> SUFFICES ASSUME NEW i \in 1..Len(t) PROVE t[i] # Head(q) /\ \E j \in 1..Len(q) : t[i] = q[j]
    OBVIOUS
  <2>1. t[i] = q[i + 1] /\ i + 1 \in 1..Len(q) /\ i + 1 # 1
    BY <1>2, Zenon DEF t
  <2>2. 1 \in 1..Len(q)
    BY <1>1
  <2> QED
    BY <1>1, <2>1, <2>2, Zenon
<1> QED
  BY <1>1, <1>3, <1>4, Zenon DEF t

LEMMA WholeBatch ==
  ASSUME NEW S, NEW n \in Nat, NEW q \in Injection(1..n, S) \union Bijection(1..n, S)
  PROVE  q \in Seq(S) /\ \A i, j \in 1..Len(q) : q[i] = q[j] => i = j
<1>1. q \in [1..n -> S] /\ \A i, j \in 1..n : q[i] = q[j] => i = j
  BY Zenon DEF Bijection, Injection, IsInjective
<1>2. q \in Seq(S) /\ Len(q) = n
  BY <1>1
<1> QED
  BY <1>1, <1>2, Zenon

(* The calls of the other thread leave the batch alone: BatchInv survives
   unless an event of the batch is freed. *)
LEMMA BatchKept ==
  ASSUME MeventIInv, UNCHANGED <<eventlist, races>>,
         dispatch' \in {"run", "done"} => dispatch' = dispatch,
         \A e \in Events : where[e] # "freed" => where'[e] # "freed" \/ "free" \in races \/ ~InBatch(e)
  PROVE  BatchInv'
<1>1. \A i \in 1..Len(eventlist) : InBatch(eventlist[i])
  BY DEF InBatch, MeventIInv, MeventTyped
<1> QED
  BY <1>1, Zenon DEF MeventIInv, MeventTyped, BatchInv

LEMMA CallsBegin ==
  ASSUME MeventIInv, NEW e \in Events,
         mevent_add(e) \/ mevent_enable(e) \/ mevent_disable(e) \/ mevent_delete(e) \/ arrives(e)
  PROVE  MeventIInv'
<1> USE MeventAssumption
<1>1. BatchInv'
  <2>1. \A f \in Events : where[f] # "freed" => where'[f] # "freed"
    BY Zenon DEF MeventIInv, MeventTyped, mevent_add, mevent_enable, mevent_disable, mevent_delete, arrives
  <2>2. UNCHANGED <<eventlist, races, dispatch>>
    BY Zenon DEF mevent_add, mevent_enable, mevent_disable, mevent_delete, arrives, loopvars
  <2> QED
    BY <2>1, <2>2, BatchKept, Zenon
<1>2. CASE mevent_add(e)
  <2>1. MeventTyped'
    BY <1>2 DEF MeventIInv, MeventTyped, mevent_add, Begins, OpCalls, loopvars
  <2>2. op' = [call |-> "add", e |-> e, at |-> 1] /\ where'[e] = "new"
    BY <1>2, Zenon DEF MeventIInv, MeventTyped, mevent_add, Begins
  <2>3. OpInv'
    BY <2>2, Zenon DEF OpInv
  <2>4. MeventInv'
    BY <1>2, Zenon DEF MeventIInv, MeventTyped, MeventInv, mevent_add, loopvars
  <2> QED
    BY <1>1, <2>1, <2>3, <2>4, Zenon DEF MeventIInv
<1>3. CASE mevent_enable(e) \/ mevent_disable(e)
  <2>1. MeventTyped'
    BY <1>3, Zenon DEF MeventIInv, MeventTyped, mevent_enable, mevent_disable, loopvars
  <2>2. OpInv'
    BY <1>3, Zenon DEF OpInv, mevent_enable, mevent_disable
  <2>3. MeventInv'
    BY <1>3 DEF MeventIInv, MeventTyped, MeventInv, mevent_enable, mevent_disable, loopvars
  <2> QED
    BY <1>1, <2>1, <2>2, <2>3, Zenon DEF MeventIInv
<1>4. CASE mevent_delete(e)
  <2>1. MeventTyped'
    BY <1>4 DEF MeventIInv, MeventTyped, mevent_delete, Begins, OpCalls, loopvars
  <2>2. op' = [call |-> "delete", e |-> e, at |-> 1] /\ where'[e] = "out"
    BY <1>4, Zenon DEF MeventIInv, MeventTyped, mevent_delete, Begins
  <2>3. OpInv'
    BY <2>2 DEF OpInv
  <2>4. MeventInv'
    BY <1>4, Zenon DEF MeventIInv, MeventTyped, MeventInv, mevent_delete, loopvars
  <2> QED
    BY <1>1, <2>1, <2>3, <2>4, Zenon DEF MeventIInv
<1>5. CASE arrives(e)
  <2>1. MeventTyped' /\ OpInv' /\ MeventInv'
    BY <1>5, Zenon DEF MeventIInv, MeventTyped, OpInv, MeventInv, arrives, loopvars
  <2> QED
    BY <1>1, <2>1, Zenon DEF MeventIInv
<1> QED
  BY <1>2, <1>3, <1>4, <1>5, Zenon

LEMMA CallsEnd ==
  ASSUME MeventIInv, Caller
  PROVE  MeventIInv'
<1> USE MeventAssumption
<1>1. op # NONE /\ op \in OpCalls
  BY Zenon DEF MeventIInv, MeventTyped, Caller, add_insert, delete_state, delete_epoll,
         mevent_add_to_del_list, delete_free, mevent_notify, OpAt
<1>2. CASE add_insert
  <2>1. op.e \in Events /\ where[op.e] = "new"
    BY <1>1, <1>2, Zenon DEF MeventIInv, OpInv, OpCalls, add_insert, OpAt
  <2>2. MeventTyped' /\ OpInv' /\ MeventInv'
    BY <1>2, <2>1, Zenon DEF MeventIInv, MeventTyped, OpInv, MeventInv, add_insert, loopvars
  <2>3. BatchInv'
    BY <1>2, <2>1, BatchKept, Zenon DEF MeventIInv, MeventTyped, add_insert, loopvars
  <2> QED
    BY <2>2, <2>3, Zenon DEF MeventIInv
<1>3. CASE delete_state
  <2>1. op.e \in Events /\ where[op.e] = "out" /\ op' = [call |-> "delete", e |-> op.e, at |-> 2]
    BY <1>1, <1>3 DEF MeventIInv, OpInv, OpCalls, delete_state, OpAt, OpGoto
  <2>2. MeventTyped' /\ OpInv' /\ MeventInv'
    BY <1>3, <2>1 DEF MeventIInv, MeventTyped, OpInv, OpCalls, MeventInv, delete_state, loopvars
  <2>3. BatchInv'
    BY <1>3, BatchKept, Zenon DEF delete_state, loopvars
  <2> QED
    BY <2>2, <2>3, Zenon DEF MeventIInv
<1>4. CASE delete_epoll
  <2>1. op.e \in Events /\ where[op.e] = "out" /\ ~me_state[op.e] /\ op' = [call |-> "delete", e |-> op.e, at |-> 3]
    BY <1>1, <1>4 DEF MeventIInv, OpInv, OpCalls, delete_epoll, OpAt, OpGoto
  <2>2. MeventTyped' /\ OpInv' /\ MeventInv'
    BY <1>4, <2>1 DEF MeventIInv, MeventTyped, OpInv, OpCalls, MeventInv, delete_epoll, loopvars
  <2>3. BatchInv'
    BY <1>4, BatchKept, Zenon DEF delete_epoll, loopvars
  <2> QED
    BY <2>2, <2>3, Zenon DEF MeventIInv
<1>5. CASE mevent_add_to_del_list
  <2>1. /\ op.e \in Events /\ where[op.e] = "out" /\ ~me_state[op.e] /\ op.e \notin epoll
        /\ op' = [call |-> "delete", e |-> op.e, at |-> 4]
    BY <1>1, <1>5 DEF MeventIInv, OpInv, OpCalls, mevent_add_to_del_list, OpAt, OpGoto
  <2>2. MeventTyped'
    BY <1>5, <2>1 DEF MeventIInv, MeventTyped, OpCalls, mevent_add_to_del_list, loopvars
  <2>3. OpInv' /\ MeventInv'
    BY <1>5, <2>1 DEF MeventIInv, MeventTyped, OpInv, MeventInv, mevent_add_to_del_list, loopvars
  <2>4. BatchInv'
    BY <1>5, <2>1, BatchKept, Zenon DEF MeventIInv, MeventTyped, mevent_add_to_del_list, loopvars
  <2> QED
    BY <2>2, <2>3, <2>4, Zenon DEF MeventIInv
<1>6. CASE delete_free
  <2>1. op.e \in Events /\ where[op.e] = "out" /\ ~me_state[op.e] /\ op.e \notin epoll
    BY <1>1, <1>6 DEF MeventIInv, OpInv, OpCalls, delete_free, OpAt
  <2>2. MeventTyped' /\ OpInv' /\ MeventInv'
    BY <1>6, <2>1, Zenon DEF MeventIInv, MeventTyped, OpInv, MeventInv, delete_free, loopvars
  <2>3. BatchInv'
    BY <1>6, <2>1, BatchKept, Zenon DEF MeventIInv, MeventTyped, delete_free, loopvars
  <2> QED
    BY <2>2, <2>3, Zenon DEF MeventIInv
<1>7. CASE mevent_notify
  <2>1. MeventTyped' /\ OpInv' /\ MeventInv'
    BY <1>7, Zenon DEF MeventIInv, MeventTyped, OpInv, MeventInv, mevent_notify, loopvars
  <2>2. BatchInv'
    BY <1>7, BatchKept, Zenon DEF mevent_notify, loopvars
  <2> QED
    BY <2>1, <2>2, Zenon DEF MeventIInv
<1> QED
  BY <1>2, <1>3, <1>4, <1>5, <1>6, <1>7, Zenon DEF Caller

LEMMA SignalsKeep ==
  ASSUME MeventIInv,
         vm_set_suspend_mode \/ handle_stop \/ sig_handler_term \/ epoll_interrupted \/ epoll_enter \/ UNCHANGED mevars
  PROVE  MeventIInv'
<1>1. /\ UNCHANGED <<where, me_state, epoll, ready, eventlist, torn, misused, races>>
      /\ dispatch' \in {"run", "done"} => dispatch' = dispatch
  BY Zenon DEF vm_set_suspend_mode, handle_stop, sig_handler_term, epoll_interrupted, epoll_enter, mevars, loopvars
<1>2. BatchInv'
  BY <1>1, BatchKept, Zenon
<1>3. op' = op \/ op' = [call |-> "suspend", e |-> NONE, at |-> 1]
  BY Zenon DEF vm_set_suspend_mode, handle_stop, sig_handler_term, epoll_interrupted, epoll_enter, mevars, Begins
<1>4. MeventTyped' /\ OpInv' /\ MeventInv'
  BY <1>1, <1>3 DEF MeventIInv, MeventTyped, OpInv, OpCalls, MeventInv
<1> QED
  BY <1>2, <1>4, Zenon DEF MeventIInv

LEMMA WaitKeeps ==
  ASSUME MeventIInv, epoll_wait
  PROVE  MeventIInv'
<1> DEFINE batch == ready \intersect epoll
<1>1. batch \subseteq Events \union {PIPE} /\ \A e \in Events : e \in batch => where[e] # "freed"
  BY Zenon DEF MeventIInv, MeventTyped, MeventInv
<1>2. PICK n \in 1..MEVENT_MAX :
           eventlist' \in IF n < MEVENT_MAX THEN Bijection(1..n, batch) ELSE Injection(1..n, batch)
  BY Zenon DEF epoll_wait
<1>3. n \in Nat /\ eventlist' \in Injection(1..n, batch) \union Bijection(1..n, batch)
  BY <1>2, MeventAssumption
<1> HIDE DEF batch
<1>4. eventlist' \in Seq(batch) /\ \A i, j \in 1..Len(eventlist') : eventlist'[i] = eventlist'[j] => i = j
  BY <1>3, WholeBatch, Zenon
<1>5. eventlist' \in Seq(Events \union {PIPE}) /\ \A i \in 1..Len(eventlist') : eventlist'[i] \in batch
  BY <1>1, <1>4
<1>6. BatchInv'
  BY <1>1, <1>4, <1>5, Zenon DEF BatchInv, epoll_wait
<1>7. MeventTyped'
  BY <1>5, Zenon DEF MeventIInv, MeventTyped, OpCalls, epoll_wait
<1>8. OpInv' /\ MeventInv'
  BY Zenon DEF MeventIInv, OpInv, MeventInv, epoll_wait
<1> QED
  BY <1>6, <1>7, <1>8, Zenon DEF MeventIInv

LEMMA HandleKeeps ==
  ASSUME MeventIInv, mevent_handle
  PROVE  MeventIInv'
<1> USE MeventAssumption
<1> DEFINE e == Head(eventlist)
           t == Tail(eventlist)
<1>1. eventlist \in Seq(Events \union {PIPE}) /\ eventlist # <<>> /\ dispatch = "handle"
      /\ \A i, j \in 1..Len(eventlist) : eventlist[i] = eventlist[j] => i = j
  BY Zenon DEF MeventIInv, MeventTyped, BatchInv, mevent_handle
<1>2. /\ t \in Seq(Events \union {PIPE}) /\ e \in Events \union {PIPE}
      /\ \A i, j \in 1..Len(t) : t[i] = t[j] => i = j
      /\ \A i \in 1..Len(t) : t[i] # e /\ \E j \in 1..Len(eventlist) : t[i] = eventlist[j]
  BY <1>1, RestOfBatch
<1>3. 1 \in 1..Len(eventlist) /\ e = eventlist[1]
  BY <1>1
<1>4. UNCHANGED <<where, me_state, epoll, op, torn, races>> /\ ready' \subseteq ready
  BY Zenon DEF mevent_handle
<1>5. /\ eventlist' = eventlist \/ eventlist' = t
      /\ dispatch' = "run" => eventlist' = eventlist /\ e \in Events
      /\ dispatch' # "done"
      /\ misused' = misused \/ (e \in Events /\ misused' = (misused \/ where[e] = "freed"))
  BY <1>1, <1>2, Zenon DEF mevent_handle
<1> HIDE DEF t
<1>6. BatchInv'
  <2>1. "free" \notin races => \A i \in 1..Len(eventlist') : eventlist'[i] \in Events => where[eventlist'[i]] # "freed"
    <3> SUFFICES ASSUME "free" \notin races, NEW i \in 1..Len(eventlist'), eventlist'[i] \in Events
                 PROVE  where[eventlist'[i]] # "freed"
      OBVIOUS
    <3>1. PICK j \in 1..Len(eventlist) : eventlist'[i] = eventlist[j]
      BY <1>2, <1>5, Zenon
    <3> QED
      BY <3>1, Zenon DEF MeventIInv, BatchInv
  <2>2. \A i, j \in 1..Len(eventlist') : eventlist'[i] = eventlist'[j] => i = j
    BY <1>1, <1>2, <1>5, Zenon
  <2> QED
    BY <1>1, <1>4, <1>5, <2>1, <2>2, Zenon DEF BatchInv
<1>7. eventlist' \in Seq(Events \union {PIPE}) /\ ready' \subseteq Events \union {PIPE}
  BY <1>1, <1>2, <1>4, <1>5, Zenon DEF MeventIInv, MeventTyped
<1>8. misused' => "free" \in races
  BY <1>3, <1>5, Zenon DEF MeventIInv, MeventInv, BatchInv
<1>9. misused' \in BOOLEAN
  BY <1>5, Zenon DEF MeventIInv, MeventTyped
<1>10. MeventTyped'
  BY <1>4, <1>7, <1>9, Zenon DEF MeventIInv, MeventTyped, OpCalls
<1>11. OpInv' /\ MeventInv'
  BY <1>4, <1>8, Zenon DEF MeventIInv, OpInv, MeventInv
<1> QED
  BY <1>6, <1>10, <1>11, Zenon DEF MeventIInv

LEMMA RunKeeps ==
  ASSUME MeventIInv, run
  PROVE  MeventIInv'
<1> USE MeventAssumption
<1> DEFINE e == Head(eventlist)
           t == Tail(eventlist)
<1>1. eventlist \in Seq(Events \union {PIPE}) /\ eventlist # <<>> /\ e \in Events
      /\ \A i, j \in 1..Len(eventlist) : eventlist[i] = eventlist[j] => i = j
  BY Zenon DEF MeventIInv, MeventTyped, BatchInv, run
<1>2. /\ t \in Seq(Events \union {PIPE})
      /\ \A i, j \in 1..Len(t) : t[i] = t[j] => i = j
      /\ \A i \in 1..Len(t) : t[i] # e /\ \E j \in 1..Len(eventlist) : t[i] = eventlist[j]
  BY <1>1, RestOfBatch
<1>3. 1 \in 1..Len(eventlist) /\ e = eventlist[1]
  BY <1>1
<1>4. /\ dispatch' = "handle" /\ eventlist' = t /\ UNCHANGED <<op, races>> /\ ready' = ready \ {e}
      /\ misused' = (misused \/ where[e] = "freed" \/ torn[e])
  BY Zenon DEF run
<1>5. PICK d \in Events :
          \/ UNCHANGED <<where, me_state, epoll, torn>>
          \/ /\ where[d] = "global_head"
             /\ "free" \in races \/ \A i \in DOMAIN t : t[i] # d
             /\ where' = [where EXCEPT ![d] = "freed"] /\ me_state' = [me_state EXCEPT ![d] = FALSE]
             /\ epoll' = epoll \ {d} /\ torn' = [torn EXCEPT ![d] = d \in Teardown]
  BY <1>1, Zenon DEF run
<1> HIDE DEF t, e
<1>6. misused' \in BOOLEAN /\ (misused' => "free" \in races)
  BY <1>1, <1>3, <1>4, Zenon DEF MeventIInv, MeventTyped, MeventInv, BatchInv
<1>7. \A f \in Events : f # d => where'[f] = where[f]
  BY <1>5, Zenon DEF MeventIInv, MeventTyped
<1>8. BatchInv'
  <2>1. "free" \notin races => \A i \in 1..Len(t) : t[i] \in Events => where'[t[i]] # "freed"
    <3> SUFFICES ASSUME "free" \notin races, NEW i \in 1..Len(t), t[i] \in Events
                 PROVE  where'[t[i]] # "freed"
      OBVIOUS
    <3>1. PICK j \in 1..Len(eventlist) : t[i] = eventlist[j]
      BY <1>2, Zenon
    <3>2. where' = where \/ t[i] # d
      <4>1. DOMAIN t = 1..Len(t)
        BY <1>2
      <4> QED
        BY <1>5, <4>1, Zenon
    <3>3. where'[t[i]] = where[t[i]]
      BY <1>7, <3>2, Zenon
    <3> QED
      BY <3>1, <3>3, Zenon DEF MeventIInv, BatchInv
  <2> QED
    BY <1>2, <1>4, <2>1, Zenon DEF BatchInv
<1>9. MeventTyped'
  <2>1. eventlist' \in Seq(Events \union {PIPE}) /\ (op' # NONE => op' \in OpCalls)
    BY <1>2, <1>4, Zenon DEF MeventIInv, MeventTyped, OpCalls
  <2>2. ready' \subseteq Events \union {PIPE} /\ epoll' \subseteq Events \union {PIPE}
    BY <1>4, <1>5, Zenon DEF MeventIInv, MeventTyped
  <2>3. /\ where' \in [Events -> {"freed", "new", "global_head", "out", "del_head"}]
        /\ me_state' \in [Events -> BOOLEAN]
    <3>1. /\ where \in [Events -> {"freed", "new", "global_head", "out", "del_head"}] /\ me_state \in [Events -> BOOLEAN]
          /\ where' = where \/ where' = [where EXCEPT ![d] = "freed"]
          /\ me_state' = me_state \/ me_state' = [me_state EXCEPT ![d] = FALSE]
      BY <1>5, Zenon DEF MeventIInv, MeventTyped
    <3> QED
      BY <3>1, Zenon
  <2>4. torn' \in [Events -> BOOLEAN]
    <3> DEFINE b == d \in Teardown
    <3>1. b \in BOOLEAN /\ torn \in [Events -> BOOLEAN] /\ (torn' = torn \/ torn' = [torn EXCEPT ![d] = b])
      BY <1>5 DEF MeventIInv, MeventTyped
    <3> HIDE DEF b
    <3> QED
      BY <3>1, Zenon
  <2> QED
    BY <1>6, <2>1, <2>2, <2>3, <2>4, Zenon DEF MeventTyped
<1>10. OpInv'
  <2> SUFFICES ASSUME op # NONE PROVE OpInv'
    BY <1>4, Zenon DEF OpInv
  <2>1. op \in OpCalls
    BY Zenon DEF MeventIInv, MeventTyped
  <2>2. CASE op.call = "suspend"
    BY <1>4, <2>2, Zenon DEF OpInv
  <2>3. CASE op.call # "suspend"
    <3>1. op.e \in Events
      BY <2>1, <2>3, Zenon DEF OpCalls
    <3> QED
      BY <1>1, <1>4, <1>5, <3>1, Zenon DEF MeventIInv, MeventTyped, OpInv
  <2> QED
    BY <2>2, <2>3, Zenon
<1>11. MeventInv'
  BY <1>1, <1>4, <1>5, <1>6 DEF MeventIInv, MeventTyped, MeventInv
<1> QED
  BY <1>8, <1>9, <1>10, <1>11, Zenon DEF MeventIInv

LEMMA EndsKeep ==
  ASSUME MeventIInv, mevent_drain_del_list \/ mevent_destroy
  PROVE  MeventIInv'
<1> USE MeventAssumption
<1>1. UNCHANGED <<me_state, ready, eventlist, op, misused, races>> /\ dispatch' # "run" /\ eventlist = <<>>
  BY Zenon DEF MeventIInv, BatchInv, mevent_drain_del_list, mevent_destroy, loopvars
<1>2. BatchInv'
  BY <1>1 DEF BatchInv
<1>3. CASE mevent_drain_del_list
  <2>1. MeventTyped'
    BY <1>1, <1>3, Zenon DEF MeventIInv, MeventTyped, OpCalls, mevent_drain_del_list
  <2>2. \A f \in Events : where'[f] = IF where[f] = "del_head" THEN "freed" ELSE where[f]
    BY <1>3, Zenon DEF mevent_drain_del_list
  <2>3. OpInv'
    <3> SUFFICES ASSUME op # NONE PROVE OpInv'
      BY <1>1, Zenon DEF OpInv
    <3>1. op \in OpCalls /\ epoll' = epoll
      BY <1>3, Zenon DEF MeventIInv, MeventTyped, mevent_drain_del_list
    <3>2. op.call # "suspend" => op.e \in Events
      BY <3>1, Zenon DEF OpCalls
    <3> QED
      BY <1>1, <2>2, <3>1, <3>2, Zenon DEF MeventIInv, OpInv
  <2>4. MeventInv'
    BY <1>1, <1>3, <2>1 DEF MeventIInv, MeventTyped, MeventInv, mevent_drain_del_list
  <2> QED
    BY <1>2, <2>1, <2>3, <2>4, Zenon DEF MeventIInv
<1>4. CASE mevent_destroy
  <2>1. MeventTyped'
    BY <1>1, <1>4, Zenon DEF MeventIInv, MeventTyped, mevent_destroy
  <2>2. OpInv'
    BY <1>4, Zenon DEF OpInv, mevent_destroy
  <2>3. MeventInv'
    BY <1>1, <1>4 DEF MeventIInv, MeventTyped, MeventInv, mevent_destroy
  <2> QED
    BY <1>2, <2>1, <2>2, <2>3, Zenon DEF MeventIInv
<1> QED
  BY <1>3, <1>4, Zenon

(* The loop of the device model never uses an event that was freed or torn
   down, for any number of events, whatever other threads delete while it
   handles a batch. *)
THEOREM MeventInvariance == MeventSpec => []MeventInv
<1>1. MeventInit => MeventIInv
  <2> SUFFICES ASSUME MeventInit PROVE MeventIInv
    OBVIOUS
  <2>1. eventlist \in Seq(Events \union {PIPE}) /\ Len(eventlist) = 0
    BY DEF MeventInit
  <2>2. MeventTyped
    BY <2>1, Zenon DEF MeventInit, MeventTyped
  <2>3. BatchInv
    BY <2>1 DEF MeventInit, BatchInv
  <2>4. OpInv /\ MeventInv
    BY MeventAssumption, Zenon DEF MeventInit, OpInv, MeventInv
  <2> QED
    BY <2>2, <2>3, <2>4, Zenon DEF MeventIInv
<1>2. MeventIInv /\ [MeventNext]_mevars => MeventIInv'
  <2> SUFFICES ASSUME MeventIInv, [MeventNext]_mevars PROVE MeventIInv'
    OBVIOUS
  <2>1. CASE \E e \in Events : mevent_add(e) \/ mevent_enable(e) \/ mevent_disable(e) \/ mevent_delete(e) \/ arrives(e)
    BY <2>1, CallsBegin, Zenon
  <2>2. CASE Caller
    BY <2>2, CallsEnd, Zenon
  <2>3. CASE vm_set_suspend_mode \/ handle_stop \/ sig_handler_term \/ epoll_interrupted \/ epoll_enter \/ UNCHANGED mevars
    BY <2>3, SignalsKeep, Zenon
  <2>4. CASE epoll_wait
    BY <2>4, WaitKeeps, Zenon
  <2>5. CASE mevent_handle
    BY <2>5, HandleKeeps, Zenon
  <2>6. CASE run
    BY <2>6, RunKeeps, Zenon
  <2>7. CASE mevent_drain_del_list \/ mevent_destroy
    BY <2>7, EndsKeep, Zenon
  <2> QED
    BY <2>1, <2>2, <2>3, <2>4, <2>5, <2>6, <2>7, Zenon DEF MeventNext, Loop, exited
<1>3. MeventIInv => MeventInv
  BY Zenon DEF MeventIInv
<1> QED
  BY <1>1, <1>2, <1>3, PTL DEF MeventSpec
=============================================================================
