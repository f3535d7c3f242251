----------------------------- MODULE IoHandlers -----------------------------
(***************************************************************************)
(* The table of MMIO handlers of one VM (hypervisor/dm/io_req.c) under     *)
(* concurrent use by its vCPUs: hv_emulate_mmio looks a handler up and     *)
(* calls it, while a write to a BAR, or to VF_ENABLE of an SR-IOV physical *)
(* function, moves the handler of a device's MSI-X table                   *)
(* (dm/vpci/pci_pt.c, vsriov.c).  The port I/O table, which is filled once *)
(* and read without a lock, is looked up by hv_emulate_pio.                *)
(*                                                                         *)
(* An address range is a set of places.  The guest can put the MSI-X table *)
(* of a device at any place of Places, that of a VF is at a place of its   *)
(* own, named like the VF; PCI MMCONFIG is at "mmcfg".  The                *)
(* spin locks are held by one vCPU or by NONE.                             *)
(***************************************************************************)
EXTENDS Naturals, Sequences, FiniteSets, FiniteSetsExt

CONSTANTS
    VCPUs,
    Devs,            \* devices with an MSI-X table behind a BAR
    VFs,             \* SR-IOV virtual functions among them
    Places,          \* where the guest can place a table (a VF has its own place)
    MaxRegions,      \* CONFIG_MAX_EMULATED_MMIO_REGIONS
    PioRanges,       \* sequence of [start, end] of the port I/O handlers
    Ports, Sizes,    \* the port accesses of the guest
    NONE

VARIABLES
    emul_mmio,       \* the table: [range, dev, hold_lock]; range {} is free
    max_regions,     \* max_emul_mmio_regions, the last index in use so far
    emul_mmio_lock, vpci_lock,
    ept,             \* the places of tables the guest reaches without a trap
    mmio_gpa,        \* [Devs -> the range of its table, {} if unmapped]
    created,         \* the VFs whose vdev exists
    pc, call,        \* what each vCPU is doing, and on which device
    pio_call         \* the port access each vCPU has given to a handler

tabvars == <<emul_mmio, max_regions>>
iovars == <<emul_mmio, max_regions, emul_mmio_lock, vpci_lock, ept, mmio_gpa, created, pc, call, pio_call>>

AllPlaces == Places \cup VFs
Index == 0..(MaxRegions - 1)
Free == [range |-> {}, dev |-> NONE, hold_lock |-> FALSE]

(* init_vpci registers MMCONFIG without hold_lock: its handler registers   *)
(* other handlers.                                                         *)
cfg_hold_lock == FALSE

IoInit == /\ emul_mmio = [i \in Index |->
               IF i = 0 THEN [range |-> {"mmcfg"}, dev |-> NONE, hold_lock |-> cfg_hold_lock] ELSE Free]
          /\ max_regions = 0
          /\ emul_mmio_lock = NONE /\ vpci_lock = NONE
          /\ ept = {} /\ mmio_gpa = [d \in Devs |-> {}] /\ created = {}
          /\ pc = [c \in VCPUs |-> "idle"]
          /\ call = [c \in VCPUs |-> Free]
          /\ pio_call = [c \in VCPUs |-> NONE]

Goto(c, place) == pc' = [pc EXCEPT ![c] = place]

-----------------------------------------------------------------------------
(* io_req.c: the table.                                                    *)

Matching(r) == {i \in Index : emul_mmio[i].range = r}

(* find_match_mmio_node: the lowest index with exactly this range.         *)
find_match(r) == Min(Matching(r))

(* Mutant: the last index is not raised. *)
find_free_mmio_nodeStale(i) == max_regions
(* find_free_mmio_node raises the last index hv_emulate_mmio looks at.     *)
find_free_mmio_node(i) == IF max_regions < i THEN i ELSE max_regions

(* register_mmio_emulation_handler: the first free node, or nothing, and   *)
(* without a word to the caller, when the table is full.                   *)
register_handler(d, r, hold) ==
    IF Matching({}) = {}
      THEN UNCHANGED tabvars
      ELSE LET i == find_match({}) IN
           /\ emul_mmio' = [emul_mmio EXCEPT ![i] = [range |-> r, dev |-> d, hold_lock |-> hold]]
           /\ max_regions' = find_free_mmio_node(i)

(* unregister_mmio_emulation_handler: the first node with the range.       *)
unregister_handler(r) ==
    IF Matching(r) = {}
      THEN UNCHANGED tabvars
      ELSE LET i == find_match(r) IN
           /\ emul_mmio' = [emul_mmio EXCEPT ![i] = Free]
           /\ UNCHANGED max_regions

(* hv_emulate_mmio: the nodes an access overlaps among those up to the     *)
(* last index; the first of them decides.                                  *)
Overlapping(req) == {i \in Index : i <= max_regions /\ emul_mmio[i].range \cap req # {}}

(* An access that no node overlaps, or that crosses the border of the node *)
(* (-EIO), changes nothing here.  A handler without hold_lock runs after   *)
(* the lock was released.                                                  *)
hv_emulate_mmio(c, req) ==
    /\ pc[c] = "idle" /\ emul_mmio_lock = NONE
    /\ req \cap ept = {}
    /\ Overlapping(req) # {}
    /\ LET node == emul_mmio[Min(Overlapping(req))] IN
       /\ req \subseteq node.range
       /\ call' = [call EXCEPT ![c] = [dev |-> node.dev, range |-> req, hold_lock |-> node.hold_lock]]
       /\ Goto(c, IF node.dev = NONE THEN "cfg" ELSE "table")
       /\ emul_mmio_lock' = IF node.hold_lock THEN c ELSE NONE
    /\ UNCHANGED <<emul_mmio, max_regions, vpci_lock, ept, mmio_gpa, created, pio_call>>

(* The handler returns: the lock is released, or obtained only to be       *)
(* released.                                                               *)
mmio_return(c) ==
    /\ pc[c] \in {"table", "return"}
    /\ emul_mmio_lock = IF call[c].hold_lock THEN c ELSE NONE
    /\ emul_mmio_lock' = NONE
    /\ call' = [call EXCEPT ![c] = Free]
    /\ Goto(c, "idle")
    /\ UNCHANGED <<emul_mmio, max_regions, vpci_lock, ept, mmio_gpa, created, pio_call>>

-----------------------------------------------------------------------------
(* vpci.c, pci_pt.c, vsriov.c: a configuration write that moves a table.   *)

(* Where a configuration write can put the table of d: a BAR at a place no *)
(* other device uses, or {} for a sizing write (~0U); a VF, when VF_ENABLE *)
(* changes, at its own place or nowhere.                                   *)
Writable(d) ==
    IF d \in VFs
      THEN {IF mmio_gpa[d] = {} THEN {d} ELSE {}}
      ELSE {{}} \cup {{p} : p \in {q \in Places : \A e \in Devs \ {d} : q \notin mmio_gpa[e]}}

(* vpci_write_cfg finds the device under the vpci lock.                    *)
vpci_write_cfg(c, d, r) ==
    /\ pc[c] = "cfg" /\ vpci_lock = NONE
    /\ r \in Writable(d)
    /\ vpci_lock' = c
    /\ call' = [call EXCEPT ![c].dev = d, ![c].range = r]
    /\ Goto(c, "unmap")
    /\ UNCHANGED <<emul_mmio, max_regions, emul_mmio_lock, ept, mmio_gpa, created, pio_call>>

(* vdev_pt_unmap_mem_vbar, then for a new address ept_add_mr on the whole  *)
(* BAR, the page of the table included (not for a VF that is created).     *)
unmap_vbar(c) ==
    LET d == call[c].dev
        old == mmio_gpa[d]
        new == call[c].range IN
    /\ pc[c] = "unmap" /\ emul_mmio_lock = NONE
    /\ IF old = {} THEN UNCHANGED tabvars ELSE unregister_handler(old)
    /\ mmio_gpa' = [mmio_gpa EXCEPT ![d] = {}]
    /\ ept' = (ept \ old) \cup (IF d \in VFs \ created THEN {} ELSE new)
    /\ Goto(c, IF new = {} THEN "unlock" ELSE "map")
    /\ UNCHANGED <<emul_mmio_lock, vpci_lock, created, call, pio_call>>

(* Mutant: no MSI-X handler runs under the lock. *)
hold_lockNever(d) == FALSE
(* vdev_pt_map_mem_vbar passes true; create_vf passes false, a VF that is  *)
(* activated again goes through vdev_pt_map_mem_vbar.                      *)
hold_lock(d) == d \notin VFs \/ d \in created

(* vdev_pt_map_msix: the handler is registered ...                         *)
map_msix(c) ==
    LET d == call[c].dev IN
    /\ pc[c] = "map" /\ emul_mmio_lock = NONE
    /\ register_handler(d, call[c].range, hold_lock(d))
    /\ created' = created \cup ({d} \cap VFs)
    /\ Goto(c, "trap")
    /\ UNCHANGED <<emul_mmio_lock, vpci_lock, ept, mmio_gpa, call, pio_call>>

(* ... and the page of the table is taken out of the EPT.                  *)
trap_msix(c) ==
    /\ pc[c] = "trap"
    /\ ept' = ept \ call[c].range
    /\ mmio_gpa' = [mmio_gpa EXCEPT ![call[c].dev] = call[c].range]
    /\ Goto(c, "unlock")
    /\ UNCHANGED <<emul_mmio, max_regions, emul_mmio_lock, vpci_lock, created, call, pio_call>>

cfg_unlock(c) ==
    /\ pc[c] = "unlock"
    /\ vpci_lock' = NONE
    /\ Goto(c, "return")
    /\ UNCHANGED <<emul_mmio, max_regions, emul_mmio_lock, ept, mmio_gpa, created, call, pio_call>>

-----------------------------------------------------------------------------
(* hv_emulate_pio: a handler is chosen by the first port of the access.    *)
pio_covered(i, port, size) == port >= PioRanges[i].start /\ port < PioRanges[i].end

hv_emulate_pio(c, port, size) ==
    LET hits == {i \in 1..Len(PioRanges) : pio_covered(i, port, size)} IN
    /\ pc[c] = "idle"
    /\ hits # {}
    /\ pio_call' = [pio_call EXCEPT ![c] = [idx |-> Min(hits), port |-> port, size |-> size]]
    /\ Goto(c, "pio")
    /\ UNCHANGED <<emul_mmio, max_regions, emul_mmio_lock, vpci_lock, ept, mmio_gpa, created, call>>

pio_return(c) ==
    /\ pc[c] = "pio"
    /\ pio_call' = [pio_call EXCEPT ![c] = NONE]
    /\ Goto(c, "idle")
    /\ UNCHANGED <<emul_mmio, max_regions, emul_mmio_lock, vpci_lock, ept, mmio_gpa, created, call>>

Step(c) == \/ mmio_return(c) \/ unmap_vbar(c) \/ map_msix(c) \/ trap_msix(c) \/ cfg_unlock(c) \/ pio_return(c)
           \/ \E d \in Devs : \E r \in Writable(d) : vpci_write_cfg(c, d, r)

IoNext == \E c \in VCPUs : \/ Step(c)
                           \/ \E p \in AllPlaces \cup {"mmcfg"} : hv_emulate_mmio(c, {p})
                           \/ \E port \in Ports, size \in Sizes : hv_emulate_pio(c, port, size)

IoSpec == IoInit /\ [][IoNext]_iovars

(* The locks are ticket locks (spinlock_obtain takes a number): a vCPU     *)
(* that waits is served after the ones before it, which is strong fairness *)
(* of its next step.                                                       *)
IoFairSpec == IoSpec /\ \A c \in VCPUs : SF_iovars(Step(c))

-----------------------------------------------------------------------------
(* Types, and who may hold a lock: the emul_mmio_lock is kept only by a    *)
(* vCPU in a handler with hold_lock, the vpci lock only inside a           *)
(* configuration write.                                                    *)
IoHandlersTypeOK ==
    /\ emul_mmio \in [Index -> [range : SUBSET (AllPlaces \cup {"mmcfg"}), dev : Devs \cup {NONE}, hold_lock : BOOLEAN]]
    /\ max_regions \in Index
    /\ emul_mmio_lock \in VCPUs \cup {NONE} /\ vpci_lock \in VCPUs \cup {NONE}
    /\ ept \subseteq AllPlaces /\ created \subseteq VFs
    /\ mmio_gpa \in [Devs -> SUBSET AllPlaces]
    /\ \A c \in VCPUs : /\ emul_mmio_lock = c <=> pc[c] \in {"table", "cfg", "return"} /\ call[c].hold_lock
                        /\ vpci_lock = c <=> pc[c] \in {"unmap", "map", "trap", "unlock"}

(* A handler runs only while its node is registered: no other vCPU takes   *)
(* the table away under an access in progress (the vdev in                 *)
(* handler_private_data and its mmio_gpa are used until the handler        *)
(* returns).  hv_emulate_mmio keeps the lock for it, but for the tables of *)
(* VFs: "This mmio_handler will never modify once register", says its      *)
(* comment, while disable_vfs takes them away.                             *)
HandlerRegistered ==
    \A c \in VCPUs : pc[c] = "table" /\ call[c].dev \notin VFs =>
        \E i \in Index : emul_mmio[i].dev = call[c].dev /\ call[c].range \subseteq emul_mmio[i].range

(* Outside a configuration write the table and the devices agree: a device *)
(* whose table is mapped has exactly one node, with its range, that the    *)
(* lookup reaches (index <= max_emul_mmio_regions), and an unmapped one    *)
(* has none.  A full table would drop the registration.                    *)
TableMatchesBars ==
    vpci_lock = NONE /\ Cardinality(Devs) < MaxRegions =>
        \A d \in Devs :
            LET nodes == {i \in Index : emul_mmio[i].dev = d} IN
            IF mmio_gpa[d] = {} THEN nodes = {}
            ELSE \E i \in Index : /\ nodes = {i} /\ emul_mmio[i].range = mmio_gpa[d]
                                  /\ Overlapping(mmio_gpa[d]) = {i}

(* Outside a configuration write the page of an MSI-X table is not mapped  *)
(* in the EPT, so the guest's accesses are trapped (vdev_pt_map_mem_vbar   *)
(* maps the whole BAR first and takes the page out afterwards).            *)
TableTrapped ==
    vpci_lock = NONE =>
        \A d \in Devs : ept \cap (mmio_gpa[d] \cup UNION {emul_mmio[i].range : i \in Index}) = {}

(* Types and lock owners, a handler that runs is registered, and the       *)
(* agreement of table and BARs that register_mmio_emulation_handler and    *)
(* its counterpart maintain, and of the EPT with both.                     *)
IoHandlersInv == IoHandlersTypeOK /\ HandlerRegistered /\ TableMatchesBars /\ TableTrapped

(* An access gets through its handler, and a configuration write through   *)
(* both locks.                                                             *)
AccessWaits(c) == pc[c] # "idle"
=============================================================================
