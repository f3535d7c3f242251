-------------------------------- MODULE Irq --------------------------------
(***************************************************************************)
(* The physical interrupts of the hypervisor (arch/x86/irq.c): numbers,    *)
(* vectors and handlers that passthrough devices request and free          *)
(* (common/ptdev.c, arch/x86/guest/assign.c), while the pCPUs dispatch     *)
(* interrupts.  irq_alloc_spinlock and the lock of a descriptor are held   *)
(* for a step; an access without a lock is a step of its own.              *)
(*                                                                         *)
(* Requests and removals hold ptdev_lock; the interrupts of a device are   *)
(* pointed at its vector after the lock is released.  Legacy interrupts    *)
(* and those of irq_static_mappings keep their vectors.                    *)
(***************************************************************************)
EXTENDS Naturals

CONSTANTS
    NR_IRQS,     \* numbers are 0..NR_IRQS - 1
    Ioapic,      \* those of pins of the IOAPIC
    Static,      \* [number -> vector] of the static and legacy ones
    Dynamic,     \* VECTOR_DYNAMIC_START..VECTOR_DYNAMIC_END
    Devices,     \* remapping entries
    pin,         \* [device -> its number, or INVALID for an MSI]
    Threads,     \* the vCPUs of the Service VM that set devices up
    Cpus,        \* the pCPUs that take interrupts
    Races,       \* sets of what else may happen: "inflight", interrupts of a device that is removed
    MaxRequests, \* bound on the requests
    NULL, INVALID

Irqs == 0..NR_IRQS - 1
Vectors == Dynamic \union {Static[i] : i \in DOMAIN Static}

ASSUME IrqAssumption ==
    /\ NR_IRQS \in Nat /\ Ioapic \subseteq Irqs /\ pin \in [Devices -> Ioapic \union {INVALID}]
    /\ DOMAIN Static \subseteq Irqs /\ \A i, j \in DOMAIN Static : Static[i] = Static[j] => i = j
    /\ INVALID \notin Irqs \union Vectors /\ NULL \notin Devices /\ NULL \notin Vectors

VARIABLES
    irq_alloc_bitmap,   \* the numbers in use
    vector,             \* [number -> desc->vector]
    vector_to_irq,
    action,             \* [number -> the device whose handler desc->action is]
    priv_data,          \* [number -> the device that desc->priv_data is]
    allocated_pirq,     \* [device -> its number while it is active]
    irte,               \* [device -> the vector that its interrupts are sent to]
    thread,             \* [thread -> [at, dev, irq]]
    cpu,                \* [pCPU -> [at, vec, from, irq, action]] of the interrupt it takes
    wrong,              \* history: an interrupt ran what its device did not ask for
    races, requests

irqvars == <<irq_alloc_bitmap, vector, vector_to_irq, action, priv_data, allocated_pirq, irte,
             thread, cpu, wrong, races, requests>>
descvars == <<action, priv_data>>
devvars == <<allocated_pirq, irte>>

None == [at |-> "no", dev |-> NULL, irq |-> INVALID]
NoInterrupt == [at |-> "no", vec |-> NULL, from |-> NULL, irq |-> INVALID, action |-> NULL]

(* init_irq_descs, and the pins that ioapic_setup_irqs reserves.           *)
IrqInit ==
    /\ irq_alloc_bitmap = DOMAIN Static \union Ioapic
    /\ vector = [i \in Irqs |-> IF i \in DOMAIN Static THEN Static[i] ELSE INVALID]
    /\ vector_to_irq = [v \in Vectors |->
          IF \E i \in DOMAIN Static : Static[i] = v THEN CHOOSE i \in DOMAIN Static : Static[i] = v ELSE INVALID]
    /\ action = [i \in Irqs |-> NULL] /\ priv_data = [i \in Irqs |-> NULL]
    /\ allocated_pirq = [d \in Devices |-> INVALID] /\ irte = [d \in Devices |-> NULL]
    /\ thread = [t \in Threads |-> None] /\ cpu = [c \in Cpus |-> NoInterrupt]
    /\ wrong = FALSE /\ races \in Races /\ requests = 0

-----------------------------------------------------------------------------
(* ptdev_lock is held from the first step of a request or a removal to the *)
(* last but "program".                                                     *)
ptdev_lock == \A t \in Threads : thread[t].at \in {"no", "program"}
At(t, where) == thread[t].at = where /\ UNCHANGED <<cpu, wrong, races>>
Goto(t, where) == thread' = [thread EXCEPT ![t].at = where]
Leaves(t) == thread' = [thread EXCEPT ![t] = None]
(* Nobody removes an entry that its guest programs without the lock: the   *)
(* guest is stopped before its device is taken away.                       *)
Untouched(d) == \A t \in Threads : thread[t].dev # d
Lowest(S) == {n \in S : \A m \in S : n <= m}

(* add_msix_remapping and add_intx_remapping: an active entry is only      *)
(* programmed again, for another one request_irq takes a number.           *)
find_ptirq_entry(t, d) ==
    /\ At(t, "no") /\ ptdev_lock /\ Untouched(d) /\ allocated_pirq[d] # INVALID
    /\ thread' = [thread EXCEPT ![t] = [at |-> "program", dev |-> d, irq |-> allocated_pirq[d]]]
    /\ UNCHANGED <<irq_alloc_bitmap, vector, vector_to_irq, descvars, devvars, requests>>
alloc_irq_num(t, d) ==
    LET free == Irqs \ irq_alloc_bitmap IN
    /\ At(t, "no") /\ ptdev_lock /\ Untouched(d) /\ allocated_pirq[d] = INVALID
    /\ requests < MaxRequests /\ requests' = requests + 1
    /\ IF pin[d] = INVALID /\ free = {} THEN UNCHANGED <<irq_alloc_bitmap, thread>>
       ELSE \E irq \in IF pin[d] # INVALID THEN {pin[d]} ELSE Lowest(free) :
              /\ irq_alloc_bitmap' = irq_alloc_bitmap \union {irq}
              /\ thread' = [thread EXCEPT ![t] = [at |-> "vector", dev |-> d, irq |-> irq]]
    /\ UNCHANGED <<vector, vector_to_irq, descvars, devvars>>
(* alloc_irq_vector looks at the descriptor before it takes the lock.      *)
has_vector(t) ==
    LET irq == thread[t].irq IN
    /\ At(t, "vector")
    /\ Goto(t, IF vector[irq] = INVALID THEN "alloc"
               ELSE IF vector_to_irq[vector[irq]] = irq THEN "action" ELSE "give_back")
    /\ UNCHANGED <<irq_alloc_bitmap, vector, vector_to_irq, descvars, devvars, requests>>
alloc_irq_vector(t) ==
    LET irq == thread[t].irq
        free == {v \in Dynamic : vector_to_irq[v] = INVALID}
    IN  /\ At(t, "alloc") /\ Goto(t, IF free = {} THEN "give_back" ELSE "action")
        /\ IF free = {} THEN UNCHANGED <<vector, vector_to_irq>>
           ELSE \E v \in Lowest(free) : /\ vector' = [vector EXCEPT ![irq] = v]
                                        /\ vector_to_irq' = [vector_to_irq EXCEPT ![v] = irq]
        /\ UNCHANGED <<irq_alloc_bitmap, descvars, devvars, requests>>
(* The handler.  If there is one already, number and vector stay.          *)
set_action(t) ==
    LET irq == thread[t].irq
        d == thread[t].dev
    IN  /\ At(t, "action")
        /\ IF action[irq] # NULL THEN Leaves(t) /\ UNCHANGED <<descvars, allocated_pirq>>
           ELSE /\ Goto(t, "program")
                /\ action' = [action EXCEPT ![irq] = d] /\ priv_data' = [priv_data EXCEPT ![irq] = d]
                /\ allocated_pirq' = [allocated_pirq EXCEPT ![d] = irq]
        /\ UNCHANGED <<irq_alloc_bitmap, vector, vector_to_irq, irte, requests>>
(* ptirq_prepare_msix_remap and activate_physical_ioapic, without the lock.*)
dmar_assign_irte(t) ==
    /\ At(t, "program") /\ Leaves(t)
    /\ irte' = [irte EXCEPT ![thread[t].dev] = vector[allocated_pirq[thread[t].dev]]]
    /\ UNCHANGED <<irq_alloc_bitmap, vector, vector_to_irq, descvars, allocated_pirq, requests>>

(* A removal frees the vector, the number and the handler (free_irq), and  *)
(* the remapping entry after them, or before them when the VM goes.        *)
remove_remapping(t, d) ==
    /\ At(t, "no") /\ ptdev_lock /\ Untouched(d) /\ allocated_pirq[d] # INVALID
    /\ "inflight" \notin races => \A c \in Cpus : cpu[c].from # d
    /\ \E at \in {"free", "irte_first"} :
          thread' = [thread EXCEPT ![t] = [at |-> at, dev |-> d, irq |-> allocated_pirq[d]]]
    /\ UNCHANGED <<irq_alloc_bitmap, vector, vector_to_irq, descvars, devvars, requests>>
release_cb(t) ==
    /\ At(t, "irte_first") /\ Goto(t, "free")
    /\ irte' = [irte EXCEPT ![thread[t].dev] = NULL]
    /\ UNCHANGED <<irq_alloc_bitmap, vector, vector_to_irq, descvars, allocated_pirq, requests>>
(* Mutant: the vector goes on to lead to the number. *)
free_irq_vectorHalf(t) ==
    /\ At(t, "free") /\ Goto(t, "free_num")
    /\ vector' = [vector EXCEPT ![thread[t].irq] = INVALID]
    /\ UNCHANGED <<irq_alloc_bitmap, vector_to_irq, descvars, devvars, requests>>
free_irq_vector(t) ==
    LET irq == thread[t].irq IN
    /\ At(t, "free") /\ Goto(t, "free_num")
    /\ IF irq \in DOMAIN Static THEN UNCHANGED <<vector, vector_to_irq>>
       ELSE /\ vector' = [vector EXCEPT ![irq] = INVALID]
            /\ vector_to_irq' = [v \in Vectors |-> IF v = vector[irq] /\ vector_to_irq[v] = irq THEN INVALID
                                                   ELSE vector_to_irq[v]]
    /\ UNCHANGED <<irq_alloc_bitmap, descvars, devvars, requests>>
(* Of a removal, and of a request that found no vector.                    *)
free_irq_num(t) ==
    LET irq == thread[t].irq IN
    /\ \/ At(t, "free_num") /\ Goto(t, "clear")
       \/ At(t, "give_back") /\ Leaves(t)
    /\ irq_alloc_bitmap' = IF irq \in Ioapic THEN irq_alloc_bitmap ELSE irq_alloc_bitmap \ {irq}
    /\ UNCHANGED <<vector, vector_to_irq, descvars, devvars, requests>>
clear_action(t) ==
    LET irq == thread[t].irq IN
    /\ At(t, "clear") /\ Goto(t, "irte")
    /\ action' = [action EXCEPT ![irq] = NULL] /\ priv_data' = [priv_data EXCEPT ![irq] = NULL]
    /\ UNCHANGED <<irq_alloc_bitmap, vector, vector_to_irq, devvars, requests>>
dmar_free_irte(t) ==
    LET d == thread[t].dev IN
    /\ At(t, "irte") /\ Leaves(t)
    /\ irte' = [irte EXCEPT ![d] = NULL] /\ allocated_pirq' = [allocated_pirq EXCEPT ![d] = INVALID]
    /\ UNCHANGED <<irq_alloc_bitmap, vector, vector_to_irq, descvars, requests>>

-----------------------------------------------------------------------------
(* dispatch_interrupt.  A device interrupts while it has a remapping entry.*)
Cpu(c, where) == cpu[c].at = where /\ UNCHANGED <<irq_alloc_bitmap, vector, vector_to_irq, descvars, devvars,
                                                  thread, races, requests>>
Ends(c, right) == cpu' = [cpu EXCEPT ![c] = NoInterrupt] /\ wrong' = (wrong \/ ~right)
Removed(d) == \E t \in Threads : thread[t].dev = d /\ thread[t].at \notin {"action", "program"}
interrupt(c, d) ==
    /\ Cpu(c, "no") /\ irte[d] # NULL /\ ("inflight" \in races \/ ~Removed(d)) /\ UNCHANGED wrong
    /\ cpu' = [cpu EXCEPT ![c] = [at |-> "lookup", vec |-> irte[d], from |-> d, irq |-> INVALID, action |-> NULL]]
(* handle_spurious_interrupt only counts.                                  *)
dispatch_interrupt(c) ==
    LET irq == vector_to_irq[cpu[c].vec] IN
    /\ Cpu(c, "lookup")
    /\ IF irq = INVALID THEN Ends(c, FALSE)
       ELSE cpu' = [cpu EXCEPT ![c].at = "verify", ![c].irq = irq] /\ UNCHANGED wrong
verify(c) ==
    LET irq == cpu[c].irq IN
    /\ Cpu(c, "verify")
    /\ IF cpu[c].vec # vector[irq] \/ irq \notin irq_alloc_bitmap THEN Ends(c, FALSE)
       ELSE cpu' = [cpu EXCEPT ![c].at = "handle", ![c].action = action[irq]] /\ UNCHANGED wrong
(* handle_irq has read the handler, and reads its data when it calls it.   *)
handle_irq(c) ==
    Cpu(c, "handle") /\ Ends(c, cpu[c].action = cpu[c].from /\ priv_data[cpu[c].irq] = cpu[c].from)

IrqNext ==
    \/ \E t \in Threads, d \in Devices : find_ptirq_entry(t, d) \/ alloc_irq_num(t, d) \/ remove_remapping(t, d)
    \/ \E t \in Threads : \/ has_vector(t) \/ alloc_irq_vector(t) \/ set_action(t) \/ dmar_assign_irte(t)
                          \/ release_cb(t) \/ free_irq_vector(t) \/ free_irq_num(t) \/ clear_action(t)
                          \/ dmar_free_irte(t)
    \/ \E c \in Cpus, d \in Devices : interrupt(c, d)
    \/ \E c \in Cpus : dispatch_interrupt(c) \/ verify(c) \/ handle_irq(c)
IrqSpec == IrqInit /\ [][IrqNext]_irqvars

-----------------------------------------------------------------------------
(* The tables of irq.c: an active device has its number, a vector that     *)
(* leads to it, its handler and, programmed, its interrupts sent there; no *)
(* other device has them.  Whatever requests fail half way, for want of a  *)
(* number or a vector, nothing but that is in use while nobody holds       *)
(* ptdev_lock.  An interrupt runs the handler of the device that sent it,  *)
(* with its data, if no device interrupts while it is removed.             *)
Complete(d) == LET i == allocated_pirq[d] IN
    /\ i \in irq_alloc_bitmap /\ vector[i] # INVALID /\ vector_to_irq[vector[i]] = i
    /\ action[i] = d /\ priv_data[i] = d /\ irte[d] \in {NULL, vector[i]}
InUse == DOMAIN Static \union {allocated_pirq[d] : d \in Devices}
IrqInv ==
    /\ \A d \in Devices : allocated_pirq[d] # INVALID /\ ~Removed(d) => Complete(d)
    /\ ptdev_lock =>
          /\ irq_alloc_bitmap \subseteq InUse \union Ioapic
          /\ \A i \in Irqs : vector[i] # INVALID => i \in InUse /\ vector_to_irq[vector[i]] = i
          /\ \A v \in Vectors : vector_to_irq[v] # INVALID => vector[vector_to_irq[v]] = v
          /\ \A d \in Devices : allocated_pirq[d] = INVALID => irte[d] = NULL
    /\ races = {} => ~wrong
=============================================================================
