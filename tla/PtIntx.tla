------------------------------- MODULE PtIntx -------------------------------
(***************************************************************************)
(* The legacy interrupt of one passthrough device, from the physical       *)
(* IOAPIC pin to the virtual IOAPIC of the VM that owns it and back:       *)
(* dispatch_interrupt and ptirq_interrupt_handler on the pCPU it is routed *)
(* to, the softirq with its injection delay, the virtual pin, the EOI of   *)
(* the guest that unmasks the physical pin, the registers that the guest   *)
(* writes meanwhile, and the remapping entry that moves between VMs        *)
(* (common/ptdev.c, guest/assign.c, dm/vioapic.c, arch/x86/irq.c).         *)
(***************************************************************************)
EXTENDS Naturals

CONSTANTS
    SOS, UOS,     \* the two VMs that may own the device
    MaxOps,       \* bound on what guests and the device model do
    Quiesced,     \* an entry is removed only while its guest and its softirq do not run
    NULL

VMs == {SOS, UOS}
ASSUME PtIntxAssumption == NULL \notin VMs

VARIABLES
    line,         \* the device asserts its line
    pin,          \* the physical IOAPIC pin: [mask, level, irr]
    entry,        \* the ptirq_remapping_info: [vm, polarity], or NULL
    delta,        \* intr_inject_delay_delta of the UOS is set
    timer,        \* the delay timer of the entry: [started, expired]
    queued,       \* the entry is on softirq_dev_entry_list
    soft,         \* where ptirq_softirq is: "idle", "check", "handle", "edge", "level"
    rte,          \* [VM -> redirection entry of the virtual pin: [mask, level, alo, remote_irr]]
    pin_state,    \* [VM -> level of the virtual pin]
    vint,         \* [VM -> "none", "pending", "serving", "acked": its vector in the vLAPIC]
    writing,      \* [VM -> "no", or a write of its redirection entry that holds the
                  \* lock of the vIOAPIC: "remap" with the physical pin, or "plain"]
    stale_entry,  \* the softirq handled an entry that had been released
    ops

devVars == <<line, pin>>
ptVars == <<entry, delta, timer, queued, soft, stale_entry>>
vioVars == <<rte, pin_state, vint, writing>>
ptintx_vars == <<devVars, ptVars, vioVars, ops>>

Owner == IF entry = NULL THEN NULL ELSE entry.vm
Op == ops < MaxOps /\ ops' = ops + 1

-----------------------------------------------------------------------------
(* The virtual pin.  A virtual pin is the record of its redirection entry, *)
(* its level and its vector.                                               *)

Vpin(v) == [rte |-> rte[v], high |-> pin_state[v], vint |-> vint[v]]
SetVpin(v, x) == /\ rte' = [rte EXCEPT ![v] = x.rte]
                 /\ pin_state' = [pin_state EXCEPT ![v] = x.high]
                 /\ vint' = [vint EXCEPT ![v] = x.vint]

vioapic_need_intr(x) == x.high # x.rte.alo

(* A vector that is pending or in service already is requested once more;  *)
(* "acked" is an EOI between its two loops.                                *)
vioapic_generate_intr(x) ==
    IF x.rte.mask \/ (x.rte.level /\ x.rte.remote_irr) THEN x
    ELSE [x EXCEPT !.rte.remote_irr = x.rte.level, !.vint = IF @ = "none" THEN "pending" ELSE @]

vioapic_set_pinstate(x, high) ==
    LET y == [x EXCEPT !.high = high] IN
    IF high # x.high /\ high # x.rte.alo THEN vioapic_generate_intr(y) ELSE y
Pulse(x, high) == vioapic_set_pinstate(vioapic_set_pinstate(x, high), ~high)

-----------------------------------------------------------------------------
Masked == [mask |-> TRUE, level |-> FALSE, alo |-> FALSE, remote_irr |-> FALSE]
(* Nobody has the entry yet, or the device model has taken it for a UOS    *)
(* whose interrupts are delayed.                                           *)
PtIntxInit ==
    /\ line = FALSE /\ pin = [mask |-> TRUE, level |-> FALSE, irr |-> FALSE]
    /\ \/ entry = NULL /\ delta = FALSE
       \/ entry = [vm |-> UOS, polarity |-> FALSE] /\ delta = TRUE
    /\ timer = [started |-> FALSE, expired |-> TRUE]
    /\ queued = FALSE /\ soft = "idle" /\ stale_entry = FALSE
    /\ rte = [v \in VMs |-> Masked] /\ pin_state = [v \in VMs |-> FALSE]
    /\ vint = [v \in VMs |-> "none"] /\ writing = [v \in VMs |-> "no"]
    /\ ops = 0

(* The device.  An edge on a masked pin is lost.                           *)
device_asserts ==
    /\ ~line /\ line' = TRUE
    /\ pin' = [pin EXCEPT !.irr = @ \/ (~pin.level /\ ~pin.mask)]
    /\ UNCHANGED <<ptVars, vioVars, ops>>

(* The line of a pin in level mode interrupts while it is asserted.        *)
Interrupts == ~pin.mask /\ (IF pin.level THEN line ELSE pin.irr)

(* handle_irq masks a level-triggered pin; ptirq_interrupt_handler starts  *)
(* the delay of an interrupt of the UOS, unless it runs, and puts the      *)
(* entry on the list.                                                      *)
handle_irq ==
    /\ entry # NULL /\ Interrupts
    /\ pin' = [pin EXCEPT !.mask = pin.level, !.irr = FALSE]
    /\ IF Owner = SOS THEN queued' = TRUE /\ UNCHANGED timer
       ELSE IF delta /\ timer.started THEN UNCHANGED <<queued, timer>>
       ELSE queued' = TRUE /\ timer' = [timer EXCEPT !.expired = ~delta]
    /\ UNCHANGED <<line, entry, delta, soft, stale_entry, vioVars, ops>>

(* The delay is over; then the timer fires and its callback puts the entry *)
(* on the list again.                                                      *)
delay_passes == /\ ~timer.expired /\ timer' = [timer EXCEPT !.expired = TRUE]
                /\ UNCHANGED <<devVars, entry, delta, queued, soft, stale_entry, vioVars, ops>>
ptirq_intr_delay_callback ==
    /\ timer.started /\ timer.expired
    /\ timer' = [timer EXCEPT !.started = FALSE] /\ queued' = TRUE
    /\ UNCHANGED <<devVars, entry, delta, soft, stale_entry, vioVars, ops>>

(* The softirq takes the entry from the list; an interrupt of the UOS      *)
(* whose delay is not over waits for the timer.                            *)
(* Mutant: an entry taken from the list starts its delay over. *)
ptirq_dequeue_softirqRestarts ==
    /\ queued /\ soft = "idle"
    /\ queued' = FALSE
    /\ IF Owner = SOS \/ ~delta THEN soft' = "check" /\ UNCHANGED timer
       ELSE timer' = [started |-> TRUE, expired |-> FALSE] /\ UNCHANGED soft
    /\ UNCHANGED <<devVars, entry, delta, stale_entry, vioVars, ops>>
ptirq_dequeue_softirq ==
    /\ queued /\ soft = "idle"
    /\ queued' = FALSE
    /\ IF Owner = SOS \/ timer.expired THEN soft' = "check" /\ UNCHANGED timer
       ELSE timer' = [timer EXCEPT !.started = TRUE] /\ UNCHANGED soft
    /\ UNCHANGED <<devVars, entry, delta, stale_entry, vioVars, ops>>
(* It skips an entry that is not active, reads the trigger mode of the     *)
(* virtual pin without the lock, and then sets the pin under it.           *)
ptirq_softirq ==
    /\ soft = "check"
    /\ soft' = IF entry = NULL THEN "idle" ELSE "handle"
    /\ UNCHANGED <<devVars, entry, delta, timer, queued, stale_entry, vioVars, ops>>
ptirq_handle_intx_reads ==
    /\ soft = "handle"
    /\ IF entry = NULL THEN soft' = "idle" /\ stale_entry' = TRUE
       ELSE soft' = (IF rte[Owner].level THEN "level" ELSE "edge") /\ UNCHANGED stale_entry
    /\ UNCHANGED <<devVars, entry, delta, timer, queued, vioVars, ops>>
ptirq_handle_intx ==
    /\ soft \in {"edge", "level"} /\ soft' = "idle"
    /\ IF entry = NULL THEN stale_entry' = TRUE /\ UNCHANGED vioVars
       ELSE /\ writing[Owner] = "no"
            /\ SetVpin(Owner, IF soft = "level" THEN vioapic_set_pinstate(Vpin(Owner), ~entry.polarity)
                              ELSE Pulse(Vpin(Owner), ~entry.polarity))
            /\ UNCHANGED <<writing, stale_entry>>
    /\ UNCHANGED <<devVars, entry, delta, timer, queued, ops>>

-----------------------------------------------------------------------------
(* The guest.  Its handler quiets the device that it owns.                 *)
guest_serves(v) ==
    /\ vint[v] = "pending"
    /\ vint' = [vint EXCEPT ![v] = "serving"]
    /\ line' = (line /\ Owner # v)
    /\ UNCHANGED <<pin, ptVars, rte, pin_state, writing, ops>>

(* vioapic_process_eoi acknowledges first: ptirq_intx_ack lowers the pin   *)
(* and unmasks the physical pin, when the VM still owns the entry.  Only   *)
(* then, under the lock again, remote_irr is cleared and a pin that is     *)
(* asserted by now interrupts once more.                                   *)
ptirq_intx_ack(v) ==
    /\ SetVpin(v, [vioapic_set_pinstate(Vpin(v), entry.polarity) EXCEPT !.vint = "acked"])
    /\ pin' = [pin EXCEPT !.mask = FALSE]
vioapic_process_eoi(v) ==
    /\ vint[v] = "serving" /\ writing[v] = "no"
    /\ IF rte[v].remote_irr /\ Owner = v THEN ptirq_intx_ack(v)
       ELSE vint' = [vint EXCEPT ![v] = "acked"] /\ UNCHANGED <<pin, rte, pin_state>>
    /\ UNCHANGED <<line, ptVars, writing, ops>>
(* Mutant: what was asserted between the loops is forgotten. *)
eoi_doneForgets(v) ==
    /\ vint[v] = "acked" /\ writing[v] = "no"
    /\ SetVpin(v, [Vpin(v) EXCEPT !.rte.remote_irr = FALSE, !.vint = "none"])
    /\ UNCHANGED <<devVars, ptVars, writing, ops>>
eoi_done(v) ==
    /\ vint[v] = "acked" /\ writing[v] = "no"
    /\ LET x == [Vpin(v) EXCEPT !.rte.remote_irr = FALSE, !.vint = "none"] IN
       SetVpin(v, IF rte[v].remote_irr /\ vioapic_need_intr(x) THEN vioapic_generate_intr(x) ELSE x)
    /\ UNCHANGED <<devVars, ptVars, writing, ops>>

(* ptirq_build_physical_rte keeps the virtual pin deasserted when its      *)
(* polarity changes.                                                       *)
follow_polarity(x, p) ==
    IF x.rte.alo /\ ~p THEN vioapic_set_pinstate(x, TRUE)
    ELSE IF ~x.rte.alo /\ p THEN vioapic_set_pinstate(x, FALSE) ELSE x

(* vioapic_indirect_write: the new value, with remote_irr cleared in edge  *)
(* mode.  ptirq_intx_pin_remap finds the entry, which the SOS adds when    *)
(* nobody has it, and activate_physical_ioapic masks the physical pin and  *)
(* gives it the trigger mode of the virtual one ...                        *)
Remaps(v, new) == (~new.mask \/ ~rte[v].mask) /\ (Owner = v \/ (v = SOS /\ entry = NULL))
vioapic_indirect_write(v) ==
    /\ writing[v] = "no" /\ Op
    /\ \E m, l, a \in BOOLEAN :
         LET new == [mask |-> m, level |-> l, alo |-> a, remote_irr |-> rte[v].remote_irr /\ l]
             x == [Vpin(v) EXCEPT !.rte = new]
             p == IF entry = NULL THEN FALSE ELSE entry.polarity
         IN IF Remaps(v, new)
              THEN /\ SetVpin(v, follow_polarity(x, p))
                   /\ entry' = [vm |-> v, polarity |-> a]
                   /\ pin' = [pin EXCEPT !.mask = TRUE, !.level = l]
                   /\ writing' = [writing EXCEPT ![v] = "remap"]
              ELSE /\ SetVpin(v, x) /\ writing' = [writing EXCEPT ![v] = "plain"]
                   /\ UNCHANGED <<entry, pin>>
    /\ UNCHANGED <<line, delta, timer, queued, soft, stale_entry>>
(* ... and unmasks it when the virtual one is; at last a pin that is       *)
(* asserted and waits for no EOI interrupts.                               *)
write_done(v) ==
    /\ writing[v] # "no" /\ writing' = [writing EXCEPT ![v] = "no"]
    /\ pin' = [pin EXCEPT !.mask = @ /\ ~(writing[v] = "remap" /\ ~rte[v].mask)]
    /\ SetVpin(v, IF ~rte[v].mask /\ ~rte[v].remote_irr /\ vioapic_need_intr(Vpin(v))
                    THEN vioapic_generate_intr(Vpin(v)) ELSE Vpin(v))
    /\ UNCHANGED <<line, ptVars, ops>>

(* reset_vioapics at the reset of the VM: the levels of the pins stay.     *)
reset_vioapics(v) ==
    /\ writing[v] = "no" /\ Op
    /\ rte' = [rte EXCEPT ![v] = Masked] /\ vint' = [vint EXCEPT ![v] = "none"]
    /\ UNCHANGED <<devVars, ptVars, pin_state, writing>>

-----------------------------------------------------------------------------
(* The device model holds the entry for the UOS before its guest runs,     *)
(* also when the SOS has it, and gives it up in the end.                   *)
ptirq_add_intx_remapping ==
    /\ Op /\ rte[UOS].mask /\ writing[UOS] = "no" /\ Owner # UOS
    /\ entry' = [vm |-> UOS, polarity |-> FALSE]
    /\ UNCHANGED <<devVars, delta, timer, queued, soft, stale_entry, vioVars>>
ptirq_remove_intx_remapping ==
    /\ Op /\ Owner = UOS
    /\ Quiesced => soft \in {"idle", "check"} /\ writing[UOS] = "no"
    /\ pin' = [pin EXCEPT !.mask = TRUE, !.level = FALSE]
    /\ entry' = NULL /\ queued' = FALSE /\ timer' = [started |-> FALSE, expired |-> TRUE]
    /\ UNCHANGED <<line, delta, soft, stale_entry, vioVars>>
(* hcall_vm_intr_monitor sets or ends the delay of the UOS.                *)
set_delay == /\ Op /\ delta' = ~delta
             /\ UNCHANGED <<devVars, entry, timer, queued, soft, stale_entry, vioVars>>

Delay == delay_passes \/ ptirq_intr_delay_callback
Softirq == ptirq_dequeue_softirq \/ ptirq_softirq \/ ptirq_handle_intx_reads \/ ptirq_handle_intx
Guest(v) == guest_serves(v) \/ vioapic_process_eoi(v) \/ eoi_done(v) \/ write_done(v)
PtIntxNext ==
    \/ device_asserts \/ handle_irq \/ Delay \/ Softirq
    \/ \E v \in VMs : Guest(v) \/ vioapic_indirect_write(v) \/ reset_vioapics(v)
    \/ ptirq_add_intx_remapping \/ ptirq_remove_intx_remapping \/ set_delay

(* Interrupts, softirqs and timers run; a guest serves its interrupts,     *)
(* ends them with an EOI and finishes its writes.                          *)
PtIntxFairness ==
    /\ WF_ptintx_vars(handle_irq) /\ WF_ptintx_vars(Delay) /\ WF_ptintx_vars(Softirq)
    /\ \A v \in VMs : WF_ptintx_vars(Guest(v))
PtIntxSpec == PtIntxInit /\ [][PtIntxNext]_ptintx_vars /\ PtIntxFairness

-----------------------------------------------------------------------------
(* Types, and that a physical pin that handle_irq masked, while the virtual *)
(* pin of its owner is unmasked and level-triggered, is unmasked again: the *)
(* interrupt is on its way to the virtual pin, or is in the guest.         *)
Underway(v) == queued \/ timer.started \/ soft # "idle" \/ (rte[v].remote_irr /\ vint[v] # "none")
PtIntxInv ==
    /\ line \in BOOLEAN /\ pin \in [mask : BOOLEAN, level : BOOLEAN, irr : BOOLEAN]
    /\ entry \in [vm : VMs, polarity : BOOLEAN] \union {NULL}
    /\ timer \in [started : BOOLEAN, expired : BOOLEAN]
    /\ soft \in {"idle", "check", "handle", "edge", "level"}
    /\ rte \in [VMs -> [mask : BOOLEAN, level : BOOLEAN, alo : BOOLEAN, remote_irr : BOOLEAN]]
    /\ pin_state \in [VMs -> BOOLEAN] /\ vint \in [VMs -> {"none", "pending", "serving", "acked"}]
    /\ \A v \in VMs : (/\ Owner = v /\ pin.mask
                       /\ ~rte[v].mask /\ rte[v].level /\ writing[v] = "no") => Underway(v)

(* A device that asserts its line interrupts the guest that owns it and    *)
(* has unmasked the pin in level mode, unless the guest masks it again.    *)
LineWaits(v) == line /\ Owner = v /\ ~rte[v].mask /\ rte[v].level
LevelReaches == \A v \in VMs : []<>~LineWaits(v)

(* The softirq handles no entry that was released meanwhile.               *)
NotMisused == ~stale_entry
=============================================================================
