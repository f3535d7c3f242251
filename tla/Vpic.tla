-------------------------------- MODULE Vpic --------------------------------
(***************************************************************************)
(* The two cascaded interrupt controllers of a VM (dm/vpic.c), the wire    *)
(* that connects them to the boot vCPU (wire_mode, changed by vlapic.c and *)
(* vioapic.c) and the passthrough entry whose level-triggered interrupt is *)
(* acknowledged through them (ptirq_intx_ack of guest/assign.c).           *)
(*                                                                         *)
(* A chip has N pins instead of eight.  A register write of the guest, a   *)
(* change of a line and the acceptance of an interrupt each happen under   *)
(* the lock of the vPIC and end in vpic_notify_intr.                       *)
(***************************************************************************)
EXTENDS Integers

CONSTANTS
    N,            \* NR_VPIC_PINS_PER_CHIP
    Cascade,      \* the pin of the master that the slave drives
    Emulated,     \* <<chip, pin>> of the emulated devices
    Passthru,     \* <<chip, pin>> of the passthrough devices
    Level,        \* <<chip, pin>> that may be set to level in the ELCR
    Workloads,    \* the sets of features that guests use: "mask", "smm", "sfn", "aeoi",
                  \* "rotate", "poll", "wires", "init", "elc", and "withdraw" when what
                  \* was raised may be withdrawn before it is accepted
    NONE

VARIABLES
    use,          \* what the guest uses, one of Workloads
    chip,         \* ["M", "S" -> struct i8259_reg_state]
    lines,        \* <<chip, pin>> with pin_state 1
    wire,         \* wire_mode of the VM
    extint,       \* ACRN_REQUEST_EXTINT of the boot vCPU
    injecting,    \* what vpic_pending_intr returned and is being injected
    spinning      \* a vCPU spins for the lock of the vPIC that it holds

picvars == <<use, chip, lines, wire, extint, injecting, spinning>>

Chips == {"M", "S"}
Pins == 0..N - 1

ASSUME VpicAssumption == N \in 1..8 /\ Cascade \in Pins /\ NONE \notin Pins

-----------------------------------------------------------------------------
(* Priorities: the pin after lowprio is the highest.                       *)

rank(c, p) == (p - c.lowprio - 1) % N
Highest(c, pins) == IF pins = {} THEN NONE
                    ELSE CHOOSE p \in pins : \A q \in pins : rank(c, p) <= rank(c, q)

(* In special mask mode a masked pin stays in service at a non-specific    *)
(* EOI.                                                                    *)
vpic_get_highest_isrpin(c) == Highest(c, IF c.smm THEN c.service \ c.mask ELSE c.service)

(* What blocks requests: the pins in service, except the slave's in        *)
(* special fully-nested mode, and none in special mask mode.               *)
serviced(c) == IF c.smm THEN {} ELSE IF c.sfn THEN c.service \ {Cascade} ELSE c.service

(* The highest request that is not masked and not at or below a pin that   *)
(* is in service.                                                          *)
vpic_get_highest_irrpin(c) ==
    Highest(c, {p \in c.request \ c.mask : \A q \in serviced(c) : rank(c, p) < rank(c, q)})

-----------------------------------------------------------------------------
(* A pin that goes up requests; on a level-triggered pin also while it is  *)
(* up, and going down withdraws the request.                               *)
vpic_set_pinstate(cs, k, p, old, new) ==
    [cs EXCEPT ![k].request =
        CASE new /\ (~old \/ p \in cs[k].elc) -> @ \union {p}
          [] old /\ ~new /\ p \in cs[k].elc   -> @ \ {p}
          [] OTHER                            -> @]

(* The slave raises the cascade pin of the master, once until it is        *)
(* accepted.                                                               *)
notify_slave(cs) ==
    IF ~cs["S"].intr_raised /\ vpic_get_highest_irrpin(cs["S"]) # NONE
      THEN [cs EXCEPT !["S"].intr_raised = TRUE, !["M"].request = @ \union {Cascade}]
      ELSE cs

(* The master then interrupts the boot vCPU, once until it is accepted:    *)
(* directly, or as ExtINT through LINT0 or pin 0 of the vIOAPIC when one   *)
(* of them is unmasked.                                                    *)
notifies(cs) == ~cs["M"].intr_raised /\ vpic_get_highest_irrpin(cs["M"]) # NONE
connected(w) == w \in {"INTR", "LAPIC", "IOAPIC"}

(* Mutant: the slave is looked at after the master. *)
vpic_notify_intrMasterFirst(cs, w) ==
    /\ chip' = notify_slave([cs EXCEPT !["M"].intr_raised = @ \/ notifies(cs)])
    /\ extint' = (extint \/ (notifies(cs) /\ connected(w)))
vpic_notify_intr(cs, w) ==
    LET after == notify_slave(cs) IN
    /\ chip' = [after EXCEPT !["M"].intr_raised = @ \/ notifies(after)]
    /\ extint' = (extint \/ (notifies(after) /\ connected(w)))

-----------------------------------------------------------------------------
Chip == [ready |-> FALSE, icw_num |-> 0, request |-> {}, service |-> {}, mask |-> Pins,
         lowprio |-> 0, intr_raised |-> FALSE, aeoi |-> FALSE, rotate |-> FALSE,
         smm |-> FALSE, sfn |-> FALSE, poll |-> FALSE, elc |-> {}]
(* The pins that a guest masks, ends and ranks: those with a source.       *)
Wired == [k \in Chips |-> {p \in Pins : <<k, p>> \in Emulated \union Passthru \union {<<"M", Cascade>>}}]
Elc(k) == {p \in Pins : <<k, p>> \in Level \ IF "elc" \in use THEN {} ELSE Passthru}
(* vpic_init, or the registers that the firmware of the guest leaves.      *)
Ready(k) == [Chip EXCEPT !.ready = TRUE, !.mask = {}, !.lowprio = N - 1, !.elc = Elc(k)]
VpicInit == /\ use \in Workloads
            /\ \/ \E b, a \in BOOLEAN :
                    /\ (b => "sfn" \in use) /\ (a => "aeoi" \in use)
                    /\ chip = [k \in Chips |-> [Ready(k) EXCEPT !.sfn = k = "M" /\ b, !.aeoi = a]]
               \/ "init" \in use /\ chip = [k \in Chips |-> Chip]
            /\ lines = {} /\ wire = "INTR" /\ extint = FALSE /\ injecting = NONE /\ spinning = FALSE

(* What vpic_pending_intr finds: the pin, of the slave when it is the      *)
(* cascade pin that is highest.                                            *)
Pending(cs) ==
    LET m == vpic_get_highest_irrpin(cs["M"]) IN
    IF m # Cascade THEN (IF m = NONE THEN NONE ELSE <<"M", m>>)
    ELSE LET s == vpic_get_highest_irrpin(cs["S"]) IN IF s = NONE THEN NONE ELSE <<"S", s>>

(* What the workloads without "withdraw" leave out: that what was raised   *)
(* is no longer deliverable or no longer on its way to the vCPU.           *)
Withdrawn(cs, e, v) == \/ cs["M"].intr_raised /\ ((~e /\ v = NONE) \/ Pending(cs) = NONE)
                       \/ cs["S"].intr_raised /\ Cascade \notin cs["M"].request
                       \/ cs["S"].intr_raised /\ vpic_get_highest_irrpin(cs["S"]) = NONE
Allowed == "withdraw" \notin use => ~Withdrawn(chip', extint', injecting')
Idle == ~spinning

(* vpic_set_irqline: a line changes; the pulse of an edge device is a rise *)
(* and a fall.                                                             *)
vpic_set_irqline(k, p, up) ==
    /\ chip[k].ready
    /\ lines' = IF up THEN lines \union {<<k, p>>} ELSE lines \ {<<k, p>>}
    /\ vpic_notify_intr(vpic_set_pinstate(chip, k, p, <<k, p>> \in lines, up), wire)
set_irqline(k, p) ==
    /\ Idle /\ <<k, p>> \in Emulated
    /\ \E up \in BOOLEAN : vpic_set_irqline(k, p, up)
    /\ UNCHANGED <<use, wire, injecting, spinning>> /\ Allowed

(* The softirq of a passthrough device raises the line of a level-         *)
(* triggered pin, which only the acknowledgement of the guest lowers, and  *)
(* pulses that of an edge-triggered one.                                   *)
handle_intx(k, p) ==
    /\ Idle /\ <<k, p>> \in Passthru
    /\ \/ p \in chip[k].elc /\ vpic_set_irqline(k, p, TRUE)
       \/ /\ p \notin chip[k].elc /\ chip[k].ready /\ lines' = lines \ {<<k, p>>}
          /\ LET up == vpic_set_pinstate(chip, k, p, <<k, p>> \in lines, TRUE)
             IN vpic_notify_intr(vpic_set_pinstate(up, k, p, TRUE, FALSE), wire)
    /\ UNCHANGED <<use, wire, injecting, spinning>> /\ Allowed

(* Mutant: what was raised is not taken back. *)
vpic_pin_acceptedStaysRaised(c, p) ==
    [c EXCEPT !.request = IF p \in c.elc THEN @ ELSE @ \ {p},
              !.service = IF c.aeoi THEN @ ELSE @ \union {p}]
vpic_pin_accepted(c, p) ==
    [c EXCEPT !.intr_raised = FALSE,
              !.request = IF p \in c.elc THEN @ ELSE @ \ {p},
              !.lowprio = IF c.aeoi /\ c.rotate THEN p ELSE @,
              !.service = IF c.aeoi THEN @ ELSE @ \union {p}]

(* vcpu_do_pending_extint: the request is taken and the highest pin is     *)
(* looked up; without one nothing is injected.                             *)
vcpu_do_pending_extint ==
    /\ Idle /\ extint /\ injecting = NONE
    /\ extint' = FALSE /\ injecting' = Pending(chip)
    /\ UNCHANGED <<use, chip, lines, wire, spinning>>

(* The vector is accepted under the lock taken again, by the master too    *)
(* when it comes from the slave.                                           *)
vpic_intr_accepted ==
    /\ Idle /\ injecting # NONE
    /\ LET own == [chip EXCEPT ![injecting[1]] = vpic_pin_accepted(@, injecting[2])] IN
       vpic_notify_intr(IF injecting[1] = "M" THEN own
                        ELSE [own EXCEPT !["M"] = vpic_pin_accepted(@, Cascade)], wire)
    /\ injecting' = NONE
    /\ UNCHANGED <<use, lines, wire, spinning>>

-----------------------------------------------------------------------------
(* Register writes of the guest.  They end in vpic_notify_intr when the    *)
(* chip is ready.                                                          *)

Finish(k, c) == LET cs == [chip EXCEPT ![k] = c] IN
                IF c.ready THEN vpic_notify_intr(cs, wire)
                ELSE chip' = cs /\ UNCHANGED extint

(* OCW1, the interrupt mask: any write to the second port outside of an    *)
(* initialisation.  ptirq_intx_pin_remap, for the pins that it unmasks,    *)
(* finds the passthrough entries at the vPIC and leaves them there.        *)
vpic_ocw1(k) ==
    /\ Idle /\ "mask" \in use /\ chip[k].icw_num \notin 2..4
    /\ \E val \in SUBSET Wired[k] : Finish(k, [chip[k] EXCEPT !.mask = val])
    /\ UNCHANGED <<use, lines, wire, injecting, spinning>> /\ Allowed

eoi_pin(c) == vpic_get_highest_isrpin(c)

(* OCW2: an EOI, non-specific or of any pin, with or without rotation, or  *)
(* a new lowest priority.  The level-triggered interrupt of a passthrough  *)
(* device is acknowledged from here: ptirq_intx_ack lowers its line with   *)
(* vpic_set_irqline, which takes the lock that vpic_write holds.           *)
Rotates == IF "rotate" \in use THEN BOOLEAN ELSE {FALSE}
acks_ptdev(k, p) == p \in chip[k].elc /\ <<k, p>> \in Passthru
vpic_eoi(k, p, r) ==
    /\ Idle /\ chip[k].ready
    /\ IF p # NONE /\ acks_ptdev(k, p)
         THEN spinning' = TRUE /\ UNCHANGED <<chip, extint>>
         ELSE /\ Finish(k, [chip[k] EXCEPT !.service = @ \ {p}, !.rotate = r,
                                          !.lowprio = IF r /\ p # NONE THEN p ELSE @])
              /\ UNCHANGED spinning
    /\ UNCHANGED <<use, lines, wire, injecting>> /\ Allowed
vpic_ocw2(k) ==
    \/ \E p \in Wired[k] \union {eoi_pin(chip[k])}, r \in Rotates : vpic_eoi(k, p, r)
    \/ /\ Idle /\ chip[k].ready /\ TRUE \in Rotates
       /\ \E p \in Wired[k] : Finish(k, [chip[k] EXCEPT !.rotate = TRUE, !.lowprio = p])
       /\ UNCHANGED <<use, lines, wire, injecting, spinning>> /\ Allowed

(* OCW3: special mask mode, and a poll command with the read that accepts. *)
vpic_ocw3(k) ==
    /\ Idle /\ chip[k].ready
    /\ \/ "smm" \in use /\ Finish(k, [chip[k] EXCEPT !.smm = ~@])
       \/ "poll" \in use /\ Finish(k, [chip[k] EXCEPT !.poll = TRUE])
    /\ UNCHANGED <<use, lines, wire, injecting, spinning>> /\ Allowed
vpic_read(k) ==
    /\ Idle /\ chip[k].poll
    /\ LET p == vpic_get_highest_irrpin(chip[k]) IN
       chip' = [chip EXCEPT ![k] = IF p = NONE THEN [@ EXCEPT !.poll = FALSE]
                                   ELSE [vpic_pin_accepted(@, p) EXCEPT !.poll = FALSE]]
    /\ UNCHANGED extint
    /\ UNCHANGED <<use, lines, wire, injecting, spinning>> /\ Allowed

(* ICW1 starts an initialisation over; requests and masks go, pins in      *)
(* service and intr_raised stay.  A value that it refuses leaves icw_num   *)
(* at 1.  ICW2 to ICW4 follow; the last one may be refused too.  It sets   *)
(* automatic EOI and, in the master, special fully-nested mode; nothing    *)
(* clears them.                                                            *)
vpic_icw1(k) ==
    /\ Idle /\ "init" \in use
    /\ \E n \in {1, 2} :
         chip' = [chip EXCEPT ![k].ready = FALSE, ![k].icw_num = n, ![k].request = {}, ![k].mask = {},
                              ![k].lowprio = N - 1, ![k].poll = FALSE, ![k].smm = FALSE]
    /\ UNCHANGED extint
    /\ UNCHANGED <<use, lines, wire, injecting, spinning>> /\ Allowed
vpic_icw(k) ==
    /\ Idle /\ chip[k].icw_num \in 2..4
    /\ \/ chip[k].icw_num # 4 /\ Finish(k, [chip[k] EXCEPT !.icw_num = @ + 1])
       \/ chip[k].icw_num = 4 /\ Finish(k, chip[k])
       \/ /\ chip[k].icw_num = 4
          /\ \E aeoi, sfnm \in BOOLEAN :
                Finish(k, [chip[k] EXCEPT !.icw_num = 0, !.ready = TRUE, !.aeoi = @ \/ aeoi,
                                          !.sfn = @ \/ (sfnm /\ k = "M")])
    /\ UNCHANGED <<use, lines, wire, injecting, spinning>> /\ Allowed

(* The trigger modes; nothing is notified.                                 *)
vpic_elc_handler(k) ==
    /\ Idle /\ "elc" \in use
    /\ chip' = [chip EXCEPT ![k].elc = IF @ = {} THEN Elc(k) ELSE {}]
    /\ UNCHANGED extint
    /\ UNCHANGED <<use, lines, wire, injecting, spinning>> /\ Allowed

(* The wire: LINT0 as ExtINT unmasked and masked, pin 0 of the vIOAPIC     *)
(* unmasked and masked, and the APIC software-disabled.                    *)
wire_step(w) == CASE w = "INTR"   -> {"LAPIC", "IOAPIC"}
                  [] w = "NULL"   -> {"LAPIC", "IOAPIC", "INTR"}
                  [] w = "LAPIC"  -> {"NULL", "INTR"}
                  [] w = "IOAPIC" -> {"INTR"}
change_wire ==
    /\ Idle /\ "wires" \in use
    /\ wire' \in wire_step(wire) \ IF "withdraw" \in use THEN {} ELSE {"NULL"}
    /\ UNCHANGED <<use, chip, lines, extint, injecting, spinning>>

PicGuest ==
    \/ \E k \in Chips : vpic_ocw1(k) \/ vpic_ocw2(k) \/ vpic_ocw3(k) \/ vpic_read(k)
                        \/ vpic_icw1(k) \/ vpic_icw(k) \/ vpic_elc_handler(k)
    \/ change_wire
VpicNext ==
    \/ \E k \in Chips, p \in Pins : set_irqline(k, p) \/ handle_intx(k, p)
    \/ vcpu_do_pending_extint \/ vpic_intr_accepted \/ PicGuest

(* The boot vCPU enters the guest again and again with interrupts enabled. *)
VpicSpec == /\ VpicInit /\ [][VpicNext]_picvars
            /\ WF_picvars(vcpu_do_pending_extint) /\ WF_picvars(vpic_intr_accepted)

-----------------------------------------------------------------------------
ChipType == [ready : BOOLEAN, icw_num : 0..4, request : SUBSET Pins, service : SUBSET Pins,
             mask : SUBSET Pins, lowprio : Pins, intr_raised : BOOLEAN, aeoi : BOOLEAN,
             rotate : BOOLEAN, smm : BOOLEAN, sfn : BOOLEAN, poll : BOOLEAN, elc : SUBSET Pins]

(* Types, and the promise of vpic_notify_intr: while both chips are in     *)
(* operation, a pin that could be delivered has been announced, by the     *)
(* slave to the master and by the master to the vCPU.  A poll command,     *)
(* which accepts without a notification, is the exception.                 *)
VpicInv ==
    /\ \A k \in Chips : chip[k] \in ChipType
    /\ lines \subseteq Chips \X Pins /\ extint \in BOOLEAN /\ spinning \in BOOLEAN
    /\ wire \in {"INTR", "LAPIC", "IOAPIC", "NULL"}
    /\ injecting \in (Chips \X Pins) \union {NONE}
    /\ "poll" \notin use /\ (\A k \in Chips : chip[k].ready) =>
         \A k \in Chips : vpic_get_highest_irrpin(chip[k]) # NONE => chip[k].intr_raised

(* While some pin can be delivered the boot vCPU is interrupted in the     *)
(* end: what vpic_notify_intr raised once is taken back when a vector is   *)
(* accepted, and then raised for the pins that remain.  (A vCPU that spins *)
(* in its EOI is stopped for good.)                                        *)
PicWaits == Pending(chip) # NONE /\ injecting = NONE /\ ~spinning
PicServes == []<>~PicWaits

(* A level-triggered interrupt of a passthrough device can be acknowledged *)
(* through the vPIC: the write of the EOI returns.                         *)
EoiReturns == ~spinning
=============================================================================
