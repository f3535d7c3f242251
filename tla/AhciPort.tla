----------------------------- MODULE AhciPort ------------------------------
(***************************************************************************)
(* A port of the AHCI controller with a disk (hw/pci/ahci.c): the guest    *)
(* writes the registers, and the threads of the block backend call         *)
(* ata_ioreq_cb.  The mutex of the controller is held through both.        *)
(*                                                                         *)
(* A command reads or writes where it says.  One with a long list of       *)
(* buffers takes two requests, one after the other.                        *)
(***************************************************************************)
EXTENDS BlockIf

CONSTANTS
    Slots,       \* the command slots, numbers from 0
    Commands,    \* what a guest asks for: [offset, more]
    HastyReset   \* the guest resets the controller with commands underway

VARIABLES
    ncq,         \* the guest queues its commands (NCQ)
    shared,      \* the port shares its MSI with others
    st, cr,      \* AHCI_P_CMD_ST and AHCI_P_CMD_CR of p.cmd
    ci, sact, pending, waitforclear,       \* of the port
    bsy,         \* ATA_S_BUSY of p.tfd
    pis,         \* p.is: the reasons of the interrupt
    his,         \* the bit of the port in ahci_dev.is
    iobhd,       \* the slots with a busy request, the latest first
    more,        \* [slot -> its request is not the last of the command]
    cmdlist,     \* the command in each slot
    ahci_mtx,    \* the owner of the mutex: Nobody, "vcpu" or a thread
    msi,         \* an interrupt is on the way
    drv,         \* the driver: where it is, and the slots it has underway
    tocancel     \* what ahci_port_stop still has to look at

Nobody == "none"
pvars == <<st, cr, ci, sact, pending, waitforclear, bsy, pis, his>>
lists == <<iobhd, more>>
avars == <<ncq, shared, pvars, lists, cmdlist, ahci_mtx, msi, drv, tocancel>>
ahcivars == <<bvars, avars>>

NoCommand == [offset |-> 0, more |-> FALSE]
Toward(a, s) == [at |-> a, slots |-> s]

PortInit ==
    /\ ncq \in BOOLEAN /\ shared \in BOOLEAN /\ bsy = FALSE /\ his = FALSE
    /\ st = FALSE /\ cr = FALSE /\ ci = {} /\ sact = {} /\ pending = {} /\ waitforclear = FALSE /\ pis = {}
    /\ iobhd = <<>> /\ more = [s \in Slots |-> FALSE]
    /\ cmdlist = [s \in Slots |-> NoCommand] /\ ahci_mtx = Nobody /\ msi = FALSE
    /\ drv = Toward("off", {}) /\ tocancel = <<>>
AhciInit == PortInit /\ blockif_open(FALSE)

-----------------------------------------------------------------------------
(* The parts of the handlers.                                              *)
(* ahci_write_fis, with ahci_port_intr: an MSI for a reason not yet in is, *)
(* unless it is shared and the controller has the port in its own is.  The *)
(* driver sets FRE and IE before ST.                                       *)
Fis(irq) ==
    /\ pis' = pis \union irq
    /\ IF irq \subseteq pis \/ (shared /\ his) THEN UNCHANGED <<his, msi>> ELSE his' = TRUE /\ msi' = TRUE

(* ahci_check_stopped, on what the handler has made of the port.           *)
(* Mutant: it does not wait for what is in flight. *)
ahci_check_stoppedAtOnce(p, c, s, w) ==
    /\ pending' = p
    /\ IF ~st' THEN cr' = FALSE /\ ci' = {} /\ sact' = {} /\ waitforclear' = FALSE
       ELSE cr' = cr /\ ci' = c /\ sact' = s /\ waitforclear' = w
ahci_check_stopped(p, c, s, w) ==
    /\ pending' = p
    /\ IF ~st' /\ p = {} THEN cr' = FALSE /\ ci' = {} /\ sact' = {} /\ waitforclear' = FALSE
       ELSE cr' = cr /\ ci' = c /\ sact' = s /\ waitforclear' = w

(* ahci_handle_rw, for the first part of a command or the second: a        *)
(* request goes to the busy list and to the backend.  There are more       *)
(* requests than slots, and it does not matter which is taken: it is named *)
(* after the slot.                                                         *)
ahci_handle_rw(s, second, busy, th) ==
    LET o == cmdlist[s].offset + (IF second THEN 1 ELSE 0) IN
    /\ iobhd' = <<s>> \o busy /\ more' = [more EXCEPT ![s] = ~second /\ cmdlist[s].more]
    /\ pending' = pending \union {s}
    /\ blockif_request(Request(s, o, o + 1), th)

(* ahci_handle_port, by the owner of the mutex, a command at a time; the   *)
(* order of the slots (ccs) is left open.  A command makes the device      *)
(* busy; a queued one lets it go at once (ahci_write_fis_d2h_ncq).         *)
Issuable == IF st /\ ~bsy /\ ~waitforclear THEN ci \ pending ELSE {}
ahci_handle_slot ==
    /\ ahci_mtx \in Thr \/ (ahci_mtx = "vcpu" /\ drv.at = "port")
    /\ \E s \in Issuable :
         /\ ahci_handle_rw(s, FALSE, iobhd, thr)
         /\ ci' = IF ncq THEN ci \ {s} ELSE ci
         /\ bsy' = ~ncq
    /\ UNCHANGED <<ncq, shared, st, cr, sact, waitforclear, pis, his, cmdlist, ahci_mtx, msi, drv, tocancel>>
handle_port_vcpu ==
    /\ ahci_mtx = "vcpu" /\ drv.at = "port" /\ Issuable = {} /\ ahci_mtx' = Nobody
    /\ drv' = [drv EXCEPT !.at = "idle"]
    /\ UNCHANGED <<bvars, ncq, shared, pvars, lists, cmdlist, msi, tocancel>>
handle_port_thr(t) ==
    /\ ahci_mtx = t /\ Issuable = {} /\ ahci_mtx' = Nobody /\ thr' = Called(t)
    /\ UNCHANGED <<pendq, bc_mtx, bc_closing, ncq, shared, pvars, lists, cmdlist, msi, drv, tocancel>>

-----------------------------------------------------------------------------
(* The registers, as the driver writes them (external).                    *)
Enter == ahci_mtx = Nobody /\ ahci_mtx' = "vcpu"
(* AHCI_P_SCTL with a COMRESET: ahci_port_reset.                           *)
ahci_port_reset ==
    /\ drv.at = "off" /\ ahci_mtx = Nobody /\ bsy /\ bsy' = FALSE /\ sact' = {}
    /\ UNCHANGED <<bvars, ncq, shared, st, cr, ci, pending, waitforclear, pis, his, lists, cmdlist, ahci_mtx, msi, drv, tocancel>>
(* AHCI_P_IS, AHCI_IS, AHCI_P_IE, and AHCI_P_CMD with ST, and with CLO for *)
(* a device that was left busy.                                            *)
start_port ==
    /\ drv.at = "off" /\ Enter /\ st' = TRUE /\ cr' = TRUE /\ drv' = Toward("port", {})
    /\ bsy' = FALSE /\ pis' = {} /\ his' = FALSE /\ msi' = FALSE
    /\ UNCHANGED <<bvars, ncq, shared, ci, sact, pending, waitforclear, lists, cmdlist, tocancel>>
(* AHCI_P_SACT and AHCI_P_CI: a command in a free slot.                    *)
issue ==
    /\ drv.at = "idle" /\ Enter
    /\ \E s \in Slots \ drv.slots, c \in Commands :
         /\ cmdlist' = [cmdlist EXCEPT ![s] = c] /\ drv' = Toward("port", drv.slots \union {s})
         /\ ci' = ci \union {s} /\ sact' = IF ncq THEN sact \union {s} ELSE sact
    /\ UNCHANGED <<bvars, ncq, shared, st, cr, pending, waitforclear, bsy, pis, his, lists, msi, tocancel>>
(* The interrupt handler of the driver: it clears AHCI_P_IS as it was      *)
(* read, looks which commands are done, and clears AHCI_IS of a shared     *)
(* interrupt; ahci_generate_intr finds what came in between.               *)
ahci_isr ==
    /\ drv.at = "idle" /\ msi /\ ahci_mtx = Nobody /\ msi' = FALSE /\ pis' = {}
    /\ drv' = [drv EXCEPT !.at = IF "TFE" \in pis THEN "stop" ELSE "look"]
    /\ UNCHANGED <<bvars, ncq, shared, st, cr, ci, sact, pending, waitforclear, bsy, his, lists, cmdlist, ahci_mtx, tocancel>>
look ==
    /\ drv.at = "look" /\ ahci_mtx = Nobody
    /\ drv' = Toward(IF shared THEN "ack" ELSE "idle", drv.slots \intersect (ci \union sact))
    /\ cmdlist' = [s \in Slots |-> IF s \in drv'.slots THEN cmdlist[s] ELSE NoCommand]
    /\ UNCHANGED <<bvars, ncq, shared, pvars, lists, ahci_mtx, msi, tocancel>>
(* Mutant: the write of AHCI_IS only clears. *)
ahci_generate_intrNever ==
    /\ drv.at = "ack" /\ ahci_mtx = Nobody /\ drv' = [drv EXCEPT !.at = "idle"] /\ his' = FALSE
    /\ UNCHANGED <<bvars, ncq, shared, st, cr, ci, sact, pending, waitforclear, bsy, pis, lists, cmdlist, ahci_mtx, msi, tocancel>>
ahci_generate_intr ==
    /\ drv.at = "ack" /\ ahci_mtx = Nobody /\ drv' = [drv EXCEPT !.at = "idle"]
    /\ his' = (pis # {}) /\ msi' = (msi \/ pis # {})
    /\ UNCHANGED <<bvars, ncq, shared, st, cr, ci, sact, pending, waitforclear, bsy, pis, lists, cmdlist, ahci_mtx, tocancel>>
(* It may also give up waiting.                                            *)
time_out ==
    /\ drv.at = "idle" /\ drv.slots # {} /\ drv' = [drv EXCEPT !.at = "stop"]
    /\ UNCHANGED <<bvars, ncq, shared, pvars, lists, cmdlist, ahci_mtx, msi, tocancel>>

(* AHCI_P_CMD without ST: ahci_port_stop goes through the busy requests.   *)
ahci_port_stop ==
    /\ drv.at = "stop" /\ Enter /\ st' = FALSE /\ tocancel' = iobhd /\ drv' = [drv EXCEPT !.at = "cancel"]
    /\ UNCHANGED <<bvars, ncq, shared, cr, ci, sact, pending, waitforclear, bsy, pis, his, lists, cmdlist, msi>>
Without(s, a) == SelectSeq(s, LAMBDA x : x # a)
cancel_succeeds ==
    /\ drv.at = "cancel" /\ tocancel # <<>> /\ tocancel' = Tail(tocancel)
    /\ LET s == Head(tocancel) IN
         /\ blockif_cancel_pending(s) /\ iobhd' = Without(iobhd, s) /\ more' = [more EXCEPT ![s] = FALSE]
         /\ pending' = pending \ {s}
         /\ IF ncq THEN sact' = sact \ {s} /\ UNCHANGED ci ELSE ci' = ci \ {s} /\ UNCHANGED sact
    /\ UNCHANGED <<ncq, shared, st, cr, waitforclear, bsy, pis, his, cmdlist, ahci_mtx, msi, drv>>
cancel_waits ==
    /\ drv.at = "cancel" /\ tocancel # <<>> /\ blockif_cancel_busy(Head(tocancel))
    /\ drv' = [drv EXCEPT !.at = "interrupt"]
    /\ UNCHANGED <<ncq, shared, pvars, lists, cmdlist, ahci_mtx, msi, tocancel>>
cancel_ebusy ==
    /\ drv.at = "interrupt" /\ blockif_cancel_interrupted(Head(tocancel))
    /\ drv' = [drv EXCEPT !.at = "cancel"] /\ tocancel' = Tail(tocancel)
    /\ UNCHANGED <<ncq, shared, pvars, lists, cmdlist, ahci_mtx, msi>>
port_stop_returns ==
    /\ drv.at = "cancel" /\ tocancel = <<>> /\ st' = st
    /\ ahci_check_stopped(pending, ci, sact, waitforclear)
    /\ ahci_mtx' = Nobody /\ drv' = [drv EXCEPT !.at = "halting"]
    /\ UNCHANGED <<bvars, ncq, shared, bsy, pis, his, lists, cmdlist, msi, tocancel>>
(* The driver waits for CR to clear, and then its commands are gone.       *)
halted ==
    /\ drv.at = "halting" /\ ~cr /\ ahci_mtx = Nobody /\ drv' = Toward("off", {})
    /\ msi' = FALSE /\ pis' = {} /\ cmdlist' = [s \in Slots |-> NoCommand]
    /\ UNCHANGED <<bvars, ncq, shared, st, cr, ci, sact, pending, waitforclear, bsy, his, lists, ahci_mtx, tocancel>>
(* AHCI_GHC_HR: ahci_reset, with ahci_port_reset.                          *)
ahci_reset ==
    /\ drv.at \in {"idle", "off"} /\ ahci_mtx = Nobody /\ (HastyReset \/ drv.slots = {})
    /\ st' = FALSE /\ cr' = FALSE /\ bsy' = FALSE /\ pis' = {} /\ his' = FALSE /\ sact' = {}
    /\ msi' = FALSE /\ drv' = Toward("off", {})
    /\ cmdlist' = [s \in Slots |-> NoCommand]
    /\ UNCHANGED <<bvars, ncq, shared, ci, pending, waitforclear, lists, ahci_mtx, tocancel>>

-----------------------------------------------------------------------------
(* ata_ioreq_cb: the next part of the command, or the end of it.           *)
cb_more(t) ==
    LET s == thr[t].be.req IN
    /\ thr[t].at = "callback" /\ ahci_mtx = Nobody /\ more[s]
    /\ ahci_handle_rw(s, TRUE, Without(iobhd, s), Called(t))
    /\ UNCHANGED <<ncq, shared, st, cr, ci, sact, waitforclear, bsy, pis, his, cmdlist, ahci_mtx, msi, drv, tocancel>>
(* ahci_write_fis_sdb, or ahci_write_fis_d2h, which ends BSY, clears the   *)
(* slot; after an error the port waits for a stop instead.                 *)
cb_done(t) ==
    LET s == thr[t].be.req
        irq == IF ncq THEN "SDB" ELSE "DHR" IN
    /\ thr[t].at = "callback" /\ ahci_mtx = Nobody /\ ahci_mtx' = t /\ st' = st
    /\ iobhd' = Without(iobhd, s) /\ more' = [more EXCEPT ![s] = FALSE]
    /\ \/ /\ ~more[s] /\ Fis({irq})
          /\ ahci_check_stopped(pending \ {s}, IF ncq THEN ci ELSE ci \ {s},
                                IF ncq THEN sact \ {s} ELSE sact, waitforclear)
       \/ Fis({irq, "TFE"}) /\ ahci_check_stopped(pending \ {s}, ci, sact, TRUE)
    /\ bsy' = (ncq /\ bsy)
    /\ UNCHANGED <<bvars, ncq, shared, cmdlist, drv, tocancel>>

-----------------------------------------------------------------------------
AhciDriver == \/ handle_port_vcpu \/ ahci_handle_slot \/ ahci_isr \/ look \/ ahci_generate_intr
              \/ ahci_port_stop \/ cancel_succeeds \/ cancel_waits \/ cancel_ebusy \/ port_stop_returns \/ halted
AhciChoices == ahci_port_reset \/ start_port \/ issue \/ time_out \/ ahci_reset
AhciThread(t) == \/ cb_more(t) \/ cb_done(t) \/ handle_port_thr(t)
                 \/ blockif_thr(t) /\ UNCHANGED avars
                 \/ blockif_proc(t) /\ UNCHANGED avars
AhciNext == AhciDriver \/ AhciChoices \/ \E t \in Thr : AhciThread(t)

(* The threads run, and those of the backend get the mutex that the guest  *)
(* takes again and again.                                                  *)
AhciFairness == /\ WF_ahcivars(AhciDriver)
                /\ \A t \in Thr : WF_ahcivars(AhciThread(t)) /\ SF_ahcivars(cb_more(t) \/ cb_done(t))
AhciSpec == AhciInit /\ [][AhciNext]_ahcivars /\ AhciFairness

-----------------------------------------------------------------------------
(* The requests with the backend are those of the busy list, one for each  *)
(* slot in flight; a command that the driver takes for done is not in      *)
(* flight; a port that has stopped (CR is clear) has nothing in flight     *)
(* that could still write to the memory of the guest; and the driver does  *)
(* not wait over a reason in is without an interrupt on the way, though    *)
(* ahci_port_intr sends none while the controller has the port in its is.  *)
AhciInv ==
    LET busy == {iobhd[i] : i \in 1 .. Len(iobhd)} IN
    /\ BlockIfInv /\ ci \subseteq Slots /\ sact \subseteq Slots
    /\ busy = {e.req : e \in Pending} \union
               {thr[t].be.req : t \in {x \in Thr : thr[x].at \in {"io", "callback"} /\ ahci_mtx # x}}
    /\ pending = busy /\ Cardinality(pending) = Len(iobhd)
    /\ drv.slots \intersect pending \subseteq ci \union sact
    /\ ~cr => pending = {}
    /\ drv.at = "idle" /\ pis # {} => msi

(* What the driver waits for: its commands.                                *)
AhciWaits(s) == s \in drv.slots
=============================================================================
