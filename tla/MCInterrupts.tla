--------------------------- MODULE MCInterrupts ---------------------------
(***************************************************************************)
(* Two ways of an interrupt into a guest, each for itself: a behaviour is  *)
(* one of the virtual PIC or of the legacy interrupt of a passthrough      *)
(* device (part), and what belongs to the other stays as it is at first.   *)
(***************************************************************************)
EXTENDS Vpic, PtIntx

VARIABLE part

MCEmulated == {<<"M", 0>>, <<"M", 1>>}
MCPassthru == {<<"S", 0>>}
MCLevel == {<<"M", 1>>, <<"S", 0>>}

all == <<part, picvars, ptintx_vars>>

InterruptsInit ==
    \/ part = "vpic" /\ VpicInit /\ PtIntxInit /\ entry = NULL
    \/ part = "ptintx" /\ PtIntxInit /\ VpicInit /\ use = {"mask"}
AsVpic(A) == part = "vpic" /\ A /\ UNCHANGED <<part, ptintx_vars>>
AsPtIntx(A) == part = "ptintx" /\ A /\ UNCHANGED <<part, picvars>>
InterruptsNext == AsVpic(VpicNext) \/ AsPtIntx(PtIntxNext)

(* The fairness of the two specifications.  A behaviour is of one part     *)
(* only, so that a conjunct may have an action of each.                    *)
InterruptsFairness ==
    /\ WF_all(AsVpic(vcpu_do_pending_extint) \/ AsPtIntx(handle_irq))
    /\ WF_all(AsVpic(vpic_intr_accepted) \/ AsPtIntx(Delay))
    /\ WF_all(AsPtIntx(Softirq))
    /\ WF_all(AsPtIntx(Guest(SOS))) /\ WF_all(AsPtIntx(Guest(UOS)))
InterruptsSpec == InterruptsInit /\ [][InterruptsNext]_all /\ InterruptsFairness

-----------------------------------------------------------------------------
(* An interrupt gets to its guest.  A pin of the vPIC that can be          *)
(* delivered reaches the boot vCPU, though the controller interrupts only  *)
(* once until it is acknowledged.  A passthrough device that asserts its   *)
(* line interrupts the guest that owns it and has unmasked the pin,        *)
(* through the delay of the softirq, the EOI and the writes of the         *)
(* redirection entry.                                                      *)
ReachesGuest == PicServes /\ LevelReaches
===========================================================================
