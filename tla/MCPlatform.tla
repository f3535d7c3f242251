---------------------------- MODULE MCPlatform ----------------------------
(***************************************************************************)
(* Four parts of the system that do not meet, each for itself: a behaviour *)
(* is one of the timers of a pCPU, of the passthrough devices of three     *)
(* VMs, of the I/O handlers of a VM, or of the hypervisor's log (part);    *)
(* what belongs to the others stays as it is at first.                     *)
(***************************************************************************)
EXTENDS Timer, Vpci, IoHandlers, Hvlog

CONSTANTS vm1, vm2, vm3, d1, d2, d3, c1, c2
VARIABLES
    part,
    watched    \* a device: the progress of any of them is followed

(* Three post-launched VMs; vm1 shares a device with each of the others    *)
(* and is the one that is reset; vm2 is real-time.                         *)
MCVMs == {vm1, vm2, vm3}
MCPassthru == [v \in MCVMs |-> CASE v = vm1 -> <<d1, d2>>
                               [] v = vm2 -> <<d3, d2>>
                               [] OTHER   -> <<d1>>]

(* The port ranges of the two PCI configuration registers.                 *)
MCPioRanges == <<[start |-> 0, end |-> 4], [start |-> 4, end |-> 8]>>

(* A message that fills its one element, and one of two elements.          *)
MCShapes == {[n |-> 1, full |-> TRUE], [n |-> 2, full |-> FALSE]}

all == <<part, watched, timer_vars, vpci_vars, iovars, logvars>>

PlatformInit ==
    /\ TimerInit /\ VpciInit /\ IoInit /\ LogInit
    /\ part \in {"timer", "vpci", "io", "log"}
    /\ watched \in IF part = "vpci" THEN Devices ELSE {d1}
AsTimer(A) == part = "timer" /\ A /\ UNCHANGED <<part, watched, vpci_vars, iovars, logvars>>
AsVpci(A) == part = "vpci" /\ A /\ UNCHANGED <<part, watched, timer_vars, iovars, logvars>>
AsIo(A) == part = "io" /\ A /\ UNCHANGED <<part, watched, timer_vars, vpci_vars, logvars>>
AsLog(A) == part = "log" /\ A /\ UNCHANGED <<part, watched, timer_vars, vpci_vars, iovars>>
PlatformNext == AsTimer(TimerNext) \/ AsVpci(VpciNext) \/ AsIo(IoNext) \/ AsLog(LogNext)

(* The fairness of the four specifications.  A behaviour is of one part    *)
(* only, so that a conjunct may have an action of each.                    *)
PlatformFairness ==
    /\ WF_all(AsTimer(tick) \/ AsVpci(DmStep(vm1)) \/ AsLog(Writer(0)))
    /\ WF_all(AsTimer(tsc_deadline_interrupt) \/ AsVpci(DmStep(vm2)) \/ AsLog(Writer(1)))
    /\ WF_all(AsTimer(Softirq) \/ AsVpci(DmStep(vm3)) \/ AsLog(Acrnlog))
    /\ SF_all(AsIo(Step(c1))) /\ SF_all(AsIo(Step(c2)))
PlatformSpec == PlatformInit /\ [][PlatformNext]_all /\ PlatformFairness

-----------------------------------------------------------------------------
(* What was begun comes to its end.  The timers whose deadlines come are   *)
(* run, also those that a pass of timer_softirq leaves over or that are    *)
(* added while the softirq is pending; a device that is with no VM, any of *)
(* them, gets back to one; an access gets through its handler (of c1, and  *)
(* so of c2, which differs in nothing); the messages whose headers were    *)
(* accepted are written.                                                   *)
Waits == CASE part = "timer" -> \E t \in Timers : TimerWaits(t)
           [] part = "vpci" -> DeviceWaits(watched)
           [] part = "io" -> AccessWaits(c1)
           [] part = "log" -> \E s \in heads : LogWaits(s)
Progress == []<>~Waits
===========================================================================
