----------------------------- MODULE MCSignals -----------------------------
(***************************************************************************)
(* Those that wait until another one signals, each for itself: vCPU        *)
(* threads that share a pCPU, the event loop of the device model (Mevent), *)
(* and the life managers of two VMs (LifeMngr).  A behaviour is one of one *)
(* of them (part), and what belongs to the others stays as it is at first. *)
(*                                                                         *)
(* The vCPU threads halt, the interrupts of the second one coming through  *)
(* vlapic_accept_intr ("hlt"), or they have two events each that anybody   *)
(* may use in any way ("any").                                             *)
(***************************************************************************)
EXTENDS VirtualIntr, Mevent, LifeMngr

CONSTANTS m1, m2

VARIABLE part

MCPcpu == {"pcpu0"}

MCThread == {"idle0", "vcpu0", "vcpu1"}

MCpcpu_id == [t \in MCThread |-> "pcpu0"]

MCidle == [p \in MCPcpu |-> "idle0"]

MCSenders == [t \in {"vcpu0", "vcpu1"} |->
                IF t = "vcpu1" THEN {"accept", "pi"} ELSE {"inject", "pi"}]

all == <<part, intr_everything, mevars, lifevars>>

Halting(A) == part = "hlt" /\ A /\ UNCHANGED <<part, mevars, lifevars>>

Anybody(A) == part = "any" /\ A /\ UNCHANGED <<part, intr_vars, mevars, lifevars>>

AsLoop(A) == part = "loop" /\ A /\ UNCHANGED <<part, intr_everything, lifevars>>

AsLife(A) == part = "life" /\ A /\ UNCHANGED <<part, intr_everything, mevars>>

SignalsInit ==
    /\ part \in {"hlt", "any", "loop", "life"}
    /\ IntrInit /\ MeventInit /\ S5Init
    /\ part # "loop" => races = {}
    /\ part # "life" => faults = {}

SignalsNext ==
    \/ Halting(IntrNext) \/ Anybody(EventNext)
    \/ AsLoop(MeventNext) \/ AsLife(S5Next)
    \/ AsLife(listener = "off" /\ UNCHANGED lifevars)  \* the User VM is powered off

(* The fairness of the specifications.  A behaviour is of one part only,   *)
(* so that a conjunct may have an action of each.                          *)
SignalsFairness ==
    /\ \A p \in Pcpu :
        /\ WF_all(\/ Anybody(pcpu_boot(p)) \/ Halting(pcpu_boot(p) /\ UNCHANGED intr_vars)
                  \/ AsLoop(Loop) \/ AsLife(Operator))
        /\ WF_all(\/ Anybody(switch(p)) \/ Halting(intr_switch(p))
                  \/ AsLoop(Caller) \/ AsLife(Listener))
    /\ \A t \in VcpuThread :
        /\ WF_all(Anybody(recheck_event(t)) \/ Halting(hlt_returns(t)))
        /\ WF_all(Halting(accept_request(t)))
    /\ WF_all(AsLife(Monitor)) /\ WF_all(AsLife(sos_socket_thread))
SignalsSpec == SignalsInit /\ [][SignalsNext]_all /\ SignalsFairness

-----------------------------------------------------------------------------
(* Nobody resets an event or puts a thread to sleep from outside any more. *)
OutsideStops ==
    <>[][\A t \in VcpuThread :
            ~zombie(t) /\ \A e \in EventId : ~reset(t, e)]_all

(* Signals that keep coming get a waiter out of wait_event, whatever spurious
   wake-ups happen meanwhile, under a policy that starves nobody.  (One signal
   need not: see the run lost_wakeup.) *)
RepeatedSignalsWake ==
    \A t \in VcpuThread, e \in EventId :
        (part = "any" /\ OutsideStops /\ PolicyIsFair /\ WF_all(Anybody(signal_event(t, e))))
            => []<>(waiting_thread[t][e] # t)

(* While interrupts keep being accepted (vlapic_accept_intr) the vCPU does not
   stay in HLT, under a policy that starves nobody: what one acceptance leaves
   asleep, a later one wakes. *)
KeepsWaking ==
    PolicyIsFair => \A t \in VcpuThread :
        []<><<Halting(accept_signal(t))>>_all => []<>(wait_pc[t] = "no")

(* An event of the device model that was deleted is torn down, and the     *)
(* event loop ends with its VM; a User VM that was told to power off does. *)
SignalsAnswered == TornDown /\ PowersOff
============================================================================
