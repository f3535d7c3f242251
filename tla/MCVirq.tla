------------------------------- MODULE MCVirq -------------------------------
(***************************************************************************)
(* Interrupts in the hypervisor, each for itself: the events injected into *)
(* one vCPU (Virq), or the numbers, vectors and handlers of the physical   *)
(* interrupts (Irq).  A behaviour is one of one of them (part), and what   *)
(* belongs to the other stays as it is at first.                           *)
(***************************************************************************)
EXTENDS Virq, Irq

VARIABLE part

(* Vectors 48 and 49 share a priority class, 64 is above them.  Every      *)
(* source of requests, and no VM exit that interrupts a delivery ...       *)
Requests ==
    [vectors |-> {48, 49, 64}, tprs |-> {},
     Sources |-> {"EVENT", "EXTINT", "NMI", "FLUSH"}, Faults |-> {},
     Vectoring |-> FALSE, Resets |-> FALSE]
(* ... interrupted deliveries under a guest that writes its TPR ...        *)
Vectorings ==
    [vectors |-> {48, 64}, tprs |-> {0, 48, 64}, Sources |-> {"EVENT"},
     Faults |-> {}, Vectoring |-> TRUE, Resets |-> TRUE]
(* ... and exceptions on top of them.                                      *)
Exceptions ==
    [vectors |-> {48}, tprs |-> {}, Sources |-> {"EVENT", "EXTINT", "NMI"},
     Faults |-> {"GP", "PF", "UD"}, Vectoring |-> TRUE, Resets |-> FALSE]
MCWorkloads == {Requests, Vectorings, Exceptions}

(* Number 0 is a static one, 1 a legacy pin with its vector, 2 a pin.      *)
MCStatic == [i \in {0, 1} |-> 90 + i]
MCpin == [d \in Devices |-> CASE d = "legacy" -> 1 [] d = "intx" -> 2 [] OTHER -> INVALID]

all == <<part, virq_vars, irqvars>>

InjectionInit ==
    /\ VirqInit /\ IrqInit
    /\ \/ part = "virq" /\ races = {}
       \/ part = "irq" /\ workload = Requests
AsVirq(A) == part = "virq" /\ A /\ UNCHANGED <<part, irqvars>>
AsIrq(A) == part = "irq" /\ A /\ UNCHANGED <<part, virq_vars>>
InjectionNext ==
    \/ AsVirq(VirqNext) \/ AsIrq(IrqNext)
    \/ AsIrq((\A t \in Threads : thread[t] = None) /\ UNCHANGED irqvars)  \* no device asks
InjectionSpec == InjectionInit /\ [][InjectionNext]_all
=============================================================================
