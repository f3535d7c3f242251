---------------------------- MODULE MCResources ----------------------------
(***************************************************************************)
(* What a VM is given, each for itself: its memory (Ept), its serial line  *)
(* (Vuart), or the mediator of the I/O controller (Ioc).  A behaviour is   *)
(* one of one of them (part), and what belongs to the others stays as it   *)
(* is at first: the memory NONE, the rest as it begins.                    *)
(***************************************************************************)
EXTENDS Ept, Vuart, Ioc

VARIABLE part

(* Memory regions over four levels of two entries: the whole of it, one    *)
(* that is not aligned to a large page, two that change what is mapped,    *)
(* and requests that split a large page or remove a part of one.           *)
Add(v, z, p, r) == [pa |-> p, va |-> v, size |-> z, prot |-> r]
Change(v, z, s, c) == [va |-> v, size |-> z, set |-> s, clr |-> c]
Del(v, z) == [va |-> v, size |-> z]
MCAdds == {Add(0, 16, 0, RWX), Add(3, 9, 3, RWX), Add(0, 8, 8, {"R", "W"}), Add(4, 6, 5, RWX), Add(2, 2, 2, RWX)}
MCChanges == {Change(5, 1, {"X"}, {}), Change(5, 1, {}, {"W"}), Change(2, 10, {"U"}, {"B"}), Change(8, 4, {"U"}, {})}
MCDels == {Del(2, 1), Del(3, 9), Del(8, 4), Del(0, 16)}

(* What the two guests send, with what else happens.                       *)
Use(n, m, r) == [a |-> n, b |-> m, races |-> r]
MCUses == {Use(10, 1, {}), Use(10, 0, {"fcr"}), Use(1, 1, {"restart"}),
           Use(1, 0, {"fcr", "ier", "lsr", "overlap", "restart"}), Use(2, 0, {"console"})}

all == <<part, eptvars, vuartvars, iocvars>>

NoMemory ==
    /\ table = NONE /\ writes = NONE /\ old = NONE /\ new = NONE /\ caller = NONE
    /\ tlb = NONE /\ flush = NONE /\ started = NONE /\ calls = NONE
ResourcesInit ==
    /\ VuartInit /\ IocInit
    /\ \/ part = "ept" /\ EptInit /\ races = {}
       \/ part = "vuart" /\ NoMemory
       \/ part = "ioc" /\ NoMemory /\ races = {}
AsEpt(Action) == part = "ept" /\ Action /\ UNCHANGED <<part, vuartvars, iocvars>>
AsVuart(Action) == part = "vuart" /\ Action /\ UNCHANGED <<part, eptvars, iocvars>>
AsIoc(Action) == part = "ioc" /\ Action /\ UNCHANGED <<part, eptvars, vuartvars>>
ResourcesNext == AsEpt(EptNext) \/ AsVuart(VuartNext) \/ AsIoc(IocNext)

(* The fairness of Vuart and of Ioc; a behaviour is of one part only, so   *)
(* that a conjunct may have an action of each.                             *)
ResourcesFairness ==
    /\ WF_all(AsVuart(Guest(A)) \/ AsIoc(Events))
    /\ WF_all(AsVuart(Guest(B)) \/ AsIoc(ioc_build_request))
    /\ WF_all(AsVuart(Life(A)) \/ AsIoc(ioc_process_tx))
    /\ WF_all(AsVuart(Life(B)) \/ AsIoc(Rx))
    /\ WF_all(AsIoc(Tx)) /\ WF_all(AsIoc(heartbeat)) /\ WF_all(AsIoc(Stopping))
ResourcesSpec == ResourcesInit /\ [][ResourcesNext]_all /\ ResourcesFairness

-----------------------------------------------------------------------------
(* At every write of mmu_add and mmu_modify_or_del, a page is mapped as it *)
(* was before the call or as it is meant to be after it, and the TLB keeps *)
(* no mapping that is neither in the table nor to be flushed (see Ept).    *)
MemoryInv == part = "ept" => EptInv

(* A guest gets its characters off through a vuart whose target was full:  *)
(* notify_target tells it.  A guest that announces its shutdown to the IOC *)
(* mediator, or that the VM manager wants stopped or suspended, goes down, *)
(* and ioc_kill_workers returns.                                           *)
Served == SerialFlows /\ IocProgress
============================================================================
