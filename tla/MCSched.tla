------------------------------ MODULE MCSched -------------------------------
(***************************************************************************)
(* What pCPUs do.  Three policies of their schedulers, each for itself     *)
(* (policy): round robin on a pCPU shared by three vCPU threads with       *)
(* slices of two time units; borrowed virtual time for the same threads on *)
(* a clock of two units per MCU; and no operation on three pCPUs with one  *)
(* vCPU thread each.  The thread objects and the run queue are those of    *)
(* whichever of the first two it is.  Under "none" nothing is scheduled:   *)
(* pCPUs call each other and go down and come back (Pcpu).                 *)
(***************************************************************************)
EXTENDS SchedIorr, Pcpu

CONSTANTS mcu, BVT_CSA_MCU, UINT64_MAX, MaxVt
VARIABLES policy, avt, residual, run_countdown, bvt_ran, phase,
          noop_status, noop_blocking, noop_need, noop_curr, noop_thread_obj

MCPcpu == {"pcpu0"}

MCThread == {"idle0", "vcpu0", "vcpu1", "vcpu2"}

MCpcpu_id == [t \in MCThread |-> "pcpu0"]

MCidle == [p \in MCPcpu |-> "idle0"]

NoopPcpu == {"pcpu0", "pcpu1", "pcpu2"}

NoopIdle == [p \in NoopPcpu |->
                CASE p = "pcpu0" -> "idle0" [] p = "pcpu1" -> "idle1" [] OTHER -> "idle2"]

NoopThread == {"idle0", "idle1", "idle2", "vcpu0", "vcpu1", "vcpu2"}

Noop_pcpu_id == [t \in NoopThread |->
                CASE t \in {"idle0", "vcpu0"} -> "pcpu0"
                  [] t \in {"idle1", "vcpu1"} -> "pcpu1"
                  [] OTHER -> "pcpu2"]

Bvt == INSTANCE SchedBvt WITH ran <- bvt_ran
Noop == INSTANCE SchedNoop
            WITH Pcpu <- NoopPcpu, Thread <- NoopThread, pcpu_id <- Noop_pcpu_id,
                 idle <- NoopIdle, status <- noop_status, be_blocking <- noop_blocking,
                 need_reschedule <- noop_need, curr_obj <- noop_curr

ASSUME NoopAssumption == Noop!OneToOne
ASSUME BvtAssumption ==
    /\ mcu \in Nat \ {0}
    /\ BVT_CSA_MCU \in Nat \ {0}
    /\ UINT64_MAX \in Nat \ {0}
    /\ MaxVt \in Nat

bvt_vars == <<avt, residual, run_countdown, bvt_ran, phase>>

noop_vars == <<noop_status, noop_blocking, noop_need, noop_curr, noop_thread_obj>>

policy_vars == <<policy, vars, bvt_vars, noop_vars, pcpuvars>>

NoVirtualTime ==
    /\ avt = NULL /\ residual = NULL /\ run_countdown = NULL /\ bvt_ran = NULL /\ phase = NULL

PolicyInit ==
    /\ \/ policy \in {"iorr", "noop", "none"} /\ Init /\ NoVirtualTime
       \/ policy = "bvt" /\ Bvt!Init /\ left_cycles = NULL
    /\ Noop!Init /\ PcpuInit

AsIorr(A) == policy = "iorr" /\ A /\ UNCHANGED <<policy, bvt_vars, noop_vars, pcpuvars>>

AsBvt(A) == policy = "bvt" /\ A /\ UNCHANGED <<policy, left_cycles, noop_vars, pcpuvars>>

AsNoop(A) == policy = "noop" /\ A /\ UNCHANGED <<policy, vars, bvt_vars, pcpuvars>>

AsPcpu(A) == policy = "none" /\ A /\ UNCHANGED <<policy, vars, bvt_vars, noop_vars>>

PolicyNext == AsIorr(Next) \/ AsBvt(Bvt!Next) \/ AsNoop(Noop!Next) \/ AsPcpu(PcpuNext)

(* The fairness of the specifications; a behaviour is of one policy only,  *)
(* so that a conjunct may have an action of each.                          *)
AP1 == CHOOSE p \in P \ (LapicPt \union {BSP}) : TRUE
AP2 == CHOOSE p \in P \ {BSP, AP1} : TRUE
PolicyFairness ==
    /\ WF_policy_vars(AsIorr(boot("pcpu0")) \/ AsPcpu(Call(BSP)))
    /\ WF_policy_vars(AsIorr(schedule("pcpu0")) \/ AsPcpu(Call(AP1)))
    /\ WF_policy_vars(\/ AsIorr(\E elapsed \in 1..MaxElapsed : sched_tick_handler("pcpu0", elapsed))
                      \/ AsPcpu(Call(AP2)))
    /\ WF_policy_vars(AsNoop(Noop!boot("pcpu0")) \/ AsPcpu(Notified(BSP)))
    /\ WF_policy_vars(AsNoop(Noop!boot("pcpu1")) \/ AsPcpu(Notified(AP1)))
    /\ WF_policy_vars(AsNoop(Noop!boot("pcpu2")) \/ AsPcpu(Notified(AP2)))
    /\ WF_policy_vars(AsNoop(Noop!schedule("pcpu0")) \/ AsPcpu(Boot(AP1)))
    /\ WF_policy_vars(AsNoop(Noop!schedule("pcpu1")) \/ AsPcpu(Boot(AP2)))
    /\ WF_policy_vars(AsNoop(Noop!schedule("pcpu2")) \/ AsPcpu(SuspendGoesOn))
PolicySpec == PolicyInit /\ [][PolicyNext]_policy_vars /\ PolicyFairness

-----------------------------------------------------------------------------
(* The run queues of sched_iorr.c and sched_bvt.c hold a thread once, the
   latter in the order of virtual time that pick_next and get_svt rely on. *)
PolicyInv ==
    /\ policy = "iorr" => IorrInv
    /\ policy = "bvt" => Bvt!BvtInv

(* A thread whose time is up has a reschedule request pending: one that has
   used up its slice (sched_iorr.c), one that is ahead of a ready thread by more
   than the allowance (sched_bvt.c), also when schedule() comes late. *)
PreemptsInTime ==
    /\ policy = "iorr" => ExhaustedIsPreempted
    /\ policy = "bvt" => Bvt!AheadIsPreempted

(* Each step of a policy, pick_next, sleep and wake included, is a step of
   Schedule, whatever the order in which the policy keeps its queue and with
   the one slot of sched_noop.c in place of a queue; and round robin and no
   operation have the fairness of the abstract scheduler. *)
PoliciesImplementSchedule ==
    /\ Abstract!Spec /\ (policy = "iorr" => Abstract!Fairness)
    /\ Noop!Abstract!Spec /\ (policy = "noop" => Noop!Abstract!Fairness)

(* A RUNNABLE thread does not stay so: under round robin once wake-ups stop,
   since a woken thread goes to the head of the queue (sched_iorr_wake), and
   under no operation always.  smp_call_function returns, and so do the suspend
   of the host and the restart of the pCPUs of a VM. *)
Ready(t) == \/ policy = "iorr" /\ status[t] = "RUNNABLE"
            \/ policy = "noop" /\ noop_status[t] = "RUNNABLE"
WakeupsStop == <>[][\A t \in VcpuThread : ~AsIorr(wake_thread(t))]_policy_vars
NoStarvation ==
    /\ WakeupsStop => \A t \in VcpuThread : []<>~Ready(t)
    /\ CallsReturn
=============================================================================
