----------------------------- MODULE SchedNoop ------------------------------
(***************************************************************************)
(* schedule.c with the no-operation policy of sched_noop.c: one slot per   *)
(* pCPU, for the single vCPU thread the pCPU is partitioned to.            *)
(***************************************************************************)
EXTENDS SchedThread

(* The 1:1 mapping the policy is configured for. *)
OneToOne ==
    \A t, u \in VcpuThread : pcpu_id[t] = pcpu_id[u] => t = u

VARIABLE noop_thread_obj    \* sched_noop_control.noop_thread_obj

vars == <<thread_vars, noop_thread_obj>>

Init ==
    /\ ThreadInit
    /\ noop_thread_obj = [p \in Pcpu |-> NULL]

pick_next(p) ==
    IF noop_thread_obj[p] # NULL THEN noop_thread_obj[p] ELSE idle[p]

schedule(p) ==
    /\ curr_obj[p] # NULL
    /\ need_reschedule[p]
    /\ SwitchTo(p, pick_next(p))
    /\ UNCHANGED noop_thread_obj

sleep_thread(t) ==
    /\ IF noop_thread_obj[pcpu_id[t]] = t
       THEN noop_thread_obj' = [noop_thread_obj EXCEPT ![pcpu_id[t]] = NULL]
       ELSE UNCHANGED noop_thread_obj
    /\ SleepStatus(t)

wake_thread(t) ==
    /\ WakeStatus(t)
    /\ IF noop_thread_obj[pcpu_id[t]] = NULL
       THEN noop_thread_obj' = [noop_thread_obj EXCEPT ![pcpu_id[t]] = t]
       ELSE UNCHANGED noop_thread_obj

yield(p) == yield_current(p) /\ UNCHANGED noop_thread_obj

boot(p) == run_thread(p) /\ UNCHANGED noop_thread_obj

Next ==
    \/ \E p \in Pcpu : boot(p) \/ schedule(p) \/ yield(p)
    \/ \E t \in VcpuThread : sleep_thread(t) \/ wake_thread(t)

(* See Schedule. *)
Fairness == \A p \in Pcpu : WF_vars(boot(p)) /\ WF_vars(schedule(p))

Spec == Init /\ [][Next]_vars /\ Fairness

-----------------------------------------------------------------------------
(* The slot is a run queue of at most one thread: the policy implements the
   abstract scheduler, its fairness included. *)
Abstract == INSTANCE Schedule
                WITH runqueue <- [p \in Pcpu |-> {noop_thread_obj[p]} \ {NULL}]

(* SchedNoop has one slot in place of a queue: each of its steps, pick_next,
   sleep and wake included, is a step of Schedule, with the fairness of the
   abstract scheduler. *)
ImplementsSchedule == Abstract!FairSpec
=============================================================================
