------------------------------ MODULE Schedule ------------------------------
(***************************************************************************)
(* What the scheduling framework promises whatever the policy: schedule.c  *)
(* over an abstract scheduler that keeps a set of ready threads per pCPU   *)
(* and may pick any of them.  SchedNoop, SchedIorr and SchedBvt are shown  *)
(* to implement it.                                                        *)
(***************************************************************************)
EXTENDS SchedThread

VARIABLE runqueue   \* the threads the policy has queued on each pCPU

vars == <<thread_vars, runqueue>>

Init ==
    /\ ThreadInit
    /\ runqueue = [p \in Pcpu |-> {}]

(* pick_next: some queued thread, or the idle thread when none is queued. *)
PickNext(p) == IF runqueue[p] = {} THEN {idle[p]} ELSE runqueue[p]

(* Mutant: the outgoing thread is queued again even if it is the idle one. *)
scheduleRequeuesPrev(p) ==
    /\ curr_obj[p] # NULL
    /\ need_reschedule[p]
    /\ \E next \in PickNext(p) : SwitchTo(p, next)
    /\ runqueue' = [runqueue EXCEPT ![p] = @ \cup {curr_obj[p]}]

(* schedule() on pCPU p.  Its callers are the vcpu_thread and default_idle
   loops and the polling loop, which test need_reschedule first, and
   wait_event, which has just set it through sleep_thread. *)
schedule(p) ==
    /\ curr_obj[p] # NULL
    /\ need_reschedule[p]
    /\ \E next \in PickNext(p) : SwitchTo(p, next)
    /\ UNCHANGED runqueue

sleep_thread(t) ==
    /\ runqueue' = [runqueue EXCEPT ![pcpu_id[t]] = @ \ {t}]
    /\ SleepStatus(t)

wake_thread(t) ==
    /\ WakeStatus(t)
    /\ runqueue' = [runqueue EXCEPT ![pcpu_id[t]] = @ \cup {t}]

(* A policy's tick handler or a yield: at most a reschedule request. *)
request(p) == yield_current(p) /\ UNCHANGED runqueue

boot(p) == run_thread(p) /\ UNCHANGED runqueue

Next ==
    \/ \E p \in Pcpu : boot(p) \/ schedule(p) \/ request(p)
    \/ \E t \in VcpuThread : sleep_thread(t) \/ wake_thread(t)

(* A pCPU whose flag is set reaches its next schedule(): the request comes
   with an IPI or NMI, or from an interrupt on the pCPU itself, and each of
   them takes the pCPU out of the guest and round its thread loop. *)
Fairness == \A p \in Pcpu : WF_vars(boot(p)) /\ WF_vars(schedule(p))

Spec == Init /\ [][Next]_vars

FairSpec == Spec /\ Fairness

-----------------------------------------------------------------------------
(* Types; a run queue (sched_control's policy data) holds vCPU threads and never
   the idle thread, which the policies do not queue. *)
TypeOK ==
    /\ ThreadTypeOK
    /\ runqueue \in [Pcpu -> SUBSET VcpuThread]

(* schedule() hands each pCPU to one thread at a time: the RUNNING thread of
   a pCPU is its curr_obj, and no other thread of that pCPU is RUNNING. *)
OneRunner ==
    \A t \in Thread : is_running(t) <=> curr_obj[pcpu_id[t]] = t

(* A vCPU thread is in its pCPU's run queue exactly when it may be picked:
   it is RUNNABLE, or RUNNING and not on its way to BLOCKED.  Otherwise
   schedule() either loses a ready thread or runs a sleeping one. *)
QueueMatchesStatus ==
    \A t \in VcpuThread :
        t \in runqueue[pcpu_id[t]] <=>
            \/ status[t] = "RUNNABLE"
            \/ is_running(t) /\ ~be_blocking[t]

(* A vCPU thread sleep_thread found RUNNING is still on its pCPU with a
   reschedule request pending: the request cannot be consumed without the
   thread leaving, which sleep_thread_sync spins for. *)
BlockingIsPending ==
    \A t \in Thread :
        be_blocking[t] => /\ t \in VcpuThread
                          /\ is_running(t)
                          /\ need_reschedule[pcpu_id[t]]

(* A pCPU does not idle over a ready thread without a reschedule request
   pending (work conservation of wake_thread against schedule). *)
NoIdleOverReady ==
    \A p \in Pcpu :
        /\ runqueue[p] # {}
        /\ curr_obj[p] \in {idle[p], NULL}
        => need_reschedule[p]

(* No thread is queued or current on a pCPU other than its own: threads do
   not migrate.  Together with the invariants above it is inductive. *)
Affinity ==
    \A p \in Pcpu :
        /\ \A t \in runqueue[p] : pcpu_id[t] = p
        /\ curr_obj[p] # NULL => pcpu_id[curr_obj[p]] = p

SchedInv ==
    /\ TypeOK
    /\ OneRunner
    /\ QueueMatchesStatus
    /\ BlockingIsPending
    /\ NoIdleOverReady
    /\ Affinity
=============================================================================
