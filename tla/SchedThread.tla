----------------------------- MODULE SchedThread -----------------------------
(***************************************************************************)
(* The thread objects and per-pCPU control blocks of the scheduling        *)
(* framework (hypervisor/common/schedule.c), without the run queue, which  *)
(* belongs to the scheduler policy.  Everything below runs under the       *)
(* pCPU's scheduler_lock, so each operator is one step of a policy action. *)
(***************************************************************************)

CONSTANTS
    Pcpu,       \* the physical CPUs
    Thread,     \* every thread object: the vCPU threads and the idle threads
    pcpu_id,    \* thread_object.pcpu_id: a thread never migrates
    idle,       \* per_cpu(idle): the idle thread of each pCPU
    NULL        \* no thread object

ASSUME ThreadAssumption ==
    /\ pcpu_id \in [Thread -> Pcpu]
    /\ idle \in [Pcpu -> Thread]
    /\ \A p \in Pcpu : pcpu_id[idle[p]] = p
    /\ NULL \notin Thread

VARIABLES
    status,             \* thread_object.status
    be_blocking,        \* thread_object.be_blocking: switch out to BLOCKED
    need_reschedule,    \* the NEED_RESCHEDULE bit of sched_control.flags
    curr_obj            \* sched_control.curr_obj

thread_vars == <<status, be_blocking, need_reschedule, curr_obj>>

is_idle_thread(t) == t = idle[pcpu_id[t]]

VcpuThread == {t \in Thread : ~is_idle_thread(t)}

is_blocked(t) == status[t] = "BLOCKED"

is_running(t) == status[t] = "RUNNING"

(* Types of the thread objects and control blocks. *)
ThreadTypeOK ==
    /\ status \in [Thread -> {"RUNNING", "RUNNABLE", "BLOCKED"}]
    /\ be_blocking \in [Thread -> BOOLEAN]
    /\ need_reschedule \in [Pcpu -> BOOLEAN]
    /\ curr_obj \in [Pcpu -> Thread \cup {NULL}]

(* init_sched for every pCPU and init_thread_data for every thread. *)
ThreadInit ==
    /\ status = [t \in Thread |-> "BLOCKED"]
    /\ be_blocking = [t \in Thread |-> FALSE]
    /\ need_reschedule = [p \in Pcpu |-> FALSE]
    /\ curr_obj = [p \in Pcpu |-> NULL]

(* The IPI or NMI that follows the flag only shortens the time to the next
   look at it, so the flag is the whole effect. *)
make_reschedule_request(p) ==
    need_reschedule' = [need_reschedule EXCEPT ![p] = TRUE]

(* run_idle_thread on pCPU p, once, at the end of its boot. *)
run_thread(p) ==
    /\ curr_obj[p] = NULL
    /\ curr_obj' = [curr_obj EXCEPT ![p] = idle[p]]
    /\ status' = [status EXCEPT ![idle[p]] = "RUNNING"]
    /\ UNCHANGED <<be_blocking, need_reschedule>>

(* The part of schedule() after pick_next has returned `next`. *)
SwitchTo(p, next) ==
    LET prev == curr_obj[p] IN
    /\ need_reschedule' = [need_reschedule EXCEPT ![p] = FALSE]
    /\ curr_obj' = [curr_obj EXCEPT ![p] = next]
    /\ IF prev = next
       THEN UNCHANGED <<status, be_blocking>>
       ELSE /\ status' = [status EXCEPT
                            ![prev] = IF be_blocking[prev] THEN "BLOCKED"
                                                           ELSE "RUNNABLE",
                            ![next] = "RUNNING"]
            /\ be_blocking' = [be_blocking EXCEPT ![prev] = FALSE]

(* The part of sleep_thread(t) after the policy's sleep callback. *)
SleepStatus(t) ==
    /\ IF is_running(t)
       THEN /\ make_reschedule_request(pcpu_id[t])
            /\ be_blocking' = [be_blocking EXCEPT ![t] = TRUE]
            /\ UNCHANGED status
       ELSE /\ status' = [status EXCEPT ![t] = "BLOCKED"]
            /\ UNCHANGED <<be_blocking, need_reschedule>>
    /\ UNCHANGED curr_obj

(* wake_thread(t) around the policy's wake callback: nothing at all happens
   unless the thread is already BLOCKED. *)
WakeStatus(t) ==
    /\ is_blocked(t)
    /\ status' = [status EXCEPT ![t] = "RUNNABLE"]
    /\ make_reschedule_request(pcpu_id[t])
    /\ UNCHANGED <<be_blocking, curr_obj>>

yield_current(p) ==
    /\ curr_obj[p] # NULL
    /\ make_reschedule_request(p)
    /\ UNCHANGED <<status, be_blocking, curr_obj>>
=============================================================================
