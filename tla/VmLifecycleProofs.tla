--------------------------- MODULE VmLifecycleProofs -------------------------
(***************************************************************************)
(* The scheduling framework, events and the life of a VM, for any number   *)
(* of pCPUs, vCPU threads and events, any assignment of threads to pCPUs   *)
(* and any set of workloads.                                               *)
(*                                                                         *)
(* SchedInv is itself inductive: each lemma shows that one action          *)
(* preserves it, one step per conjunct. So is EventInv: the scheduler's    *)
(* invariant says that a thread told to sleep is still current with a      *)
(* reschedule request pending, which is what keeps a waiter inside         *)
(* wait_event until schedule() switches.                                   *)
(*                                                                         *)
(* For the life of a VM: who holds vm_lock and who is waited for, that a   *)
(* vCPU that holds the lock stays on its pCPU, and that every step but     *)
(* hcall_create_vm keeps the invariants of the scheduler and of the        *)
(* events; then where each vCPU may be in its life while its VM is paused, *)
(* reset or started.                                                       *)
(***************************************************************************)
EXTENDS VmLifecycle, TLAPS

USE ThreadAssumption

(* The framework starts with every thread BLOCKED and every queue empty. *)
LEMMA InitInv == Init => SchedInv
<1> SUFFICES ASSUME Init PROVE SchedInv
  OBVIOUS
<1> USE DEF Init, ThreadInit
<1>1. TypeOK
  BY Zenon DEF TypeOK, ThreadTypeOK
<1>2. OneRunner /\ BlockingIsPending /\ NoIdleOverReady /\ Affinity
  BY Zenon DEF OneRunner, BlockingIsPending, NoIdleOverReady, Affinity, is_running
<1>3. QueueMatchesStatus
  BY Zenon DEF QueueMatchesStatus, VcpuThread, is_running
<1> QED
  BY <1>1, <1>2, <1>3, Zenon DEF SchedInv

(* run_thread makes the idle thread of a pCPU that runs nothing RUNNING. *)
LEMMA BootInv ==
  ASSUME SchedInv, NEW p \in Pcpu, boot(p)
  PROVE  SchedInv'
<1> USE DEF SchedInv, TypeOK, ThreadTypeOK, boot, run_thread
<1>1. TypeOK'
  BY Zenon DEF VcpuThread
<1>2. OneRunner'
  BY DEF OneRunner, Affinity, is_running
<1>3. QueueMatchesStatus'
  BY DEF QueueMatchesStatus, VcpuThread, is_running, is_idle_thread
<1>4. BlockingIsPending'
  BY Zenon DEF BlockingIsPending, is_running
<1>5. NoIdleOverReady' /\ Affinity'
  BY Zenon DEF NoIdleOverReady, Affinity
<1> QED
  BY <1>1, <1>2, <1>3, <1>4, <1>5, Zenon

(* A tick or a yield only raises the NEED_RESCHEDULE flag. *)
LEMMA RequestInv ==
  ASSUME SchedInv, NEW p \in Pcpu, request(p)
  PROVE  SchedInv'
<1> USE DEF SchedInv, TypeOK, ThreadTypeOK, request, yield_current,
            make_reschedule_request
<1>1. TypeOK' /\ OneRunner' /\ Affinity'
  BY Zenon DEF OneRunner, Affinity, is_running
<1>2. QueueMatchesStatus'
  BY Zenon DEF QueueMatchesStatus, is_running
<1>3. BlockingIsPending' /\ NoIdleOverReady'
  BY Zenon DEF BlockingIsPending, NoIdleOverReady, is_running
<1> QED
  BY <1>1, <1>2, <1>3, Zenon

(* schedule() clears the flag, and with it every reason the flag was set. *)
LEMMA ScheduleInv ==
  ASSUME SchedInv, NEW p \in Pcpu, schedule(p)
  PROVE  SchedInv'
<1> USE DEF SchedInv, TypeOK, ThreadTypeOK
<1>1. PICK next \in PickNext(p) : SwitchTo(p, next)
  BY Zenon DEF schedule
<1> DEFINE prev == curr_obj[p]
<1>2. /\ prev \in Thread /\ pcpu_id[prev] = p
      /\ next \in Thread /\ pcpu_id[next] = p
      /\ runqueue' = runqueue
  BY <1>1 DEF schedule, PickNext, Affinity, VcpuThread
<1>3. next \in VcpuThread => next \in runqueue[p]
  BY <1>1, Zenon DEF PickNext, VcpuThread, is_idle_thread
<1>4. ~be_blocking[next]
  BY <1>1, <1>2, <1>3, Zenon
     DEF PickNext, QueueMatchesStatus, BlockingIsPending, OneRunner,
         VcpuThread, is_idle_thread, is_running
<1>5. TypeOK'
  BY <1>1, <1>2, Zenon DEF SwitchTo
<1>6. OneRunner' /\ Affinity'
  BY <1>1, <1>2 DEF SwitchTo, OneRunner, Affinity, is_running
<1>7. QueueMatchesStatus'
  BY <1>1, <1>2, <1>3, <1>4
     DEF SwitchTo, QueueMatchesStatus, OneRunner, VcpuThread, is_running
<1>8. BlockingIsPending'
  BY <1>1, <1>2, <1>4 DEF SwitchTo, BlockingIsPending, OneRunner, is_running
<1>9. NoIdleOverReady'
  BY <1>1, <1>2
     DEF SwitchTo, PickNext, NoIdleOverReady, VcpuThread, is_idle_thread
<1> QED
  BY <1>5, <1>6, <1>7, <1>8, <1>9, Zenon

(* sleep_thread takes the thread out of its queue and, if it is RUNNING,
   leaves it to schedule() to block it. *)
LEMMA SleepInv ==
  ASSUME SchedInv, NEW t \in VcpuThread, sleep_thread(t)
  PROVE  SchedInv'
<1> USE DEF SchedInv, TypeOK, ThreadTypeOK, sleep_thread, SleepStatus,
            make_reschedule_request
<1>1. t \in Thread /\ pcpu_id[t] \in Pcpu
  BY Zenon DEF VcpuThread
<1>2. TypeOK'
  BY <1>1, Zenon DEF VcpuThread
<1>3. OneRunner' /\ Affinity'
  BY <1>1 DEF OneRunner, Affinity, is_running
<1>4. QueueMatchesStatus'
  BY <1>1 DEF QueueMatchesStatus, VcpuThread, is_running
<1>5. BlockingIsPending'
  BY <1>1 DEF BlockingIsPending, is_running
<1>6. NoIdleOverReady'
  BY <1>1 DEF NoIdleOverReady
<1> QED
  BY <1>2, <1>3, <1>4, <1>5, <1>6, Zenon

(* wake_thread acts on a BLOCKED thread only, which is current nowhere. *)
LEMMA WakeInv ==
  ASSUME SchedInv, NEW t \in VcpuThread, wake_thread(t)
  PROVE  SchedInv'
<1> USE DEF SchedInv, TypeOK, ThreadTypeOK, wake_thread, WakeStatus,
            make_reschedule_request
<1>1. t \in Thread /\ pcpu_id[t] \in Pcpu
  BY Zenon DEF VcpuThread
<1>2. TypeOK'
  BY <1>1, Zenon DEF VcpuThread
<1>3. OneRunner' /\ Affinity'
  BY <1>1 DEF OneRunner, Affinity, is_running, is_blocked
<1>4. QueueMatchesStatus'
  BY <1>1, Zenon DEF QueueMatchesStatus, VcpuThread, is_running, is_blocked
<1>5. BlockingIsPending'
  BY <1>1, Zenon DEF BlockingIsPending, is_running, is_blocked
<1>6. NoIdleOverReady'
  BY <1>1, Zenon DEF NoIdleOverReady
<1> QED
  BY <1>2, <1>3, <1>4, <1>5, <1>6, Zenon

LEMMA NextInv == SchedInv /\ [Next]_vars => SchedInv'
<1> SUFFICES ASSUME SchedInv, [Next]_vars PROVE SchedInv'
  OBVIOUS
<1>1. CASE \E p \in Pcpu : boot(p) \/ schedule(p) \/ request(p)
  BY <1>1, BootInv, ScheduleInv, RequestInv, Zenon
<1>2. CASE \E t \in VcpuThread : sleep_thread(t) \/ wake_thread(t)
  BY <1>2, SleepInv, WakeInv, Zenon
<1>3. CASE UNCHANGED vars
  BY <1>3, Zenon DEF vars, thread_vars, SchedInv, TypeOK, ThreadTypeOK, OneRunner,
              QueueMatchesStatus, BlockingIsPending, NoIdleOverReady,
              Affinity, is_running
<1> QED
  BY <1>1, <1>2, <1>3, Zenon DEF Next

(* Whatever the policy picks, the framework of schedule.c keeps all its
   invariants; the theorems below name the four that matter on their own. *)
THEOREM Invariance == Spec => []SchedInv
  BY InitInv, NextInv, PTL DEF Spec

(* schedule(): each pCPU runs one thread, its curr_obj. *)
THEOREM OneRunnerThm == Spec => []OneRunner
<1>1. SchedInv => OneRunner
  BY Zenon DEF SchedInv
<1> QED
  BY <1>1, Invariance, PTL

(* sleep_thread and wake_thread keep the run queue in step with the status,
   so no ready thread is lost and no sleeping one is run. *)
THEOREM QueueMatchesStatusThm == Spec => []QueueMatchesStatus
<1>1. SchedInv => QueueMatchesStatus
  BY Zenon DEF SchedInv
<1> QED
  BY <1>1, Invariance, PTL

(* A sleep requested of a RUNNING thread stays pending until it leaves. *)
THEOREM BlockingIsPendingThm == Spec => []BlockingIsPending
<1>1. SchedInv => BlockingIsPending
  BY Zenon DEF SchedInv
<1> QED
  BY <1>1, Invariance, PTL

(* No pCPU idles over a ready thread without a pending request. *)
THEOREM NoIdleOverReadyThm == Spec => []NoIdleOverReady
<1>1. SchedInv => NoIdleOverReady
  BY Zenon DEF SchedInv
<1> QED
  BY <1>1, Invariance, PTL

-----------------------------------------------------------------------------
(* Exclusive waiting. *)

HIDE ThreadAssumption

LEMMA VcpuFacts ==
  /\ \A t \in VcpuThread : t \in Thread /\ pcpu_id[t] \in Pcpu
  /\ NULL \notin VcpuThread
  BY ThreadAssumption, Zenon DEF VcpuThread

LEMMA EventInitInv == EventInit => EventInv
<1> SUFFICES ASSUME EventInit PROVE EventInv
  OBVIOUS
<1>1. SchedInv
  BY InitInv, Zenon DEF EventInit
<1>2. EventTypeOK
  BY Zenon DEF EventInit, EventTypeOK
<1>3. ExclusiveWait /\ AsleepIsRunning
  BY Zenon DEF EventInit, ExclusiveWait, AsleepIsRunning
<1> QED
  BY <1>1, <1>2, <1>3, Zenon DEF EventInv

(* A step of the scheduler that leaves the events alone and keeps every
   waiting thread where it is. *)
LEMMA OutsideInv ==
  ASSUME EventInv, UNCHANGED event_vars, SchedInv',
         \A t \in VcpuThread :
            is_running(t) /\ be_blocking[t] /\ need_reschedule[pcpu_id[t]] =>
                (is_running(t) /\ be_blocking[t] /\ need_reschedule[pcpu_id[t]])'
  PROVE  EventInv'
<1>1. EventTypeOK' /\ ExclusiveWait'
  BY DEF EventInv, event_vars, EventTypeOK, ExclusiveWait
<1>2. AsleepIsRunning'
  BY Zenon DEF EventInv, event_vars, AsleepIsRunning
<1> QED
  BY <1>1, <1>2, Zenon DEF EventInv

LEMMA SleepKeepsAsleep ==
  ASSUME EventInv, NEW t \in VcpuThread, sleep_thread(t), NEW u \in VcpuThread,
         is_running(u), be_blocking[u], need_reschedule[pcpu_id[u]]
  PROVE  (is_running(u) /\ be_blocking[u] /\ need_reschedule[pcpu_id[u]])'
  BY VcpuFacts, Zenon DEF EventInv, SchedInv, TypeOK, ThreadTypeOK, sleep_thread,
     SleepStatus, make_reschedule_request, is_running

LEMMA WakeKeepsAsleep ==
  ASSUME EventInv, NEW t \in VcpuThread, wake_thread(t), NEW u \in VcpuThread,
         is_running(u), be_blocking[u], need_reschedule[pcpu_id[u]]
  PROVE  (is_running(u) /\ be_blocking[u] /\ need_reschedule[pcpu_id[u]])'
  BY VcpuFacts, Zenon DEF EventInv, SchedInv, TypeOK, ThreadTypeOK, wake_thread,
     WakeStatus, make_reschedule_request, is_running, is_blocked

(* A running thread told to sleep stays current, marked and flagged. *)
LEMMA SleepOfRunning ==
  ASSUME EventInv, NEW t \in VcpuThread, running_code(t), sleep_thread(t)
  PROVE  (is_running(t) /\ be_blocking[t] /\ need_reschedule[pcpu_id[t]])'
  BY VcpuFacts, Zenon DEF EventInv, SchedInv, TypeOK, ThreadTypeOK, OneRunner,
     sleep_thread, SleepStatus, make_reschedule_request, is_running, running_code

LEMMA WaitInv ==
  ASSUME EventInv, NEW t \in VcpuThread, NEW e \in EventId, wait_event(t, e)
  PROVE  EventInv'
<1>1. CASE set[t][e]
  <2>1. UNCHANGED vars
    BY <1>1, Zenon DEF wait_event
  <2>2. SchedInv'
    BY <2>1, NextInv, Zenon DEF EventInv
  <2>3. reset_event(t, e) /\ UNCHANGED <<wait_pc, wait_on>>
    BY <1>1, Zenon DEF wait_event
  <2>5. EventTypeOK'
    BY <2>3, Zenon DEF EventInv, reset_event, EventTypeOK
  <2>6. ExclusiveWait'
    BY <2>3 DEF EventInv, reset_event, EventTypeOK, ExclusiveWait
  <2>4. AsleepIsRunning'
    BY <1>1, <2>1, Zenon DEF EventInv, wait_event, AsleepIsRunning, vars, thread_vars,
       is_running
  <2> QED
    BY <2>2, <2>4, <2>5, <2>6, Zenon DEF EventInv
<1>2. CASE ~set[t][e]
  <2>1. sleep_thread(t) /\ running_code(t)
    BY <1>2, Zenon DEF wait_event
  <2>2. SchedInv'
    BY <2>1, SleepInv, Zenon DEF EventInv
  <2>3. EventTypeOK'
    <3>1. /\ UNCHANGED set
          /\ waiting_thread' = [waiting_thread EXCEPT ![t][e] = t]
          /\ wait_pc' = [wait_pc EXCEPT ![t] = "asleep"]
          /\ wait_on' = [wait_on EXCEPT ![t] = e]
      BY <1>2, Zenon DEF wait_event
    <3> QED
      BY <3>1, Zenon DEF EventInv, EventTypeOK
  <2>4. ExclusiveWait'
    BY <1>2 DEF EventInv, wait_event, EventTypeOK, ExclusiveWait
  <2>5. AsleepIsRunning'
    BY <1>2, <2>1, SleepOfRunning, SleepKeepsAsleep, Zenon
       DEF EventInv, wait_event, EventTypeOK, AsleepIsRunning
  <2> QED
    BY <2>2, <2>3, <2>4, <2>5, Zenon DEF EventInv
<1> QED
  BY <1>1, <1>2, Zenon

LEMMA RecheckInv ==
  ASSUME EventInv, NEW t \in VcpuThread, recheck_event(t)
  PROVE  EventInv'
<1> DEFINE e == wait_on[t]
<1>0. e \in EventId /\ wait_pc[t] = "relock"
  BY Zenon DEF recheck_event, EventInv, EventTypeOK
<1>1. CASE ~set[t][e] /\ waiting_thread[t][e] # NULL
  <2>1. waiting_thread[t][e] = t
    BY <1>0, <1>1, Zenon DEF EventInv, ExclusiveWait
  <2>2. sleep_thread(t) /\ running_code(t)
    BY <1>1, <2>1, Zenon DEF recheck_event
  <2>3. SchedInv'
    BY <2>2, SleepInv, Zenon DEF EventInv
  <2>4. EventTypeOK' /\ ExclusiveWait'
    BY <1>0, <1>1 DEF EventInv, recheck_event, EventTypeOK, ExclusiveWait
  <2>5. AsleepIsRunning'
    BY <1>1, <2>2, SleepOfRunning, SleepKeepsAsleep, Zenon
       DEF EventInv, recheck_event, EventTypeOK, AsleepIsRunning
  <2> QED
    BY <2>3, <2>4, <2>5, Zenon DEF EventInv
<1>2. CASE ~(~set[t][e] /\ waiting_thread[t][e] # NULL)
  <2>1. UNCHANGED vars /\ reset_event(t, e) /\ leave_wait(t)
    BY <1>2, Zenon DEF recheck_event
  <2>2. SchedInv'
    BY <2>1, NextInv, Zenon DEF EventInv
  <2>3. EventTypeOK' /\ ExclusiveWait'
    BY <1>0, <2>1 DEF EventInv, reset_event, leave_wait, EventTypeOK, ExclusiveWait
  <2>4. AsleepIsRunning'
    BY <2>1, Zenon DEF EventInv, leave_wait, EventTypeOK, AsleepIsRunning, vars,
       thread_vars, is_running
  <2> QED
    BY <2>2, <2>3, <2>4, Zenon DEF EventInv
<1> QED
  BY <1>1, <1>2, Zenon

LEMMA SignalInv ==
  ASSUME EventInv, NEW t \in VcpuThread, NEW e \in EventId, signal_event(t, e)
  PROVE  EventInv'
<1>1. EventTypeOK' /\ ExclusiveWait'
  BY Zenon DEF EventInv, signal_event, EventTypeOK, ExclusiveWait
<1>2. CASE waiting_thread[t][e] # NULL /\ is_blocked(waiting_thread[t][e])
  <2>1. wake_thread(t)
    BY <1>2 DEF signal_event, EventInv, ExclusiveWait
  <2>2. SchedInv'
    BY <2>1, WakeInv, Zenon DEF EventInv
  <2>3. AsleepIsRunning'
    BY <2>1, WakeKeepsAsleep, Zenon DEF EventInv, signal_event, AsleepIsRunning
  <2> QED
    BY <1>1, <2>2, <2>3, Zenon DEF EventInv
<1>3. CASE UNCHANGED vars
  <2>1. SchedInv'
    BY <1>3, NextInv, Zenon DEF EventInv
  <2>2. AsleepIsRunning'
    BY <1>3, Zenon DEF EventInv, signal_event, AsleepIsRunning, vars, thread_vars,
       is_running
  <2> QED
    BY <1>1, <2>1, <2>2, Zenon DEF EventInv
<1> QED
  BY <1>2, <1>3, Zenon DEF signal_event

LEMMA SwitchInv ==
  ASSUME EventInv, NEW p \in Pcpu, switch(p)
  PROVE  EventInv'
<1> DEFINE c == curr_obj[p]
<1>1. schedule(p) /\ SchedInv'
  BY ScheduleInv, Zenon DEF switch, EventInv
<1>2. EventTypeOK' /\ ExclusiveWait'
  <2>1. UNCHANGED <<set, waiting_thread, wait_on>>
    BY Zenon DEF switch
  <2>2. wait_pc' \in [VcpuThread -> {"no", "asleep", "relock"}]
    BY Zenon DEF switch, EventInv, EventTypeOK
  <2>3. \A t \in VcpuThread : wait_pc'[t] # "no" <=> wait_pc[t] # "no"
    BY Zenon DEF switch, EventInv, EventTypeOK
  <2> QED
    BY <2>1, <2>2, <2>3, Zenon DEF EventInv, EventTypeOK, ExclusiveWait
<1>3. ASSUME NEW u \in VcpuThread, wait_pc'[u] = "asleep"
      PROVE  (is_running(u) /\ be_blocking[u] /\ need_reschedule[pcpu_id[u]])'
  <2>1. wait_pc[u] = "asleep" /\ u # c
    BY <1>3, Zenon DEF switch, EventInv, EventTypeOK
  <2>2. is_running(u) /\ be_blocking[u] /\ need_reschedule[pcpu_id[u]]
    BY <2>1, Zenon DEF EventInv, AsleepIsRunning
  <2>3. pcpu_id[u] # p /\ pcpu_id[u] \in Pcpu /\ u \in Thread
    BY <2>1, <2>2, VcpuFacts, Zenon DEF EventInv, SchedInv, OneRunner
  <2>4. PICK next \in PickNext(p) : SwitchTo(p, next)
    BY <1>1, Zenon DEF schedule
  <2>5. next \in Thread /\ pcpu_id[next] = p
    BY <2>4, ThreadAssumption DEF PickNext, EventInv, SchedInv, Affinity, TypeOK,
       VcpuThread
  <2>6. c \in Thread /\ pcpu_id[c] = p
    BY <1>1, Zenon DEF schedule, EventInv, SchedInv, Affinity, TypeOK, ThreadTypeOK
  <2> QED
    BY <2>2, <2>3, <2>4, <2>5, <2>6, Zenon DEF SwitchTo, EventInv, SchedInv, TypeOK,
       ThreadTypeOK, is_running
<1>4. AsleepIsRunning'
  BY <1>3, Zenon DEF AsleepIsRunning
<1> QED
  BY <1>1, <1>2, <1>4, Zenon DEF EventInv

LEMMA EventNextInv == EventInv /\ [EventNext]_allvars => EventInv'
<1> SUFFICES ASSUME EventInv, [EventNext]_allvars PROVE EventInv'
  OBVIOUS
<1>1. ASSUME NEW p \in Pcpu, pcpu_boot(p) PROVE EventInv'
  <2>1. SchedInv'
    BY <1>1, BootInv, Zenon DEF pcpu_boot, EventInv
  <2>2. \A t \in VcpuThread : is_running(t) => is_running(t)'
    BY <1>1 DEF pcpu_boot, boot, run_thread, is_running, EventInv, SchedInv,
       TypeOK, ThreadTypeOK
  <2> QED
    BY <1>1, <2>1, <2>2, OutsideInv, Zenon DEF pcpu_boot, boot, run_thread
<1>2. ASSUME NEW p \in Pcpu, request(p), UNCHANGED event_vars PROVE EventInv'
  <2>1. SchedInv'
    BY <1>2, RequestInv, Zenon DEF EventInv
  <2>2. \A t \in VcpuThread :
            is_running(t) /\ be_blocking[t] /\ need_reschedule[pcpu_id[t]] =>
                (is_running(t) /\ be_blocking[t] /\ need_reschedule[pcpu_id[t]])'
    BY <1>2, VcpuFacts, Zenon DEF request, yield_current, make_reschedule_request,
       is_running, EventInv, SchedInv, TypeOK, ThreadTypeOK
  <2> QED
    BY <1>2, <2>1, <2>2, OutsideInv, Zenon
<1>3. ASSUME NEW t \in VcpuThread, zombie(t) PROVE EventInv'
  <2>1. SchedInv'
    BY <1>3, SleepInv, Zenon DEF EventInv, zombie
  <2> QED
    BY <1>3, <2>1, SleepKeepsAsleep, OutsideInv, Zenon DEF zombie
<1>4. ASSUME NEW t \in VcpuThread, launch(t) PROVE EventInv'
  <2>1. SchedInv'
    BY <1>4, WakeInv, Zenon DEF EventInv, launch
  <2> QED
    BY <1>4, <2>1, WakeKeepsAsleep, OutsideInv, Zenon DEF launch
<1>5. ASSUME NEW t \in VcpuThread, NEW e \in EventId, reset(t, e) PROVE EventInv'
  <2>1. SchedInv'
    BY <1>5, NextInv, Zenon DEF EventInv, reset
  <2>2. EventTypeOK' /\ ExclusiveWait'
    BY <1>5 DEF EventInv, reset, reset_event, EventTypeOK, ExclusiveWait
  <2>3. AsleepIsRunning'
    BY <1>5, Zenon DEF EventInv, reset, AsleepIsRunning, vars, thread_vars, is_running
  <2> QED
    BY <2>1, <2>2, <2>3, Zenon DEF EventInv
<1>6. CASE UNCHANGED allvars
  <2>1. SchedInv'
    BY <1>6, NextInv, Zenon DEF EventInv, allvars
  <2> QED
    BY <1>6, <2>1, OutsideInv, Zenon DEF allvars, vars, thread_vars, is_running
<1> QED
  BY <1>1, <1>2, <1>3, <1>4, <1>5, <1>6, SwitchInv, RecheckInv, WaitInv, SignalInv, Zenon
  DEF EventNext

(* Every reachable state of the events over any scheduler keeps the
   scheduler's invariants and those of wait_event. *)
THEOREM EventInvariance == EventSpec => []EventInv
  BY EventInitInv, EventNextInv, PTL DEF EventSpec

(* The ASSERT of wait_event holds: waiting is exclusive. *)
THEOREM ExclusiveWaitThm == EventSpec => []ExclusiveWait
<1>1. EventInv => ExclusiveWait
  BY Zenon DEF EventInv
<1> QED
  BY <1>1, EventInvariance, PTL

-----------------------------------------------------------------------------
(* The life of a VM.                                                       *)

(* Only pause_vm and a vCPU that sends INIT wait in sleep_thread_sync, with
   vm_lock. *)
LockInv ==
    /\ workload \in Workloads
    /\ hcall = "pause" <=> vm_lock = SOS
    /\ vm_lock = NULL => sync_on = NULL

(* A vCPU that holds the lock has parked another one for an INIT. *)
Holder(t) ==
    /\ running_code(t)
    /\ vm_pc[t].op = "INIT"
    /\ vcpu_state[vm_pc[t].to] # "RUNNING"

HolderInv == \A t \in VcpuThread : vm_lock = t => Holder(t)

-----------------------------------------------------------------------------
(* What the operations of the scheduler do to the threads. *)

LEMMA SleepFacts ==
  ASSUME TypeOK, NEW t \in VcpuThread, sleep_thread(t)
  PROVE  /\ TypeOK' /\ UNCHANGED curr_obj
         /\ \A u \in VcpuThread : u # t =>
                status'[u] = status[u] /\ be_blocking'[u] = be_blocking[u]
         /\ is_running(t) => status'[t] = status[t] /\ be_blocking'[t]
         /\ ~is_running(t) => status'[t] = "BLOCKED" /\ be_blocking'[t] = be_blocking[t]
<1> USE VcpuFacts DEF TypeOK, ThreadTypeOK, sleep_thread, SleepStatus, make_reschedule_request
<1>1. TypeOK' /\ UNCHANGED curr_obj
  BY Zenon
<1>2. CASE is_running(t)
  BY <1>1, <1>2
<1>3. CASE ~is_running(t)
  BY <1>1, <1>3, Zenon
<1> QED
  BY <1>2, <1>3, Zenon

LEMMA WakeFacts ==
  ASSUME TypeOK, NEW t \in VcpuThread, wake_thread(t)
  PROVE  /\ TypeOK' /\ UNCHANGED <<curr_obj, be_blocking>>
         /\ is_blocked(t) /\ status'[t] = "RUNNABLE"
         /\ \A u \in VcpuThread : u # t => status'[u] = status[u]
  BY VcpuFacts, Zenon DEF TypeOK, ThreadTypeOK, wake_thread, WakeStatus, make_reschedule_request,
     is_blocked

LEMMA ScheduleTypes ==
  ASSUME TypeOK, NEW p \in Pcpu, schedule(p)
  PROVE  TypeOK'
<1>1. PICK next \in PickNext(p) : SwitchTo(p, next)
  BY Zenon DEF schedule
<1>2. next \in Thread /\ curr_obj[p] \in Thread
  BY ThreadAssumption, Zenon DEF TypeOK, ThreadTypeOK, PickNext, VcpuThread, schedule
<1> QED
  BY Zenon, <1>1, <1>2 DEF TypeOK, ThreadTypeOK, SwitchTo, schedule

(* schedule() blocks only a current thread that was told to sleep, and never
   picks one that is BLOCKED. *)
LEMMA ScheduleFacts ==
  ASSUME SchedInv, NEW p \in Pcpu, schedule(p), NEW u \in VcpuThread
  PROVE  /\ is_blocked(u) => is_blocked(u)'
         /\ be_blocking[u] => be_blocking'[u] \/ is_blocked(u)'
         /\ is_blocked(u)' => is_blocked(u) \/ (be_blocking[u] /\ curr_obj[p] = u)
         /\ be_blocking'[u] => be_blocking[u]
         /\ be_blocking[u] /\ curr_obj[p] = u => is_blocked(u)'
<1>1. PICK next \in PickNext(p) : SwitchTo(p, next)
  BY Zenon DEF schedule
<1> DEFINE prev == curr_obj[p]
<1>2. next \in Thread /\ prev \in Thread /\ u \in Thread
  BY ThreadAssumption, VcpuFacts DEF SchedInv, TypeOK, ThreadTypeOK, PickNext, VcpuThread, schedule
<1>3. is_blocked(u) => u # next /\ u # prev
  <2> SUFFICES ASSUME is_blocked(u) PROVE u # next /\ u # prev
    OBVIOUS
  <2>1. u # prev
    BY <1>2, Zenon DEF SchedInv, OneRunner, Affinity, is_running, is_blocked, schedule
  <2>2. u \notin runqueue[p]
    BY Zenon DEF SchedInv, QueueMatchesStatus, Affinity, is_running, is_blocked
  <2>3. u # idle[p]
    BY ThreadAssumption, Zenon DEF VcpuThread, is_idle_thread
  <2> QED
    BY <1>1, <2>1, <2>2, <2>3, Zenon DEF PickNext
<1>6. be_blocking[u] => u # next
  <2> SUFFICES ASSUME be_blocking[u] PROVE u # next
    OBVIOUS
  <2>1. is_running(u)
    BY <1>2, Zenon DEF SchedInv, BlockingIsPending
  <2>2. u \notin runqueue[pcpu_id[u]]
    BY <2>1, Zenon DEF SchedInv, QueueMatchesStatus, is_running
  <2>3. u \notin runqueue[p] /\ u # idle[p]
    BY <2>2, ThreadAssumption, Zenon DEF SchedInv, Affinity, VcpuThread, is_idle_thread
  <2> QED
    BY <1>1, <2>3, Zenon DEF PickNext
<1>4. CASE prev = next
  BY <1>1, <1>4, <1>6, Zenon DEF SwitchTo, is_blocked
<1>5. CASE prev # next
  <2>1. /\ status' = [status EXCEPT ![prev] = IF be_blocking[prev] THEN "BLOCKED" ELSE "RUNNABLE",
                                    ![next] = "RUNNING"]
        /\ be_blocking' = [be_blocking EXCEPT ![prev] = FALSE]
    BY <1>1, <1>5, Zenon DEF SwitchTo
  <2>2. status \in [Thread -> {"RUNNING", "RUNNABLE", "BLOCKED"}] /\ be_blocking \in [Thread -> BOOLEAN]
    BY Zenon DEF SchedInv, TypeOK, ThreadTypeOK
  <2> QED
    BY <1>2, <1>3, <1>5, <1>6, <2>1, <2>2, Zenon DEF is_blocked
<1> QED
  BY <1>4, <1>5, Zenon

-----------------------------------------------------------------------------
(* Types, under every workload. *)

LEMMA SameTypes ==
  ASSUME TypeOK, UNCHANGED vars
  PROVE  TypeOK'
  BY Zenon DEF TypeOK, ThreadTypeOK, vars, thread_vars

LEMMA WaitTypes ==
  ASSUME TypeOK, EventTypeOK, NEW t \in VcpuThread, NEW e \in EventId, wait_event(t, e)
  PROVE  TypeOK' /\ EventTypeOK'
<1>1. CASE set[t][e]
  <2>1. UNCHANGED <<vars, wait_pc, wait_on>> /\ reset_event(t, e)
    BY <1>1, Zenon DEF wait_event
  <2> QED
    BY <2>1, SameTypes, Zenon DEF reset_event, EventTypeOK
<1>2. CASE ~set[t][e]
  <2>1. /\ sleep_thread(t) /\ UNCHANGED set
        /\ waiting_thread' = [waiting_thread EXCEPT ![t][e] = t]
        /\ wait_pc' = [wait_pc EXCEPT ![t] = "asleep"]
        /\ wait_on' = [wait_on EXCEPT ![t] = e]
    BY <1>2, Zenon DEF wait_event
  <2> QED
    BY <2>1, SleepFacts, Zenon DEF EventTypeOK
<1> QED
  BY <1>1, <1>2, Zenon

LEMMA RecheckTypes ==
  ASSUME TypeOK, EventTypeOK, NEW t \in VcpuThread, recheck_event(t)
  PROVE  TypeOK' /\ EventTypeOK'
<1> DEFINE e == wait_on[t]
<1>0. e \in EventId
  BY Zenon DEF recheck_event, EventTypeOK
<1>1. CASE ~set[t][e] /\ waiting_thread[t][e] # NULL
  <2>1. /\ sleep_thread(waiting_thread[t][e]) /\ waiting_thread[t][e] \in VcpuThread
        /\ wait_pc' = [wait_pc EXCEPT ![t] = "asleep"]
        /\ UNCHANGED <<set, waiting_thread, wait_on>>
    BY <1>0, <1>1 DEF recheck_event, EventTypeOK
  <2> QED
    BY <1>0, <2>1, SleepFacts, Zenon DEF EventTypeOK
<1>2. CASE ~(~set[t][e] /\ waiting_thread[t][e] # NULL)
  <2>1. UNCHANGED vars /\ reset_event(t, e) /\ leave_wait(t)
    BY <1>2, Zenon DEF recheck_event
  <2> QED
    BY <1>0, <2>1, SameTypes, Zenon DEF reset_event, leave_wait, EventTypeOK
<1> QED
  BY <1>1, <1>2, Zenon

LEMMA SignalTypes ==
  ASSUME TypeOK, EventTypeOK, NEW t \in VcpuThread, NEW e \in EventId, signal_event(t, e)
  PROVE  TypeOK' /\ EventTypeOK'
<1>1. EventTypeOK'
  BY Zenon DEF signal_event, EventTypeOK
<1>2. TypeOK'
  BY SameTypes, WakeFacts DEF signal_event, EventTypeOK
<1> QED
  BY <1>1, <1>2, Zenon

LEMMA SwitchTypes ==
  ASSUME TypeOK, EventTypeOK, NEW p \in Pcpu, switch(p)
  PROVE  TypeOK' /\ EventTypeOK'
  BY ScheduleTypes, Zenon DEF switch, EventTypeOK

LEMMA ResetTypes ==
  ASSUME EventTypeOK, NEW S, vcpu_reset_internal(S)
  PROVE  EventTypeOK'
  BY Zenon DEF vcpu_reset_internal, EventTypeOK

LEMMA ZombieTypes ==
  ASSUME LifeTypeOK, NEW u \in VcpuThread, NEW sync \in BOOLEAN, zombie_vcpu(u, sync)
  PROVE  /\ TypeOK' /\ sync_on' \in VcpuThread \cup {NULL}
         /\ vcpu_state' \in [VcpuThread -> {"INIT", "RUNNING", "ZOMBIE", "OFFLINE"}]
<1>1. TypeOK'
  BY SleepFacts, SameTypes, Zenon DEF LifeTypeOK, zombie_vcpu
<1>2. /\ sync_on' \in VcpuThread \cup {NULL}
      /\ vcpu_state' \in [VcpuThread -> {"INIT", "RUNNING", "ZOMBIE", "OFFLINE"}]
  BY Zenon DEF LifeTypeOK, zombie_vcpu
<1> QED
  BY <1>1, <1>2, Zenon

LEMMA LaunchTypes ==
  ASSUME LifeTypeOK, NEW u \in VcpuThread, launch_vcpu(u)
  PROVE  /\ TypeOK'
         /\ vcpu_state' \in [VcpuThread -> {"INIT", "RUNNING", "ZOMBIE", "OFFLINE"}]
  BY WakeFacts, SameTypes, Zenon DEF LifeTypeOK, launch_vcpu

Pcs == {entry, guest, stop} \cup [op : {"INIT", "SIPI", "FATAL"}, to : VcpuThread]

(* A thread in an operation on another vCPU names that vCPU. *)
LEMMA PcFacts ==
  ASSUME LifeTypeOK, NEW t \in VcpuThread
  PROVE  /\ vm_pc \in [VcpuThread -> Pcs]
         /\ vm_pc[t].op \in {"INIT", "SIPI", "FATAL"} => vm_pc[t].to \in VcpuThread
         /\ vm_pc[t] \in {entry, guest, stop} => vm_pc[t].op \notin {"INIT", "SIPI", "FATAL"}
<1>1. vm_pc \in [VcpuThread -> Pcs]
  BY Zenon DEF LifeTypeOK, Pcs
<1>2. vm_pc[t] \in Pcs
  BY <1>1, Zenon
<1> QED
  BY <1>1, <1>2 DEF Pcs, entry, guest, stop

LEMMA HypercallTypes ==
  ASSUME LifeTypeOK, LockInv, hypercall
  PROVE  LifeTypeOK' /\ LockInv'
<1> USE LifecycleAssumption DEF LifeTypeOK, LockInv
<1>1. CASE pause_begin
  BY <1>1, SameTypes, Zenon DEF pause_begin, allvars, event_vars, EventTypeOK
<1>2. CASE pause_end
  BY <1>2, SameTypes, Zenon DEF pause_end, allvars, event_vars, EventTypeOK
<1>3. CASE hcall_reset_vm
  <2>1. TypeOK' /\ EventTypeOK'
    BY <1>3, SameTypes, ResetTypes, Zenon DEF hcall_reset_vm
  <2> QED
    BY <1>3, <2>1 DEF hcall_reset_vm
<1>4. CASE hcall_start_vm
  <2>1. TypeOK' /\ vcpu_state' \in [VcpuThread -> {"INIT", "RUNNING", "ZOMBIE", "OFFLINE"}]
    BY <1>4, LaunchTypes, Zenon DEF hcall_start_vm
  <2> QED
    BY <1>4, <2>1, Zenon DEF hcall_start_vm, event_vars, EventTypeOK
<1>5. CASE hcall_destroy_vm
  BY <1>5, SameTypes, Zenon DEF hcall_destroy_vm, allvars, event_vars, EventTypeOK
<1>6. CASE hcall_create_vm
  <2>1. TypeOK'
    BY <1>6, Zenon DEF hcall_create_vm, TypeOK, ThreadTypeOK
  <2>2. EventTypeOK'
    BY <1>6, Zenon DEF hcall_create_vm, EventTypeOK
  <2>3. vm_pc' \in [VcpuThread -> Pcs]
    BY <1>6, Zenon DEF hcall_create_vm, Pcs
  <2> QED
    BY <1>6, <2>1, <2>2, <2>3 DEF hcall_create_vm, Pcs
<1> QED
  BY <1>1, <1>2, <1>3, <1>4, <1>5, <1>6, Zenon DEF hypercall

LEMMA VcpuStepTypes ==
  ASSUME LifeTypeOK, LockInv, NEW t \in VcpuThread, vcpu_step(t)
  PROVE  LifeTypeOK' /\ LockInv'
<1> USE LifecycleAssumption, VcpuFacts DEF LifeTypeOK, LockInv
<1> DEFINE u == vm_pc[t].to
<1>0. /\ vm_pc \in [VcpuThread -> Pcs] /\ entry \in Pcs /\ stop \in Pcs
      /\ t # SOS /\ t # NULL
      /\ UNCHANGED event_vars /\ EventTypeOK => EventTypeOK'
  BY PcFacts, ZenonT(30) DEF Pcs, event_vars, EventTypeOK
<1>1. CASE process_init(t)
  <2>0. u \in VcpuThread
    BY <1>1, PcFacts, Zenon DEF process_init
  <2>1. CASE vcpu_state[u] = "INIT"
    <3>1. /\ nr_sipi' = [nr_sipi EXCEPT ![u] = 1] /\ vm_pc' = [vm_pc EXCEPT ![t] = entry]
          /\ UNCHANGED <<vars, vcpu_state, vm_lock, sync_on, event_vars, vm_state, hcall, workload>>
      BY <1>1, <2>1, Zenon DEF process_init
    <3>2. vm_pc' \in [VcpuThread -> Pcs] /\ TypeOK'
      BY <1>0, <3>1, SameTypes, Zenon
    <3> QED
      BY <1>0, <2>0, <3>1, <3>2 DEF Pcs
  <2>2. CASE vcpu_state[u] # "INIT"
    <3>1. /\ zombie_vcpu(u, TRUE) /\ vm_lock = NULL /\ vm_lock' = t
          /\ UNCHANGED <<nr_sipi, vm_pc, event_vars, vm_state, hcall, workload>>
      BY Zenon, <1>1, <2>2 DEF process_init
    <3>2. /\ TypeOK' /\ sync_on' \in VcpuThread \cup {NULL}
          /\ vcpu_state' \in [VcpuThread -> {"INIT", "RUNNING", "ZOMBIE", "OFFLINE"}]
      BY Zenon, <2>0, <3>1, ZombieTypes
    <3> QED
      BY <1>0, <3>1, <3>2, Zenon
  <2> QED
    BY <2>1, <2>2, Zenon
<1>2. CASE reset_target(t)
  <2>0. u \in VcpuThread
    BY <1>2, PcFacts, Zenon DEF reset_target
  <2>1. TypeOK' /\ EventTypeOK' /\ vm_pc' \in [VcpuThread -> Pcs]
    BY <1>0, <1>2, SameTypes, ResetTypes, Zenon DEF reset_target
  <2> QED
    BY <1>0, <1>2, <2>0, <2>1 DEF reset_target, Pcs
<1>3. CASE process_sipi(t)
  <2>0. u \in VcpuThread
    BY <1>3, PcFacts, Zenon DEF process_sipi
  <2>1. /\ TypeOK' /\ vcpu_state' \in [VcpuThread -> {"INIT", "RUNNING", "ZOMBIE", "OFFLINE"}]
        /\ nr_sipi' \in [VcpuThread -> 0..1]
    BY <1>3, <2>0, LaunchTypes, SameTypes DEF process_sipi
  <2>2. vm_pc' \in [VcpuThread -> Pcs]
    BY <1>0, <1>3, Zenon DEF process_sipi
  <2> QED
    BY <1>0, <1>3, <2>1, <2>2, Zenon DEF process_sipi, Pcs
<1>4. CASE process_fatal(t)
  <2>1. /\ TypeOK' /\ sync_on' \in VcpuThread \cup {NULL}
        /\ vcpu_state' \in [VcpuThread -> {"INIT", "RUNNING", "ZOMBIE", "OFFLINE"}]
    BY Zenon, <1>4, ZombieTypes DEF process_fatal
  <2>2. sync_on' = NULL
    BY <1>4, Zenon DEF process_fatal, zombie_vcpu
  <2>3. vm_pc' \in [VcpuThread -> Pcs]
    BY <1>0, <1>4, Zenon DEF process_fatal
  <2> QED
    BY <1>0, <1>4, <2>1, <2>2, <2>3, Zenon DEF process_fatal, Pcs
<1>5. CASE wait_returns(t)
  BY <1>5, RecheckTypes, Zenon DEF wait_returns, life_vars
<1> QED
  BY <1>1, <1>2, <1>3, <1>4, <1>5, Zenon DEF vcpu_step

LEMMA OtherTypes ==
  ASSUME LifeTypeOK, LockInv, NEW t \in VcpuThread,
         pause_vcpu(t) \/ lock_vm(t) \/ enter_guest(t) \/ halt(t) \/ interrupt(t)
  PROVE  LifeTypeOK' /\ LockInv'
<1> USE LifecycleAssumption, VcpuFacts DEF LifeTypeOK, LockInv
<1>0. /\ vm_pc \in [VcpuThread -> Pcs] /\ entry \in Pcs /\ guest \in Pcs
      /\ t # SOS /\ t # NULL
      /\ UNCHANGED event_vars /\ EventTypeOK => EventTypeOK'
  BY ZenonT(30), PcFacts DEF Pcs, event_vars, EventTypeOK
<1>1. CASE pause_vcpu(t)
  <2>1. /\ TypeOK' /\ sync_on' \in VcpuThread \cup {NULL}
        /\ vcpu_state' \in [VcpuThread -> {"INIT", "RUNNING", "ZOMBIE", "OFFLINE"}]
    BY Zenon, <1>1, ZombieTypes DEF pause_vcpu
  <2> QED
    BY <1>0, <1>1, <2>1, Zenon DEF pause_vcpu
<1>2. CASE lock_vm(t)
  <2>1. vm_pc' \in [VcpuThread -> Pcs]
    <3>1. PICK op \in {"INIT", "SIPI", "FATAL"}, u \in VcpuThread : vm_pc' = [vm_pc EXCEPT ![t] = [op |-> op, to |-> u]]
      BY Zenon, <1>2 DEF lock_vm
    <3> DEFINE pc == [op |-> op, to |-> u]
    <3>2. pc \in Pcs
      BY Zenon DEF Pcs
    <3> HIDE DEF pc
    <3> QED
      BY <1>0, <3>1, <3>2, Zenon DEF pc
  <2> QED
    BY <1>0, <1>2, <2>1, SameTypes, Zenon DEF lock_vm, allvars, Pcs
<1>3. CASE enter_guest(t)
  <2>1. TypeOK' /\ EventTypeOK' /\ vm_pc' \in [VcpuThread -> Pcs]
    BY Zenon, <1>0, <1>3, SameTypes DEF enter_guest, reset_event, EventTypeOK
  <2> QED
    BY Zenon, <1>3, <2>1 DEF enter_guest, Pcs
<1>4. CASE halt(t)
  <2>1. TypeOK' /\ EventTypeOK'
    BY <1>4, WaitTypes, Zenon DEF halt
  <2>2. vm_pc' \in [VcpuThread -> Pcs]
    BY <1>0, <1>4, Zenon DEF halt
  <2> QED
    BY <1>4, <2>1, <2>2, Zenon DEF halt, Pcs
<1>5. CASE interrupt(t)
  BY <1>5, SignalTypes, Zenon DEF interrupt, life_vars
<1> QED
  BY <1>1, <1>2, <1>3, <1>4, <1>5, Zenon

LEMMA PcpuTypes ==
  ASSUME LifeTypeOK, LockInv, NEW p \in Pcpu, life_boot(p) \/ life_switch(p)
  PROVE  LifeTypeOK' /\ LockInv'
<1> USE DEF LifeTypeOK, LockInv
<1>1. CASE life_boot(p)
  <2>1. TypeOK' /\ EventTypeOK'
    BY Zenon, <1>1, ThreadAssumption
       DEF life_boot, pcpu_boot, boot, run_thread, TypeOK, ThreadTypeOK, event_vars, EventTypeOK
  <2> QED
    BY <1>1, <2>1, Zenon DEF life_boot, life_vars
<1>2. CASE life_switch(p)
  <2>1. TypeOK' /\ EventTypeOK'
    BY <1>2, SwitchTypes, Zenon DEF life_switch
  <2>2. vm_pc' \in [VcpuThread -> Pcs]
    BY <1>2, Zenon DEF life_switch, Pcs
  <2> QED
    BY <1>2, <2>1, <2>2, Zenon DEF life_switch, Pcs
<1> QED
  BY <1>1, <1>2, Zenon

LEMMA LifeTypes ==
  ASSUME LifeTypeOK, LockInv, [LifeNext]_everything
  PROVE  LifeTypeOK' /\ LockInv'
<1>1. CASE sync_done
  BY <1>1, SameTypes, Zenon DEF LifeTypeOK, LockInv, sync_done, allvars, event_vars, EventTypeOK
<1>2. CASE UNCHANGED everything
  BY <1>2, SameTypes, Zenon DEF LifeTypeOK, LockInv, everything, life_vars, allvars, event_vars,
     EventTypeOK
<1> QED
  BY <1>1, <1>2, HypercallTypes, VcpuStepTypes, OtherTypes, PcpuTypes, Zenon DEF LifeNext

-----------------------------------------------------------------------------
(* The invariants of the scheduler and of the events. *)

LEMMA SameEvents ==
  ASSUME EventInv, UNCHANGED allvars
  PROVE  EventInv'
  BY EventNextInv, Zenon

LEMMA ZombieEvents ==
  ASSUME EventInv, NEW u \in VcpuThread, NEW sync, zombie_vcpu(u, sync), UNCHANGED event_vars
  PROVE  EventInv'
<1>1. sleep_thread(u) \/ UNCHANGED vars
  BY Zenon DEF zombie_vcpu
<1>2. CASE sleep_thread(u)
  <2>1. zombie(u)
    BY <1>2, Zenon DEF zombie
  <2> QED
    BY <2>1, EventNextInv, Zenon DEF EventNext
<1>3. CASE UNCHANGED vars
  BY <1>3, SameEvents, Zenon DEF allvars
<1> QED
  BY <1>1, <1>2, <1>3, Zenon

LEMMA LaunchEvents ==
  ASSUME EventInv, NEW u \in VcpuThread, launch_vcpu(u), UNCHANGED event_vars
  PROVE  EventInv'
<1>1. CASE wake_thread(u)
  <2>1. launch(u)
    BY <1>1, Zenon DEF launch
  <2> QED
    BY <2>1, EventNextInv, Zenon DEF EventNext
<1>2. CASE UNCHANGED vars
  BY <1>2, SameEvents, Zenon DEF allvars
<1> QED
  BY <1>1, <1>2, Zenon DEF launch_vcpu

LEMMA ResetEvents ==
  ASSUME EventInv, NEW S, vcpu_reset_internal(S), UNCHANGED vars
  PROVE  EventInv'
<1>1. SchedInv'
  BY NextInv, Zenon DEF EventInv
<1>2. EventTypeOK'
  BY ResetTypes, Zenon DEF EventInv
<1>3. ExclusiveWait'
  <2>1. ASSUME NEW t \in VcpuThread, NEW e \in EventId, waiting_thread'[t][e] # NULL
        PROVE  waiting_thread'[t] = waiting_thread[t] /\ wait_pc' = wait_pc /\ wait_on' = wait_on
    BY <2>1, Zenon DEF vcpu_reset_internal
  <2> QED
    BY <2>1 DEF EventInv, ExclusiveWait
<1>4. AsleepIsRunning'
  BY Zenon DEF EventInv, AsleepIsRunning, vcpu_reset_internal, vars, thread_vars, is_running
<1> QED
  BY <1>1, <1>2, <1>3, <1>4, Zenon DEF EventInv

(* hcall_create_vm, when every thread it initialises is off its pCPU. *)
LEMMA CreateEvents ==
  ASSUME EventInv, hcall_create_vm, \A t \in VcpuThread : is_blocked(t)
  PROVE  EventInv' /\ UNCHANGED vars
<1>1. status' = status
  BY Zenon DEF hcall_create_vm, EventInv, SchedInv, TypeOK, ThreadTypeOK, is_blocked
<1>2. UNCHANGED vars
  BY <1>1, Zenon DEF hcall_create_vm, vars, thread_vars
<1>3. \A t \in VcpuThread : ~running_code(t)
  BY VcpuFacts, Zenon DEF EventInv, SchedInv, OneRunner, is_running, is_blocked, running_code
<1>4. /\ set' = [t \in VcpuThread |-> [e \in EventId |-> FALSE]]
      /\ waiting_thread' = [t \in VcpuThread |-> [e \in EventId |-> NULL]]
      /\ wait_pc' = [t \in VcpuThread |-> "no"]
      /\ wait_on' = [t \in VcpuThread |-> NULL]
  BY <1>3, Zenon DEF hcall_create_vm
<1>5. SchedInv'
  BY <1>2, NextInv, Zenon DEF EventInv
<1>6. EventTypeOK' /\ ExclusiveWait' /\ AsleepIsRunning'
  BY <1>4, Zenon DEF EventTypeOK, ExclusiveWait, AsleepIsRunning
<1> QED
  BY <1>2, <1>5, <1>6, Zenon DEF EventInv

LEMMA LifeEvents ==
  ASSUME LifeTypeOK, EventInv, [LifeNext]_everything,
         hcall_create_vm => \A t \in VcpuThread : is_blocked(t)
  PROVE  EventInv'
<1>1. ASSUME hypercall PROVE EventInv'
  BY <1>1, LifecycleAssumption, SameEvents, LaunchEvents, ResetEvents, CreateEvents, Zenon
     DEF hypercall, pause_begin, pause_end, hcall_reset_vm, hcall_start_vm, hcall_destroy_vm
<1>2. ASSUME NEW t \in VcpuThread, vcpu_step(t) PROVE EventInv'
  <2>1. CASE process_init(t)
    BY Zenon, <2>1, PcFacts, ZombieEvents, SameEvents DEF process_init, allvars
  <2>2. CASE reset_target(t)
    BY <2>2, ResetEvents, Zenon DEF reset_target
  <2>3. CASE process_sipi(t)
    BY <2>3, PcFacts, LaunchEvents, SameEvents, Zenon DEF process_sipi, allvars
  <2>4. CASE process_fatal(t)
    BY Zenon, <2>4, ZombieEvents DEF process_fatal
  <2>5. CASE wait_returns(t)
    BY <2>5, RecheckInv, Zenon DEF wait_returns
  <2> QED
    BY <1>2, <2>1, <2>2, <2>3, <2>4, <2>5, Zenon DEF vcpu_step
<1>3. ASSUME NEW t \in VcpuThread,
             pause_vcpu(t) \/ lock_vm(t) \/ enter_guest(t) \/ halt(t) \/ interrupt(t)
      PROVE  EventInv'
  <2>1. CASE enter_guest(t)
    <3>1. reset(t, "VIRTUAL_INTERRUPT")
      BY <2>1, Zenon DEF enter_guest, reset
    <3> QED
      BY Zenon, <3>1, LifecycleAssumption, EventNextInv DEF EventNext
  <2> QED
    BY Zenon, <1>3, <2>1, LifecycleAssumption, ZombieEvents, SameEvents, WaitInv, SignalInv
       DEF pause_vcpu, lock_vm, halt, interrupt
<1>4. ASSUME NEW p \in Pcpu, life_boot(p) \/ life_switch(p) PROVE EventInv'
  BY <1>4, SwitchInv, EventNextInv, Zenon DEF life_boot, life_switch, EventNext
<1> QED
  BY <1>1, <1>2, <1>3, <1>4, SameEvents, Zenon DEF LifeNext, sync_done, everything

-----------------------------------------------------------------------------
(* The holder of vm_lock.  Only boot and schedule() change what a pCPU
   executes, and a thread that spins does not come to schedule(). *)

LEMMA WhoExecutes ==
  ASSUME LifeTypeOK, [LifeNext]_everything
  PROVE  UNCHANGED curr_obj \/ \E p \in Pcpu : life_boot(p) \/ life_switch(p)
<1> USE DEF LifeTypeOK
<1>1. \A t \in VcpuThread : sleep_thread(t) \/ wake_thread(t) => UNCHANGED curr_obj
  BY Zenon DEF sleep_thread, SleepStatus, wake_thread, WakeStatus
<1>2. UNCHANGED vars => UNCHANGED curr_obj
  BY Zenon DEF vars, thread_vars
<1>3. \A t \in VcpuThread, e \in EventId :
         wait_event(t, e) \/ signal_event(t, e) \/ recheck_event(t) => UNCHANGED curr_obj
  BY <1>1, <1>2 DEF wait_event, signal_event, recheck_event, EventTypeOK
<1>4. \A t \in VcpuThread, sync \in BOOLEAN :
         zombie_vcpu(t, sync) \/ launch_vcpu(t) => UNCHANGED curr_obj
  BY <1>1, <1>2, Zenon DEF zombie_vcpu, launch_vcpu
<1>5. CASE hypercall
  BY Zenon, <1>2, <1>4, <1>5, LifecycleAssumption DEF hypercall, pause_begin, pause_end,
     hcall_reset_vm,
     hcall_start_vm, hcall_destroy_vm, hcall_create_vm, allvars
<1>6. ASSUME NEW t \in VcpuThread, vcpu_step(t) PROVE UNCHANGED curr_obj
  <2>1. process_init(t) \/ process_sipi(t) => vm_pc[t].to \in VcpuThread
    BY Zenon, PcFacts DEF process_init, process_sipi
  <2> QED
    BY Zenon, <1>2, <1>3, <1>4, <1>6, <2>1, LifecycleAssumption DEF vcpu_step, process_init,
       reset_target,
       process_sipi, process_fatal, wait_returns
<1>7. ASSUME NEW t \in VcpuThread,
             pause_vcpu(t) \/ lock_vm(t) \/ enter_guest(t) \/ halt(t) \/ interrupt(t)
      PROVE  UNCHANGED curr_obj
  BY Zenon, <1>2, <1>3, <1>4, <1>7, LifecycleAssumption
     DEF pause_vcpu, lock_vm, enter_guest, halt, interrupt, allvars
<1>8. sync_done \/ UNCHANGED everything => UNCHANGED curr_obj
  BY <1>2, Zenon DEF sync_done, everything, allvars
<1> QED
  BY <1>5, <1>6, <1>7, <1>8, Zenon DEF LifeNext

LEMMA HolderStays ==
  ASSUME LifeTypeOK, [LifeNext]_everything, NEW t \in VcpuThread,
         running_code(t), vm_pc[t].op = "INIT"
  PROVE  running_code(t)'
<1>1. ASSUME NEW p \in Pcpu, life_boot(p) PROVE running_code(t)'
  BY <1>1, VcpuFacts, Zenon DEF life_boot, pcpu_boot, boot, run_thread, running_code, LifeTypeOK, TypeOK,
     ThreadTypeOK
<1>2. ASSUME NEW p \in Pcpu, life_switch(p) PROVE running_code(t)'
  <2>1. p # pcpu_id[t]
    BY <1>2, PcFacts, Zenon DEF life_switch, running_code
  <2> QED
    BY <1>2, <2>1, VcpuFacts DEF life_switch, switch, schedule, SwitchTo, running_code, LifeTypeOK,
       TypeOK, ThreadTypeOK
<1> QED
  BY <1>1, <1>2, WhoExecutes, Zenon DEF running_code

LEMMA LifeHolder ==
  ASSUME LifeTypeOK, LockInv, HolderInv, [LifeNext]_everything
  PROVE  HolderInv'
<1> SUFFICES ASSUME NEW t \in VcpuThread, vm_lock' = t PROVE Holder(t)'
  BY Zenon DEF HolderInv
<1>0. t # SOS /\ t # NULL
  BY LifecycleAssumption, VcpuFacts, Zenon
<1>1. CASE vm_lock # t
  <2>1. PICK x \in VcpuThread : process_init(x) /\ vm_lock' = x
    BY Zenon, <1>0, <1>1 DEF LifeNext, hypercall, vcpu_step, everything, life_vars, pause_begin,
       pause_end, hcall_reset_vm, hcall_start_vm,
       hcall_destroy_vm, hcall_create_vm, sync_done, life_boot, life_switch, pause_vcpu, lock_vm,
       process_init, reset_target, process_sipi, process_fatal, wait_returns, enter_guest, halt, interrupt
  <2>2. /\ running_code(t) /\ vm_pc[t].op = "INIT" /\ vm_pc' = vm_pc
        /\ zombie_vcpu(vm_pc[t].to, TRUE) /\ vm_pc[t].to \in VcpuThread
    BY Zenon, <1>1, <2>1, PcFacts DEF process_init
  <2>3. vcpu_state'[vm_pc[t].to] # "RUNNING"
    BY <2>2, Zenon DEF zombie_vcpu, LifeTypeOK
  <2> QED
    BY <2>2, <2>3, HolderStays, Zenon DEF Holder
<1>2. CASE vm_lock = t
  <2> DEFINE u == vm_pc[t].to
  <2>1. Holder(t) /\ u \in VcpuThread
    BY <1>2, PcFacts, Zenon DEF HolderInv, Holder
  <2>2. running_code(t)'
    BY <2>1, HolderStays, Zenon DEF Holder
  <2>3. vm_pc[t] \notin {entry, guest, stop}
    BY <2>1, PcFacts, Zenon DEF Holder
  <2>4. vm_pc'[t] = vm_pc[t] /\ (vcpu_state'[u] # "RUNNING" \/ vcpu_state'[u] = vcpu_state[u])
    <3> USE DEF LifeTypeOK, LockInv
    <3>1. CASE hypercall
      BY Zenon, <1>0, <1>2, <2>1, <3>1 DEF hypercall, pause_begin, pause_end, hcall_reset_vm,
         hcall_start_vm,
         hcall_destroy_vm, hcall_create_vm, Holder
    <3>2. ASSUME NEW x \in VcpuThread, vcpu_step(x)
          PROVE  vm_pc'[t] = vm_pc[t] /\ vcpu_state'[u] = vcpu_state[u]
      BY Zenon, <1>0, <1>2, <3>2 DEF vcpu_step, process_init, reset_target, process_sipi,
         process_fatal, wait_returns, life_vars
    <3>3. ASSUME NEW x \in VcpuThread,
                 pause_vcpu(x) \/ lock_vm(x) \/ enter_guest(x) \/ halt(x) \/ interrupt(x)
          PROVE  vm_pc'[t] = vm_pc[t] /\ vcpu_state'[u] = vcpu_state[u]
      <4>1. ~pause_vcpu(x)
        BY Zenon, <1>0, <1>2 DEF pause_vcpu
      <4>2. lock_vm(x) \/ enter_guest(x) \/ halt(x) => x # t
        BY <2>3, Zenon DEF lock_vm, in_guest, enter_guest, halt
      <4> QED
        BY <3>3, <4>1, <4>2, Zenon DEF lock_vm, enter_guest, halt, interrupt, life_vars
    <3>4. ASSUME NEW p \in Pcpu, life_boot(p) \/ life_switch(p)
          PROVE  vm_pc'[t] = vm_pc[t] /\ vcpu_state'[u] = vcpu_state[u]
      BY <2>3, <3>4, Zenon DEF life_boot, life_switch, life_vars
    <3>5. sync_done \/ UNCHANGED everything => vm_pc' = vm_pc /\ vcpu_state' = vcpu_state
      BY Zenon DEF sync_done, everything, life_vars
    <3> QED
      BY <3>1, <3>2, <3>3, <3>4, <3>5, Zenon DEF LifeNext
  <2> QED
    BY <2>1, <2>2, <2>4, Zenon DEF Holder
<1> QED
  BY <1>1, <1>2, Zenon

-----------------------------------------------------------------------------

(* The workloads under which a launch is not lost, and those under which
   hcall_create_vm finds the threads BLOCKED or is not called. *)
Promised == SourcesQuiet /\ NoneStops

ThreadsKept == Promised \/ "create" \notin Hypercalls

(* A vCPU that is parked is off its pCPU, unless the holder of the lock still
   waits for it or it has stopped and is about to leave; a VM that is not
   RUNNING has no RUNNING vCPU and nobody waits for one of its threads. *)
Parked(t) ==
    /\ vcpu_state[t] # "RUNNING" =>
           is_blocked(t) \/ (be_blocking[t] /\ (sync_on = t \/ vm_pc[t] = stop))
    /\ vm_state # "RUNNING" => vcpu_state[t] # "RUNNING"
    /\ sync_on = t => vm_state = "RUNNING" /\ vcpu_state[t] = "ZOMBIE"

ParkedInv == \A t \in VcpuThread : Parked(t)

(* A RUNNING vCPU leaves its pCPU for good only inside wait_event. *)
Launched(t) ==
    /\ vm_pc[t].op \notin {"FATAL", "stop"}
    /\ vcpu_state[t] = "RUNNING" =>
           /\ be_blocking[t] => wait_pc[t] = "asleep"
           /\ is_blocked(t) => wait_pc[t] # "no"

LaunchInv == \A t \in VcpuThread : Launched(t)

(* The inductive invariant. *)
LifeIInv ==
    /\ LifeTypeOK
    /\ LockInv /\ HolderInv
    /\ ThreadsKept => EventInv
    /\ ThreadsKept /\ SourcesQuiet => ParkedInv
    /\ Promised => LaunchInv

-----------------------------------------------------------------------------
(* Parked vCPUs. *)

LEMMA RunsIsNotBlocked ==
  ASSUME EventInv, NEW t \in VcpuThread, running_code(t)
  PROVE  is_running(t) /\ ~is_blocked(t)
  BY VcpuFacts, Zenon DEF EventInv, SchedInv, OneRunner, is_running, is_blocked, running_code

(* A step that is not about q. *)
LEMMA ParkedFrame ==
  ASSUME ParkedInv, NEW q \in VcpuThread,
         vcpu_state'[q] = vcpu_state[q], vm_state' = vm_state, sync_on' = sync_on,
         vcpu_state[q] # "RUNNING" /\ is_blocked(q) => is_blocked(q)',
         be_blocking[q] => be_blocking'[q] \/ is_blocked(q)',
         vm_pc[q] = stop => vm_pc'[q] = stop \/ is_blocked(q)' \/ vcpu_state[q] = "RUNNING"
  PROVE  Parked(q)'
  BY Zenon DEF ParkedInv, Parked

LEMMA ZombieParked ==
  ASSUME LifeTypeOK, ParkedInv, sync_on = NULL, UNCHANGED vm_state,
         NEW u \in VcpuThread, NEW sync \in BOOLEAN, zombie_vcpu(u, sync),
         vcpu_state[u] = "RUNNING" /\ ~sync => vm_pc'[u] = stop,
         \A q \in VcpuThread : vm_pc[q] = stop => vm_pc'[q] = stop
  PROVE  ParkedInv'
<1> SUFFICES ASSUME NEW q \in VcpuThread PROVE Parked(q)'
  BY Zenon DEF ParkedInv
<1> USE VcpuFacts
<1>1. Parked(q) /\ Parked(u)
  BY Zenon DEF ParkedInv
<1>2. CASE vcpu_state[u] = "RUNNING"
  <2>1. /\ sleep_thread(u) /\ vcpu_state' = [vcpu_state EXCEPT ![u] = "ZOMBIE"]
        /\ sync_on' = IF sync THEN u ELSE NULL
    BY <1>2, Zenon DEF zombie_vcpu
  <2>2. vm_state = "RUNNING"
    BY <1>1, <1>2, Zenon DEF Parked
  <2>3. CASE q = u
    <3>1. vcpu_state'[q] = "ZOMBIE" /\ (is_blocked(q)' \/ be_blocking'[q])
      BY <2>1, <2>3, SleepFacts, Zenon DEF LifeTypeOK, is_blocked
    <3> QED
      BY <1>2, <2>1, <2>2, <2>3, <3>1, Zenon DEF Parked
  <2>4. CASE q # u
    <3>1. vcpu_state'[q] = vcpu_state[q] /\ status'[q] = status[q] /\ be_blocking'[q] = be_blocking[q]
      BY <2>1, <2>4, SleepFacts DEF LifeTypeOK
    <3> QED
      BY <1>1, <2>1, <2>4, <3>1, Zenon DEF Parked, is_blocked
  <2> QED
    BY <2>3, <2>4, Zenon
<1>3. CASE vcpu_state[u] # "RUNNING"
  <2>1. /\ UNCHANGED vars /\ sync_on' = NULL
        /\ vcpu_state'[q] = "RUNNING" <=> vcpu_state[q] = "RUNNING"
    BY <1>3, Zenon DEF zombie_vcpu, LifeTypeOK
  <2>2. status' = status /\ be_blocking' = be_blocking
    BY <2>1, Zenon DEF vars, thread_vars
  <2> QED
    BY <1>1, <2>1, <2>2, Zenon DEF Parked, is_blocked
<1> QED
  BY <1>2, <1>3, Zenon

LEMMA LaunchParked ==
  ASSUME LifeTypeOK, ParkedInv, sync_on = NULL, UNCHANGED sync_on, vm_state' = "RUNNING",
         NEW u \in VcpuThread, launch_vcpu(u),
         \A q \in VcpuThread : vm_pc[q] = stop => vm_pc'[q] = stop
  PROVE  ParkedInv'
<1> SUFFICES ASSUME NEW q \in VcpuThread PROVE Parked(q)'
  BY Zenon DEF ParkedInv
<1> USE VcpuFacts
<1>1. CASE q = u
  <2>1. vcpu_state'[q] = "RUNNING"
    BY <1>1, Zenon DEF launch_vcpu, LifeTypeOK
  <2> QED
    BY <2>1, Zenon DEF Parked
<1>2. CASE q # u
  <2>1. vcpu_state'[q] = vcpu_state[q]
    BY <1>2, Zenon DEF launch_vcpu, LifeTypeOK
  <2>2. status'[q] = status[q] /\ be_blocking'[q] = be_blocking[q]
    BY <1>2, WakeFacts, Zenon DEF launch_vcpu, LifeTypeOK, vars, thread_vars
  <2> QED
    BY <2>1, <2>2, Zenon DEF Parked, ParkedInv, is_blocked
<1> QED
  BY <1>1, <1>2, Zenon

(* The vCPUs of S are reset, destroyed or created: none of them ran. *)
LEMMA ResetParked ==
  ASSUME LifeTypeOK, ParkedInv, sync_on = NULL, UNCHANGED <<vars, sync_on>>,
         NEW S \in SUBSET VcpuThread, \A q \in S : vcpu_state[q] # "RUNNING",
         \A q \in VcpuThread :
            IF q \in S THEN vcpu_state'[q] # "RUNNING" ELSE vcpu_state'[q] = vcpu_state[q],
         vm_state' = vm_state \/ S = VcpuThread,
         \A q \in VcpuThread : vm_pc[q] = stop => vm_pc'[q] = stop \/ is_blocked(q)
  PROVE  ParkedInv'
<1> SUFFICES ASSUME NEW q \in VcpuThread PROVE Parked(q)'
  BY Zenon DEF ParkedInv
<1>1. Parked(q) /\ status' = status /\ be_blocking' = be_blocking
  BY Zenon DEF ParkedInv, vars, thread_vars
<1> QED
  BY <1>1, VcpuFacts, Zenon DEF Parked, is_blocked

(* A vCPU that executes outside the wait of the lock holder, and has not
   stopped, is RUNNING, and so is its VM. *)
LEMMA SpinnerRuns ==
  ASSUME LifeTypeOK, EventInv, ParkedInv, sync_on = NULL, NEW t \in VcpuThread,
         running_code(t), vm_pc[t] # stop
  PROVE  vcpu_state[t] = "RUNNING" /\ vm_state = "RUNNING"
  BY RunsIsNotBlocked, VcpuFacts, Zenon DEF ParkedInv, Parked

LEMMA HypercallParked ==
  ASSUME LifeTypeOK, LockInv, EventInv, ParkedInv, hypercall,
         hcall_create_vm => \A t \in VcpuThread : is_blocked(t)
  PROVE  ParkedInv'
<1> USE LifecycleAssumption, VcpuFacts
<1>1. CASE pause_begin
  BY <1>1, Zenon DEF pause_begin, allvars, vars, thread_vars, ParkedInv, Parked, is_blocked
<1>2. CASE pause_end
  <2>1. /\ sync_on = NULL /\ UNCHANGED <<vars, sync_on, vcpu_state, vm_pc>>
        /\ \A q \in VcpuThread : vcpu_state[q] = "ZOMBIE"
    BY <1>2, Zenon DEF pause_end, allvars
  <2> QED
    BY <2>1, ResetParked, Zenon
<1>3. CASE hcall_reset_vm
  <2>1. /\ sync_on = NULL /\ UNCHANGED <<vars, sync_on, vm_pc>>
        /\ \A q \in VcpuThread : vcpu_state'[q] = "INIT" /\ vcpu_state[q] # "RUNNING"
    BY <1>3, Zenon DEF hcall_reset_vm, LockInv, ParkedInv, Parked
  <2> QED
    BY <2>1, ResetParked, Zenon
<1>4. CASE hcall_start_vm
  BY <1>4, LaunchParked, Zenon DEF hcall_start_vm, LockInv
<1>5. CASE hcall_destroy_vm
  <2>1. /\ sync_on = NULL /\ UNCHANGED <<vars, sync_on, vm_pc>>
        /\ \A q \in VcpuThread : vcpu_state'[q] = "OFFLINE" /\ vcpu_state[q] # "RUNNING"
    BY <1>5, Zenon DEF hcall_destroy_vm, LockInv, ParkedInv, Parked, allvars
  <2> QED
    BY <2>1, ResetParked, Zenon
<1>6. CASE hcall_create_vm
  <2>1. UNCHANGED <<vars, sync_on>> /\ vm_state = "POWERED_OFF"
    BY <1>6, CreateEvents, Zenon DEF hcall_create_vm
  <2>2. sync_on = NULL
    BY <2>1, Zenon DEF LifeTypeOK, ParkedInv, Parked
  <2>3. \A q \in VcpuThread : vcpu_state'[q] = "INIT" /\ vcpu_state[q] # "RUNNING"
    BY <1>6, <2>1, Zenon DEF hcall_create_vm, ParkedInv, Parked
  <2> QED
    BY <1>6, <2>1, <2>2, <2>3, ResetParked, Zenon
<1> QED
  BY <1>1, <1>2, <1>3, <1>4, <1>5, <1>6, Zenon DEF hypercall

LEMMA VcpuStepParked ==
  ASSUME LifeTypeOK, LockInv, HolderInv, EventInv, ParkedInv, NEW t \in VcpuThread, vcpu_step(t)
  PROVE  ParkedInv'
<1> DEFINE u == vm_pc[t].to
<1> USE VcpuFacts
<1>0. vm_pc[t].op \in {"INIT", "SIPI", "FATAL"} => vm_pc[t] # stop /\ u \in VcpuThread
  BY PcFacts, Zenon DEF stop
<1>00. ASSUME UNCHANGED <<vars, vcpu_state, vm_state, sync_on>>, vm_pc[t] # stop,
              vm_pc' = [vm_pc EXCEPT ![t] = entry]
       PROVE  ParkedInv'
  BY <1>00, Zenon DEF LifeTypeOK, ParkedInv, Parked, is_blocked, vars, thread_vars
<1>1. CASE process_init(t)
  <2>0. vm_lock = NULL /\ sync_on = NULL /\ u \in VcpuThread /\ vm_pc[t] # stop
    BY <1>0, <1>1, Zenon DEF process_init, LockInv
  <2>1. CASE vcpu_state[u] = "INIT"
    BY <1>00, <1>1, <2>0, <2>1, Zenon DEF process_init
  <2>2. CASE vcpu_state[u] # "INIT"
    <3>1. zombie_vcpu(u, TRUE) /\ UNCHANGED <<vm_pc, vm_state>>
      BY Zenon, <1>1, <2>2 DEF process_init
    <3> QED
      BY Zenon, <2>0, <3>1, ZombieParked
  <2> QED
    BY <2>1, <2>2, Zenon
<1>2. CASE reset_target(t)
  <2>1. /\ u \in VcpuThread /\ vm_pc[t] # stop /\ sync_on = NULL
        /\ UNCHANGED <<vars, vm_state, sync_on>> /\ vcpu_state[u] # "RUNNING"
        /\ vcpu_state' = [vcpu_state EXCEPT ![u] = "INIT"]
        /\ vm_pc' = [vm_pc EXCEPT ![t] = entry]
    BY <1>0, <1>2, Zenon DEF reset_target, HolderInv, Holder
  <2>2. \A q \in VcpuThread :
            IF q \in {u} THEN vcpu_state'[q] # "RUNNING" ELSE vcpu_state'[q] = vcpu_state[q]
    BY <2>1, Zenon DEF LifeTypeOK
  <2>3. \A q \in VcpuThread : vm_pc[q] = stop => vm_pc'[q] = stop
    BY <2>1, Zenon DEF LifeTypeOK
  <2>4. {u} \in SUBSET VcpuThread /\ \A q \in {u} : vcpu_state[q] # "RUNNING"
    BY <2>1, Zenon
  <2>5. UNCHANGED <<vars, sync_on>> /\ vm_state' = vm_state
    BY <2>1, Zenon
  <2> QED
    BY Zenon, <2>1, <2>2, <2>3, <2>4, <2>5, ResetParked
<1>3. CASE process_sipi(t)
  <2>1. /\ sync_on = NULL /\ u \in VcpuThread /\ vm_pc[t] # stop /\ running_code(t)
        /\ UNCHANGED <<sync_on, vm_state>> /\ vm_pc' = [vm_pc EXCEPT ![t] = entry]
    BY <1>0, <1>3, Zenon DEF process_sipi, LockInv
  <2>2. CASE vcpu_state[u] = "INIT" /\ nr_sipi[u] # 0
    <3>1. launch_vcpu(u) /\ vm_state = "RUNNING"
      BY <1>3, <2>1, <2>2, SpinnerRuns, Zenon DEF process_sipi
    <3>2. \A q \in VcpuThread : vm_pc[q] = stop => vm_pc'[q] = stop
      BY <2>1, Zenon DEF LifeTypeOK
    <3> QED
      BY <2>1, <3>1, <3>2, LaunchParked, Zenon
  <2>3. CASE ~(vcpu_state[u] = "INIT" /\ nr_sipi[u] # 0)
    BY <1>00, <1>3, <2>1, <2>3, Zenon DEF process_sipi
  <2> QED
    BY <2>2, <2>3, Zenon
<1>4. CASE process_fatal(t)
  <2>1. /\ sync_on = NULL /\ zombie_vcpu(t, FALSE) /\ UNCHANGED vm_state
        /\ vm_pc[t] # stop
        /\ vm_pc' = [vm_pc EXCEPT ![t] = IF vcpu_state[t] = "RUNNING" THEN stop ELSE entry]
    BY Zenon, <1>0, <1>4 DEF process_fatal, LockInv
  <2>2. /\ vcpu_state[t] = "RUNNING" => vm_pc'[t] = stop
        /\ \A q \in VcpuThread : vm_pc[q] = stop => vm_pc'[q] = stop
    BY <2>1, Zenon DEF LifeTypeOK
  <2> QED
    BY Zenon, <2>1, <2>2, ZombieParked
<1>5. CASE wait_returns(t)
  <2>1. ASSUME NEW q \in VcpuThread PROVE Parked(q)'
    <3>1. sleep_thread(t) \/ UNCHANGED vars
      BY <1>5 DEF wait_returns, recheck_event, EventInv, EventTypeOK, ExclusiveWait
    <3>2. /\ is_blocked(q) => is_blocked(q)'
          /\ be_blocking[q] => be_blocking'[q]
      BY <3>1, SleepFacts, Zenon DEF LifeTypeOK, vars, thread_vars, is_blocked, is_running
    <3> QED
      BY <1>5, <3>2, ParkedFrame, Zenon DEF wait_returns, life_vars
  <2> QED
    BY <2>1, Zenon DEF ParkedInv
<1> QED
  BY <1>1, <1>2, <1>3, <1>4, <1>5, Zenon DEF vcpu_step

LEMMA OtherParked ==
  ASSUME LifeTypeOK, LockInv, EventInv, ParkedInv, SourcesQuiet, NEW t \in VcpuThread,
         pause_vcpu(t) \/ lock_vm(t) \/ enter_guest(t) \/ halt(t) \/ interrupt(t)
  PROVE  ParkedInv'
<1>1. CASE pause_vcpu(t)
  BY Zenon, <1>1, ZombieParked DEF pause_vcpu
<1>2. CASE ~pause_vcpu(t)
  <2>0. guest # stop /\ entry # stop
    BY Zenon DEF guest, stop, entry
  <2>1. UNCHANGED <<vcpu_state, vm_state, sync_on>>
    BY <1>2, Zenon DEF lock_vm, enter_guest, halt, interrupt, life_vars
  <2>2. \A q \in VcpuThread : vm_pc[q] = stop => vm_pc'[q] = stop
    BY <1>2, <2>0, Zenon DEF lock_vm, in_guest, enter_guest, halt, interrupt, life_vars, LifeTypeOK
  <2>3. \/ UNCHANGED vars
        \/ sleep_thread(t)
        \/ wake_thread(t) /\ vcpu_state[t] = "RUNNING"
    <3>1. lock_vm(t) \/ enter_guest(t) => UNCHANGED vars
      BY Zenon DEF lock_vm, enter_guest, allvars
    <3>2. halt(t) => UNCHANGED vars \/ sleep_thread(t)
      BY Zenon DEF halt, wait_event
    <3>3. interrupt(t) => UNCHANGED vars \/ (wake_thread(t) /\ vcpu_state[t] = "RUNNING")
      BY LifecycleAssumption DEF interrupt, signal_event, EventInv, ExclusiveWait, SourcesQuiet
    <3> QED
      BY <1>2, <3>1, <3>2, <3>3, Zenon
  <2>4. ASSUME NEW q \in VcpuThread PROVE Parked(q)'
    <3>1. /\ vcpu_state[q] # "RUNNING" /\ is_blocked(q) => is_blocked(q)'
          /\ be_blocking[q] => be_blocking'[q]
      BY <2>3, SleepFacts, WakeFacts, Zenon DEF LifeTypeOK, vars, thread_vars, is_blocked, is_running
    <3> QED
      BY <2>1, <2>2, <3>1, ParkedFrame, Zenon
  <2> QED
    BY <2>4, Zenon DEF ParkedInv
<1> QED
  BY <1>1, <1>2, Zenon

LEMMA PcpuParked ==
  ASSUME LifeTypeOK, EventInv, ParkedInv, NEW p \in Pcpu, life_boot(p) \/ life_switch(p)
  PROVE  ParkedInv'
<1> SUFFICES ASSUME NEW q \in VcpuThread PROVE Parked(q)'
  BY Zenon DEF ParkedInv
<1>1. CASE life_boot(p)
  <2>1. UNCHANGED <<vcpu_state, vm_state, sync_on, vm_pc, be_blocking>>
    BY <1>1, Zenon DEF life_boot, life_vars, pcpu_boot, boot, run_thread
  <2>2. status'[q] = status[q]
    BY <1>1, VcpuFacts, ThreadAssumption DEF life_boot, pcpu_boot, boot, run_thread, VcpuThread,
       is_idle_thread, LifeTypeOK, TypeOK, ThreadTypeOK
  <2> QED
    BY <2>1, <2>2, ParkedFrame, Zenon DEF is_blocked
<1>2. CASE life_switch(p)
  <2>1. schedule(p) /\ UNCHANGED <<vcpu_state, vm_state, sync_on>>
    BY <1>2, Zenon DEF life_switch, switch
  <2>2. /\ is_blocked(q) => is_blocked(q)'
        /\ be_blocking[q] => be_blocking'[q] \/ is_blocked(q)'
        /\ be_blocking[q] /\ curr_obj[p] = q => is_blocked(q)'
    BY <2>1, ScheduleFacts, Zenon DEF EventInv
  <2>3. curr_obj[p] # q => vm_pc'[q] = vm_pc[q]
    BY <1>2, Zenon DEF life_switch, LifeTypeOK
  <2>4. vcpu_state[q] # "RUNNING" => is_blocked(q) \/ be_blocking[q]
    BY Zenon DEF ParkedInv, Parked
  <2> QED
    BY <2>1, <2>2, <2>3, <2>4, ParkedFrame, Zenon
<1> QED
  BY <1>1, <1>2, Zenon

LEMMA LifeParked ==
  ASSUME LifeTypeOK, LockInv, HolderInv, EventInv, ParkedInv, SourcesQuiet, [LifeNext]_everything,
         hcall_create_vm => \A t \in VcpuThread : is_blocked(t)
  PROVE  ParkedInv'
<1>1. CASE sync_done
  BY <1>1, VcpuFacts, Zenon DEF sync_done, allvars, vars, thread_vars, ParkedInv, Parked, is_blocked
<1>2. CASE UNCHANGED everything
  BY Zenon, <1>2 DEF everything, life_vars, allvars, vars, thread_vars, ParkedInv, Parked, is_blocked
<1> QED
  BY <1>1, <1>2, HypercallParked, VcpuStepParked, OtherParked, PcpuParked, Zenon DEF LifeNext

-----------------------------------------------------------------------------
(* A launch is not lost. *)

LEMMA LaunchedFrame ==
  ASSUME LaunchInv, NEW q \in VcpuThread, vm_pc'[q].op \notin {"FATAL", "stop"},
         vcpu_state'[q] = "RUNNING" => vcpu_state[q] = "RUNNING",
         wait_pc'[q] = wait_pc[q], be_blocking'[q] => be_blocking[q],
         is_blocked(q)' => is_blocked(q)
  PROVE  Launched(q)'
  BY Zenon DEF LaunchInv, Launched

(* zombie_vcpu touches only the thread of a vCPU it takes out of RUNNING. *)
LEMMA ZombieLaunched ==
  ASSUME LifeTypeOK, LaunchInv, NEW t \in VcpuThread, NEW sync \in BOOLEAN, zombie_vcpu(t, sync),
         UNCHANGED <<wait_pc, vm_pc>>
  PROVE  LaunchInv'
<1> SUFFICES ASSUME NEW q \in VcpuThread PROVE Launched(q)'
  BY Zenon DEF LaunchInv
<1>0. vm_pc'[q].op \notin {"FATAL", "stop"}
  BY Zenon DEF LaunchInv, Launched
<1>1. CASE vcpu_state[t] = "RUNNING"
  <2>1. sleep_thread(t) /\ vcpu_state' = [vcpu_state EXCEPT ![t] = "ZOMBIE"]
    BY <1>1, Zenon DEF zombie_vcpu
  <2>2. CASE q = t
    BY <1>0, <2>1, <2>2, Zenon DEF Launched, LifeTypeOK
  <2>3. CASE q # t
    BY <1>0, <2>1, <2>3, SleepFacts, LaunchedFrame DEF LifeTypeOK, is_blocked
  <2> QED
    BY <2>2, <2>3, Zenon
<1>2. CASE vcpu_state[t] # "RUNNING"
  <2>1. UNCHANGED vars /\ (vcpu_state'[q] = "RUNNING" => vcpu_state[q] = "RUNNING")
    BY <1>2, Zenon DEF zombie_vcpu, LifeTypeOK
  <2> QED
    BY <1>0, <2>1, LaunchedFrame, Zenon DEF vars, thread_vars, is_blocked
<1> QED
  BY <1>1, <1>2, Zenon

(* launch_vcpu finds the thread of a parked vCPU that nobody waits for BLOCKED. *)
LEMMA LaunchLaunched ==
  ASSUME LifeTypeOK, EventInv, ParkedInv, LaunchInv, NEW t \in VcpuThread, launch_vcpu(t),
         sync_on = NULL, vcpu_state[t] # "RUNNING", UNCHANGED wait_pc,
         \A q \in VcpuThread : vm_pc'[q].op \notin {"FATAL", "stop"}
  PROVE  LaunchInv'
<1> SUFFICES ASSUME NEW q \in VcpuThread PROVE Launched(q)'
  BY Zenon DEF LaunchInv
<1>1. vm_pc[t].op # "stop"
  BY Zenon DEF LaunchInv, Launched
<1>2. vm_pc[t] # stop
  BY <1>1 DEF stop
<1>3. is_blocked(t)
  BY <1>2, VcpuFacts, Zenon DEF ParkedInv, Parked
<1>4. wake_thread(t) /\ vcpu_state' = [vcpu_state EXCEPT ![t] = "RUNNING"]
  BY <1>3, Zenon DEF launch_vcpu
<1>5. CASE q = t
  <2>1. ~be_blocking[t]
    BY <1>3, VcpuFacts, Zenon DEF EventInv, SchedInv, BlockingIsPending, is_blocked, is_running
  <2>2. ~be_blocking'[t] /\ ~is_blocked(t)'
    BY <1>4, <2>1, WakeFacts, Zenon DEF LifeTypeOK, is_blocked
  <2> QED
    BY <1>5, <2>2, Zenon DEF Launched
<1>6. CASE q # t
  BY <1>4, <1>6, WakeFacts, LaunchedFrame, Zenon DEF LifeTypeOK, is_blocked
<1> QED
  BY <1>5, <1>6, Zenon

LEMMA HypercallLaunched ==
  ASSUME LifeTypeOK, LockInv, EventInv, ParkedInv, LaunchInv, hypercall
  PROVE  LaunchInv'
<1> USE LifecycleAssumption
<1>0. ASSUME UNCHANGED <<vars, wait_pc, vm_pc>>,
             \A q \in VcpuThread : vcpu_state'[q] = "RUNNING" => vcpu_state[q] = "RUNNING"
      PROVE  LaunchInv'
  BY <1>0, Zenon DEF LaunchInv, Launched, vars, thread_vars, is_blocked
<1>1. CASE pause_begin \/ pause_end
  BY <1>0, <1>1, Zenon DEF pause_begin, pause_end, allvars, event_vars
<1>2. CASE hcall_reset_vm
  BY <1>0, <1>2, Zenon DEF hcall_reset_vm, vcpu_reset_internal
<1>3. CASE hcall_start_vm
  <2>1. \A q \in VcpuThread : vm_pc'[q].op \notin {"FATAL", "stop"}
    BY <1>3, Zenon DEF hcall_start_vm, LaunchInv, Launched
  <2>2. launch_vcpu(BSP) /\ sync_on = NULL /\ vcpu_state[BSP] # "RUNNING" /\ UNCHANGED wait_pc
    BY <1>3, Zenon DEF hcall_start_vm, LockInv, ParkedInv, Parked, event_vars
  <2> QED
    BY <2>1, <2>2, LaunchLaunched, Zenon
<1>4. CASE hcall_destroy_vm
  BY <1>0, <1>4, Zenon DEF hcall_destroy_vm, allvars, event_vars
<1>5. CASE hcall_create_vm
  <2>1. \A q \in VcpuThread : vcpu_state'[q] # "RUNNING"
    BY <1>5, Zenon DEF hcall_create_vm
  <2>2. \A q \in VcpuThread : vm_pc'[q] = vm_pc[q] \/ vm_pc'[q] = entry
    BY <1>5, Zenon DEF hcall_create_vm
  <2> QED
    BY <2>1, <2>2 DEF LaunchInv, Launched, entry
<1> QED
  BY <1>1, <1>2, <1>3, <1>4, <1>5, Zenon DEF hypercall

LEMMA VcpuStepLaunched ==
  ASSUME LifeTypeOK, LockInv, EventInv, ParkedInv, LaunchInv, NEW t \in VcpuThread, vcpu_step(t)
  PROVE  LaunchInv'
<1> DEFINE u == vm_pc[t].to
<1>0. vm_pc[t].op \in {"INIT", "SIPI"} => u \in VcpuThread
  BY PcFacts, Zenon
<1>1. ASSUME vm_pc' = [vm_pc EXCEPT ![t] = entry]
      PROVE  \A q \in VcpuThread : vm_pc'[q].op \notin {"FATAL", "stop"}
  <2>1. \A q \in VcpuThread : vm_pc'[q] = vm_pc[q] \/ vm_pc'[q] = entry
    BY <1>1, Zenon DEF LifeTypeOK
  <2> QED
    BY <2>1 DEF LaunchInv, Launched, entry
<1>2. ASSUME UNCHANGED <<vars, wait_pc>>, vm_pc' = [vm_pc EXCEPT ![t] = entry],
             \A q \in VcpuThread : vcpu_state'[q] = "RUNNING" => vcpu_state[q] = "RUNNING"
      PROVE  LaunchInv'
  BY <1>1, <1>2, Zenon DEF LaunchInv, Launched, vars, thread_vars, is_blocked
<1>3. CASE process_init(t)
  <2>1. CASE vcpu_state[u] = "INIT"
    BY <1>2, <1>3, <2>1, Zenon DEF process_init, event_vars
  <2>2. CASE vcpu_state[u] # "INIT"
    <3>1. u \in VcpuThread /\ zombie_vcpu(u, TRUE) /\ UNCHANGED <<wait_pc, vm_pc>>
      BY Zenon, <1>0, <1>3, <2>2 DEF process_init, event_vars
    <3> QED
      BY Zenon, <3>1, ZombieLaunched
  <2> QED
    BY <2>1, <2>2, Zenon
<1>4. CASE reset_target(t)
  <2>1. \A q \in VcpuThread : vcpu_state'[q] = "RUNNING" => vcpu_state[q] = "RUNNING"
    BY <1>0, <1>4, Zenon DEF reset_target, LifeTypeOK
  <2> QED
    BY <1>2, <1>4, <2>1, Zenon DEF reset_target, vcpu_reset_internal
<1>5. CASE process_sipi(t)
  <2>1. CASE vcpu_state[u] = "INIT" /\ nr_sipi[u] # 0
    <3>1. /\ u \in VcpuThread /\ launch_vcpu(u) /\ UNCHANGED wait_pc
          /\ sync_on = NULL /\ vcpu_state[u] # "RUNNING"
          /\ vm_pc' = [vm_pc EXCEPT ![t] = entry]
      BY <1>0, <1>5, <2>1, Zenon DEF process_sipi, LockInv, event_vars
    <3> QED
      BY <1>1, <3>1, LaunchLaunched, Zenon
  <2>2. CASE ~(vcpu_state[u] = "INIT" /\ nr_sipi[u] # 0)
    BY <1>2, <1>5, <2>2, Zenon DEF process_sipi, event_vars
  <2> QED
    BY <2>1, <2>2, Zenon
<1>6. CASE process_fatal(t)
  BY Zenon, <1>6 DEF process_fatal, LaunchInv, Launched
<1>7. CASE wait_returns(t)
  <2> SUFFICES ASSUME NEW q \in VcpuThread PROVE Launched(q)'
    BY Zenon DEF LaunchInv
  <2>0. UNCHANGED <<vm_pc, vcpu_state>> /\ running_code(t) /\ wait_pc[t] = "relock"
    BY Zenon, <1>7 DEF wait_returns, life_vars, recheck_event
  <2>1. CASE UNCHANGED vars
    <3>1. ~is_blocked(t) /\ (vcpu_state[t] = "RUNNING" => ~be_blocking[t])
      BY <2>0, RunsIsNotBlocked, Zenon DEF LaunchInv, Launched
    <3>2. q # t => wait_pc'[q] = wait_pc[q]
      BY <1>7, Zenon DEF wait_returns, recheck_event, leave_wait, LifeTypeOK, EventTypeOK
    <3> QED
      BY <2>0, <2>1, <3>1, <3>2, Zenon DEF LaunchInv, Launched, vars, thread_vars, is_blocked
  <2>2. CASE ~UNCHANGED vars
    <3>1. sleep_thread(t) /\ wait_pc' = [wait_pc EXCEPT ![t] = "asleep"]
      BY <1>7, <2>2 DEF wait_returns, recheck_event, EventInv, EventTypeOK, ExclusiveWait
    <3>2. /\ q = t => wait_pc'[q] = "asleep"
          /\ q # t => wait_pc'[q] = wait_pc[q]
      BY <3>1, Zenon DEF LifeTypeOK, EventTypeOK
    <3>3. q # t => status'[q] = status[q] /\ be_blocking'[q] = be_blocking[q]
      BY <3>1, SleepFacts, Zenon DEF LifeTypeOK
    <3> QED
      BY <2>0, <3>2, <3>3, Zenon DEF LaunchInv, Launched, is_blocked
  <2> QED
    BY <2>1, <2>2, Zenon
<1> QED
  BY <1>3, <1>4, <1>5, <1>6, <1>7, Zenon DEF vcpu_step

LEMMA OtherLaunched ==
  ASSUME LifeTypeOK, EventInv, LaunchInv, NoneStops, NEW t \in VcpuThread,
         pause_vcpu(t) \/ lock_vm(t) \/ enter_guest(t) \/ halt(t) \/ interrupt(t)
  PROVE  LaunchInv'
<1>1. CASE pause_vcpu(t)
  BY Zenon, <1>1, ZombieLaunched DEF pause_vcpu, event_vars
<1>2. ASSUME NEW q \in VcpuThread, lock_vm(t) \/ enter_guest(t)
      PROVE  Launched(q)'
  <2>1. UNCHANGED <<vars, wait_pc, vcpu_state>>
    BY Zenon, <1>2 DEF lock_vm, enter_guest, allvars, event_vars
  <2>2. vm_pc'[q] = vm_pc[q] \/ vm_pc'[q] = guest \/ vm_pc'[q].op \in {"INIT", "SIPI"}
    BY <1>2 DEF lock_vm, enter_guest, NoneStops, LifeTypeOK
  <2>3. vm_pc'[q].op \notin {"FATAL", "stop"}
    <3>1. vm_pc[q].op \notin {"FATAL", "stop"}
      BY Zenon DEF LaunchInv, Launched
    <3>2. guest.op = "guest"
      BY Zenon DEF guest
    <3> QED
      BY <2>2, <3>1, <3>2, Zenon
  <2> QED
    BY <2>1, <2>3, LaunchedFrame, Zenon DEF vars, thread_vars, is_blocked
<1>3. ASSUME NEW q \in VcpuThread, halt(t)
      PROVE  Launched(q)'
  <2>1. UNCHANGED vcpu_state /\ (vm_pc'[q] = vm_pc[q] \/ vm_pc'[q] = entry)
    BY <1>3, Zenon DEF halt, LifeTypeOK
  <2>2. vm_pc'[q].op \notin {"FATAL", "stop"}
    BY <2>1 DEF LaunchInv, Launched, entry
  <2>3. CASE UNCHANGED <<vars, wait_pc>>
    BY <2>1, <2>2, <2>3, Zenon DEF LaunchInv, Launched, vars, thread_vars, is_blocked
  <2>4. CASE sleep_thread(t) /\ wait_pc' = [wait_pc EXCEPT ![t] = "asleep"]
    <3>1. /\ q = t => wait_pc'[q] = "asleep"
          /\ q # t => wait_pc'[q] = wait_pc[q]
      BY <2>4, Zenon DEF LifeTypeOK, EventTypeOK
    <3>2. q # t => status'[q] = status[q] /\ be_blocking'[q] = be_blocking[q]
      BY <2>4, SleepFacts, Zenon DEF LifeTypeOK
    <3> QED
      BY <2>1, <2>2, <3>1, <3>2, Zenon DEF LaunchInv, Launched, is_blocked
  <2> QED
    BY <1>3, <2>3, <2>4, Zenon DEF halt, wait_event
<1>4. ASSUME NEW q \in VcpuThread, interrupt(t)
      PROVE  Launched(q)'
  <2>1. UNCHANGED <<vcpu_state, vm_pc, wait_pc>> /\ (UNCHANGED vars \/ wake_thread(t))
    BY <1>4, LifecycleAssumption DEF interrupt, life_vars, signal_event, EventInv, ExclusiveWait
  <2>2. (be_blocking'[q] => be_blocking[q]) /\ (is_blocked(q)' => is_blocked(q))
    BY <2>1, WakeFacts, Zenon DEF LifeTypeOK, vars, thread_vars, is_blocked
  <2> QED
    BY <2>1, <2>2, Zenon DEF LaunchInv, Launched
<1> QED
  BY <1>1, <1>2, <1>3, <1>4, Zenon DEF LaunchInv

LEMMA PcpuLaunched ==
  ASSUME LifeTypeOK, EventInv, EventInv', LaunchInv, NEW p \in Pcpu,
         life_boot(p) \/ life_switch(p)
  PROVE  LaunchInv'
<1> SUFFICES ASSUME NEW q \in VcpuThread PROVE Launched(q)'
  BY Zenon DEF LaunchInv
<1>1. CASE life_boot(p)
  <2>1. UNCHANGED <<vcpu_state, vm_pc, wait_pc, be_blocking>>
    BY <1>1, Zenon DEF life_boot, life_vars, pcpu_boot, boot, run_thread, event_vars
  <2>2. status'[q] = status[q]
    BY <1>1, VcpuFacts, ThreadAssumption DEF life_boot, pcpu_boot, boot, run_thread, VcpuThread,
       is_idle_thread, LifeTypeOK, TypeOK, ThreadTypeOK
  <2> QED
    BY <2>1, <2>2, Zenon DEF LaunchInv, Launched, is_blocked
<1>2. CASE life_switch(p)
  <2>1. schedule(p) /\ UNCHANGED vcpu_state /\ (vm_pc'[q] = vm_pc[q] \/ vm_pc'[q] = entry)
    BY <1>2, Zenon DEF life_switch, switch, LifeTypeOK
  <2>2. vm_pc'[q].op \notin {"FATAL", "stop"}
    <3>1. vm_pc[q].op \notin {"FATAL", "stop"}
      BY Zenon DEF LaunchInv, Launched
    <3>2. entry.op = "entry"
      BY Zenon DEF entry
    <3> QED
      BY <2>1, <3>1, <3>2, Zenon
  <2>3. /\ is_blocked(q)' => is_blocked(q) \/ (be_blocking[q] /\ curr_obj[p] = q)
        /\ be_blocking'[q] => be_blocking[q]
        /\ be_blocking[q] /\ curr_obj[p] = q => is_blocked(q)'
    BY <2>1, ScheduleFacts, Zenon DEF EventInv
  <2>4. is_blocked(q)' => ~be_blocking'[q]
    BY VcpuFacts, Zenon DEF EventInv, SchedInv, BlockingIsPending, is_blocked, is_running
  <2>5. /\ curr_obj[p] # q => wait_pc'[q] = wait_pc[q]
        /\ wait_pc[q] # "no" => wait_pc'[q] # "no"
    BY <1>2, Zenon DEF life_switch, switch, LifeTypeOK, EventTypeOK
  <2> QED
    BY <2>1, <2>2, <2>3, <2>4, <2>5, Zenon DEF LaunchInv, Launched
<1> QED
  BY <1>1, <1>2, Zenon

LEMMA LifeLaunched ==
  ASSUME LifeTypeOK, LockInv, EventInv, EventInv', ParkedInv, LaunchInv, NoneStops,
         [LifeNext]_everything
  PROVE  LaunchInv'
<1>1. CASE sync_done \/ UNCHANGED everything
  BY <1>1, Zenon DEF sync_done, everything, life_vars, allvars, event_vars, vars, thread_vars,
     LaunchInv, Launched, is_blocked
<1> QED
  BY <1>1, HypercallLaunched, VcpuStepLaunched, OtherLaunched, PcpuLaunched, Zenon DEF LifeNext

-----------------------------------------------------------------------------
(* The invariant. *)

LEMMA LifeInitInv == LifeInit => LifeIInv
<1> SUFFICES ASSUME LifeInit PROVE LifeIInv
  OBVIOUS
<1>1. EventInv
  BY EventInitInv, Zenon DEF LifeInit
<1>2. LifeTypeOK
  BY <1>1 DEF LifeInit, LifeTypeOK, EventInv, SchedInv
<1>3. LockInv /\ HolderInv
  BY VcpuFacts, LifecycleAssumption, Zenon DEF LifeInit, LockInv, HolderInv
<1>4. ParkedInv
  <2>1. \A t \in VcpuThread : is_blocked(t)
    BY VcpuFacts, Zenon DEF LifeInit, EventInit, Init, ThreadInit, is_blocked, VcpuThread
  <2> QED
    BY <2>1, VcpuFacts, Zenon DEF LifeInit, ParkedInv, Parked
<1>5. LaunchInv
  BY Zenon DEF LifeInit, LaunchInv, Launched, entry
<1> QED
  BY <1>1, <1>2, <1>3, <1>4, <1>5, Zenon DEF LifeIInv

LEMMA SameWorkload ==
  ASSUME [LifeNext]_everything
  PROVE  UNCHANGED workload
<1>1. hypercall => UNCHANGED workload
  BY Zenon DEF hypercall, pause_begin, pause_end, hcall_reset_vm, hcall_start_vm, hcall_destroy_vm,
     hcall_create_vm
<1>2. \A t \in VcpuThread : vcpu_step(t) => UNCHANGED workload
  BY Zenon DEF vcpu_step, process_init, reset_target, process_sipi, process_fatal, wait_returns,
     life_vars
<1>3. \A t \in VcpuThread :
         pause_vcpu(t) \/ lock_vm(t) \/ enter_guest(t) \/ halt(t) \/ interrupt(t) =>
             UNCHANGED workload
  BY Zenon DEF pause_vcpu, lock_vm, enter_guest, halt, interrupt, life_vars
<1>4. \A p \in Pcpu : life_boot(p) \/ life_switch(p) => UNCHANGED workload
  BY Zenon DEF life_boot, life_switch, life_vars
<1>5. sync_done \/ UNCHANGED everything => UNCHANGED workload
  BY Zenon DEF sync_done, everything, life_vars
<1> QED
  BY <1>1, <1>2, <1>3, <1>4, <1>5, Zenon DEF LifeNext

(* A VM that is not RUNNING has only BLOCKED threads, when none stops. *)
LEMMA NotRunningIsBlocked ==
  ASSUME ParkedInv, LaunchInv, vm_state # "RUNNING", NEW t \in VcpuThread
  PROVE  is_blocked(t)
<1>1. vm_pc[t] # stop
  BY DEF LaunchInv, Launched, stop
<1> QED
  BY <1>1, Zenon DEF ParkedInv, Parked

LEMMA LifeNextInv == LifeIInv /\ [LifeNext]_everything => LifeIInv'
<1> SUFFICES ASSUME LifeIInv, [LifeNext]_everything PROVE LifeIInv'
  OBVIOUS
<1>1. LifeTypeOK' /\ LockInv' /\ HolderInv'
  BY LifeTypes, LifeHolder, Zenon DEF LifeIInv
<1>2. /\ SourcesQuiet' <=> SourcesQuiet
      /\ NoneStops' <=> NoneStops
      /\ ("create" \in Hypercalls)' <=> "create" \in Hypercalls
  BY SameWorkload, Zenon DEF SourcesQuiet, NoneStops, Interrupted, GuestOps, Hypercalls
<1>3. (Promised' <=> Promised) /\ (ThreadsKept' <=> ThreadsKept)
  BY <1>2, Zenon DEF Promised, ThreadsKept
<1>4. ASSUME ThreadsKept
      PROVE  hcall_create_vm => \A t \in VcpuThread : is_blocked(t)
  <2> SUFFICES ASSUME hcall_create_vm, NEW t \in VcpuThread PROVE is_blocked(t)
    OBVIOUS
  <2>1. "create" \in Hypercalls /\ vm_state # "RUNNING"
    BY Zenon DEF hcall_create_vm
  <2>2. Promised
    BY <1>4, <2>1, Zenon DEF ThreadsKept
  <2> QED
    BY <1>4, <2>1, <2>2, NotRunningIsBlocked, Zenon DEF LifeIInv, Promised
<1>5. ThreadsKept => EventInv'
  BY <1>4, LifeEvents, Zenon DEF LifeIInv
<1>6. ThreadsKept /\ SourcesQuiet => ParkedInv'
  BY <1>4, LifeParked, Zenon DEF LifeIInv
<1>7. Promised => LaunchInv'
  BY <1>5, LifeLaunched, Zenon DEF LifeIInv, Promised, ThreadsKept
<1> QED
  BY <1>1, <1>2, <1>3, <1>5, <1>6, <1>7, Zenon DEF LifeIInv

LEMMA LifeInvariant == LifeSpec => []LifeIInv
  BY LifeInitInv, LifeNextInv, PTL DEF LifeSpec

(* Under every workload the states of the VM, of its vCPUs and of their
   threads agree: a vCPU that zombie_vcpu or reset_vcpu has parked stays off
   its pCPU, and one that launch_vcpu has launched is not left blocked
   outside wait_event. *)
THEOREM LifeInvariance == LifeSpec => []LifeInv
<1>1. LifeIInv => LifeInv
  <2> SUFFICES ASSUME LifeIInv PROVE LifeInv
    OBVIOUS
  <2>1. LifeTypeOK
    BY Zenon DEF LifeIInv
  <2>2. ParkedIsBlocked
    BY Zenon DEF LifeIInv, ParkedIsBlocked, ThreadsKept, Promised, ParkedInv, Parked
  <2>3. LaunchTakes
    BY Zenon DEF LifeIInv, LaunchTakes, Promised, LaunchInv, Launched
  <2> QED
    BY <2>1, <2>2, <2>3, Zenon DEF LifeInv
<1> QED
  BY <1>1, LifeInvariant, PTL

(* When pause_vm has returned, until hcall_start_vm, no thread of the VM
   executes: reset_vm, shutdown_vm and create_vm find all of them BLOCKED. *)
THEOREM PausedQuiet == LifeSpec => []PausedIsQuiet
<1>1. LifeIInv => PausedIsQuiet
  BY NotRunningIsBlocked, Zenon DEF LifeIInv, PausedIsQuiet, Promised, ThreadsKept
<1> QED
  BY <1>1, LifeInvariant, PTL
=============================================================================
