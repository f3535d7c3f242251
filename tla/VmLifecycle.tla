---------------------------- MODULE VmLifecycle -----------------------------
(***************************************************************************)
(* The life of one post-launched VM: the hypercalls of the toolstack       *)
(* (create, start, pause, reset, destroy), the INIT and SIPI its vCPUs     *)
(* send each other, a vCPU that stops on a fatal error, halting and        *)
(* interrupts, over the events and the abstract scheduler.  The toolstack  *)
(* is an actor of its own: a Service VM vCPU on another pCPU.              *)
(*                                                                         *)
(* vm_lock is a spinlock.  A vCPU thread that spins for it, or that holds  *)
(* it and spins in sleep_thread_sync, does not come to schedule().         *)
(***************************************************************************)
EXTENDS Event, Integers

CONSTANTS
    vcpu_id,    \* acrn_vcpu.vcpu_id, the order of foreach_vcpu
    BSP,        \* the vCPU thread with vcpu_id BSP_CPU_ID
    SOS,        \* the toolstack, as a holder of the lock
    Workloads   \* what the guest, the toolstack and the devices may do

ASSUME LifecycleAssumption ==
    /\ BSP \in VcpuThread
    /\ vcpu_id \in [VcpuThread -> Nat]
    /\ SOS \notin Thread \cup {NULL}
    /\ "VIRTUAL_INTERRUPT" \in EventId
    /\ NULL \notin EventId
    /\ \A w \in Workloads :
        /\ w.GuestOps \subseteq {"INIT", "SIPI", "FATAL"}
        /\ w.Hypercalls \subseteq {"reset", "destroy", "create"}
        /\ w.Interrupted \subseteq {"INIT", "RUNNING", "ZOMBIE"}

VARIABLES
    vm_state,   \* acrn_vm.state
    vcpu_state, \* acrn_vcpu.state
    nr_sipi,    \* acrn_vcpu_arch.nr_sipi
    vm_lock,    \* who holds acrn_vm.vm_lock
    hcall,      \* the hypercall the toolstack is in, or "none"
    sync_on,    \* the thread the lock holder's sleep_thread_sync spins on
    vm_pc,      \* what each vCPU thread does with the lock, if anything
    workload    \* the member of Workloads this behaviour is under, fixed

life_vars ==
    <<vm_state, vcpu_state, nr_sipi, vm_lock, hcall, sync_on, vm_pc, workload>>

everything == <<allvars, life_vars>>

GuestOps == workload.GuestOps       \* what vCPUs do that takes the lock

Hypercalls == workload.Hypercalls   \* made besides start and pause

Interrupted == workload.Interrupted \* vCPU states in which interrupts arrive

entry == [op |-> "entry", to |-> NULL]  \* at the top of the vcpu_thread loop

guest == [op |-> "guest", to |-> NULL]  \* between VM entry and VM exit

stop == [op |-> "stop", to |-> NULL]   \* behind `continue`, with the flag set

(* create_vm and prepare_vcpu have returned to the toolstack. *)
LifeInit ==
    /\ EventInit
    /\ vm_state = "CREATED"
    /\ vcpu_state = [t \in VcpuThread |-> "INIT"]
    /\ nr_sipi = [t \in VcpuThread |-> 0]
    /\ vm_lock = NULL
    /\ hcall = "none"
    /\ sync_on = NULL
    /\ vm_pc = [t \in VcpuThread |-> entry]
    /\ workload \in Workloads

in_guest(t) == running_code(t) /\ wait_pc[t] = "no" /\ vm_pc[t] = guest

-----------------------------------------------------------------------------
(* What the operations below share. *)

(* vcpu_reset_internal on the vCPUs in S; the stack frame of a thread is not
   rebuilt, so wait_pc stays. *)
vcpu_reset_internal(S) ==
    /\ set' = [t \in VcpuThread |->
                 IF t \in S THEN [e \in EventId |-> FALSE] ELSE set[t]]
    /\ waiting_thread' = [t \in VcpuThread |->
                 IF t \in S THEN [e \in EventId |-> NULL] ELSE waiting_thread[t]]
    /\ UNCHANGED <<wait_pc, wait_on>>

(* Mutant: the vCPU is parked without waiting for its thread to leave. *)
zombie_vcpuNoSync(u, sync) ==
    IF vcpu_state[u] \in {"RUNNING", "INIT"}
    THEN /\ vcpu_state' = [vcpu_state EXCEPT ![u] = "ZOMBIE"]
         /\ IF vcpu_state[u] = "RUNNING" THEN sleep_thread(u) ELSE UNCHANGED vars
         /\ sync_on' = NULL
    ELSE UNCHANGED <<vcpu_state, vars, sync_on>>

(* Mutant: the state changes but the thread is left running. *)
zombie_vcpuNoSleep(u, sync) ==
    IF vcpu_state[u] \in {"RUNNING", "INIT"}
    THEN /\ vcpu_state' = [vcpu_state EXCEPT ![u] = "ZOMBIE"]
         /\ UNCHANGED vars
         /\ sync_on' = NULL
    ELSE UNCHANGED <<vcpu_state, vars, sync_on>>

(* Mutant: only a RUNNING vCPU becomes a zombie. *)
zombie_vcpuRunningOnly(u, sync) ==
    IF vcpu_state[u] = "RUNNING"
    THEN /\ vcpu_state' = [vcpu_state EXCEPT ![u] = "ZOMBIE"]
         /\ sleep_thread(u)
         /\ sync_on' = IF sync THEN u ELSE NULL
    ELSE UNCHANGED <<vcpu_state, vars, sync_on>>

(* zombie_vcpu; sync: called from another pCPU, so with sleep_thread_sync. *)
zombie_vcpu(u, sync) ==
    IF vcpu_state[u] \in {"RUNNING", "INIT"}
    THEN /\ vcpu_state' = [vcpu_state EXCEPT ![u] = "ZOMBIE"]
         /\ IF vcpu_state[u] = "RUNNING" THEN sleep_thread(u) ELSE UNCHANGED vars
         /\ sync_on' = IF vcpu_state[u] = "RUNNING" /\ sync THEN u ELSE NULL
    ELSE UNCHANGED <<vcpu_state, vars, sync_on>>

(* launch_vcpu; wake_thread does nothing to a thread that is not BLOCKED. *)
launch_vcpu(u) ==
    /\ vcpu_state' = [vcpu_state EXCEPT ![u] = "RUNNING"]
    /\ IF is_blocked(u) THEN wake_thread(u) ELSE UNCHANGED vars

(* sleep_thread_sync sees the thread BLOCKED. *)
sync_done ==
    /\ sync_on # NULL
    /\ is_blocked(sync_on)
    /\ sync_on' = NULL
    /\ UNCHANGED <<allvars, vm_state, vcpu_state, nr_sipi, vm_lock, hcall, vm_pc,
                   workload>>

-----------------------------------------------------------------------------
(* The hypercalls.  Each takes the lock; only pause_vm waits inside it. *)

pause_begin ==
    /\ hcall = "none"
    /\ vm_lock = NULL
    /\ vm_state \in {"RUNNING", "CREATED"}
    /\ vm_lock' = SOS
    /\ hcall' = "pause"
    /\ UNCHANGED <<allvars, vm_state, vcpu_state, nr_sipi, sync_on, vm_pc, workload>>

(* One turn of foreach_vcpu in pause_vm, behind the spin of the last one. *)
pause_vcpu(u) ==
    /\ hcall = "pause"
    /\ sync_on = NULL
    /\ vcpu_state[u] # "ZOMBIE"
    /\ \A w \in VcpuThread : vcpu_id[w] < vcpu_id[u] => vcpu_state[w] = "ZOMBIE"
    /\ zombie_vcpu(u, TRUE)
    /\ UNCHANGED <<event_vars, vm_state, nr_sipi, vm_lock, hcall, vm_pc, workload>>

pause_end ==
    /\ hcall = "pause"
    /\ sync_on = NULL
    /\ \A u \in VcpuThread : vcpu_state[u] = "ZOMBIE"
    /\ vm_state' = "PAUSED"
    /\ hcall' = "none"
    /\ vm_lock' = NULL
    /\ UNCHANGED <<allvars, vcpu_state, nr_sipi, sync_on, vm_pc, workload>>

hcall_reset_vm ==
    /\ "reset" \in Hypercalls
    /\ hcall = "none" /\ vm_lock = NULL
    /\ vm_state = "PAUSED"
    /\ vcpu_reset_internal(VcpuThread)
    /\ vcpu_state' = [u \in VcpuThread |-> "INIT"]
    /\ nr_sipi' = [u \in VcpuThread |-> 0]
    /\ vm_state' = "CREATED"
    /\ UNCHANGED <<vars, vm_lock, hcall, sync_on, vm_pc, workload>>

hcall_start_vm ==
    /\ hcall = "none" /\ vm_lock = NULL
    /\ vm_state = "CREATED"
    /\ vm_state' = "RUNNING"
    /\ launch_vcpu(BSP)
    /\ UNCHANGED <<event_vars, nr_sipi, vm_lock, hcall, sync_on, vm_pc, workload>>

hcall_destroy_vm ==
    /\ "destroy" \in Hypercalls
    /\ hcall = "none" /\ vm_lock = NULL
    /\ vm_state = "PAUSED"
    /\ vm_state' = "POWERED_OFF"
    /\ vcpu_state' = [u \in VcpuThread |-> "OFFLINE"]
    /\ UNCHANGED <<allvars, nr_sipi, vm_lock, hcall, sync_on, vm_pc, workload>>

(* hcall_create_vm again in the same slot: create_vcpu and prepare_vcpu
   initialise every vCPU thread and its events and build it a new stack
   frame, which a thread that still executes does not see. *)
hcall_create_vm ==
    /\ "create" \in Hypercalls
    /\ hcall = "none"
    /\ vm_state = "POWERED_OFF"
    /\ vm_state' = "CREATED"
    /\ vcpu_state' = [u \in VcpuThread |-> "INIT"]
    /\ nr_sipi' = [u \in VcpuThread |-> 0]
    /\ status' = [t \in Thread |->
                    IF t \in VcpuThread THEN "BLOCKED" ELSE status[t]]
    /\ set' = [t \in VcpuThread |-> [e \in EventId |-> FALSE]]
    /\ waiting_thread' = [t \in VcpuThread |-> [e \in EventId |-> NULL]]
    /\ LET anew(old, new) ==
             [t \in VcpuThread |-> IF running_code(t) THEN old[t] ELSE new]
       IN /\ wait_pc' = anew(wait_pc, "no")
          /\ wait_on' = anew(wait_on, NULL)
          /\ vm_pc' = anew(vm_pc, entry)
    /\ UNCHANGED <<be_blocking, need_reschedule, curr_obj, runqueue, vm_lock,
                   hcall, sync_on, workload>>

-----------------------------------------------------------------------------
(* What a vCPU thread does that takes the lock. *)

(* The VM exit: an INIT or SIPI for another vCPU that foreach_vcpu finds, or
   a failed run_vcpu or pending request.  The thread now spins. *)
lock_vm(t) ==
    /\ in_guest(t)
    /\ \/ \E op \in GuestOps \cap {"INIT", "SIPI"}, u \in VcpuThread \ {t} :
            /\ vcpu_state[u] # "OFFLINE"
            /\ vm_pc' = [vm_pc EXCEPT ![t] = [op |-> op, to |-> u]]
       \/ /\ "FATAL" \in GuestOps
          /\ vm_pc' = [vm_pc EXCEPT ![t] = [op |-> "FATAL", to |-> t]]
    /\ UNCHANGED <<allvars, vm_state, vcpu_state, nr_sipi, vm_lock, hcall, sync_on,
                   workload>>

(* vlapic_process_init_sipi for INIT: park the target, wait for it ... *)
process_init(t) ==
    LET u == vm_pc[t].to IN
    /\ running_code(t) /\ vm_pc[t].op = "INIT"
    /\ vm_lock = NULL
    /\ IF vcpu_state[u] = "INIT"
       THEN /\ nr_sipi' = [nr_sipi EXCEPT ![u] = 1]
            /\ vm_pc' = [vm_pc EXCEPT ![t] = entry]
            /\ UNCHANGED <<vars, vcpu_state, vm_lock, sync_on>>
       ELSE /\ zombie_vcpu(u, TRUE)
            /\ vm_lock' = t
            /\ UNCHANGED <<nr_sipi, vm_pc>>
    /\ UNCHANGED <<event_vars, vm_state, hcall, workload>>

(* ... and reset it. *)
reset_target(t) ==
    LET u == vm_pc[t].to IN
    /\ running_code(t) /\ vm_pc[t].op = "INIT"
    /\ vm_lock = t
    /\ sync_on = NULL
    /\ vcpu_reset_internal({u})
    /\ vcpu_state' = [vcpu_state EXCEPT ![u] = "INIT"]
    /\ nr_sipi' = [nr_sipi EXCEPT ![u] = 1]
    /\ vm_lock' = NULL
    /\ vm_pc' = [vm_pc EXCEPT ![t] = entry]
    /\ UNCHANGED <<vars, vm_state, hcall, sync_on, workload>>

(* vlapic_process_init_sipi for SIPI. *)
process_sipi(t) ==
    LET u == vm_pc[t].to IN
    /\ running_code(t) /\ vm_pc[t].op = "SIPI"
    /\ vm_lock = NULL
    /\ IF vcpu_state[u] = "INIT" /\ nr_sipi[u] # 0
       THEN /\ nr_sipi' = [nr_sipi EXCEPT ![u] = @ - 1]
            /\ launch_vcpu(u)
       ELSE UNCHANGED <<vars, vcpu_state, nr_sipi>>
    /\ vm_pc' = [vm_pc EXCEPT ![t] = entry]
    /\ UNCHANGED <<event_vars, vm_state, vm_lock, hcall, sync_on, workload>>

(* vcpu_thread after a fatal error: the vCPU parks itself, without sync. *)
process_fatal(t) ==
    /\ running_code(t) /\ vm_pc[t].op = "FATAL"
    /\ vm_lock = NULL
    /\ zombie_vcpu(t, FALSE)
    /\ vm_pc' = [vm_pc EXCEPT ![t] = IF vcpu_state[t] = "RUNNING" THEN stop
                                                               ELSE entry]
    /\ UNCHANGED <<event_vars, vm_state, nr_sipi, vm_lock, hcall, workload>>

-----------------------------------------------------------------------------
(* VM entry, halting, interrupts, and schedule() at the top of the vcpu_thread
   loop or from wait_event. *)
enter_guest(t) ==
    /\ running_code(t) /\ wait_pc[t] = "no"
    /\ vm_pc[t] = entry
    /\ reset_event(t, "VIRTUAL_INTERRUPT")
    /\ vm_pc' = [vm_pc EXCEPT ![t] = guest]
    /\ UNCHANGED <<vars, wait_pc, wait_on, vm_state, vcpu_state, nr_sipi, vm_lock,
                   hcall, sync_on, workload>>

halt(t) ==
    /\ Interrupted # {}
    /\ vm_pc[t] = guest
    /\ wait_event(t, "VIRTUAL_INTERRUPT")
    /\ vm_pc' = [vm_pc EXCEPT ![t] = entry]
    /\ UNCHANGED <<vm_state, vcpu_state, nr_sipi, vm_lock, hcall, sync_on, workload>>

wait_returns(t) == recheck_event(t) /\ UNCHANGED life_vars

(* Any source: vlapic_accept_intr and vcpu_handle_pi_notification look at no
   vCPU or VM state.  Interrupted says which states they can meet: with
   {"RUNNING"} the sources are taken to be quiet once a vCPU is parked. *)
interrupt(t) ==
    /\ vcpu_state[t] \in Interrupted
    /\ signal_event(t, "VIRTUAL_INTERRUPT")
    /\ UNCHANGED life_vars

(* The request that makes a pCPU reschedule also takes it out of the guest. *)
life_switch(p) ==
    LET t == curr_obj[p] IN
    /\ switch(p)
    /\ IF t \in VcpuThread
       THEN /\ vm_pc[t] \in {entry, guest, stop}
            /\ vm_pc' = [vm_pc EXCEPT ![t] = entry]
       ELSE UNCHANGED vm_pc
    /\ UNCHANGED <<vm_state, vcpu_state, nr_sipi, vm_lock, hcall, sync_on, workload>>

life_boot(p) == pcpu_boot(p) /\ UNCHANGED life_vars

hypercall ==
    \/ pause_begin
    \/ pause_end
    \/ hcall_reset_vm
    \/ hcall_start_vm
    \/ hcall_destroy_vm
    \/ hcall_create_vm

vcpu_step(t) ==
    \/ process_init(t)
    \/ reset_target(t)
    \/ process_sipi(t)
    \/ process_fatal(t)
    \/ wait_returns(t)

LifeNext ==
    \/ hypercall
    \/ sync_done
    \/ \E p \in Pcpu : life_boot(p) \/ life_switch(p)
    \/ \E t \in VcpuThread :
        pause_vcpu(t) \/ lock_vm(t) \/ vcpu_step(t) \/ enter_guest(t) \/ halt(t)
            \/ interrupt(t)

LifeSpec == LifeInit /\ [][LifeNext]_everything

(* pCPUs keep executing and the lock is a ticket lock; nothing forces guests
   to halt or send IPIs, devices to interrupt or the toolstack to call. *)
LifeFairness ==
    /\ \A p \in Pcpu : WF_everything(life_boot(p)) /\ WF_everything(life_switch(p))
    /\ \A t \in VcpuThread :
        SF_everything(vcpu_step(t)) /\ WF_everything(pause_vcpu(t))
    /\ WF_everything(pause_end) /\ WF_everything(sync_done)

LifeFairSpec == LifeSpec /\ LifeFairness

-----------------------------------------------------------------------------
(* Types; nr_sipi is 0 or 1, so a SIPI never takes it below zero. *)
LifeTypeOK ==
    /\ TypeOK /\ EventTypeOK
    /\ vm_state \in {"CREATED", "RUNNING", "PAUSED", "POWERED_OFF"}
    /\ vcpu_state \in [VcpuThread -> {"INIT", "RUNNING", "ZOMBIE", "OFFLINE"}]
    /\ nr_sipi \in [VcpuThread -> 0..1]
    /\ vm_lock \in VcpuThread \cup {SOS, NULL}
    /\ hcall \in {"none", "pause"}
    /\ sync_on \in VcpuThread \cup {NULL}
    /\ vm_pc \in [VcpuThread -> {entry, guest, stop} \cup
          [op : {"INIT", "SIPI", "FATAL"}, to : VcpuThread]]

(* The sources of interrupts are quiet once a vCPU is parked: signal_event
   would wake a parked vCPU that was waiting. *)
SourcesQuiet == Interrupted \subseteq {"RUNNING"}

(* No vCPU of the workload stops on a fatal error.  One that does parks itself
   and nobody waits for its thread to leave, so that what rests on the wait of
   sleep_thread_sync is not promised of it. *)
NoneStops == "FATAL" \notin GuestOps

(* The thread of a vCPU that is not RUNNING does not run guest code: it is
   BLOCKED, or about to be (hv-cpu-virt.rst on VCPU_INIT and VCPU_ZOMBIE).  A
   vCPU that stopped by itself may still be on its pCPU when hcall_create_vm
   takes its thread object for a new VM. *)
ParkedIsBlocked ==
    SourcesQuiet /\ (NoneStops \/ "create" \notin Hypercalls) =>
        \A t \in VcpuThread :
            vcpu_state[t] # "RUNNING" => is_blocked(t) \/ be_blocking[t]

(* A vCPU that was launched runs, or waits for an event: launch_vcpu is not
   lost on a thread that is still on its way out. *)
LaunchTakes ==
    SourcesQuiet /\ NoneStops => \A t \in VcpuThread :
        vcpu_state[t] = "RUNNING" => ~is_blocked(t) \/ wait_pc[t] # "no"

(* The state of the VM and of its threads agree: types, and a vCPU that
   zombie_vcpu or reset_vcpu has parked stays parked, one that launch_vcpu has
   launched runs. *)
LifeInv == LifeTypeOK /\ ParkedIsBlocked /\ LaunchTakes

(* When pause_vm has returned, and as long as the VM is not started again,
   no thread of the VM runs at all: reset_vm and shutdown_vm rebuild and
   free what a running thread would be using. *)
PausedIsQuiet ==
    SourcesQuiet /\ NoneStops /\ vm_state \in {"PAUSED", "CREATED", "POWERED_OFF"} =>
        \A t \in VcpuThread : is_blocked(t)

(* pause_vm comes to an end (hcall_pause_vm returns 0 to the toolstack). *)
PauseReturns == hcall = "pause" ~> hcall = "none"

(* The thread that pause_vm waits for spins for the lock pause_vm holds. *)
SpinsForPause(t) ==
    sync_on = t /\ vm_lock = SOS /\ vm_pc[t].op \in {"INIT", "SIPI", "FATAL"}
=============================================================================
