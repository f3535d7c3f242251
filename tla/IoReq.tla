------------------------------- MODULE IoReq --------------------------------
(***************************************************************************)
(* I/O requests of a post-launched VM: a vCPU puts the access into its     *)
(* slot of the shared page (dm/io_req.c), VHM hands it to a client, the    *)
(* client answers and notifies the hypervisor, and the vCPU finishes the   *)
(* emulation.  The Device Model is both a client and the toolstack that    *)
(* pauses, resets and restarts the VM (vm_system_reset).  The life of the  *)
(* VM and the waiting are those of VmLifecycle and Event.                  *)
(***************************************************************************)
EXTENDS VmLifecycle

ASSUME IoReqAssumption ==
    /\ "IOREQ" \in EventId
    /\ NULL \notin {"dm", "kernel"}
    /\ \A w \in Workloads :
        /\ w.is_polling_ioreq \in BOOLEAN /\ w.Resets \in BOOLEAN
        /\ w.InitsBusyVcpu \in BOOLEAN
        /\ w.Client \subseteq {"dm", "kernel"}

is_polling_ioreq == workload.is_polling_ioreq   \* the completion mode of the VM

Client == workload.Client   \* the VHM clients: "dm", and "kernel" (vhost)

Resets == workload.Resets   \* the guest asks the Device Model for a reset

InitsBusyVcpu == workload.InitsBusyVcpu \* INIT also goes to RUNNING vCPUs

VARIABLES
    req,        \* vhm_request.processed of each vCPU's slot
    io_pc,      \* where in emulate_io a vCPU thread is
    owed,       \* history: the access has no answer yet and was not withdrawn
    client,     \* the client VHM assigned the request to, or NULL
    client_pc,  \* "idle", "claimed", "notify": COMPLETE is set, hypercall next
    dm_pc       \* the Device Model: "loop", or the step of vm_system_reset

io_vars == <<req, io_pc, owed, client, client_pc, dm_pc>>

io_everything == <<everything, io_vars>>

IoInit ==
    /\ LifeInit
    /\ req = [t \in VcpuThread |-> "FREE"]
    /\ io_pc = [t \in VcpuThread |-> "none"]
    /\ owed = [t \in VcpuThread |-> FALSE]
    /\ client = [t \in VcpuThread |-> NULL]
    /\ client_pc = [t \in VcpuThread |-> "idle"]
    /\ dm_pc = "start"

-----------------------------------------------------------------------------
(* The vCPU side. *)

(* acrn_insert_request up to the upcall; -EINVAL ends in a #GP for the guest,
   at the top of the loop. *)
acrn_insert_request(t) ==
    /\ in_guest(t)
    /\ IF req[t] = "FREE"
       THEN /\ req' = [req EXCEPT ![t] = "PENDING"]
            /\ owed' = [owed EXCEPT ![t] = TRUE]
            /\ io_pc' = [io_pc EXCEPT ![t] =
                            IF is_polling_ioreq THEN "poll" ELSE "issued"]
       ELSE UNCHANGED <<req, owed, io_pc>>
    /\ vm_pc' = [vm_pc EXCEPT ![t] = entry]
    /\ UNCHANGED <<allvars, vm_state, vcpu_state, nr_sipi, vm_lock, hcall, sync_on,
                   workload, client, client_pc, dm_pc>>

wait_ioreq(t) ==
    /\ io_pc[t] = "issued"
    /\ wait_event(t, "IOREQ")
    /\ io_pc' = [io_pc EXCEPT ![t] = IF set[t]["IOREQ"] THEN "finish" ELSE "waiting"]
    /\ UNCHANGED <<life_vars, req, owed, client, client_pc, dm_pc>>

ioreq_returns(t) ==
    /\ io_pc[t] = "waiting"
    /\ recheck_event(t)
    /\ io_pc' = [io_pc EXCEPT ![t] = IF wait_pc'[t] = "no" THEN "finish" ELSE @]
    /\ UNCHANGED <<life_vars, req, owed, client, client_pc, dm_pc>>

(* Mutant: the loop ends with the event, which nobody signals. *)
poll_ioreqSignalled(t) ==
    /\ io_pc[t] = "poll"
    /\ running_code(t)
    /\ set[t]["IOREQ"]
    /\ io_pc' = [io_pc EXCEPT ![t] = "finish"]
    /\ UNCHANGED <<everything, req, owed, client, client_pc, dm_pc>>

(* has_complete_ioreq in the polling loop; its schedule() is io_switch. *)
poll_ioreq(t) ==
    /\ io_pc[t] = "poll"
    /\ running_code(t)
    /\ req[t] = "COMPLETE"
    /\ io_pc' = [io_pc EXCEPT ![t] = "finish"]
    /\ UNCHANGED <<everything, req, owed, client, client_pc, dm_pc>>

dm_emulate_io_complete(t) ==
    /\ io_pc[t] = "finish"
    /\ running_code(t)
    /\ req' = IF req[t] = "COMPLETE" THEN [req EXCEPT ![t] = "FREE"] ELSE req
    /\ io_pc' = [io_pc EXCEPT ![t] = "none"]
    /\ UNCHANGED <<everything, owed, client, client_pc, dm_pc>>

-----------------------------------------------------------------------------
(* The Service VM side. *)

(* VHM scans for pending requests and assigns them (external). *)
claim(t, c) ==
    /\ req[t] = "PENDING"
    /\ client_pc[t] = "idle"
    /\ dm_pc # "cleared"
    /\ req' = [req EXCEPT ![t] = "PROCESSING"]
    /\ client' = [client EXCEPT ![t] = c]
    /\ client_pc' = [client_pc EXCEPT ![t] = "claimed"]
    /\ UNCHANGED <<everything, io_pc, owed, dm_pc>>

(* The client has emulated the access; VHM sets COMPLETE.  The Device Model
   does so only from vm_loop, in handle_vmexit. *)
answer(t) ==
    /\ client_pc[t] = "claimed"
    /\ client[t] = "dm" => dm_pc = "loop" /\ req[t] = "PROCESSING"
    /\ req' = [req EXCEPT ![t] = "COMPLETE"]
    /\ owed' = [owed EXCEPT ![t] = FALSE]
    /\ client_pc' = [client_pc EXCEPT ![t] = "notify"]
    /\ UNCHANGED <<everything, io_pc, client, dm_pc>>

hcall_notify_ioreq_finish(t) ==
    /\ client_pc[t] = "notify"
    /\ IF ~is_polling_ioreq /\ vm_state # "POWERED_OFF"
       THEN signal_event(t, "IOREQ")
       ELSE UNCHANGED allvars
    /\ client_pc' = [client_pc EXCEPT ![t] = "idle"]
    /\ client' = [client EXCEPT ![t] = NULL]
    /\ UNCHANGED <<life_vars, req, io_pc, owed, dm_pc>>

(* Mutant: handle_vmexit completes the request that asked for the reset. *)
vm_suspendNotifies(t) ==
    /\ Resets
    /\ dm_pc = "loop"
    /\ client[t] = "dm" /\ client_pc[t] = "claimed"
    /\ \A u \in VcpuThread : ~(client[u] = "dm" /\ client_pc[u] = "notify")
    /\ dm_pc' = "pause"
    /\ client_pc' = [client_pc EXCEPT ![t] = "notify"]
    /\ req' = [req EXCEPT ![t] = "COMPLETE"]
    /\ owed' = [owed EXCEPT ![t] = FALSE]
    /\ UNCHANGED <<everything, io_pc, client>>

(* handle_vmexit of the access that asks for a system reset: suspend mode is
   set, nothing is notified, and vm_loop goes into vm_system_reset. *)
vm_suspend(t) ==
    /\ Resets
    /\ dm_pc = "loop"
    /\ client[t] = "dm" /\ client_pc[t] = "claimed"
    /\ \A u \in VcpuThread : ~(client[u] = "dm" /\ client_pc[u] = "notify")
    /\ dm_pc' = "pause"
    /\ UNCHANGED <<everything, req, io_pc, owed, client, client_pc>>

vm_pause ==
    /\ dm_pc = "pause"
    /\ \/ pause_begin /\ UNCHANGED dm_pc
       \/ pause_end /\ dm_pc' = "paused"
       \/ (\E u \in VcpuThread : pause_vcpu(u)) /\ UNCHANGED dm_pc
    /\ UNCHANGED <<req, io_pc, owed, client, client_pc>>

(* IC_CLEAR_VM_IOREQ: VHM waits for the kernel clients and forgets the
   Device Model's requests (external). *)
vm_clear_ioreq ==
    /\ dm_pc = "paused"
    /\ \A t \in VcpuThread : client[t] # "kernel"
    /\ client' = [t \in VcpuThread |-> NULL]
    /\ client_pc' = [t \in VcpuThread |-> "idle"]
    /\ dm_pc' = "cleared"
    /\ UNCHANGED <<everything, req, io_pc, owed>>

(* Mutant: reset_vm without reset_vm_ioreqs. *)
vm_resetKeepsIoreqs ==
    /\ dm_pc = "cleared"
    /\ hcall_reset_vm
    /\ owed' = [t \in VcpuThread |-> FALSE]
    /\ dm_pc' = "start"
    /\ UNCHANGED <<req, io_pc, client, client_pc>>

(* hcall_reset_vm and the reset_vm_ioreqs in it. *)
vm_reset ==
    /\ dm_pc = "cleared"
    /\ hcall_reset_vm
    /\ req' = [t \in VcpuThread |-> "FREE"]
    /\ owed' = [t \in VcpuThread |-> FALSE]
    /\ dm_pc' = "start"
    /\ UNCHANGED <<io_pc, client, client_pc>>

vm_run ==
    /\ dm_pc = "start"
    /\ hcall_start_vm
    /\ dm_pc' = "loop"
    /\ UNCHANGED <<req, io_pc, owed, client, client_pc>>

-----------------------------------------------------------------------------
(* The rest of VmLifecycle, by a thread that is not inside emulate_io. *)
io_switch(p) ==
    LET t == curr_obj[p] IN
    /\ t \in VcpuThread => io_pc[t] \in {"none", "poll"} \/ wait_pc[t] = "asleep"
    /\ life_switch(p)
    /\ UNCHANGED io_vars

io_boot(p) == life_boot(p) /\ UNCHANGED io_vars

io_enter(t) == io_pc[t] = "none" /\ enter_guest(t) /\ UNCHANGED io_vars

(* Of the workload: whom an INIT is sent to, and finds. *)
init_allowed(op) ==
    op.op = "INIT" /\ ~InitsBusyVcpu => vcpu_state[op.to] # "RUNNING"

io_vcpu_step(t) ==
    /\ io_pc[t] = "none"
    /\ init_allowed(vm_pc[t])
    /\ vcpu_step(t)
    /\ UNCHANGED io_vars

io_lock_vm(t) ==
    /\ lock_vm(t)
    /\ init_allowed(vm_pc'[t])
    /\ UNCHANGED io_vars

io_halt(t) == io_pc[t] = "none" /\ halt(t) /\ UNCHANGED io_vars

io_interrupt(t) == interrupt(t) /\ UNCHANGED io_vars

(* A tick of the scheduler, which may take a polling vCPU off its pCPU. *)
io_tick(p) == request(p) /\ UNCHANGED <<event_vars, life_vars, io_vars>>

io_sync_done == sync_done /\ UNCHANGED io_vars

emulate_io(t) ==
    \/ wait_ioreq(t)
    \/ ioreq_returns(t)
    \/ poll_ioreq(t)
    \/ dm_emulate_io_complete(t)

vm_system_reset ==
    \/ vm_pause
    \/ vm_clear_ioreq
    \/ vm_reset
    \/ vm_run

IoNext ==
    \/ vm_system_reset
    \/ io_sync_done
    \/ \E p \in Pcpu : io_boot(p) \/ io_switch(p) \/ io_tick(p)
    \/ \E t \in VcpuThread :
        \/ acrn_insert_request(t) \/ emulate_io(t)
        \/ \E c \in Client : claim(t, c)
        \/ answer(t) \/ hcall_notify_ioreq_finish(t) \/ vm_suspend(t)
        \/ io_enter(t) \/ io_lock_vm(t) \/ io_vcpu_step(t) \/ io_halt(t) \/ io_interrupt(t)

IoSpec == IoInit /\ [][IoNext]_io_everything

(* A pCPU keeps executing; VHM and its clients serve every request; the
   Device Model goes through with a reset it has begun. *)
IoFairness ==
    /\ \A p \in Pcpu : WF_io_everything(io_boot(p)) /\ WF_io_everything(io_switch(p))
    /\ \A t \in VcpuThread :
        /\ WF_io_everything(emulate_io(t))
        /\ WF_io_everything(io_enter(t))
        /\ WF_io_everything(\E c \in Client : claim(t, c))
        /\ WF_io_everything(answer(t))
        /\ WF_io_everything(hcall_notify_ioreq_finish(t))
    /\ WF_io_everything(vm_system_reset) /\ WF_io_everything(io_sync_done)

IoFairSpec == IoSpec /\ IoFairness

-----------------------------------------------------------------------------
(* Types of the I/O request layer, over the invariants of the layers below. *)
IoTypeOK ==
    /\ EventInv /\ LifeTypeOK
    /\ req \in [VcpuThread -> {"FREE", "PENDING", "PROCESSING", "COMPLETE"}]
    /\ io_pc \in [VcpuThread -> {"none", "issued", "waiting", "poll", "finish"}]
    /\ owed \in [VcpuThread -> BOOLEAN]
    /\ client \in [VcpuThread -> Client \cup {NULL}]
    /\ client_pc \in [VcpuThread -> {"idle", "claimed", "notify"}]
    /\ dm_pc \in {"start", "loop", "pause", "paused", "cleared"}

(* Nothing of the workload wakes a parked vCPU: no interrupt, no notification
   of a kernel client, and no INIT that parks a vCPU inside emulate_io, whose
   request is then answered all the same. *)
ParkedStay ==
    SourcesQuiet /\ ~InitsBusyVcpu /\ (is_polling_ioreq \/ "kernel" \notin Client)

(* A vCPU that is back in its loop has a FREE slot, so that its next access
   is not refused with -EINVAL (acrn_common.h: one vCPU cannot trigger another
   I/O request before the previous one has completed).  An INIT for a vCPU
   inside emulate_io would end its wait without freeing the slot. *)
SlotFree ==
    ParkedStay => \A t \in VcpuThread : io_pc[t] = "none" => req[t] = "FREE"

(* Types, and the slots that acrn_insert_request and reset_vm_ioreqs leave FREE. *)
IoInv == IoTypeOK /\ SlotFree

(* A vCPU does not go on behind an access that got no answer, unless the VM
   was reset: the value it would read is not there. *)
Answered ==
    ParkedStay =>
        \A t \in VcpuThread : io_pc[t] \in {"none", "finish"} => ~owed[t]

(* After vm_pause there is no new coming ioreq (comment in vm_system_reset),
   unless something wakes a parked vCPU. *)
NoNewIoreqAfterPause ==
    [][ParkedStay /\ vm_state = "PAUSED" =>
          \A t \in VcpuThread : req[t] = "FREE" => req'[t] = "FREE"]_io_everything

(* Once its request is complete, the vCPU gets back to the guest
   (hv-cpu-virt.rst on the life of a vCPU in an I/O request). *)
CompletedRequestResumes ==
    \A t \in VcpuThread : req[t] = "COMPLETE" ~> io_pc[t] = "none"

(* A vCPU that polls for the completion gets back to the guest: unlike one
   that waits for the event, it cannot miss it. *)
PolledRequestResumes ==
    \A t \in VcpuThread :
        is_polling_ioreq /\ req[t] = "COMPLETE" ~> io_pc[t] = "none"

(* A VM that was reset and started again runs its guest from the entry point
   (hcall_reset_vm: it will make target VM rerun from pre-defined entry): the
   stack of a thread survives the reset, so a wait it was in must end first.
   Not so for a polling vCPU, whose loop does not end on a FREE slot, nor for
   a pause that a vCPU spinning for vm_lock holds up. *)
ResetReruns ==
    ~is_polling_ioreq /\ GuestOps = {} /\ vm_state = "CREATED"
        ~> vm_state # "CREATED" /\ vm_pc[BSP] = guest
=============================================================================
