--------------------------- MODULE IoClientProofs ---------------------------
(***************************************************************************)
(* The invariant of the I/O requests of a VM with any number of vCPUs,     *)
(* under any workload, and the parts of it that do not need the event: the *)
(* course of vm_system_reset, what VHM and its clients hold, and that a    *)
(* vCPU parked while its VM is not paused has no request; then what        *)
(* emulate_io, device model and clients do to the slot of a vCPU.          *)
(* IoReqProofs has the rest of the argument.                               *)
(***************************************************************************)
EXTENDS IoReq, VmLifecycleProofs

(* vm_system_reset takes the VM through its states, and is the only one to
   pause it. *)
DmInv ==
    /\ dm_pc = "start" => vm_state = "CREATED"
    /\ dm_pc \in {"loop", "pause"} => vm_state = "RUNNING"
    /\ dm_pc \in {"paused", "cleared"} => vm_state = "PAUSED"
    /\ hcall = "pause" => dm_pc = "pause"

(* What VHM and its clients hold, and what the history of the slot is. *)
Served(t) ==
    /\ client_pc[t] = "idle" <=> client[t] = NULL
    /\ client_pc[t] = "claimed" => req[t] = "PROCESSING"
    /\ client[t] = "dm" /\ client_pc[t] = "notify" => dm_pc = "loop"
    /\ dm_pc = "cleared" => client_pc[t] = "idle"
    /\ owed[t] <=> req[t] \in {"PENDING", "PROCESSING"}

(* The slot at each point of emulate_io, and when the event may be set. *)
Requested(t) ==
    /\ io_pc[t] = "none" => req[t] = "FREE"
    /\ io_pc[t] = "finish" => req[t] \in {"FREE", "COMPLETE"}
    /\ io_pc[t] = "waiting" =>
           /\ wait_pc[t] # "no" /\ wait_on[t] = "IOREQ"
           /\ req[t] # "FREE" => waiting_thread[t]["IOREQ"] = t
    /\ set[t]["IOREQ"] => ~is_polling_ioreq /\ io_pc[t] # "finish" /\ req[t] = "COMPLETE"
    /\ ~is_polling_ioreq => io_pc[t] # "poll"
    /\ ~is_polling_ioreq /\ client_pc[t] = "notify" =>
           io_pc[t] # "finish" /\ req[t] = "COMPLETE" /\ ~set[t]["IOREQ"]

(* A vCPU that is parked without a pause was so outside emulate_io, and only
   pause_vm waits for a thread. *)
Idle(t) ==
    /\ vcpu_state[t] # "RUNNING" /\ hcall = "none" /\ vm_state # "PAUSED" => req[t] = "FREE"
    /\ sync_on = t => hcall = "pause"

(* The inductive invariant. *)
IoIInv ==
    /\ IoTypeOK /\ LockInv /\ HolderInv /\ DmInv
    /\ \A t \in VcpuThread : Served(t)
    /\ ParkedStay => ParkedInv /\ \A t \in VcpuThread : Requested(t) /\ Idle(t)

-----------------------------------------------------------------------------
(* The steps.  Most are steps of the life of the VM, or none of it; the others
   leave that life alone but for where the vCPU is in its loop. *)

OfIo(t) ==
    \/ acrn_insert_request(t)
    \/ wait_ioreq(t)
    \/ ioreq_returns(t)
    \/ hcall_notify_ioreq_finish(t)

OfClient(t) ==
    \/ poll_ioreq(t)
    \/ dm_emulate_io_complete(t)
    \/ \E c \in Client : claim(t, c)
    \/ answer(t)
    \/ vm_suspend(t)

OfVcpu(t) ==
    \/ io_enter(t)
    \/ io_lock_vm(t)
    \/ io_vcpu_step(t)
    \/ io_halt(t)
    \/ io_interrupt(t)

OfPcpu(p) == io_boot(p) \/ io_switch(p)

LEMMA IoSteps ==
  ASSUME [IoNext]_io_everything
  PROVE  \/ vm_pause \/ vm_clear_ioreq \/ vm_reset \/ vm_run
         \/ io_sync_done \/ UNCHANGED io_everything
         \/ \E p \in Pcpu : OfPcpu(p) \/ io_tick(p)
         \/ \E t \in VcpuThread : OfIo(t) \/ OfClient(t) \/ OfVcpu(t)
  BY Zenon DEF IoNext, vm_system_reset, emulate_io, OfIo, OfClient, OfVcpu, OfPcpu

(* What the steps outside the life of the VM leave of it. *)
LEMMA OfIoFacts ==
  ASSUME LifeTypeOK, EventInv, NEW t \in VcpuThread, OfIo(t)
  PROVE  /\ UNCHANGED <<vm_state, vcpu_state, nr_sipi, vm_lock, hcall, sync_on, workload>>
         /\ UNCHANGED <<curr_obj, dm_pc>>
         /\ EventInv'
         /\ vm_pc' = vm_pc \/ (vm_pc[t] = guest /\ vm_pc' = [vm_pc EXCEPT ![t] = entry])
<1> USE IoReqAssumption
<1>1. CASE acrn_insert_request(t)
  <2>1. EventInv'
    BY <1>1, SameEvents, Zenon DEF acrn_insert_request
  <2> QED
    BY <1>1, <2>1, Zenon DEF acrn_insert_request, in_guest, allvars, vars, thread_vars
<1>2. CASE wait_ioreq(t)
  <2>1. EventInv'
    BY <1>2, WaitInv, Zenon DEF wait_ioreq
  <2>2. UNCHANGED curr_obj
    BY <1>2, SleepFacts, Zenon DEF wait_ioreq, wait_event, LifeTypeOK, vars, thread_vars
  <2> QED
    BY <1>2, <2>1, <2>2, Zenon DEF wait_ioreq, life_vars
<1>3. CASE ioreq_returns(t)
  <2>1. EventInv'
    BY <1>3, RecheckInv, Zenon DEF ioreq_returns
  <2>2. UNCHANGED vars \/ sleep_thread(t)
    BY <1>3 DEF ioreq_returns, recheck_event, EventInv, EventTypeOK, ExclusiveWait
  <2>3. UNCHANGED curr_obj
    BY <2>2, SleepFacts, Zenon DEF LifeTypeOK, vars, thread_vars
  <2> QED
    BY <1>3, <2>1, <2>3, Zenon DEF ioreq_returns, life_vars
<1>4. CASE hcall_notify_ioreq_finish(t)
  <2>1. EventInv'
    BY <1>4, SignalInv, SameEvents, Zenon DEF hcall_notify_ioreq_finish
  <2>2. UNCHANGED vars \/ wake_thread(t)
    BY <1>4 DEF hcall_notify_ioreq_finish, signal_event, EventInv, ExclusiveWait, allvars
  <2>3. UNCHANGED curr_obj
    BY <2>2, WakeFacts, Zenon DEF LifeTypeOK, vars, thread_vars
  <2> QED
    BY <1>4, <2>1, <2>3, Zenon DEF hcall_notify_ioreq_finish, life_vars
<1> QED
  BY <1>1, <1>2, <1>3, <1>4, Zenon DEF OfIo

LEMMA TickFacts ==
  ASSUME EventInv, NEW p \in Pcpu, io_tick(p)
  PROVE  /\ UNCHANGED <<event_vars, life_vars, io_vars>>
         /\ UNCHANGED <<curr_obj, status, be_blocking>>
         /\ EventInv'
<1>1. EventInv'
  BY EventNextInv, Zenon DEF io_tick, EventNext
<1> QED
  BY <1>1, Zenon DEF io_tick, request, yield_current

LEMMA OfLife ==
  ASSUME NEW t \in VcpuThread, NEW p \in Pcpu,
         \/ vm_pause \/ vm_clear_ioreq \/ vm_reset \/ vm_run \/ io_sync_done
         \/ UNCHANGED io_everything \/ OfPcpu(p) \/ OfClient(t) \/ OfVcpu(t)
  PROVE  [LifeNext]_everything
<1>1. CASE vm_pause
  BY Zenon, <1>1 DEF vm_pause, LifeNext, hypercall
<1>2. CASE vm_clear_ioreq \/ UNCHANGED io_everything
  BY Zenon, <1>2 DEF vm_clear_ioreq, io_everything
<1>3. CASE vm_reset \/ vm_run \/ io_sync_done
  BY Zenon, <1>3 DEF vm_reset, vm_run, io_sync_done, LifeNext, hypercall
<1>4. CASE OfPcpu(p)
  BY Zenon, <1>4 DEF OfPcpu, io_boot, io_switch, LifeNext
<1>5. CASE OfClient(t)
  BY Zenon, <1>5 DEF OfClient, poll_ioreq, dm_emulate_io_complete, claim, answer, vm_suspend
<1>6. CASE OfVcpu(t)
  BY Zenon, <1>6 DEF OfVcpu, io_enter, io_lock_vm, io_vcpu_step, io_halt, io_interrupt, LifeNext
<1> QED
  BY <1>1, <1>2, <1>3, <1>4, <1>5, <1>6, Zenon

LEMMA IoLife ==
  ASSUME IoTypeOK, LockInv, HolderInv, DmInv, [IoNext]_io_everything
  PROVE  EventInv' /\ LifeTypeOK' /\ LockInv' /\ HolderInv' /\ UNCHANGED workload
<1> USE DEF IoTypeOK
<1>1. CASE [LifeNext]_everything
  <2>1. ~hcall_create_vm
    BY Zenon DEF hcall_create_vm, DmInv
  <2> QED
    BY <1>1, <2>1, LifeTypes, LifeEvents, LifeHolder, SameWorkload, Zenon
<1>2. ASSUME NEW t \in VcpuThread, OfIo(t)
      PROVE  EventInv' /\ LifeTypeOK' /\ LockInv' /\ HolderInv' /\ UNCHANGED workload
  <2>1. /\ UNCHANGED <<vm_state, vcpu_state, nr_sipi, vm_lock, hcall, sync_on, workload>>
        /\ UNCHANGED curr_obj /\ EventInv'
        /\ vm_pc' = vm_pc \/ (vm_pc[t] = guest /\ vm_pc' = [vm_pc EXCEPT ![t] = entry])
    BY <1>2, OfIoFacts, Zenon
  <2>2. LifeTypeOK'
    BY <2>1, Zenon DEF LifeTypeOK, EventInv, SchedInv
  <2>3. LockInv'
    BY <2>1, Zenon DEF LockInv
  <2>4. ASSUME NEW q \in VcpuThread, vm_lock' = q PROVE Holder(q)'
    <3>1. Holder(q)
      BY <2>1, <2>4, Zenon DEF HolderInv
    <3>2. vm_pc'[q] = vm_pc[q]
      BY <2>1, <3>1 DEF Holder, guest, LifeTypeOK
    <3> QED
      BY <2>1, <3>1, <3>2, Zenon DEF Holder, running_code
  <2> QED
    BY <2>1, <2>2, <2>3, <2>4, Zenon DEF HolderInv
<1>3. ASSUME NEW p \in Pcpu, io_tick(p)
      PROVE  EventInv' /\ LifeTypeOK' /\ LockInv' /\ HolderInv' /\ UNCHANGED workload
  <2>1. EventInv' /\ UNCHANGED <<life_vars, curr_obj>>
    BY <1>3, TickFacts, Zenon
  <2> QED
    BY <2>1, Zenon DEF life_vars, LifeTypeOK, EventInv, SchedInv, LockInv, HolderInv, Holder, running_code
<1> QED
  BY <1>1, <1>2, <1>3, IoSteps, OfLife, LifecycleAssumption, VcpuFacts

-----------------------------------------------------------------------------
(* The slots, the clients and the Device Model, under every workload. *)

LEMMA StateKept ==
  ASSUME NEW t \in VcpuThread, NEW p \in Pcpu, OfVcpu(t) \/ OfPcpu(p) \/ io_sync_done
  PROVE  UNCHANGED <<vm_state, hcall, req, io_pc, owed, client, client_pc, dm_pc>>
<1>1. CASE OfVcpu(t)
  <2>1. UNCHANGED io_vars
    BY <1>1, Zenon DEF OfVcpu, io_enter, io_lock_vm, io_vcpu_step, io_halt, io_interrupt
  <2>2. UNCHANGED <<vm_state, hcall>>
    BY Zenon, <1>1 DEF OfVcpu, io_enter, io_lock_vm, io_vcpu_step, io_halt, io_interrupt, vcpu_step,
       enter_guest, lock_vm, halt, interrupt, process_init, reset_target, process_sipi,
       process_fatal, wait_returns, life_vars
  <2> QED
    BY <2>1, <2>2, Zenon DEF io_vars
<1>2. CASE OfPcpu(p)
  BY <1>2, Zenon DEF OfPcpu, io_boot, io_switch, life_boot, life_switch, life_vars, io_vars
<1>3. CASE io_sync_done
  BY <1>3, Zenon DEF io_sync_done, sync_done, io_vars
<1> QED
  BY <1>1, <1>2, <1>3, Zenon

Clients ==
    /\ req \in [VcpuThread -> {"FREE", "PENDING", "PROCESSING", "COMPLETE"}]
    /\ io_pc \in [VcpuThread -> {"none", "issued", "waiting", "poll", "finish"}]
    /\ owed \in [VcpuThread -> BOOLEAN]
    /\ client \in [VcpuThread -> Client \cup {NULL}]
    /\ client_pc \in [VcpuThread -> {"idle", "claimed", "notify"}]
    /\ dm_pc \in {"start", "loop", "pause", "paused", "cleared"}

LEMMA ClientFacts ==
  ASSUME LockInv
  PROVE  Client \subseteq {"dm", "kernel"} /\ NULL \notin Client
  BY IoReqAssumption, Zenon DEF LockInv, Client

LEMMA ClientsInv ==
  ASSUME Clients, LockInv, DmInv, \A t \in VcpuThread : Served(t), UNCHANGED workload,
         LifeTypeOK, EventInv, [IoNext]_io_everything
  PROVE  Clients' /\ DmInv' /\ \A t \in VcpuThread : Served(t)'
<1> DEFINE Goal == Clients' /\ DmInv' /\ \A q \in VcpuThread : Served(q)'
<1>0. Client' = Client /\ NULL \notin Client
  BY ClientFacts, Zenon DEF Client
<1> USE DEF Clients
<1>1. ASSUME UNCHANGED <<vm_state, hcall, req, io_pc, owed, client, client_pc, dm_pc>> PROVE Goal
  BY <1>0, <1>1, Zenon DEF DmInv, Served
<1>2. CASE vm_pause
  <2>1. UNCHANGED <<req, io_pc, owed, client, client_pc>> /\ dm_pc = "pause"
    BY <1>2, Zenon DEF vm_pause
  <2>2. \/ dm_pc' = "pause" /\ vm_state' = vm_state
        \/ dm_pc' = "paused" /\ vm_state' = "PAUSED" /\ hcall' = "none"
    BY <1>2, Zenon DEF vm_pause, pause_begin, pause_end, pause_vcpu
  <2> QED
    BY <1>0, <2>1, <2>2, Zenon DEF DmInv, Served
<1>3. CASE vm_clear_ioreq
  <2>1. UNCHANGED <<vm_state, hcall, req, io_pc, owed>> /\ dm_pc = "paused" /\ dm_pc' = "cleared"
    BY <1>3, Zenon DEF vm_clear_ioreq, everything, life_vars
  <2>2. /\ client' = [t \in VcpuThread |-> NULL]
        /\ client_pc' = [t \in VcpuThread |-> "idle"]
    BY <1>3, Zenon DEF vm_clear_ioreq
  <2> QED
    BY <1>0, <2>1, <2>2, Zenon DEF DmInv, Served
<1>4. CASE vm_reset
  <2>1. /\ UNCHANGED <<hcall, io_pc, client, client_pc>> /\ vm_state' = "CREATED"
        /\ hcall = "none" /\ dm_pc = "cleared" /\ dm_pc' = "start"
        /\ req' = [t \in VcpuThread |-> "FREE"] /\ owed' = [t \in VcpuThread |-> FALSE]
    BY <1>4, Zenon DEF vm_reset, hcall_reset_vm
  <2> QED
    BY <1>0, <2>1, Zenon DEF DmInv, Served
<1>5. CASE vm_run
  <2>1. /\ UNCHANGED <<hcall, req, io_pc, owed, client, client_pc>> /\ vm_state' = "RUNNING"
        /\ hcall = "none" /\ dm_pc = "start" /\ dm_pc' = "loop"
    BY <1>5, Zenon DEF vm_run, hcall_start_vm
  <2> QED
    BY <1>0, <2>1, Zenon DEF DmInv, Served
<1>6. CASE UNCHANGED io_everything
  BY <1>1, <1>6, Zenon DEF io_everything, everything, life_vars, io_vars
<1>7. ASSUME NEW p \in Pcpu, io_tick(p) PROVE Goal
  BY <1>1, <1>7, TickFacts, Zenon DEF life_vars, io_vars
<1>8. ASSUME NEW t \in VcpuThread, OfIo(t) PROVE Goal
  <2>1. UNCHANGED <<vm_state, hcall, dm_pc>>
    BY <1>8, OfIoFacts, Zenon
  <2>2. CASE acrn_insert_request(t)
    <3>1. UNCHANGED <<client, client_pc>>
      BY <2>2, Zenon DEF acrn_insert_request
    <3>2. CASE req[t] = "FREE"
      <4>1. /\ req' = [req EXCEPT ![t] = "PENDING"] /\ owed' = [owed EXCEPT ![t] = TRUE]
            /\ io_pc' = [io_pc EXCEPT ![t] = IF is_polling_ioreq THEN "poll" ELSE "issued"]
        BY <2>2, <3>2, Zenon DEF acrn_insert_request
      <4> QED
        BY <1>0, <2>1, <3>1, <3>2, <4>1, Zenon DEF DmInv, Served
    <3>3. CASE req[t] # "FREE"
      BY <1>1, <2>1, <2>2, <3>1, <3>3, Zenon DEF acrn_insert_request
    <3> QED
      BY <3>2, <3>3, Zenon
  <2>3. CASE wait_ioreq(t) \/ ioreq_returns(t)
    <3>1. /\ UNCHANGED <<req, owed, client, client_pc>>
          /\ \/ io_pc' = [io_pc EXCEPT ![t] = "finish"]
             \/ io_pc' = [io_pc EXCEPT ![t] = "waiting"]
      BY <2>3, Zenon DEF wait_ioreq, ioreq_returns
    <3> QED
      BY <1>0, <2>1, <3>1, Zenon DEF DmInv, Served
  <2>4. CASE hcall_notify_ioreq_finish(t)
    <3>1. /\ UNCHANGED <<req, io_pc, owed>> /\ client' = [client EXCEPT ![t] = NULL]
          /\ client_pc' = [client_pc EXCEPT ![t] = "idle"]
      BY <2>4, Zenon DEF hcall_notify_ioreq_finish
    <3> QED
      BY <1>0, <2>1, <3>1 DEF DmInv, Served
  <2> QED
    BY <1>8, <2>2, <2>3, <2>4, Zenon DEF OfIo
<1>9. ASSUME NEW t \in VcpuThread, OfClient(t) PROVE Goal
  <2>1. UNCHANGED <<vm_state, hcall>>
    BY <1>9, Zenon DEF OfClient, poll_ioreq, dm_emulate_io_complete, claim, answer, vm_suspend, everything,
       life_vars
  <2>2. CASE poll_ioreq(t)
    BY <1>0, <2>1, <2>2, Zenon DEF poll_ioreq, DmInv, Served
  <2>3. CASE dm_emulate_io_complete(t)
    <3>1. UNCHANGED <<owed, client, client_pc, dm_pc>> /\ io_pc' = [io_pc EXCEPT ![t] = "none"]
      BY <2>3, Zenon DEF dm_emulate_io_complete
    <3>2. req' = req \/ (req[t] = "COMPLETE" /\ req' = [req EXCEPT ![t] = "FREE"])
      BY <2>3, Zenon DEF dm_emulate_io_complete
    <3> QED
      BY <1>0, <2>1, <3>1, <3>2 DEF DmInv, Served
  <2>4. ASSUME NEW c \in Client, claim(t, c) PROVE Goal
    <3>1. /\ req[t] = "PENDING" /\ dm_pc # "cleared" /\ UNCHANGED <<io_pc, owed, dm_pc>>
          /\ req' = [req EXCEPT ![t] = "PROCESSING"] /\ client' = [client EXCEPT ![t] = c]
          /\ client_pc' = [client_pc EXCEPT ![t] = "claimed"]
      BY <2>4, Zenon DEF claim
    <3> QED
      BY <1>0, <2>1, <3>1 DEF DmInv, Served
  <2>5. CASE answer(t)
    <3>1. /\ client_pc[t] = "claimed" /\ (client[t] = "dm" => dm_pc = "loop")
          /\ UNCHANGED <<io_pc, client, dm_pc>> /\ req' = [req EXCEPT ![t] = "COMPLETE"]
          /\ owed' = [owed EXCEPT ![t] = FALSE] /\ client_pc' = [client_pc EXCEPT ![t] = "notify"]
      BY <2>5, Zenon DEF answer
    <3> QED
      BY <1>0, <2>1, <3>1 DEF DmInv, Served
  <2>6. CASE vm_suspend(t)
    <3>1. /\ dm_pc = "loop" /\ dm_pc' = "pause" /\ UNCHANGED <<req, io_pc, owed, client, client_pc>>
          /\ \A u \in VcpuThread : ~(client[u] = "dm" /\ client_pc[u] = "notify")
      BY <2>6, Zenon DEF vm_suspend
    <3> QED
      BY <1>0, <2>1, <3>1, Zenon DEF DmInv, Served
  <2> QED
    BY <1>9, <2>2, <2>3, <2>4, <2>5, <2>6, Zenon DEF OfClient
<1>10. ASSUME NEW t \in VcpuThread, NEW p \in Pcpu, OfVcpu(t) \/ OfPcpu(p) \/ io_sync_done
       PROVE  Goal
  BY <1>1, <1>10, StateKept, Zenon
<1> QED
  BY <1>2, <1>3, <1>4, <1>5, <1>6, <1>7, <1>8, <1>9, <1>10, IoSteps, LifecycleAssumption, VcpuFacts

-----------------------------------------------------------------------------
(* Parked vCPUs stay parked: an answer signals only a RUNNING vCPU. *)

LEMMA NotifiedRuns ==
  ASSUME IoIInv, ParkedStay, NEW t \in VcpuThread, client_pc[t] = "notify", ~is_polling_ioreq
  PROVE  vcpu_state[t] = "RUNNING"
<1>1. client[t] = "dm"
  BY ClientFacts DEF IoIInv, IoTypeOK, Served, ParkedStay
<1>2. dm_pc = "loop"
  BY <1>1, Zenon DEF IoIInv, Served
<1>3. vm_state = "RUNNING" /\ hcall = "none"
  BY <1>2, Zenon DEF IoIInv, DmInv, IoTypeOK, LifeTypeOK
<1> QED
  BY <1>3, Zenon DEF IoIInv, Requested, Idle

LEMMA IoParked ==
  ASSUME IoIInv, ParkedStay, [IoNext]_io_everything
  PROVE  ParkedInv'
<1>0. IoTypeOK /\ EventInv /\ LifeTypeOK /\ LockInv /\ HolderInv /\ ParkedInv /\ SourcesQuiet
  BY Zenon DEF IoIInv, IoTypeOK, ParkedStay
<1>1. CASE [LifeNext]_everything
  <2>1. ~hcall_create_vm
    BY Zenon DEF hcall_create_vm, DmInv, IoIInv, IoTypeOK
  <2> QED
    BY <1>0, <1>1, <2>1, LifeParked, Zenon
<1>2. ASSUME NEW t \in VcpuThread, OfIo(t) PROVE ParkedInv'
  <2>1. UNCHANGED <<vcpu_state, vm_state, sync_on>>
    BY <1>0, <1>2, OfIoFacts, Zenon
  <2>2. \A q \in VcpuThread : vm_pc[q] = stop => vm_pc'[q] = stop
    BY <1>0, <1>2, OfIoFacts DEF guest, stop, LifeTypeOK
  <2>3. \/ UNCHANGED vars
        \/ sleep_thread(t)
        \/ wake_thread(t) /\ vcpu_state[t] = "RUNNING"
    <3>1. CASE acrn_insert_request(t)
      BY <3>1, Zenon DEF acrn_insert_request, allvars
    <3>2. CASE wait_ioreq(t)
      BY <3>2, Zenon DEF wait_ioreq, wait_event
    <3>3. CASE ioreq_returns(t)
      BY <1>0, <3>3 DEF ioreq_returns, recheck_event, EventInv, EventTypeOK, ExclusiveWait
    <3>4. CASE hcall_notify_ioreq_finish(t)
      BY <1>0, <3>4, NotifiedRuns, IoReqAssumption DEF hcall_notify_ioreq_finish, signal_event, EventInv,
         ExclusiveWait, allvars
    <3> QED
      BY <1>2, <3>1, <3>2, <3>3, <3>4, Zenon DEF OfIo
  <2>4. ASSUME NEW q \in VcpuThread PROVE Parked(q)'
    <3>1. /\ vcpu_state[q] # "RUNNING" /\ is_blocked(q) => is_blocked(q)'
          /\ be_blocking[q] => be_blocking'[q]
      BY <1>0, <2>3, SleepFacts, WakeFacts, Zenon DEF LifeTypeOK, vars, thread_vars, is_blocked, is_running
    <3> QED
      BY <1>0, <2>1, <2>2, <3>1, ParkedFrame, Zenon
  <2> QED
    BY <2>4, Zenon DEF ParkedInv
<1>3. ASSUME NEW p \in Pcpu, io_tick(p) PROVE ParkedInv'
  BY <1>0, <1>3, TickFacts, Zenon DEF life_vars, ParkedInv, Parked, is_blocked
<1> QED
  BY <1>1, <1>2, <1>3, IoSteps, OfLife, LifecycleAssumption, VcpuFacts, Zenon

(* A vCPU in the guest outside a pause is RUNNING; that of a VM that is not
   RUNNING, or an operation under vm_lock, is not there. *)
LEMMA GuestRuns ==
  ASSUME IoIInv, ParkedStay, NEW t \in VcpuThread, running_code(t), vm_pc[t] # stop,
         hcall = "none" \/ vm_state # "RUNNING"
  PROVE  vcpu_state[t] = "RUNNING" /\ vm_state = "RUNNING"
<1>0. LifeTypeOK /\ EventInv /\ ParkedInv
  BY Zenon DEF IoIInv, IoTypeOK
<1>1. sync_on # t
  BY <1>0, Zenon DEF IoIInv, Idle, ParkedInv, Parked
<1> QED
  BY <1>0, <1>1, RunsIsNotBlocked, Zenon DEF ParkedInv, Parked

-----------------------------------------------------------------------------
(* A vCPU that is parked without a pause has no request. *)

LEMMA VcpuIdle ==
  ASSUME IoIInv, ParkedStay, NEW t \in VcpuThread, OfVcpu(t), NEW q \in VcpuThread
  PROVE  Idle(q)'
<1> USE VcpuFacts
<1>0. /\ LifeTypeOK /\ Idle(q) /\ Requested(t) /\ ~InitsBusyVcpu
      /\ UNCHANGED <<vm_state, hcall, req>>
  BY StateKept, LifecycleAssumption, Zenon DEF IoIInv, IoTypeOK, ParkedStay
<1>2. ASSUME vcpu_state'[q] # "RUNNING" => vcpu_state[q] # "RUNNING" \/ req[q] = "FREE",
             sync_on' = q => sync_on = q
      PROVE  Idle(q)'
  BY <1>0, <1>2, Zenon DEF Idle
<1>3. CASE io_enter(t) \/ io_lock_vm(t) \/ io_halt(t) \/ io_interrupt(t)
  <2>1. UNCHANGED <<vcpu_state, sync_on>>
    BY Zenon, <1>3 DEF io_enter, io_lock_vm, io_halt, io_interrupt, enter_guest, lock_vm, halt, interrupt,
       life_vars
  <2> QED
    BY <1>2, <2>1, Zenon
<1>4. CASE io_vcpu_step(t)
  <2>0. io_pc[t] = "none" /\ init_allowed(vm_pc[t])
    BY <1>4, Zenon DEF io_vcpu_step
  <2>1. CASE process_init(t)
    <3>1. vm_pc[t].to \in VcpuThread /\ vcpu_state[vm_pc[t].to] # "RUNNING"
      BY <1>0, <2>0, <2>1, PcFacts, Zenon DEF process_init, init_allowed
    <3>2. /\ sync_on' = NULL \/ sync_on' = sync_on
          /\ \/ vcpu_state' = vcpu_state
             \/ vcpu_state' = [vcpu_state EXCEPT ![vm_pc[t].to] = "ZOMBIE"]
      BY <2>1, <3>1, Zenon DEF process_init, zombie_vcpu
    <3>3. vcpu_state'[q] # "RUNNING" => vcpu_state[q] # "RUNNING"
      BY <1>0, <3>1, <3>2, Zenon DEF LifeTypeOK
    <3> QED
      BY <1>2, <3>2, <3>3, Zenon
  <2>2. CASE reset_target(t)
    <3>1. vm_pc[t].to \in VcpuThread /\ vcpu_state[vm_pc[t].to] # "RUNNING"
      BY <1>0, <2>0, <2>2, PcFacts, Zenon DEF reset_target, init_allowed
    <3>2. sync_on' = sync_on /\ vcpu_state' = [vcpu_state EXCEPT ![vm_pc[t].to] = "INIT"]
      BY <2>2, Zenon DEF reset_target
    <3> QED
      BY <1>0, <1>2, <3>1, <3>2, Zenon DEF LifeTypeOK
  <2>3. CASE process_sipi(t)
    <3>1. vm_pc[t].to \in VcpuThread
      BY <1>0, <2>3, PcFacts, Zenon DEF process_sipi
    <3>2. /\ sync_on' = sync_on
          /\ \/ vcpu_state' = vcpu_state
             \/ vcpu_state' = [vcpu_state EXCEPT ![vm_pc[t].to] = "RUNNING"]
      BY <2>3, Zenon DEF process_sipi, launch_vcpu
    <3> QED
      BY <1>0, <1>2, <3>1, <3>2, Zenon DEF LifeTypeOK
  <2>4. CASE process_fatal(t)
    <3>1. /\ sync_on' = NULL \/ sync_on' = sync_on
          /\ vcpu_state' = vcpu_state \/ vcpu_state' = [vcpu_state EXCEPT ![t] = "ZOMBIE"]
      BY <2>4, Zenon DEF process_fatal, zombie_vcpu
    <3>2. req[t] = "FREE"
      BY <1>0, <2>0, Zenon DEF Requested
    <3> QED
      BY <1>0, <1>2, <3>1, <3>2, Zenon DEF LifeTypeOK
  <2>5. CASE wait_returns(t)
    BY <1>2, <2>5, Zenon DEF wait_returns, life_vars
  <2> QED
    BY <1>4, <2>1, <2>2, <2>3, <2>4, <2>5, Zenon DEF io_vcpu_step, vcpu_step
<1> QED
  BY <1>3, <1>4, Zenon DEF OfVcpu

LEMMA IoIdle ==
  ASSUME IoIInv, ParkedStay, [IoNext]_io_everything, NEW q \in VcpuThread
  PROVE  Idle(q)'
<1> USE VcpuFacts, LifecycleAssumption
<1>0. /\ LifeTypeOK /\ EventInv /\ Idle(q) /\ Served(q) /\ LockInv
      /\ req \in [VcpuThread -> {"FREE", "PENDING", "PROCESSING", "COMPLETE"}]
  BY Zenon DEF IoIInv, IoTypeOK
<1>1. ASSUME UNCHANGED <<vm_state, vcpu_state, hcall, sync_on>>,
             req'[q] = "FREE" \/ req[q] # "FREE" \/ req'[q] = req[q]
      PROVE  Idle(q)'
  BY <1>0, <1>1, Zenon DEF Idle
<1>2. CASE vm_pause
  BY <1>0, <1>2, Zenon DEF vm_pause, pause_begin, pause_end, pause_vcpu, Idle
<1>3. CASE vm_clear_ioreq \/ UNCHANGED io_everything
  BY <1>1, <1>3, Zenon DEF vm_clear_ioreq, io_everything, everything, life_vars, io_vars
<1>4. CASE vm_reset
  BY <1>0, <1>4, Zenon DEF vm_reset, hcall_reset_vm, Idle
<1>5. CASE vm_run
  <2>1. /\ vm_state = "CREATED" /\ UNCHANGED <<hcall, sync_on, req>>
        /\ vcpu_state' = [vcpu_state EXCEPT ![BSP] = "RUNNING"]
    BY <1>5, Zenon DEF vm_run, hcall_start_vm, launch_vcpu
  <2> QED
    BY <1>0, <2>1, Zenon DEF Idle, LifeTypeOK
<1>6. CASE io_sync_done
  BY <1>0, <1>6, Zenon DEF io_sync_done, sync_done, io_vars, Idle
<1>7. ASSUME NEW p \in Pcpu, OfPcpu(p) \/ io_tick(p) PROVE Idle(q)'
  BY <1>1, <1>7, Zenon DEF OfPcpu, io_boot, io_switch, io_tick, life_boot, life_switch, life_vars, io_vars
<1>8. ASSUME NEW t \in VcpuThread, OfIo(t) PROVE Idle(q)'
  <2>1. UNCHANGED <<vm_state, vcpu_state, hcall, sync_on>>
    BY <1>0, <1>8, OfIoFacts, Zenon
  <2>2. CASE acrn_insert_request(t)
    <3>1. running_code(t) /\ vm_pc[t] # stop
      BY <2>2 DEF acrn_insert_request, in_guest, guest, stop
    <3>2. hcall = "none" => vcpu_state[t] = "RUNNING"
      BY <3>1, GuestRuns, Zenon
    <3>3. q # t => req'[q] = req[q]
      BY <1>0, <2>2, Zenon DEF acrn_insert_request
    <3> QED
      BY <1>0, <2>1, <3>2, <3>3, Zenon DEF Idle
  <2>3. CASE ~acrn_insert_request(t)
    BY <1>1, <1>8, <2>1, <2>3, Zenon DEF OfIo, wait_ioreq, ioreq_returns, hcall_notify_ioreq_finish
  <2> QED
    BY <2>2, <2>3, Zenon
<1>9. ASSUME NEW t \in VcpuThread, OfClient(t) PROVE Idle(q)'
  <2>1. UNCHANGED <<vm_state, vcpu_state, hcall, sync_on>>
    BY <1>9, Zenon DEF OfClient, poll_ioreq, dm_emulate_io_complete, claim, answer, vm_suspend, everything,
       life_vars
  <2>2. CASE poll_ioreq(t) \/ vm_suspend(t)
    BY <1>1, <2>1, <2>2, Zenon DEF poll_ioreq, vm_suspend
  <2>3. CASE dm_emulate_io_complete(t)
    BY <1>0, <1>1, <2>1, <2>3, Zenon DEF dm_emulate_io_complete
  <2>4. CASE answer(t) \/ \E c \in Client : claim(t, c)
    <3>1. req[t] # "FREE" /\ (q # t => req'[q] = req[q])
      BY <1>0, <2>4, Zenon DEF answer, claim, IoIInv, Served
    <3> QED
      BY <1>1, <2>1, <3>1, Zenon
  <2> QED
    BY <1>9, <2>2, <2>3, <2>4, Zenon DEF OfClient
<1> QED
  BY <1>2, <1>3, <1>4, <1>5, <1>6, <1>7, <1>8, <1>9, VcpuIdle, IoSteps, Zenon

-----------------------------------------------------------------------------
(* The slot of a vCPU through emulate_io. *)

(* A step that leaves the slot, and the wait for it, alone. *)
LEMMA RequestedFrame ==
  ASSUME NEW q \in VcpuThread, Requested(q), UNCHANGED workload,
         req'[q] = req[q], io_pc'[q] = io_pc[q],
         client_pc'[q] = "notify" => client_pc[q] = "notify",
         set'[q]["IOREQ"] = set[q]["IOREQ"],
         io_pc[q] = "waiting" =>
            /\ wait_pc'[q] # "no" /\ wait_on'[q] = wait_on[q]
            /\ waiting_thread'[q]["IOREQ"] = waiting_thread[q]["IOREQ"]
  PROVE  Requested(q)'
  BY Zenon DEF Requested, is_polling_ioreq

LEMMA ResetEventFacts ==
  ASSUME EventTypeOK, NEW t \in VcpuThread, NEW e \in EventId, reset_event(t, e),
         NEW q \in VcpuThread, NEW f \in EventId
  PROVE  /\ q = t /\ f = e => ~set'[q][f] /\ waiting_thread'[q][f] = NULL
         /\ q # t \/ f # e => /\ set'[q][f] = set[q][f]
                             /\ waiting_thread'[q][f] = waiting_thread[q][f]
  BY Zenon DEF reset_event, EventTypeOK

LEMMA OfIoRequested ==
  ASSUME IoIInv, ParkedStay, NEW t \in VcpuThread, OfIo(t), NEW q \in VcpuThread
  PROVE  Requested(q)'
<1> USE IoReqAssumption, VcpuFacts
<1>0. /\ IoTypeOK /\ LifeTypeOK /\ EventInv /\ EventTypeOK /\ Requested(q) /\ Requested(t)
      /\ is_polling_ioreq \in BOOLEAN
  BY Zenon DEF IoIInv, IoTypeOK, LifeTypeOK, LockInv, is_polling_ioreq
<1>1. UNCHANGED workload /\ is_polling_ioreq' = is_polling_ioreq
  BY <1>0, OfIoFacts, Zenon DEF is_polling_ioreq
<1>2. CASE acrn_insert_request(t)
  <2>1. UNCHANGED <<set, waiting_thread, wait_pc, wait_on, client_pc>>
    BY <1>2, Zenon DEF acrn_insert_request, allvars, event_vars
  <2>2. CASE q # t \/ req[t] # "FREE"
    <3>1. req'[q] = req[q] /\ io_pc'[q] = io_pc[q]
      BY <1>0, <1>2, <2>2, Zenon DEF acrn_insert_request, IoTypeOK
    <3> QED
      BY <1>0, <1>1, <2>1, <3>1, RequestedFrame, Zenon DEF Requested
  <2>3. CASE q = t /\ req[t] = "FREE"
    <3>1. req'[t] = "PENDING" /\ io_pc'[t] = (IF is_polling_ioreq THEN "poll" ELSE "issued")
      BY <1>0, <1>2, <2>3, Zenon DEF acrn_insert_request, IoTypeOK
    <3> QED
      BY <1>0, <1>1, <2>1, <2>3, <3>1, Zenon DEF Requested
  <2> QED
    BY <2>2, <2>3, Zenon
<1>3. CASE wait_ioreq(t)
  <2>0. UNCHANGED <<req, client_pc>> /\ io_pc[t] = "issued" /\ (q # t => io_pc'[q] = io_pc[q])
    BY <1>0, <1>3, Zenon DEF wait_ioreq, IoTypeOK
  <2>1. CASE set[t]["IOREQ"]
    <3>1. reset_event(t, "IOREQ") /\ UNCHANGED <<wait_pc, wait_on>> /\ io_pc'[t] = "finish"
      BY <1>0, <1>3, <2>1, Zenon DEF wait_ioreq, wait_event, IoTypeOK
    <3>2. CASE q = t
      <4>1. ~set'[t]["IOREQ"]
        BY <1>0, <3>1, ResetEventFacts, Zenon
      <4> QED
        BY <1>0, <1>1, <2>0, <2>1, <3>1, <3>2, <4>1, Zenon DEF Requested
    <3>3. CASE q # t
      <4>1. /\ set'[q]["IOREQ"] = set[q]["IOREQ"]
            /\ waiting_thread'[q]["IOREQ"] = waiting_thread[q]["IOREQ"]
        BY <1>0, <3>1, <3>3, ResetEventFacts
      <4> QED
        BY <1>0, <1>1, <2>0, <3>1, <3>3, <4>1, RequestedFrame, Zenon DEF Requested
    <3> QED
      BY <3>2, <3>3, Zenon
  <2>2. CASE ~set[t]["IOREQ"]
    <3>1. /\ UNCHANGED set /\ io_pc'[t] = "waiting"
          /\ waiting_thread' = [waiting_thread EXCEPT ![t]["IOREQ"] = t]
          /\ wait_on' = [wait_on EXCEPT ![t] = "IOREQ"]
          /\ wait_pc' = [wait_pc EXCEPT ![t] = "asleep"]
      BY <1>0, <1>3, <2>2, Zenon DEF wait_ioreq, wait_event, IoTypeOK
    <3>2. CASE q = t
      <4>1. waiting_thread'[t]["IOREQ"] = t /\ wait_on'[t] = "IOREQ" /\ wait_pc'[t] = "asleep"
        BY <1>0, <3>1, Zenon DEF EventTypeOK
      <4> QED
        BY <1>0, <1>1, <2>0, <2>2, <3>1, <3>2, <4>1, Zenon DEF Requested
    <3>3. CASE q # t
      <4>1. /\ waiting_thread'[q]["IOREQ"] = waiting_thread[q]["IOREQ"]
            /\ wait_on'[q] = wait_on[q] /\ wait_pc'[q] = wait_pc[q]
        BY <1>0, <3>1, <3>3, Zenon DEF EventTypeOK
      <4> QED
        BY <1>0, <1>1, <2>0, <3>1, <3>3, <4>1, RequestedFrame, Zenon DEF Requested
    <3> QED
      BY <3>2, <3>3, Zenon
  <2> QED
    BY <2>1, <2>2, Zenon
<1>4. CASE ioreq_returns(t)
  <2>0. /\ UNCHANGED <<req, client_pc>> /\ io_pc[t] = "waiting" /\ wait_on[t] = "IOREQ"
        /\ q # t => io_pc'[q] = io_pc[q]
    BY <1>0, <1>4, Zenon DEF ioreq_returns, IoTypeOK, Requested
  <2>1. CASE ~set[t]["IOREQ"] /\ waiting_thread[t]["IOREQ"] # NULL
    <3>1. /\ UNCHANGED <<set, waiting_thread, wait_on>>
          /\ wait_pc' = [wait_pc EXCEPT ![t] = "asleep"]
      BY <1>4, <2>0, <2>1, Zenon DEF ioreq_returns, recheck_event
    <3>2. wait_pc'[t] = "asleep" /\ (q # t => wait_pc'[q] = wait_pc[q])
      BY <1>0, <3>1, Zenon DEF EventTypeOK
    <3>3. io_pc'[q] = io_pc[q]
      BY <1>0, <1>4, <2>0, <3>2, Zenon DEF ioreq_returns, IoTypeOK
    <3> QED
      BY <1>0, <1>1, <2>0, <3>1, <3>2, <3>3, RequestedFrame, Zenon DEF Requested
  <2>2. CASE ~(~set[t]["IOREQ"] /\ waiting_thread[t]["IOREQ"] # NULL)
    <3>1. reset_event(t, "IOREQ") /\ leave_wait(t)
      BY <1>4, <2>0, <2>2, Zenon DEF ioreq_returns, recheck_event
    <3>2. CASE q = t
      <4>1. wait_pc'[t] = "no" /\ ~set'[t]["IOREQ"]
        BY <1>0, <3>1, ResetEventFacts, Zenon DEF leave_wait, EventTypeOK
      <4>2. io_pc'[t] = "finish"
        BY <1>0, <1>4, <4>1, Zenon DEF ioreq_returns, IoTypeOK
      <4>3. req[t] \in {"FREE", "COMPLETE"} /\ (~is_polling_ioreq => client_pc[t] # "notify")
        BY <1>0, <2>0, <2>2, Zenon DEF Requested
      <4> QED
        BY <1>0, <1>1, <2>0, <3>2, <4>1, <4>2, <4>3, Zenon DEF Requested
    <3>3. CASE q # t
      <4>1. /\ set'[q]["IOREQ"] = set[q]["IOREQ"]
            /\ waiting_thread'[q]["IOREQ"] = waiting_thread[q]["IOREQ"]
            /\ wait_on'[q] = wait_on[q] /\ wait_pc'[q] = wait_pc[q]
        BY <1>0, <3>1, <3>3, ResetEventFacts DEF leave_wait, EventTypeOK
      <4> QED
        BY <1>0, <1>1, <2>0, <3>3, <4>1, RequestedFrame, Zenon DEF Requested
    <3> QED
      BY <3>2, <3>3, Zenon
  <2> QED
    BY <2>1, <2>2, Zenon
<1>5. CASE hcall_notify_ioreq_finish(t)
  <2>0. /\ UNCHANGED <<req, io_pc, waiting_thread, wait_pc, wait_on>> /\ client_pc[t] = "notify"
        /\ client_pc' = [client_pc EXCEPT ![t] = "idle"]
    BY <1>5, Zenon DEF hcall_notify_ioreq_finish, signal_event, allvars, event_vars
  <2>1. CASE set'[q]["IOREQ"] = set[q]["IOREQ"]
    BY <1>0, <1>1, <2>0, <2>1, RequestedFrame DEF Requested, IoTypeOK
  <2>2. CASE set'[q]["IOREQ"] # set[q]["IOREQ"]
    <3>1. ~is_polling_ioreq /\ set' = [set EXCEPT ![t]["IOREQ"] = TRUE]
      BY <1>5, <2>2, Zenon DEF hcall_notify_ioreq_finish, signal_event, allvars, event_vars
    <3>2. q = t
      BY <1>0, <2>2, <3>1, Zenon DEF EventTypeOK
    <3>3. client_pc'[t] = "idle"
      BY <1>0, <2>0, Zenon DEF IoTypeOK
    <3> QED
      BY <1>0, <1>1, <2>0, <3>1, <3>2, <3>3, Zenon DEF Requested
  <2> QED
    BY <2>1, <2>2, Zenon
<1> QED
  BY <1>2, <1>3, <1>4, <1>5, Zenon DEF OfIo

LEMMA OfClientRequested ==
  ASSUME IoIInv, ParkedStay, NEW t \in VcpuThread, OfClient(t), NEW q \in VcpuThread
  PROVE  Requested(q)'
<1> USE VcpuFacts
<1>0. /\ IoTypeOK /\ Requested(q) /\ Requested(t) /\ Served(t)
      /\ is_polling_ioreq \in BOOLEAN
  BY IoReqAssumption, Zenon DEF IoIInv, LockInv, is_polling_ioreq
<1>1. /\ UNCHANGED workload /\ is_polling_ioreq' = is_polling_ioreq
      /\ UNCHANGED <<set, waiting_thread, wait_pc, wait_on>>
  BY Zenon DEF OfClient, poll_ioreq, dm_emulate_io_complete, claim, answer, vm_suspend, everything,
     life_vars, allvars, event_vars, is_polling_ioreq
<1>2. ASSUME req'[q] = req[q], io_pc'[q] = io_pc[q], client_pc'[q] = client_pc[q]
      PROVE  Requested(q)'
  BY <1>0, <1>1, <1>2, Zenon DEF Requested
<1>3. CASE q # t
  <2>1. req'[q] = req[q] /\ io_pc'[q] = io_pc[q] /\ client_pc'[q] = client_pc[q]
    BY <1>0, <1>3, Zenon DEF OfClient, poll_ioreq, dm_emulate_io_complete, claim, answer, vm_suspend,
       IoTypeOK
  <2> QED
    BY <1>2, <2>1, Zenon
<1>4. CASE q = t
  <2>1. CASE poll_ioreq(t)
    <3>1. io_pc[t] = "poll" /\ req[t] = "COMPLETE" /\ UNCHANGED <<req, client_pc>>
      BY <2>1, Zenon DEF poll_ioreq
    <3>2. io_pc'[t] = "finish"
      BY <1>0, <2>1, Zenon DEF poll_ioreq, IoTypeOK
    <3> QED
      BY <1>0, <1>1, <1>4, <3>1, <3>2, Zenon DEF Requested
  <2>2. CASE dm_emulate_io_complete(t)
    <3>1. io_pc[t] = "finish" /\ UNCHANGED client_pc
      BY <2>2, Zenon DEF dm_emulate_io_complete
    <3>2. io_pc'[t] = "none" /\ req'[t] = IF req[t] = "COMPLETE" THEN "FREE" ELSE req[t]
      BY <1>0, <2>2, Zenon DEF dm_emulate_io_complete, IoTypeOK
    <3> QED
      BY <1>0, <1>1, <1>4, <3>1, <3>2, Zenon DEF Requested
  <2>3. ASSUME NEW c \in Client, claim(t, c) PROVE Requested(q)'
    <3>1. req[t] = "PENDING" /\ UNCHANGED io_pc
      BY <2>3, Zenon DEF claim
    <3>2. req'[t] = "PROCESSING" /\ client_pc'[t] = "claimed"
      BY <1>0, <2>3, Zenon DEF claim, IoTypeOK
    <3> QED
      BY <1>0, <1>1, <1>4, <3>1, <3>2, Zenon DEF Requested
  <2>4. CASE answer(t)
    <3>1. req[t] = "PROCESSING" /\ UNCHANGED io_pc
      BY <1>0, <2>4, Zenon DEF answer, Served
    <3>2. req'[t] = "COMPLETE" /\ client_pc'[t] = "notify"
      BY <1>0, <2>4, Zenon DEF answer, IoTypeOK
    <3> QED
      BY <1>0, <1>1, <1>4, <3>1, <3>2, Zenon DEF Requested
  <2>5. CASE vm_suspend(t)
    BY <1>2, <2>5, Zenon DEF vm_suspend
  <2> QED
    BY <2>1, <2>2, <2>3, <2>4, <2>5, Zenon DEF OfClient
<1> QED
  BY <1>3, <1>4, Zenon
=============================================================================
