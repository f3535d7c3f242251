---------------------------- MODULE IoReqProofs -----------------------------
(***************************************************************************)
(* I/O requests of a VM with any number of vCPUs, under any workload: a    *)
(* vCPU goes on only behind an access that was answered or withdrawn by a  *)
(* reset, and finds its slot FREE for the next one; a VM that is paused    *)
(* makes no new request.  The argument needs three things of each vCPU:    *)
(* what its slot may hold at each point of emulate_io, that the event is   *)
(* set only for the answer of the request the vCPU is in, and that a vCPU  *)
(* that is parked while its VM is not paused has no request (the last is   *)
(* shown in IoClientProofs).  The first two survive a pause because        *)
(* vcpu_reset_internal, which takes a waiting vCPU out of its wait, comes  *)
(* with reset_vm_ioreqs.                                                   *)
(*                                                                         *)
(* And HLT, where a vCPU waits for an interrupt instead of an answer.      *)
(***************************************************************************)
EXTENDS IoClientProofs, VirtualIntr

-----------------------------------------------------------------------------
(* The slot of a vCPU through the other steps of the vCPUs, and the scheduler's. *)

LEMMA OfVcpuRequested ==
  ASSUME IoIInv, ParkedStay, NEW t \in VcpuThread, OfVcpu(t), NEW q \in VcpuThread
  PROVE  Requested(q)'
<1> USE VcpuFacts, LifecycleAssumption, IoReqAssumption
<1>0. /\ IoTypeOK /\ LifeTypeOK /\ EventInv /\ EventTypeOK /\ LockInv /\ HolderInv
      /\ Requested(q) /\ Requested(t)
  BY Zenon DEF IoIInv, IoTypeOK, LifeTypeOK
<1>1. UNCHANGED <<workload, req, io_pc, client_pc>>
  BY StateKept, OfLife, SameWorkload, Zenon
<1>2. ASSUME UNCHANGED event_vars PROVE Requested(q)'
  BY <1>0, <1>1, <1>2, RequestedFrame, Zenon DEF event_vars, Requested
<1>3. CASE io_enter(t)
  <2>1. reset_event(t, "VIRTUAL_INTERRUPT") /\ UNCHANGED <<wait_pc, wait_on>>
    BY <1>3, Zenon DEF io_enter, enter_guest
  <2>2. /\ set'[q]["IOREQ"] = set[q]["IOREQ"]
        /\ waiting_thread'[q]["IOREQ"] = waiting_thread[q]["IOREQ"]
    BY <1>0, <2>1, ResetEventFacts
  <2> QED
    BY <1>0, <1>1, <2>1, <2>2, RequestedFrame, Zenon DEF Requested
<1>4. CASE io_lock_vm(t)
  BY <1>2, <1>4, Zenon DEF io_lock_vm, lock_vm, allvars
<1>5. CASE io_halt(t)
  <2>0. io_pc[t] = "none" /\ wait_event(t, "VIRTUAL_INTERRUPT")
    BY <1>5, Zenon DEF io_halt, halt
  <2>1. /\ set'[q]["IOREQ"] = set[q]["IOREQ"]
        /\ waiting_thread'[q]["IOREQ"] = waiting_thread[q]["IOREQ"]
        /\ q # t => wait_pc'[q] = wait_pc[q] /\ wait_on'[q] = wait_on[q]
    <3>1. /\ set'[q]["IOREQ"] = set[q]["IOREQ"]
          /\ waiting_thread'[q]["IOREQ"] = waiting_thread[q]["IOREQ"]
      <4>1. CASE set[t]["VIRTUAL_INTERRUPT"]
        BY <1>0, <2>0, <4>1, ResetEventFacts DEF wait_event
      <4>2. CASE ~set[t]["VIRTUAL_INTERRUPT"]
        <5>1. set' = set /\ waiting_thread' = [waiting_thread EXCEPT ![t]["VIRTUAL_INTERRUPT"] = t]
          BY <2>0, <4>2, Zenon DEF wait_event
        <5> QED
          BY <1>0, <5>1 DEF EventTypeOK
      <4> QED
        BY <4>1, <4>2, Zenon
    <3>2. q # t => wait_pc'[q] = wait_pc[q] /\ wait_on'[q] = wait_on[q]
      BY <1>0, <2>0 DEF wait_event, EventTypeOK
    <3> QED
      BY <3>1, <3>2, Zenon
  <2> QED
    BY <1>0, <1>1, <2>0, <2>1, RequestedFrame, Zenon DEF Requested
<1>6. CASE io_interrupt(t)
  <2>1. /\ set' = [set EXCEPT ![t]["VIRTUAL_INTERRUPT"] = TRUE]
        /\ UNCHANGED <<waiting_thread, wait_pc, wait_on>>
    BY <1>6, Zenon DEF io_interrupt, interrupt, signal_event
  <2>2. set'[q]["IOREQ"] = set[q]["IOREQ"]
    BY <1>0, <2>1 DEF EventTypeOK
  <2> QED
    BY <1>0, <1>1, <2>1, <2>2, RequestedFrame, Zenon DEF Requested
<1>7. CASE io_vcpu_step(t)
  <2>0. io_pc[t] = "none" /\ init_allowed(vm_pc[t]) /\ vcpu_step(t)
    BY <1>7, Zenon DEF io_vcpu_step
  <2>1. CASE process_init(t) \/ process_sipi(t) \/ process_fatal(t)
    BY <1>2, <2>1, Zenon DEF process_init, process_sipi, process_fatal
  <2>2. CASE reset_target(t)
    <3> DEFINE u == vm_pc[t].to
    <3>1. u \in VcpuThread /\ vcpu_state[u] # "RUNNING"
      BY <1>0, <2>2, PcFacts, Zenon DEF reset_target, HolderInv, Holder
    <3>2. running_code(t) /\ vm_pc[t] # stop /\ hcall = "none"
      BY <1>0, <2>2 DEF reset_target, stop, LockInv, LifeTypeOK
    <3>3. vm_state = "RUNNING"
      BY <3>2, GuestRuns, Zenon
    <3>4. req[u] = "FREE"
      BY <3>1, <3>2, <3>3, Zenon DEF IoIInv, Idle
    <3>5. /\ UNCHANGED <<wait_pc, wait_on>>
          /\ set'[q] = IF q = u THEN [e \in EventId |-> FALSE] ELSE set[q]
          /\ waiting_thread'[q] = IF q = u THEN [e \in EventId |-> NULL] ELSE waiting_thread[q]
      BY <2>2, Zenon DEF reset_target, vcpu_reset_internal
    <3>6. CASE q = u
      <4>1. ~set'[q]["IOREQ"]
        BY <3>5, <3>6, Zenon
      <4> QED
        BY <1>0, <1>1, <3>4, <3>5, <3>6, <4>1, Zenon DEF Requested, is_polling_ioreq
    <3>7. CASE q # u
      BY <1>0, <1>1, <3>5, <3>7, RequestedFrame, Zenon DEF Requested
    <3> QED
      BY <3>6, <3>7, Zenon
  <2>3. CASE wait_returns(t)
    <3>1. recheck_event(t) /\ wait_on[t] \in EventId
      BY <1>0, <2>3, Zenon DEF wait_returns, recheck_event, EventTypeOK
    <3>2. CASE q = t
      <4>1. set'[t]["IOREQ"] => set[t]["IOREQ"]
        BY <1>0, <3>1, ResetEventFacts, Zenon DEF recheck_event
      <4> QED
        BY <1>0, <1>1, <2>0, <3>2, <4>1, Zenon DEF Requested, is_polling_ioreq
    <3>3. CASE q # t
      <4>1. /\ set'[q]["IOREQ"] = set[q]["IOREQ"]
            /\ waiting_thread'[q]["IOREQ"] = waiting_thread[q]["IOREQ"]
        <5>1. reset_event(t, wait_on[t]) \/ UNCHANGED <<set, waiting_thread>>
          BY <3>1, Zenon DEF recheck_event
        <5> QED
          BY <1>0, <3>1, <3>3, <5>1, ResetEventFacts
      <4>2. wait_pc'[q] = wait_pc[q] /\ wait_on'[q] = wait_on[q]
        BY <1>0, <3>1, <3>3 DEF recheck_event, leave_wait, EventTypeOK
      <4> QED
        BY <1>0, <1>1, <4>1, <4>2, RequestedFrame, Zenon DEF Requested
    <3> QED
      BY <3>2, <3>3, Zenon
  <2> QED
    BY <2>0, <2>1, <2>2, <2>3, Zenon DEF vcpu_step
<1> QED
  BY <1>3, <1>4, <1>5, <1>6, <1>7, Zenon DEF OfVcpu

LEMMA IoRequested ==
  ASSUME IoIInv, ParkedStay, [IoNext]_io_everything, NEW q \in VcpuThread
  PROVE  Requested(q)'
<1> USE LifecycleAssumption, IoReqAssumption
<1>0. /\ IoTypeOK /\ LifeTypeOK /\ EventInv /\ EventTypeOK /\ Requested(q)
      /\ UNCHANGED workload /\ is_polling_ioreq' = is_polling_ioreq
  BY IoLife, Zenon DEF IoIInv, IoTypeOK, LifeTypeOK, is_polling_ioreq
<1>1. ASSUME UNCHANGED <<event_vars, req, io_pc, client_pc>> PROVE Requested(q)'
  BY <1>0, <1>1, Zenon DEF event_vars, Requested
<1>2. CASE vm_pause
  BY <1>1, <1>2, Zenon DEF vm_pause, pause_begin, pause_end, pause_vcpu, allvars
<1>3. CASE vm_clear_ioreq
  <2>1. UNCHANGED <<event_vars, req, io_pc>> /\ client_pc' = [t \in VcpuThread |-> "idle"]
    BY <1>3, Zenon DEF vm_clear_ioreq, everything, allvars
  <2> QED
    BY <1>0, <2>1, RequestedFrame, Zenon DEF event_vars, Requested
<1>4. CASE vm_reset
  <2>1. /\ UNCHANGED <<io_pc, client_pc, wait_pc, wait_on>> /\ client_pc[q] = "idle"
        /\ req'[q] = "FREE" /\ set'[q] = [e \in EventId |-> FALSE]
    BY <1>4, Zenon DEF vm_reset, hcall_reset_vm, vcpu_reset_internal, IoIInv, Served
  <2>2. ~set'[q]["IOREQ"]
    BY <2>1, Zenon
  <2> QED
    BY <1>0, <2>1, <2>2, Zenon DEF Requested
<1>5. CASE vm_run
  BY <1>1, <1>5, Zenon DEF vm_run, hcall_start_vm
<1>6. CASE io_sync_done \/ UNCHANGED io_everything
  BY <1>1, <1>6, Zenon DEF io_sync_done, sync_done, io_everything, everything, allvars, io_vars
<1>7. ASSUME NEW p \in Pcpu, io_boot(p) \/ io_tick(p) PROVE Requested(q)'
  BY <1>1, <1>7, Zenon DEF io_boot, io_tick, life_boot, pcpu_boot, io_vars
<1>8. ASSUME NEW p \in Pcpu, io_switch(p) PROVE Requested(q)'
  <2>1. UNCHANGED <<set, waiting_thread, wait_on, req, io_pc, client_pc>>
    BY <1>8, Zenon DEF io_switch, life_switch, switch, io_vars
  <2>2. wait_pc[q] # "no" => wait_pc'[q] # "no"
    BY <1>0, <1>8 DEF io_switch, life_switch, switch, EventTypeOK
  <2> QED
    BY <1>0, <2>1, <2>2, RequestedFrame, Zenon DEF Requested
<1> QED
  BY <1>2, <1>3, <1>4, <1>5, <1>6, <1>7, <1>8, OfIoRequested, OfClientRequested, OfVcpuRequested,
     IoSteps, Zenon DEF OfPcpu

-----------------------------------------------------------------------------
(* The invariant, and what it gives. *)

LEMMA IoInitInv == IoInit => IoIInv
<1> SUFFICES ASSUME IoInit PROVE IoIInv
  OBVIOUS
<1>1. LifeIInv /\ EventInv
  BY LifeInitInv, EventInitInv, Zenon DEF IoInit, LifeInit
<1>2. LifeTypeOK /\ LockInv /\ HolderInv
  BY <1>1, Zenon DEF LifeIInv
<1>3. IoTypeOK
  BY <1>1, <1>2, Zenon DEF IoInit, IoTypeOK
<1>4. DmInv /\ \A t \in VcpuThread : Served(t)
  BY Zenon DEF IoInit, LifeInit, DmInv, Served
<1>5. ASSUME NEW t \in VcpuThread PROVE Requested(t) /\ Idle(t)
  <2>1. ~set[t]["IOREQ"]
    BY IoReqAssumption, Zenon DEF IoInit, LifeInit, EventInit
  <2> QED
    BY <2>1, VcpuFacts, Zenon DEF IoInit, LifeInit, Requested, Idle
<1>6. ParkedInv
  <2>1. \A t \in VcpuThread : is_blocked(t)
    BY VcpuFacts, Zenon DEF IoInit, LifeInit, EventInit, Init, ThreadInit, is_blocked, VcpuThread
  <2> QED
    BY <2>1, VcpuFacts, Zenon DEF IoInit, LifeInit, ParkedInv, Parked
<1> QED
  BY <1>2, <1>3, <1>4, <1>5, <1>6, Zenon DEF IoIInv

LEMMA IoNextInv == IoIInv /\ [IoNext]_io_everything => IoIInv'
<1> SUFFICES ASSUME IoIInv, [IoNext]_io_everything PROVE IoIInv'
  OBVIOUS
<1>1. EventInv' /\ LifeTypeOK' /\ LockInv' /\ HolderInv' /\ UNCHANGED workload
  BY IoLife, Zenon DEF IoIInv
<1>2. Clients' /\ DmInv' /\ \A t \in VcpuThread : Served(t)'
  BY <1>1, ClientsInv, Zenon DEF IoIInv, IoTypeOK, Clients
<1>3. IoTypeOK'
  BY <1>1, <1>2, Zenon DEF IoTypeOK, Clients
<1>4. ParkedStay' <=> ParkedStay
  BY <1>1, Zenon DEF ParkedStay, SourcesQuiet, Interrupted, InitsBusyVcpu, is_polling_ioreq, Client
<1>5. ParkedStay => ParkedInv' /\ \A t \in VcpuThread : Requested(t)' /\ Idle(t)'
  BY IoParked, IoRequested, IoIdle, Zenon
<1> QED
  BY <1>1, <1>2, <1>3, <1>4, <1>5, Zenon DEF IoIInv

LEMMA IoInvariant == IoSpec => []IoIInv
  BY IoInitInv, IoNextInv, PTL DEF IoSpec

(* acrn_insert_request never finds the slot of its vCPU in use: types, and a
   vCPU back in its loop has a FREE slot. *)
THEOREM IoInvariance == IoSpec => []IoInv
<1>1. IoIInv => IoInv
  BY Zenon DEF IoIInv, IoInv, SlotFree, Requested
<1> QED
  BY <1>1, IoInvariant, PTL

(* dm_emulate_io_complete, and the guest behind it, run only after the request
   was answered, or was withdrawn by reset_vm_ioreqs. *)
THEOREM AnsweredThm == IoSpec => []Answered
<1>1. IoIInv => Answered
  BY Zenon DEF IoIInv, Answered, Requested, Served
<1> QED
  BY <1>1, IoInvariant, PTL

(* The comment of vm_system_reset: behind vm_pause the slots fill no more, so
   that vm_clear_ioreq and reset_vm_ioreqs lose nothing. *)
THEOREM NoNewIoreq == IoSpec => NoNewIoreqAfterPause
<1> DEFINE Step == ParkedStay /\ vm_state = "PAUSED" =>
                     \A t \in VcpuThread : req[t] = "FREE" => req'[t] = "FREE"
<1>1. IoIInv /\ [IoNext]_io_everything => Step
  <2> SUFFICES ASSUME IoIInv, [IoNext]_io_everything, ParkedStay, vm_state = "PAUSED",
                      NEW q \in VcpuThread, req[q] = "FREE", req'[q] # "FREE"
               PROVE  FALSE
    OBVIOUS
  <2>1. PICK t \in VcpuThread : acrn_insert_request(t)
    <3>1. CASE \E t \in VcpuThread : OfClient(t)
      BY <3>1 DEF OfClient, poll_ioreq, dm_emulate_io_complete, claim, answer, vm_suspend, IoIInv,
         IoTypeOK, Served
    <3>2. ASSUME NEW t \in VcpuThread, OfIo(t) PROVE acrn_insert_request(t)
      BY <3>2, Zenon DEF OfIo, wait_ioreq, ioreq_returns, hcall_notify_ioreq_finish
    <3>3. ASSUME NEW t \in VcpuThread, NEW p \in Pcpu, OfVcpu(t) \/ OfPcpu(p) \/ io_sync_done
          PROVE  FALSE
      BY <3>3, StateKept, Zenon
    <3>4. CASE vm_pause \/ vm_clear_ioreq \/ vm_reset \/ vm_run \/ UNCHANGED io_everything
      BY <3>4, Zenon DEF vm_pause, vm_clear_ioreq, vm_reset, vm_run, io_everything, io_vars
    <3>5. ASSUME NEW p \in Pcpu, io_tick(p) PROVE FALSE
      BY <3>5, Zenon DEF io_tick, io_vars
    <3> QED
      BY <3>1, <3>2, <3>3, <3>4, <3>5, IoSteps, LifecycleAssumption, VcpuFacts, Zenon
  <2>2. running_code(t) /\ vm_pc[t] # stop
    BY <2>1 DEF acrn_insert_request, in_guest, guest, stop
  <2> QED
    BY <2>2, GuestRuns, Zenon
<1>2. IoIInv /\ [IoNext]_io_everything => [Step]_io_everything
  BY <1>1, Zenon
<1> QED
  BY <1>2, IoInvariant, PTL DEF IoSpec, NoNewIoreqAfterPause

-----------------------------------------------------------------------------
(* HLT against the interrupts of any number of vCPUs.  Every step is a step of
   Event, or none of it, so that VmLifecycleProofs has what is needed of threads
   and events.  That an interrupt is slept over only when its signal is late
   needs the vCPU between its test and its wait as well: an interrupt that
   becomes pending there finds a vCPU that does not wait yet, and only the event
   remembers it. *)

(* Only hlt_vmexit_handler waits, and it is the waiter its event knows, so that a
   signal after schedule() wakes it; one that comes before is late. *)
Halted(t) ==
    /\ wait_pc[t] # "no" => /\ loop[t] = "halting"
                            /\ wait_on[t] = VI
                            /\ waiting_thread[t][VI] = t
    /\ sleeps(t) /\ set[t][VI] => late[t]

(* What is pending behind the test of HLT is in the event, or will be. *)
Remembered(t) ==
    "accept" \notin Senders[t] =>
        /\ sender[t] # "request"
        /\ loop[t] = "halting" /\ pending[t] => set[t][VI] \/ sender[t] = "signal"

(* The inductive invariant. *)
IntrIInv == IntrTypeOK /\ \A t \in VcpuThread : Halted(t) /\ Remembered(t)

-----------------------------------------------------------------------------
LEMMA IsEventStep == [IntrNext]_intr_everything => [EventNext]_allvars
<1> SUFFICES ASSUME [IntrNext]_intr_everything PROVE [EventNext]_allvars
  OBVIOUS
<1> USE SendersAssumption
<1>1. ASSUME NEW p \in Pcpu,
             intr_switch(p) \/ pcpu_boot(p) \/ (request(p) /\ UNCHANGED event_vars)
      PROVE  EventNext
  BY <1>1, Zenon DEF intr_switch, EventNext
<1>2. ASSUME NEW t \in VcpuThread, launch(t) \/ hlt_returns(t) PROVE EventNext
  BY <1>2, Zenon DEF hlt_returns, EventNext
<1>3. ASSUME NEW t \in VcpuThread,
             \/ inject_pending(t) \/ vm_exit(t) \/ hlt_test(t)
             \/ inject_request(t) \/ accept_request(t)
      PROVE  UNCHANGED allvars
  BY <1>3, Zenon DEF inject_pending, vm_exit, hlt_test, inject_request, accept_request
<1>4. ASSUME NEW t \in VcpuThread, intr_enter_guest(t) PROVE reset(t, VI)
  BY <1>4, Zenon DEF intr_enter_guest, reset
<1>5. ASSUME NEW t \in VcpuThread,
             hlt_wait(t) \/ inject_signal(t) \/ accept_signal(t) \/ pi_notification(t)
      PROVE  wait_event(t, VI) \/ signal_event(t, VI)
  BY <1>5, Zenon DEF hlt_wait, inject_signal, accept_signal, pi_notification, signal_intr
<1>6. VI \in EventId
  BY Zenon DEF VI
<1>7. ASSUME NEW t \in VcpuThread, wait_event(t, VI) \/ signal_event(t, VI) \/ reset(t, VI)
      PROVE  EventNext
  BY <1>6, <1>7, Zenon DEF EventNext
<1>8. CASE UNCHANGED intr_everything
  BY <1>8, Zenon DEF intr_everything
<1> QED
  BY <1>1, <1>2, <1>3, <1>4, <1>5, <1>7, <1>8, Zenon DEF IntrNext

(* A step that takes no vCPU past its test, makes nothing pending and resets
   no event. *)
LEMMA RememberedFrame ==
  ASSUME NEW q \in VcpuThread, Remembered(q), sender'[q] = sender[q],
         loop'[q] = "halting" => loop[q] = "halting", pending'[q] => pending[q],
         set[q][VI] => set'[q][VI]
  PROVE  Remembered(q)'
  BY Zenon DEF Remembered

(* A step that leaves a waiting vCPU where it waits, and puts nobody to sleep. *)
LEMMA HaltedFrame ==
  ASSUME NEW q \in VcpuThread, Halted(q), wait_pc'[q] = wait_pc[q],
         wait_on'[q] = wait_on[q], waiting_thread'[q][VI] = waiting_thread[q][VI],
         wait_pc[q] # "no" => loop'[q] = loop[q], late'[q] = late[q],
         set'[q][VI] => set[q][VI], is_blocked(q)' => is_blocked(q)
  PROVE  Halted(q)'
<1>1. CASE wait_pc[q] = "no"
  BY <1>1, Zenon DEF Halted, sleeps
<1>2. CASE wait_pc[q] # "no"
  <2>1. sleeps(q)' => sleeps(q)
    BY <1>2, Zenon DEF sleeps
  <2> QED
    BY <1>2, <2>1, Zenon DEF Halted
<1> QED
  BY <1>1, <1>2, Zenon

LEMMA EventFacts ==
  ASSUME EventTypeOK, NEW t \in VcpuThread, NEW q \in VcpuThread
  PROVE  /\ signal_event(t, VI) =>
               /\ set'[t][VI] /\ (set[q][VI] => set'[q][VI])
               /\ q # t => set'[q][VI] = set[q][VI]
               /\ UNCHANGED <<waiting_thread, wait_pc, wait_on>>
         /\ reset_event(t, VI) /\ q # t =>
               /\ set'[q][VI] = set[q][VI]
               /\ waiting_thread'[q][VI] = waiting_thread[q][VI]
<1>1. VI \in EventId
  BY SendersAssumption, Zenon DEF VI
<1> QED
  BY <1>1 DEF EventTypeOK, signal_event, reset_event

(* A thread that goes to sleep is still running; a woken one is not BLOCKED. *)
LEMMA StatusFacts ==
  ASSUME SchedInv, NEW t \in VcpuThread
  PROVE  /\ running_code(t) /\ sleep_thread(t) => UNCHANGED status
         /\ wake_thread(t) => /\ status'[t] = "RUNNABLE"
                              /\ \A q \in VcpuThread : is_blocked(q)' => is_blocked(q)
<1>1. t \in Thread /\ VcpuThread \subseteq Thread /\ status \in [Thread -> {"RUNNING", "RUNNABLE", "BLOCKED"}]
  BY Zenon DEF VcpuThread, SchedInv, TypeOK, ThreadTypeOK
<1>2. running_code(t) => is_running(t)
  BY <1>1, Zenon DEF running_code, SchedInv, OneRunner
<1>3. running_code(t) /\ sleep_thread(t) => UNCHANGED status
  BY <1>2, Zenon DEF sleep_thread, SleepStatus
<1>4. wake_thread(t) => status'[t] = "RUNNABLE" /\ \A q \in VcpuThread : status'[q] = "BLOCKED" => status[q] = "BLOCKED"
  BY <1>1 DEF wake_thread, WakeStatus
<1> QED
  BY <1>3, <1>4, Zenon DEF is_blocked

(* The steps of the vCPU's own thread. *)
OfLoop(t) ==
    \/ inject_pending(t) \/ intr_enter_guest(t) \/ vm_exit(t)
    \/ hlt_test(t) \/ hlt_wait(t) \/ hlt_returns(t)

OfSender(t) ==
    \/ inject_request(t) \/ inject_signal(t)
    \/ accept_signal(t) \/ accept_request(t)
    \/ pi_notification(t)

LEMMA LoopKeeps ==
  ASSUME IntrIInv, NEW t \in VcpuThread, OfLoop(t), NEW q \in VcpuThread
  PROVE  Halted(q)' /\ Remembered(q)'
<1>0. /\ SchedInv /\ EventTypeOK /\ IntrTypeOK
      /\ Remembered(q) /\ Halted(q) /\ Halted(t)
      /\ VI \in EventId
  BY SendersAssumption, Zenon DEF IntrIInv, IntrTypeOK, EventInv, VI
<1>1. /\ UNCHANGED sender /\ (pending'[q] => pending[q])
      /\ q # t => late'[q] = late[q]
  BY <1>0, Zenon DEF OfLoop, inject_pending, intr_enter_guest, vm_exit, hlt_test, hlt_wait, hlt_returns,
     IntrTypeOK
<1>2. CASE inject_pending(t) \/ vm_exit(t) \/ hlt_test(t)
  <2>1. /\ UNCHANGED allvars /\ UNCHANGED late /\ wait_pc[t] = "no"
        /\ q # t => loop'[q] = loop[q]
        /\ pending'[t] /\ loop'[t] = "halting" => loop[t] = "halting"
    BY <1>0, <1>2, Zenon DEF inject_pending, vm_exit, hlt_test, at, goto, IntrTypeOK
  <2>2. Halted(q)'
    BY <1>0, <2>1, HaltedFrame, Zenon DEF allvars, vars, thread_vars, event_vars, is_blocked
  <2>3. Remembered(q)'
    BY <1>0, <1>1, <2>1, Zenon DEF allvars, event_vars, Remembered
  <2> QED
    BY <2>2, <2>3, Zenon
<1>3. CASE intr_enter_guest(t)
  <2>1. /\ UNCHANGED <<vars, wait_pc, wait_on, late>> /\ reset_event(t, VI)
        /\ wait_pc[t] = "no" /\ loop'[t] = "guest" /\ (q # t => loop'[q] = loop[q])
    BY <1>0, <1>3, Zenon DEF intr_enter_guest, at, goto, IntrTypeOK
  <2>2. CASE q = t
    BY <1>0, <1>1, <2>1, <2>2, Zenon DEF Remembered, Halted, sleeps
  <2>3. CASE q # t
    <3>1. set'[q][VI] = set[q][VI] /\ waiting_thread'[q][VI] = waiting_thread[q][VI]
      BY <1>0, <2>1, <2>3, EventFacts, Zenon
    <3> QED
      BY <1>0, <1>1, <2>1, <2>3, <3>1, RememberedFrame, HaltedFrame, Zenon DEF vars, thread_vars, is_blocked
  <2> QED
    BY <2>2, <2>3, Zenon
<1>4. CASE hlt_wait(t)
  <2>1. /\ wait_event(t, VI) /\ loop[t] = "halting" /\ UNCHANGED late
        /\ loop'[t] = (IF set[t][VI] THEN "entry" ELSE "halting")
        /\ q # t => loop'[q] = loop[q]
    BY <1>0, <1>4, Zenon DEF hlt_wait, at, goto, IntrTypeOK
  <2>2. CASE set[t][VI]
    <3>1. reset_event(t, VI) /\ wait_pc[t] = "no" /\ UNCHANGED <<vars, wait_pc, wait_on>>
      BY <2>1, <2>2, Zenon DEF wait_event
    <3>2. CASE q = t
      BY <1>0, <1>1, <2>1, <2>2, <3>1, <3>2, Zenon DEF Remembered, Halted, sleeps
    <3>3. CASE q # t
      <4>1. set'[q][VI] = set[q][VI] /\ waiting_thread'[q][VI] = waiting_thread[q][VI]
        BY <1>0, <3>1, <3>3, EventFacts, Zenon
      <4> QED
        BY <1>0, <1>1, <2>1, <3>1, <3>3, <4>1, RememberedFrame, HaltedFrame, Zenon
           DEF vars, thread_vars, is_blocked
    <3> QED
      BY <3>2, <3>3, Zenon
  <2>3. CASE ~set[t][VI]
    <3>1. /\ wait_on' = [wait_on EXCEPT ![t] = VI]
          /\ waiting_thread' = [waiting_thread EXCEPT ![t][VI] = t]
          /\ wait_pc' = [wait_pc EXCEPT ![t] = "asleep"]
          /\ running_code(t) /\ sleep_thread(t) /\ UNCHANGED set
      BY <2>1, <2>3, Zenon DEF wait_event
    <3>2. UNCHANGED status
      BY <1>0, <3>1, StatusFacts, Zenon
    <3>3. Remembered(q)'
      BY <1>0, <1>1, <2>1, <3>1, RememberedFrame, Zenon
    <3>4. CASE q = t
      <4>1. wait_on'[t] = VI /\ waiting_thread'[t][VI] = t /\ loop'[t] = "halting"
        BY <1>0, <2>1, <2>3, <3>1, Zenon DEF EventTypeOK
      <4> QED
        BY <2>3, <3>1, <3>3, <3>4, <4>1, Zenon DEF Halted
    <3>5. CASE q # t
      <4>1. /\ wait_on'[q] = wait_on[q] /\ waiting_thread'[q] = waiting_thread[q]
            /\ wait_pc'[q] = wait_pc[q]
        BY <1>0, <3>1, <3>5, Zenon DEF EventTypeOK
      <4> QED
        BY <1>0, <2>1, <3>1, <3>2, <3>3, <3>5, <4>1, HaltedFrame, Zenon DEF is_blocked
    <3> QED
      BY <3>4, <3>5, Zenon
  <2> QED
    BY <2>2, <2>3, Zenon
<1>5. CASE hlt_returns(t)
  <2>1. /\ recheck_event(t) /\ wait_pc[t] = "relock" /\ UNCHANGED pending
        /\ loop'[t] = (IF wait_pc'[t] = "no" THEN "entry" ELSE "halting")
        /\ q # t => loop'[q] = loop[q]
    BY <1>0, <1>5, Zenon DEF hlt_returns, recheck_event, goto, IntrTypeOK
  <2>2. wait_on[t] = VI /\ waiting_thread[t][VI] = t /\ loop[t] = "halting"
    BY <1>0, <2>1, Zenon DEF Halted
  <2>3. CASE ~set[t][VI] /\ waiting_thread[t][VI] # NULL
    <3>1. /\ running_code(t) /\ sleep_thread(t) /\ UNCHANGED <<set, waiting_thread, wait_on>>
          /\ wait_pc' = [wait_pc EXCEPT ![t] = "asleep"]
      BY <2>1, <2>2, <2>3, Zenon DEF recheck_event
    <3>2. UNCHANGED status
      BY <1>0, <3>1, StatusFacts, Zenon
    <3>3. wait_pc'[t] = "asleep" /\ (q # t => wait_pc'[q] = wait_pc[q])
      BY <1>0, <3>1, Zenon DEF EventTypeOK
    <3>4. Remembered(q)'
      BY <1>0, <1>1, <2>1, <2>2, <3>1, RememberedFrame, Zenon
    <3>5. CASE q = t
      BY <2>1, <2>2, <2>3, <3>1, <3>3, <3>4, <3>5, Zenon DEF Halted
    <3>6. CASE q # t
      BY <1>0, <1>1, <2>1, <3>1, <3>2, <3>3, <3>4, <3>6, HaltedFrame, Zenon DEF is_blocked
    <3> QED
      BY <3>5, <3>6, Zenon
  <2>4. CASE ~(~set[t][VI] /\ waiting_thread[t][VI] # NULL)
    <3>1. reset_event(t, VI) /\ leave_wait(t) /\ UNCHANGED vars
      BY <2>1, <2>2, <2>4, Zenon DEF recheck_event
    <3>2. /\ wait_pc'[t] = "no"
          /\ q # t => wait_pc'[q] = wait_pc[q] /\ wait_on'[q] = wait_on[q]
      BY <1>0, <3>1, Zenon DEF leave_wait, EventTypeOK
    <3>3. CASE q = t
      BY <1>0, <1>1, <2>1, <3>2, <3>3, Zenon DEF Remembered, Halted, sleeps
    <3>4. CASE q # t
      <4>1. set'[q][VI] = set[q][VI] /\ waiting_thread'[q][VI] = waiting_thread[q][VI]
        BY <1>0, <3>1, <3>4, EventFacts, Zenon
      <4> QED
        BY <1>0, <1>1, <2>1, <3>1, <3>2, <3>4, <4>1, RememberedFrame, HaltedFrame, Zenon
           DEF vars, thread_vars, is_blocked
    <3> QED
      BY <3>3, <3>4, Zenon
  <2> QED
    BY <2>3, <2>4, Zenon
<1> QED
  BY <1>2, <1>3, <1>4, <1>5, Zenon DEF OfLoop

(* What a signal does to the vCPU it is for, and to the others. *)
LEMMA SignalHalted ==
  ASSUME IntrIInv, NEW t \in VcpuThread, signal_intr(t), UNCHANGED loop, NEW q \in VcpuThread
  PROVE  Halted(q)'
<1>0. /\ SchedInv /\ EventTypeOK /\ ExclusiveWait /\ IntrTypeOK
      /\ Halted(q) /\ signal_event(t, VI)
      /\ VI \in EventId
  BY SendersAssumption, Zenon DEF IntrIInv, IntrTypeOK, EventInv, VI, signal_intr
<1>1. /\ UNCHANGED <<waiting_thread, wait_pc, wait_on>>
      /\ q # t => set'[q][VI] = set[q][VI] /\ late'[q] = late[q]
      /\ late'[t] = (late[t] \/ wait_pc[t] = "asleep")
  BY <1>0, EventFacts, Zenon DEF signal_intr, IntrTypeOK
<1>2. waiting_thread[t][VI] # NULL => waiting_thread[t][VI] = t
  BY <1>0, Zenon DEF ExclusiveWait
<1>3. \/ waiting_thread[t][VI] = t /\ wake_thread(t)
      \/ UNCHANGED vars /\ (waiting_thread[t][VI] = NULL \/ ~is_blocked(t))
  BY <1>0, <1>2, Zenon DEF signal_event
<1>4. is_blocked(q)' => is_blocked(q)
  BY <1>0, <1>3, StatusFacts, Zenon DEF vars, thread_vars, is_blocked
<1>5. CASE q # t
  BY <1>0, <1>1, <1>4, <1>5, HaltedFrame, Zenon
<1>6. CASE q = t
  <2>1. CASE wait_pc[t] = "no" \/ wait_pc[t] = "asleep"
    BY <1>0, <1>1, <1>6, <2>1, Zenon DEF Halted, sleeps
  <2>2. CASE wait_pc[t] # "no" /\ wait_pc[t] # "asleep"
    <3>1. waiting_thread[t][VI] = t /\ t # NULL
      BY <1>0, <1>6, <2>2, ThreadAssumption, Zenon DEF Halted, VcpuThread
    <3>2. ~is_blocked(t)'
      <4>1. CASE wake_thread(t)
        <5>1. status'[t] = "RUNNABLE"
          BY <1>0, <4>1, StatusFacts, Zenon
        <5> QED
          BY <5>1, Zenon DEF is_blocked
      <4>2. CASE UNCHANGED vars /\ ~is_blocked(t)
        BY <4>2, Zenon DEF vars, thread_vars, is_blocked
      <4> QED
        BY <1>3, <3>1, <4>1, <4>2, Zenon
    <3>3. ~sleeps(t)'
      BY <1>1, <2>2, <3>2, Zenon DEF sleeps
    <3> QED
      BY <1>0, <1>1, <1>6, <3>3, Zenon DEF Halted
  <2> QED
    BY <2>1, <2>2, Zenon
<1> QED
  BY <1>5, <1>6, Zenon

LEMMA SenderKeeps ==
  ASSUME IntrIInv, NEW t \in VcpuThread, OfSender(t), NEW q \in VcpuThread
  PROVE  Halted(q)' /\ Remembered(q)'
<1>0. /\ EventTypeOK /\ IntrTypeOK /\ Remembered(q) /\ Halted(q)
      /\ UNCHANGED loop
  BY Zenon DEF IntrIInv, IntrTypeOK, EventInv, OfSender, inject_request, inject_signal, accept_signal,
     accept_request, pi_notification
<1>1. set[q][VI] => set'[q][VI]
  BY <1>0, EventFacts, Zenon DEF OfSender, inject_request, inject_signal, accept_signal, accept_request,
     pi_notification, signal_intr, allvars, event_vars
<1>2. Halted(q)'
  <2>1. CASE inject_request(t) \/ accept_request(t)
    <3>1. UNCHANGED allvars /\ UNCHANGED late
      BY <2>1, Zenon DEF inject_request, accept_request
    <3> QED
      BY <1>0, <3>1, HaltedFrame, Zenon DEF allvars, vars, thread_vars, event_vars, is_blocked
  <2>2. CASE signal_intr(t)
    BY <1>0, <2>2, SignalHalted, Zenon
  <2> QED
    BY <2>1, <2>2, Zenon DEF OfSender, inject_signal, accept_signal, pi_notification
<1>3. CASE q # t
  <2>1. sender'[q] = sender[q] /\ pending'[q] = pending[q]
    BY <1>0, <1>3, Zenon DEF OfSender, inject_request, inject_signal, accept_signal, accept_request,
       pi_notification, make_pending, IntrTypeOK
  <2> QED
    BY <1>0, <1>1, <1>2, <2>1, RememberedFrame, Zenon
<1>4. CASE q = t
  <2>1. CASE inject_request(t)
    <3>1. sender'[t] = "signal"
      BY <1>0, <2>1, Zenon DEF inject_request, IntrTypeOK
    <3> QED
      BY <1>0, <1>2, <1>4, <3>1, Zenon DEF Remembered
  <2>2. CASE inject_signal(t)
    <3>1. sender'[t] = "no" /\ set'[t][VI]
      BY <1>0, <2>2, EventFacts, Zenon DEF inject_signal, signal_intr, IntrTypeOK
    <3> QED
      BY <1>0, <1>2, <1>4, <3>1, Zenon DEF Remembered
  <2>3. CASE accept_signal(t) \/ accept_request(t)
    BY <1>0, <1>2, <1>4, <2>3, Zenon DEF accept_signal, accept_request, Remembered
  <2>4. CASE pi_notification(t)
    <3>1. sender'[t] = sender[t] /\ set'[t][VI]
      BY <1>0, <2>4, EventFacts, Zenon DEF pi_notification, signal_intr
    <3> QED
      BY <1>0, <1>2, <1>4, <3>1, Zenon DEF Remembered
  <2> QED
    BY <2>1, <2>2, <2>3, <2>4, Zenon DEF OfSender
<1> QED
  BY <1>2, <1>3, <1>4, Zenon

LEMMA SwitchKeeps ==
  ASSUME IntrIInv, NEW p \in Pcpu, intr_switch(p), NEW q \in VcpuThread
  PROVE  Halted(q)' /\ Remembered(q)'
<1>0. SchedInv /\ EventTypeOK /\ IntrTypeOK /\ Remembered(q) /\ Halted(q) /\ switch(p)
  BY Zenon DEF IntrIInv, IntrTypeOK, EventInv, intr_switch
<1>1. UNCHANGED <<set, waiting_thread, wait_on, sender, pending, late>>
  BY Zenon DEF intr_switch, switch
<1>2. /\ loop'[q] = "halting" => loop[q] = "halting"
      /\ wait_pc[q] # "no" => loop'[q] = loop[q]
  BY <1>0, Zenon DEF intr_switch, goto, IntrTypeOK
<1>3. Remembered(q)'
  BY <1>0, <1>1, <1>2, RememberedFrame, Zenon
<1>4. wait_pc'[q] = IF q = curr_obj[p] /\ wait_pc[q] = "asleep" THEN "relock" ELSE wait_pc[q]
  BY <1>0, Zenon DEF switch, EventTypeOK
<1>5. CASE q = curr_obj[p]
  <2>1. wait_pc[q] = "no" \/ wait_pc[q] = "asleep"
    BY <1>0, <1>5, Zenon DEF switch, EventTypeOK
  <2>2. CASE wait_pc[q] = "no"
    BY <1>4, <2>2, <1>3, Zenon DEF Halted, sleeps
  <2>3. CASE wait_pc[q] = "asleep"
    BY <1>0, <1>1, <1>2, <1>3, <2>3, Zenon DEF Halted, sleeps
  <2> QED
    BY <2>1, <2>2, <2>3, Zenon
<1>6. CASE q # curr_obj[p]
  <2>1. is_blocked(q)' => is_blocked(q)
    <3>1. q \in Thread /\ status \in [Thread -> {"RUNNING", "RUNNABLE", "BLOCKED"}]
      BY <1>0, Zenon DEF VcpuThread, SchedInv, TypeOK, ThreadTypeOK
    <3>2. PICK next : SwitchTo(p, next)
      BY <1>0, Zenon DEF switch, schedule
    <3> QED
      BY <1>6, <3>1, <3>2 DEF SwitchTo, is_blocked
  <2>2. Halted(q)'
    BY <1>0, <1>1, <1>2, <1>4, <1>6, <2>1, HaltedFrame, Zenon
  <2> QED
    BY <1>3, <2>2, Zenon
<1> QED
  BY <1>5, <1>6, Zenon

(* The scheduler's other steps put no vCPU thread to sleep. *)
OfScheduler ==
    /\ UNCHANGED <<event_vars, intr_vars>>
    /\ \A q \in VcpuThread : is_blocked(q)' => is_blocked(q)

LEMMA SchedulerSteps ==
  ASSUME SchedInv, UNCHANGED <<event_vars, intr_vars>>,
         \/ UNCHANGED vars
         \/ \E p \in Pcpu : boot(p) \/ request(p)
         \/ \E t \in VcpuThread : wake_thread(t)
  PROVE  OfScheduler
<1>1. CASE UNCHANGED vars \/ \E p \in Pcpu : request(p)
  BY <1>1, Zenon DEF OfScheduler, vars, thread_vars, request, yield_current, is_blocked
<1>2. ASSUME NEW p \in Pcpu, boot(p) PROVE OfScheduler
  <2>1. VcpuThread \subseteq Thread /\ status \in [Thread -> {"RUNNING", "RUNNABLE", "BLOCKED"}]
    BY Zenon DEF VcpuThread, SchedInv, TypeOK, ThreadTypeOK
  <2>2. \A q \in VcpuThread : status'[q] = "BLOCKED" => status[q] = "BLOCKED"
    BY <1>2, <2>1 DEF boot, run_thread
  <2> QED
    BY <2>2, Zenon DEF OfScheduler, is_blocked
<1>3. ASSUME NEW t \in VcpuThread, wake_thread(t) PROVE OfScheduler
  BY <1>3, StatusFacts, Zenon DEF OfScheduler
<1> QED
  BY <1>1, <1>2, <1>3, Zenon

LEMMA IntrSteps ==
  ASSUME SchedInv, [IntrNext]_intr_everything
  PROVE  \/ OfScheduler
         \/ \E p \in Pcpu : intr_switch(p)
         \/ \E t \in VcpuThread : OfLoop(t) \/ OfSender(t)
  BY SchedulerSteps, Zenon DEF IntrNext, intr_everything, allvars, pcpu_boot, launch, OfLoop, OfSender

LoopTypes ==
    /\ loop \in [VcpuThread -> {"entry", "injected", "guest", "halting"}]
    /\ pending \in [VcpuThread -> BOOLEAN]
    /\ sender \in [VcpuThread -> {"no", "signal", "request"}]
    /\ late \in [VcpuThread -> BOOLEAN]

LEMMA IntrTypes ==
  ASSUME SchedInv, LoopTypes, [IntrNext]_intr_everything
  PROVE  LoopTypes'
<1>1. ASSUME NEW t \in VcpuThread, OfLoop(t) PROVE LoopTypes'
  BY <1>1, Zenon DEF OfLoop, inject_pending, intr_enter_guest, vm_exit, hlt_test, hlt_wait, hlt_returns,
     goto, LoopTypes
<1>2. ASSUME NEW t \in VcpuThread, OfSender(t) PROVE LoopTypes'
  BY <1>2, Zenon DEF OfSender, inject_request, inject_signal, accept_signal, accept_request,
     pi_notification, make_pending, signal_intr, LoopTypes
<1>3. ASSUME NEW p \in Pcpu, intr_switch(p) PROVE LoopTypes'
  BY <1>3, Zenon DEF intr_switch, goto, LoopTypes
<1>4. CASE OfScheduler
  BY <1>4, Zenon DEF OfScheduler, intr_vars, LoopTypes
<1> QED
  BY <1>1, <1>2, <1>3, <1>4, IntrSteps, Zenon

LEMMA IntrNextInv == IntrIInv /\ [IntrNext]_intr_everything => IntrIInv'
<1> SUFFICES ASSUME IntrIInv, [IntrNext]_intr_everything
             PROVE  IntrTypeOK' /\ \A q \in VcpuThread : Halted(q)' /\ Remembered(q)'
  BY Zenon DEF IntrIInv
<1>0. SchedInv
  BY Zenon DEF IntrIInv, IntrTypeOK, EventInv
<1>1. IntrTypeOK'
  BY <1>0, IsEventStep, EventNextInv, IntrTypes, Zenon DEF IntrIInv, IntrTypeOK, LoopTypes
<1>2. ASSUME NEW q \in VcpuThread PROVE Halted(q)' /\ Remembered(q)'
  <2>1. CASE OfScheduler
    BY <2>1, RememberedFrame, HaltedFrame, Zenon DEF OfScheduler, IntrIInv, event_vars, intr_vars
  <2> QED
    BY <1>0, <2>1, IntrSteps, LoopKeeps, SenderKeeps, SwitchKeeps, Zenon
<1> QED
  BY <1>1, <1>2, Zenon

LEMMA IntrInvariant == IntrSpec => []IntrIInv
<1>1. IntrInit => IntrIInv
  <2> SUFFICES ASSUME IntrInit PROVE IntrIInv
    OBVIOUS
  <2>1. EventInv
    BY EventInitInv, Zenon DEF IntrInit
  <2> QED
    BY <2>1, Zenon DEF IntrInit, EventInit, IntrIInv, IntrTypeOK, Halted, sleeps, Remembered
<1> QED
  BY <1>1, IntrNextInv, PTL DEF IntrSpec

(* hlt_vmexit_handler leaves a vCPU asleep over an interrupt of vcpu_inject_extint,
   vcpu_inject_nmi or a posted interrupt only if the signal came between the
   sleep_thread and the schedule() of wait_event, or is still to come; any other
   moment between the test and the end of the wait gets it out.  Threads and
   events stay consistent under all the senders, vlapic_accept_intr included. *)
THEOREM HltInvariance == IntrSpec => []VirtualIntrInv
<1>1. IntrIInv => VirtualIntrInv
  BY Zenon DEF IntrIInv, VirtualIntrInv, HaltWakes, Halted, Remembered
<1> QED
  BY <1>1, IntrInvariant, PTL

(* The loop of the vCPU and the senders use the events as event.c means them to
   be used: every step is one of Event, or leaves threads and events alone. *)
THEOREM HltUsesEvents == IntrSpec => EventInit /\ [][EventNext]_allvars
  BY IsEventStep, PTL DEF IntrSpec, IntrInit
=============================================================================
