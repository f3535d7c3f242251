---------------------------- MODULE VirtualIntr ----------------------------
(***************************************************************************)
(* A vCPU that executes HLT against the interrupts sent to it.  The loop   *)
(* of vcpu_thread handles what is pending, resets the event, enters the    *)
(* guest; a HLT exit tests for pending interrupts and waits on the event.  *)
(* A sender on another pCPU makes the interrupt pending and signals, in    *)
(* the one order or the other.                                             *)
(***************************************************************************)
EXTENDS Event

CONSTANT
    Senders     \* per vCPU: "inject": vcpu_inject_extint, vcpu_inject_nmi;
                \* "accept": vlapic_accept_intr; "pi": the posted interrupt handler

ASSUME SendersAssumption ==
    /\ Senders \in [VcpuThread -> SUBSET {"inject", "accept", "pi"}]
    /\ "VIRTUAL_INTERRUPT" \in EventId

VARIABLES
    loop,       \* per vCPU: "entry", "injected", "guest", "halting"
    pending,    \* per vCPU: a pending_req bit or an IRR bit is set
    sender,     \* per vCPU: what a sender has left to do, "no" for none
    late        \* per vCPU: its event was signalled between the sleep_thread and
                \* the schedule() of wait_event (auxiliary: no step reads it)

intr_vars == <<loop, pending, sender, late>>

intr_everything == <<allvars, intr_vars>>

VI == "VIRTUAL_INTERRUPT"

IntrInit ==
    /\ EventInit
    /\ loop = [t \in VcpuThread |-> "entry"]
    /\ pending = [t \in VcpuThread |-> FALSE]
    /\ sender = [t \in VcpuThread |-> "no"]
    /\ late = [t \in VcpuThread |-> FALSE]

at(t, l) == running_code(t) /\ wait_pc[t] = "no" /\ loop[t] = l

goto(t, l) == loop' = [loop EXCEPT ![t] = l]

(* acrn_handle_pending_request, for a guest that takes its interrupts. *)
inject_pending(t) ==
    /\ at(t, "entry")
    /\ ~need_reschedule[pcpu_id[t]]
    /\ pending' = [pending EXCEPT ![t] = FALSE]
    /\ goto(t, "injected")
    /\ UNCHANGED <<allvars, sender, late>>

intr_enter_guest(t) ==
    /\ at(t, "injected")
    /\ reset_event(t, VI)
    /\ goto(t, "guest")
    /\ UNCHANGED <<vars, wait_pc, wait_on, pending, sender, late>>

vm_exit(t) ==
    /\ at(t, "guest")
    /\ goto(t, "entry")
    /\ UNCHANGED <<allvars, pending, sender, late>>

(* Mutant: the vCPU waits without looking. *)
hlt_testSkipped(t) ==
    /\ at(t, "guest")
    /\ goto(t, "halting")
    /\ UNCHANGED <<allvars, pending, sender, late>>

(* hlt_vmexit_handler: the test, then the wait. *)
hlt_test(t) ==
    /\ at(t, "guest")
    /\ goto(t, IF pending[t] THEN "entry" ELSE "halting")
    /\ UNCHANGED <<allvars, pending, sender, late>>

hlt_wait(t) ==
    /\ at(t, "halting")
    /\ wait_event(t, VI)
    /\ goto(t, IF set[t][VI] THEN "entry" ELSE "halting")
    /\ UNCHANGED <<pending, sender, late>>

hlt_returns(t) ==
    /\ recheck_event(t)
    /\ goto(t, IF wait_pc'[t] = "no" THEN "entry" ELSE "halting")
    /\ late' = [late EXCEPT ![t] = FALSE]
    /\ UNCHANGED <<pending, sender>>

-----------------------------------------------------------------------------
signal_intr(t) ==
    /\ signal_event(t, VI)
    /\ late' = [late EXCEPT ![t] = @ \/ wait_pc[t] = "asleep"]

make_pending(t) == pending' = [pending EXCEPT ![t] = TRUE]

(* vcpu_inject_extint and vcpu_inject_nmi: the request, then the signal. *)
inject_request(t) ==
    /\ "inject" \in Senders[t]
    /\ sender[t] = "no"
    /\ make_pending(t)
    /\ sender' = [sender EXCEPT ![t] = "signal"]
    /\ UNCHANGED <<allvars, loop, late>>

inject_signal(t) ==
    /\ sender[t] = "signal"
    /\ signal_intr(t)
    /\ sender' = [sender EXCEPT ![t] = "no"]
    /\ UNCHANGED <<loop, pending>>

(* vlapic_accept_intr: the signal, then the IRR bit and the request. *)
accept_signal(t) ==
    /\ "accept" \in Senders[t]
    /\ sender[t] = "no"
    /\ signal_intr(t)
    /\ sender' = [sender EXCEPT ![t] = "request"]
    /\ UNCHANGED <<loop, pending>>

accept_request(t) ==
    /\ sender[t] = "request"
    /\ make_pending(t)
    /\ sender' = [sender EXCEPT ![t] = "no"]
    /\ UNCHANGED <<allvars, loop, late>>

(* vcpu_handle_pi_notification: an interrupt handler of the vCPU's own pCPU,
   so the vCPU takes no step between its signal and its request.  Interrupts
   are off from the top of the loop to the VM entry. *)
pi_notification(t) ==
    /\ "pi" \in Senders[t]
    /\ loop[t] # "injected"
    /\ signal_intr(t)
    /\ make_pending(t)
    /\ UNCHANGED <<loop, sender>>

intr_switch(p) ==
    LET t == curr_obj[p] IN
    /\ switch(p)
    /\ IF t \in VcpuThread /\ wait_pc[t] = "no"
       THEN loop[t] \in {"entry", "guest"} /\ goto(t, "entry")
       ELSE UNCHANGED loop
    /\ UNCHANGED <<pending, sender, late>>

IntrNext ==
    \/ \E p \in Pcpu : intr_switch(p)
    \/ \E p \in Pcpu : pcpu_boot(p) /\ UNCHANGED intr_vars
    \/ \E p \in Pcpu : request(p) /\ UNCHANGED <<event_vars, intr_vars>>
    \/ \E t \in VcpuThread :
          \/ wait_pc[t] = "no" /\ launch(t) /\ UNCHANGED intr_vars
          \/ inject_pending(t) \/ intr_enter_guest(t) \/ vm_exit(t)
          \/ hlt_test(t) \/ hlt_wait(t) \/ hlt_returns(t)
          \/ inject_request(t) \/ inject_signal(t)
          \/ accept_signal(t) \/ accept_request(t)
          \/ pi_notification(t)

IntrSpec == IntrInit /\ [][IntrNext]_intr_everything

(* A pCPU goes on executing and a sender finishes. *)
IntrFairness ==
    /\ \A p \in Pcpu : /\ WF_intr_everything(intr_switch(p))
                      /\ WF_intr_everything(pcpu_boot(p) /\ UNCHANGED intr_vars)
    /\ \A t \in VcpuThread : /\ WF_intr_everything(hlt_returns(t))
                            /\ WF_intr_everything(accept_request(t))

IntrFairSpec == IntrSpec /\ IntrFairness

-----------------------------------------------------------------------------
(* The invariant of events and threads under this use of them, and types. *)
IntrTypeOK ==
    /\ EventInv
    /\ loop \in [VcpuThread -> {"entry", "injected", "guest", "halting"}]
    /\ pending \in [VcpuThread -> BOOLEAN]
    /\ sender \in [VcpuThread -> {"no", "signal", "request"}]
    /\ late \in [VcpuThread -> BOOLEAN]

(* A vCPU that sleeps in HLT, or is on its way to: wait_event found the event
   not set, and only a wake_thread after schedule() ends it. *)
sleeps(t) ==
    /\ loop[t] = "halting"
    /\ wait_pc[t] = "asleep" \/ (wait_pc[t] = "relock" /\ is_blocked(t))

(* A vCPU in HLT sleeps over an interrupt only in one of three ways.  Its sender
   is about to signal; or the signal came between the sleep_thread and the
   schedule() of wait_event, where wake_thread wakes nobody; or it was accepted
   by vlapic_accept_intr, which signals before it makes the interrupt pending.
   Whatever comes before the sleep_thread, after the schedule(), or between the
   test of hlt_vmexit_handler and the wait, gets the vCPU out of HLT. *)
HaltWakes ==
    \A t \in VcpuThread :
        /\ sleeps(t) /\ set[t][VI] => late[t]
        /\ "accept" \notin Senders[t] /\ loop[t] = "halting" /\ pending[t]
               => set[t][VI] \/ sender[t] = "signal"

(* Types, and the only ways in which HLT sleeps over an interrupt. *)
VirtualIntrInv == IntrTypeOK /\ HaltWakes
=============================================================================
