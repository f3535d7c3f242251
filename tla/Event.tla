------------------------------- MODULE Event --------------------------------
(***************************************************************************)
(* The events of event.c on which a vCPU thread waits for a completed I/O  *)
(* request, a virtual interrupt or the end of a WBINVD, over the abstract  *)
(* scheduler.  A step is what one holder of event->lock does, except that  *)
(* wait_event releases the lock around schedule(): wait_pc says where in   *)
(* that loop a thread is.                                                  *)
(***************************************************************************)
EXTENDS Schedule

CONSTANT EventId    \* VCPU_EVENT_IOREQ, VCPU_EVENT_VIRTUAL_INTERRUPT, ...

VARIABLES
    set,            \* sched_event.set of each vCPU's events
    waiting_thread, \* sched_event.waiting_thread
    wait_pc,        \* "no", "asleep": schedule() is next, "relock": it returned
    wait_on         \* the event a thread in wait_event waits for, or NULL

event_vars == <<set, waiting_thread, wait_pc, wait_on>>

allvars == <<vars, event_vars>>

(* init_event for every event, in prepare_vcpu. *)
EventInit ==
    /\ Init
    /\ set = [t \in VcpuThread |-> [e \in EventId |-> FALSE]]
    /\ waiting_thread = [t \in VcpuThread |-> [e \in EventId |-> NULL]]
    /\ wait_pc = [t \in VcpuThread |-> "no"]
    /\ wait_on = [t \in VcpuThread |-> NULL]

running_code(t) == curr_obj[pcpu_id[t]] = t

(* Mutant: the waiter is forgotten, the signal is not. *)
reset_eventKeepsSet(t, e) ==
    /\ waiting_thread' = [waiting_thread EXCEPT ![t][e] = NULL]
    /\ UNCHANGED set

reset_event(t, e) ==
    /\ set' = [set EXCEPT ![t][e] = FALSE]
    /\ waiting_thread' = [waiting_thread EXCEPT ![t][e] = NULL]

(* The first part of wait_event, up to the test of its loop. *)
wait_event(t, e) ==
    /\ running_code(t)
    /\ wait_pc[t] = "no"
    /\ IF set[t][e]
       THEN reset_event(t, e) /\ UNCHANGED <<vars, wait_pc, wait_on>>
       ELSE /\ wait_on' = [wait_on EXCEPT ![t] = e]
            /\ waiting_thread' = [waiting_thread EXCEPT ![t][e] = t]
            /\ sleep_thread(t)
            /\ wait_pc' = [wait_pc EXCEPT ![t] = "asleep"]
            /\ UNCHANGED set

leave_wait(t) ==
    /\ wait_pc' = [wait_pc EXCEPT ![t] = "no"]
    /\ wait_on' = [wait_on EXCEPT ![t] = NULL]

(* Mutant: the loop is left when the event is set, whoever reset it. *)
recheck_eventIgnoresReset(t) ==
    LET e == wait_on[t] IN
    /\ running_code(t)
    /\ wait_pc[t] = "relock"
    /\ IF set[t][e]
       THEN /\ reset_event(t, e)
            /\ leave_wait(t)
            /\ UNCHANGED vars
       ELSE /\ sleep_thread(t)
            /\ wait_pc' = [wait_pc EXCEPT ![t] = "asleep"]
            /\ UNCHANGED <<set, waiting_thread, wait_on>>

(* schedule() has returned into wait_event, which takes the lock again. *)
recheck_event(t) ==
    LET e == wait_on[t] IN
    /\ running_code(t)
    /\ wait_pc[t] = "relock"
    /\ IF ~set[t][e] /\ waiting_thread[t][e] # NULL
       THEN /\ sleep_thread(waiting_thread[t][e])
            /\ wait_pc' = [wait_pc EXCEPT ![t] = "asleep"]
            /\ UNCHANGED <<set, waiting_thread, wait_on>>
       ELSE /\ reset_event(t, e)
            /\ leave_wait(t)
            /\ UNCHANGED vars

(* Mutant: the waiter is not woken. *)
signal_eventNoWake(t, e) ==
    /\ set' = [set EXCEPT ![t][e] = TRUE]
    /\ UNCHANGED <<vars, waiting_thread, wait_pc, wait_on>>

signal_event(t, e) ==
    /\ set' = [set EXCEPT ![t][e] = TRUE]
    /\ IF waiting_thread[t][e] # NULL /\ is_blocked(waiting_thread[t][e])
       THEN wake_thread(waiting_thread[t][e])
       ELSE UNCHANGED vars
    /\ UNCHANGED <<waiting_thread, wait_pc, wait_on>>

(* schedule() by the current thread of p: from wait_event, or from its loop. *)
switch(p) ==
    LET t == curr_obj[p] IN
    /\ schedule(p)
    /\ IF t \in VcpuThread
       THEN /\ wait_pc[t] # "relock"
            /\ wait_pc' = IF wait_pc[t] = "asleep"
                          THEN [wait_pc EXCEPT ![t] = "relock"]
                          ELSE wait_pc
       ELSE UNCHANGED wait_pc
    /\ UNCHANGED <<set, waiting_thread, wait_on>>

pcpu_boot(p) == boot(p) /\ UNCHANGED event_vars

-----------------------------------------------------------------------------
(* The component on its own: a thread may wait at any time it runs, anybody
   may signal, and other parts act on the thread from outside: zombie_vcpu
   and launch_vcpu, and vcpu_reset_internal, which resets every event. *)
zombie(t) == sleep_thread(t) /\ UNCHANGED event_vars

launch(t) == wake_thread(t) /\ UNCHANGED event_vars

reset(t, e) == reset_event(t, e) /\ UNCHANGED <<vars, wait_pc, wait_on>>

EventNext ==
    \/ \E p \in Pcpu : pcpu_boot(p) \/ switch(p)
    \/ \E p \in Pcpu : request(p) /\ UNCHANGED event_vars
    \/ \E t \in VcpuThread : zombie(t) \/ launch(t) \/ recheck_event(t)
    \/ \E t \in VcpuThread, e \in EventId :
            wait_event(t, e) \/ signal_event(t, e) \/ reset(t, e)

(* A pCPU goes on executing: see Schedule; recheck_event is plain code. *)
EventFairness ==
    /\ \A p \in Pcpu : WF_allvars(pcpu_boot(p)) /\ WF_allvars(switch(p))
    /\ \A t \in VcpuThread : WF_allvars(recheck_event(t))

EventSpec == EventInit /\ [][EventNext]_allvars /\ EventFairness

-----------------------------------------------------------------------------
(* Types: events belong to vCPUs, and a waiting thread is one of them. *)
EventTypeOK ==
    /\ set \in [VcpuThread -> [EventId -> BOOLEAN]]
    /\ waiting_thread \in [VcpuThread -> [EventId -> VcpuThread \cup {NULL}]]
    /\ wait_pc \in [VcpuThread -> {"no", "asleep", "relock"}]
    /\ wait_on \in [VcpuThread -> EventId \cup {NULL}]
    /\ \A t \in VcpuThread : wait_pc[t] # "no" => wait_on[t] \in EventId

(* wait_event is exclusive (the ASSERT of event.c:34): a thread about to wait
   finds no waiter, and a recorded waiter is the owner inside wait_event on
   that very event. *)
ExclusiveWait ==
    \A t \in VcpuThread, e \in EventId :
        waiting_thread[t][e] # NULL =>
            /\ waiting_thread[t][e] = t
            /\ wait_pc[t] # "no"
            /\ wait_on[t] = e

(* A thread between the sleep_thread and the schedule() of wait_event is
   still on its pCPU, and one behind schedule() has been off it: the flag
   that makes schedule() switch cannot be consumed in between. *)
AsleepIsRunning ==
    \A t \in VcpuThread :
        wait_pc[t] = "asleep" => /\ is_running(t)
                                 /\ be_blocking[t]
                                 /\ need_reschedule[pcpu_id[t]]

(* The inductive invariant of the component. *)
EventInv == SchedInv /\ EventTypeOK /\ ExclusiveWait /\ AsleepIsRunning

(* A thread that is ready again and again runs again and again: SchedNoop has
   it, and SchedIorr when wake-ups end (NoStarvation of MCSched). *)
PolicyIsFair ==
    \A t \in VcpuThread :
        []<>(status[t] = "RUNNABLE") => []<>is_running(t)
=============================================================================
