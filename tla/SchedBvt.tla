------------------------------ MODULE SchedBvt ------------------------------
(***************************************************************************)
(* schedule.c with the borrowed-virtual-time policy of sched_bvt.c.        *)
(*                                                                         *)
(* evt is not a variable: every assignment of avt is followed by           *)
(* evt = avt.  vt_ratio is 1 (sched_bvt_init_data), so v2p and p2v are     *)
(* identities.  run_countdown is read for the current thread only, and      *)
(* pick_next sets it for the thread it picks, so there is one per pCPU.    *)
(* A clock step is one unit of the time stamp counter; the periodic tick   *)
(* timer fires on every mcu-th unit.                                       *)
(***************************************************************************)
EXTENDS SchedThread, Integers, SequencesExt

CONSTANTS
    mcu,            \* sched_bvt_data.mcu, in clock units
    BVT_CSA_MCU,    \* context switch allowance, in mcu
    UINT64_MAX,     \* largest run_countdown
    MaxVt           \* bound on virtual time

VARIABLES
    runqueue,       \* sched_bvt_control.runqueue
    avt,            \* sched_bvt_data.avt (and evt)
    residual,       \* sched_bvt_data.residual
    run_countdown,  \* sched_bvt_data.run_countdown of the current thread
    ran,            \* rdtsc() - start_tsc of the current thread of a pCPU
    phase           \* clock units since the last tick of a pCPU

bvt_vars == <<runqueue, avt, residual, run_countdown, ran, phase>>
vars == <<thread_vars, bvt_vars>>

(* sched_bvt_init, sched_bvt_init_data and the zeroed thread object. *)
Init ==
    /\ ThreadInit
    /\ runqueue = [p \in Pcpu |-> <<>>]
    /\ avt = [t \in Thread |-> 0]
    /\ residual = [t \in Thread |-> 0]
    /\ run_countdown = [p \in Pcpu |-> BVT_CSA_MCU]
    /\ ran = [p \in Pcpu |-> 0]
    /\ phase = [p \in Pcpu |-> 0]

(* Mutant: the list node is left where it is. *)
runqueue_removeNothing(q, t) == q

runqueue_remove(q, t) == SelectSeq(q, LAMBDA x : x # t)

(* Before the first thread with a greater virtual time, else at the tail. *)
runqueue_add(q, t, vt) ==
    LET later == {i \in DOMAIN q : vt[q[i]] > vt[t]}
    IN IF later = {} THEN Append(q, t)
       ELSE InsertAt(q, CHOOSE i \in later : \A j \in later : i <= j, t)

get_svt(q) == IF q = <<>> THEN 0 ELSE avt[Head(q)]

(* update_vt: the virtual time of the current thread, charged up to now. *)
v_delta(p) == ran[p] + residual[curr_obj[p]]

charged_avt(p) == avt[curr_obj[p]] + v_delta(p) \div mcu

(* Mutant: the list node stays where it was. *)
update_vtInPlace(p) ==
    LET current == curr_obj[p] IN
    IF is_idle_thread(current)
    THEN UNCHANGED <<avt, residual, runqueue>>
    ELSE /\ avt' = [avt EXCEPT ![current] = charged_avt(p)]
         /\ residual' = [residual EXCEPT ![current] = v_delta(p) % mcu]
         /\ UNCHANGED runqueue

update_vt(p) ==
    LET current == curr_obj[p] IN
    IF is_idle_thread(current)
    THEN UNCHANGED <<avt, residual, runqueue>>
    ELSE /\ avt' = [avt EXCEPT ![current] = charged_avt(p)]
         /\ residual' = [residual EXCEPT ![current] = v_delta(p) % mcu]
         /\ runqueue' = [runqueue EXCEPT ![p] =
                IF Contains(@, current)
                THEN runqueue_add(runqueue_remove(@, current), current, avt')
                ELSE @]

(* Mutant: every thread runs as long as a thread that is alone. *)
countdownAlone(q, vt) == UINT64_MAX

(* How many ticks the head of queue q may run, given virtual times vt. *)
countdown(q, vt) ==
    IF Len(q) = 1 THEN UINT64_MAX ELSE vt[q[2]] - vt[q[1]] + BVT_CSA_MCU

schedule(p) ==
    /\ curr_obj[p] # NULL
    /\ need_reschedule[p]
    /\ update_vt(p)
    /\ ran' = [ran EXCEPT ![p] = 0]
    /\ LET q == runqueue'[p] IN
       IF q = <<>>
       THEN SwitchTo(p, idle[p]) /\ UNCHANGED run_countdown
       ELSE /\ SwitchTo(p, Head(q))
            /\ run_countdown' = [run_countdown EXCEPT
                                    ![p] = countdown(q, avt')]
    /\ UNCHANGED phase

sleep_thread(t) ==
    /\ runqueue' = [runqueue EXCEPT ![pcpu_id[t]] = runqueue_remove(@, t)]
    /\ SleepStatus(t)
    /\ UNCHANGED <<avt, residual, run_countdown, ran, phase>>

(* "adjusting AVT for a thread after a long sleep" *)
woken_avt(t) ==
    LET svt == get_svt(runqueue[pcpu_id[t]])
        threshold == svt - BVT_CSA_MCU
    IN IF avt[t] > threshold THEN avt[t] ELSE svt

wake_thread(t) ==
    /\ WakeStatus(t)
    /\ avt' = [avt EXCEPT ![t] = woken_avt(t)]
    /\ runqueue' = [runqueue EXCEPT ![pcpu_id[t]] = runqueue_add(@, t, avt')]
    /\ UNCHANGED <<residual, run_countdown, ran, phase>>

(* sched_tick_handler.  run_countdown is unsigned and wraps below zero. *)
sched_tick_handler(p) ==
    LET current == curr_obj[p]
        left == (run_countdown[p] - 1) % (UINT64_MAX + 1)
    IN IF is_idle_thread(current)
       THEN /\ IF runqueue[p] # <<>> THEN make_reschedule_request(p)
                                     ELSE UNCHANGED need_reschedule
            /\ UNCHANGED run_countdown
       ELSE /\ run_countdown' = [run_countdown EXCEPT ![p] = left]
            /\ IF left = 0 THEN make_reschedule_request(p)
                           ELSE UNCHANGED need_reschedule

(* One clock unit on pCPU p, with the tick handler when the timer is due; time
   also passes while a reschedule request is pending. *)
clock(p) ==
    /\ curr_obj[p] # NULL
    /\ IF is_idle_thread(curr_obj[p])
       THEN UNCHANGED ran
       ELSE charged_avt(p) < MaxVt /\ ran' = [ran EXCEPT ![p] = @ + 1]
    /\ phase' = [phase EXCEPT ![p] = (@ + 1) % mcu]
    /\ IF phase'[p] = 0 THEN sched_tick_handler(p)
                        ELSE UNCHANGED <<need_reschedule, run_countdown>>
    /\ UNCHANGED <<status, be_blocking, curr_obj, runqueue, avt, residual>>

boot(p) == run_thread(p) /\ UNCHANGED bvt_vars

yield(p) == yield_current(p) /\ UNCHANGED bvt_vars

Next ==
    \/ \E p \in Pcpu : boot(p) \/ schedule(p) \/ yield(p) \/ clock(p)
    \/ \E t \in VcpuThread : sleep_thread(t) \/ wake_thread(t)

Spec == Init /\ [][Next]_vars

-----------------------------------------------------------------------------
(* Types; virtual times and the countdown stay inside their bounds. *)
TypeOK ==
    /\ ThreadTypeOK
    /\ runqueue \in [Pcpu -> Seq(VcpuThread)]
    /\ avt \in [Thread -> 0..MaxVt]
    /\ residual \in [Thread -> 0..(mcu - 1)]
    /\ run_countdown \in [Pcpu -> 0..UINT64_MAX]
    /\ ran \in [Pcpu -> Nat]
    /\ phase \in [Pcpu -> 0..(mcu - 1)]

(* The policy implements the abstract scheduler. *)
Abstract == INSTANCE Schedule
                WITH runqueue <- [p \in Pcpu |-> ToSet(runqueue[p])]

(* SchedBvt keeps its queue sorted by virtual time: each of its steps, pick_next,
   sleep and wake included, is a step of Schedule. *)
ImplementsSchedule == Abstract!Spec

(* The run queue is ordered by virtual time whatever wakes, sleeps and
   charges come between: pick_next subtracts the head's evt from the second
   one's as unsigned numbers, and get_svt takes the head's avt for the
   minimum. *)
QueueOrdered ==
    \A p \in Pcpu : \A i, j \in DOMAIN runqueue[p] :
        i < j => /\ avt[runqueue[p][i]] <= avt[runqueue[p][j]]
                 /\ runqueue[p][i] # runqueue[p][j]

(* Types, and the order of the run queue that sched_bvt.c relies on. *)
BvtInv == TypeOK /\ QueueOrdered

(* "the next thread can run until its AVT is ahead of the next runnable
   thread for one CSA": a thread further ahead than that of any queued
   thread has a reschedule request pending, although the countdown is kept
   in ticks, virtual time in clock units with a remainder, and threads wake
   and sleep meanwhile. *)
AheadIsPreempted ==
    \A p \in Pcpu :
        /\ curr_obj[p] # NULL
        /\ ~is_idle_thread(curr_obj[p])
        /\ \E t \in ToSet(runqueue[p]) \ {curr_obj[p]} :
                charged_avt(p) > avt[t] + BVT_CSA_MCU
        => need_reschedule[p]
=============================================================================
