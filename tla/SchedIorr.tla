----------------------------- MODULE SchedIorr ------------------------------
(***************************************************************************)
(* schedule.c with the IO-sensitive round-robin policy of sched_iorr.c.    *)
(*                                                                         *)
(* Time is the number of cycles charged at a tick or a pick: a step reads  *)
(* rdtsc() and finds that some number of cycles, at most MaxElapsed, have  *)
(* passed since last_cycles.  last_cycles is only ever used in that        *)
(* difference, so it is not a variable of its own.                         *)
(***************************************************************************)
EXTENDS SchedThread, Integers, SequencesExt

CONSTANTS
    slice_cycles,   \* CONFIG_SLICE_MS * CYCLES_PER_MS
    MaxElapsed,     \* bound on the cycles between two readings of the clock
    MaxOverrun      \* bound on the cycles a thread runs past its slice

ASSUME IorrAssumption ==
    /\ slice_cycles \in Nat \ {0}
    /\ MaxElapsed \in Nat \ {0}
    /\ MaxOverrun \in Nat

VARIABLES
    runqueue,       \* sched_iorr_control.runqueue
    left_cycles     \* sched_iorr_data.left_cycles

vars == <<thread_vars, runqueue, left_cycles>>

(* sched_iorr_init for every pCPU, sched_iorr_init_data for every thread. *)
Init ==
    /\ ThreadInit
    /\ runqueue = [p \in Pcpu |-> <<>>]
    /\ left_cycles = [t \in Thread |-> slice_cycles]

is_inqueue(t) == Contains(runqueue[pcpu_id[t]], t)

runqueue_add_head(q, t) == IF Contains(q, t) THEN q ELSE <<t>> \o q

runqueue_add_tail(q, t) == IF Contains(q, t) THEN q ELSE Append(q, t)

(* Mutant: the list node is left where it is. *)
runqueue_removeNothing(q, t) == q

runqueue_remove(q, t) == SelectSeq(q, LAMBDA x : x # t)

(* Mutant: one slice only. *)
replenishOnce(left) == IF left > 0 THEN left ELSE left + slice_cycles

(* The number of slices that bring an exhausted budget above zero: the
   `while (left_cycles <= 0)` loop of pick_next in closed form. *)
replenish(left) ==
    IF left > 0 THEN left
    ELSE left + slice_cycles * ((-left) \div slice_cycles + 1)

(* Mutants of requeue: the current thread keeps its place in the queue, or
   is appended without being taken out first. *)
requeueInPlace(p) == runqueue[p]

requeueDuplicates(p) ==
    IF ~is_idle_thread(curr_obj[p]) /\ is_inqueue(curr_obj[p])
    THEN Append(runqueue[p], curr_obj[p])
    ELSE runqueue[p]

(* pick_next on the current thread: charge it and move it to the tail. *)
requeue(p) ==
    LET current == curr_obj[p] IN
    IF ~is_idle_thread(current) /\ is_inqueue(current)
    THEN runqueue_add_tail(runqueue_remove(runqueue[p], current), current)
    ELSE runqueue[p]

charge(p, elapsed) ==
    LET current == curr_obj[p]
        left == left_cycles[current] - elapsed
    IN IF ~is_idle_thread(current) /\ is_inqueue(current)
       THEN [left_cycles EXCEPT
                ![current] = IF left <= 0 THEN left + slice_cycles ELSE left]
       ELSE left_cycles

schedule(p) ==
    /\ curr_obj[p] # NULL
    /\ need_reschedule[p]
    /\ runqueue' = [runqueue EXCEPT ![p] = requeue(p)]
    /\ \E elapsed \in 0..MaxElapsed :
         LET charged == charge(p, elapsed)
             next == Head(requeue(p))
         IN IF requeue(p) = <<>>
            THEN SwitchTo(p, idle[p]) /\ left_cycles' = charged
            ELSE /\ SwitchTo(p, next)
                 /\ left_cycles' = [charged EXCEPT ![next] = replenish(@)]

sleep_thread(t) ==
    /\ runqueue' = [runqueue EXCEPT ![pcpu_id[t]] = runqueue_remove(@, t)]
    /\ SleepStatus(t)
    /\ UNCHANGED left_cycles

wake_thread(t) ==
    /\ WakeStatus(t)
    /\ runqueue' = [runqueue EXCEPT ![pcpu_id[t]] = runqueue_add_head(@, t)]
    /\ UNCHANGED left_cycles

(* sched_tick_handler on pCPU p, `elapsed` cycles after the last charge.
   Ticks that would charge beyond MaxOverrun are left out. *)
sched_tick_handler(p, elapsed) ==
    LET current == curr_obj[p]
        left == left_cycles[current] - elapsed
    IN /\ current # NULL
       /\ IF is_idle_thread(current)
          THEN /\ runqueue[p] # <<>>
               /\ make_reschedule_request(p)
               /\ UNCHANGED left_cycles
          ELSE /\ left >= -MaxOverrun
               /\ left_cycles' = [left_cycles EXCEPT ![current] = left]
               /\ IF left <= 0 THEN make_reschedule_request(p)
                               ELSE UNCHANGED need_reschedule
       /\ UNCHANGED <<status, be_blocking, curr_obj, runqueue>>

boot(p) == run_thread(p) /\ UNCHANGED <<runqueue, left_cycles>>

yield(p) == yield_current(p) /\ UNCHANGED <<runqueue, left_cycles>>

Next ==
    \/ \E p \in Pcpu : boot(p) \/ schedule(p) \/ yield(p)
    \/ \E p \in Pcpu, elapsed \in 0..MaxElapsed : sched_tick_handler(p, elapsed)
    \/ \E t \in VcpuThread : sleep_thread(t) \/ wake_thread(t)

(* The tick timer is periodic, so some tick finds that time has passed; a
   pCPU whose flag is set reaches schedule() (see Schedule). *)
Fairness ==
    \A p \in Pcpu :
        /\ WF_vars(boot(p))
        /\ WF_vars(schedule(p))
        /\ WF_vars(\E elapsed \in 1..MaxElapsed : sched_tick_handler(p, elapsed))

Spec == Init /\ [][Next]_vars /\ Fairness

-----------------------------------------------------------------------------
(* Types; the slice account of a thread (left_cycles) stays in its bounds. *)
TypeOK ==
    /\ ThreadTypeOK
    /\ runqueue \in [Pcpu -> Seq(VcpuThread)]
    /\ left_cycles \in [Thread -> (-MaxOverrun)..slice_cycles]

(* The policy implements the abstract scheduler: its queue is a set of ready
   threads and pick_next takes a member, or idle when there is none. *)
Abstract == INSTANCE Schedule
                WITH runqueue <- [p \in Pcpu |-> ToSet(runqueue[p])]

(* SchedIorr keeps its queue in round-robin order: each of its steps, pick_next,
   sleep and wake included, is a step of Schedule, with the fairness of
   the abstract scheduler. *)
ImplementsSchedule == Abstract!FairSpec

(* The intrusive list of sched_iorr_data.list never holds a thread twice. *)
NoDuplicates == \A p \in Pcpu : IsInjective(runqueue[p])

(* Types, and the integrity of the run queue of sched_iorr.c. *)
IorrInv == TypeOK /\ NoDuplicates

(* A thread that has used up its slice does not keep the pCPU: a reschedule
   request is pending as soon as the tick has seen it.  pick_next gives the
   thread it picks a positive budget, so the request is never consumed
   without renewing the budget. *)
ExhaustedIsPreempted ==
    \A p \in Pcpu :
        LET current == curr_obj[p] IN
        /\ current # NULL
        /\ ~is_idle_thread(current)
        /\ left_cycles[current] <= 0
        => need_reschedule[p]
=============================================================================
