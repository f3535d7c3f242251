------------------------------- MODULE Timer -------------------------------
(***************************************************************************)
(* The timers of one pCPU: the sorted list of arch/x86/timer.c behind the  *)
(* TSC-deadline timer of the pCPU, the softirq that runs expired timers    *)
(* (common/softirq.c, dispatch_interrupt of arch/x86/irq.c), and one       *)
(* user, the local APIC timer of the vCPU that runs on the pCPU (vlapic.c).*)
(*                                                                         *)
(* Code on the pCPU nests: the thread is interrupted, the interrupt ends   *)
(* in do_softirq, and its first pass runs with interrupts on, so that      *)
(* further interrupts come between any two steps of a handler.  Another    *)
(* pCPU reaches the list through del_timer, when it resets or frees a      *)
(* vCPU or releases a passthrough interrupt of this pCPU.                  *)
(* ASSERT is that of the debug build: it stops the pCPU.                   *)
(***************************************************************************)
EXTENDS Naturals, Sequences, FiniteSets, SequencesExt

CONSTANTS
    Others,            \* the timers of other users: ticks, console, delays
    Guest,             \* the timer of the vLAPIC
    MaxTsc,            \* bound on the time stamp counter
    MAX_TIMER_ACTIONS, \* one more than the timers run in a pass
    MinPeriod,         \* MIN_TIMER_PERIOD_US, in ticks
    Deltas,            \* the delays and counts that users ask for
    Deadlines,         \* the values the guest writes to IA32_TSC_DEADLINE
    TscOffsets,        \* the offsets of the guest's time stamp counter
    TscMod,            \* the counters wrap: 2^64
    MaxOps,            \* bound on the operations of the users
    Remote,            \* may another pCPU delete the timers in Others?
    HEAD, IDLE         \* the list head as a position of a walk; no walk

Timers == Others \union {Guest}

VARIABLES
    timer_list,        \* the list of the pCPU
    fire_tsc,          \* [Timers -> deadline, 0 when stopped]
    mode,              \* [Timers -> "oneshot" or "periodic"]
    period,            \* [Timers -> period_in_cycle]
    tsc,               \* rdtsc()
    msr,               \* IA32_TSC_DEADLINE of the pCPU, 0 when disarmed
    pending,           \* SOFTIRQ_TIMER of softirq_pending
    servicing,         \* "no"; do_softirq with interrupts "on", then "off"
    walk,              \* the locals of timer_softirq, IDLE outside
    assert_failed,     \* an ASSERT failed
    lvtt,              \* the mode field of the LVT timer register
    enabled,           \* the enable bit of the SVR
    tmicr,             \* vtimer.tmicr, the initial count last written
    ops,               \* operations of the users so far
    counting           \* what the guest expects of its timer (a history variable)

listvars == <<timer_list, fire_tsc, mode, period, msr>>
irqvars == <<pending, servicing, walk>>
guestvars == <<lvtt, enabled, tmicr, counting, ops>>
timer_vars == <<timer_list, fire_tsc, mode, period, tsc, msr, pending, servicing, walk,
                assert_failed, lvtt, enabled, tmicr, counting, ops>>

TimerInit == /\ timer_list = <<>>
             /\ fire_tsc = [t \in Timers |-> 0]
             /\ mode = [t \in Timers |-> "oneshot"]
             /\ period = [t \in Timers |-> 0]
             /\ tsc = 1 /\ msr = 0
             /\ pending = FALSE /\ servicing = "no" /\ walk = IDLE
             /\ assert_failed = FALSE
             /\ lvtt = "oneshot" /\ enabled = FALSE /\ tmicr = 0 /\ counting = FALSE
             /\ ops = 0

-----------------------------------------------------------------------------
(* The list.                                                               *)

Queued(t) == t \in Range(timer_list)

(* Where node->next leads: an unlinked node points to itself.              *)
next(list, t) ==
    IF t \in Range(list)
      THEN LET i == CHOOSE i \in DOMAIN list : list[i] = t
           IN IF i = Len(list) THEN HEAD ELSE list[i + 1]
      ELSE t
first(list) == IF list = <<>> THEN HEAD ELSE list[1]

(* Mutant: a new timer goes behind the ones with later deadlines. *)
placeLast(list, fire, f) == Len(list) + 1
(* local_add_timer: before the first timer that is not earlier.            *)
place(list, fire, f) ==
    Cardinality({i \in DOMAIN list : \A j \in 1..i : fire[list[j]] < f}) + 1

max(a, b) == IF a >= b THEN a ELSE b

(* update_physical_timer, when the new timer is the head of the list.      *)
program_head(t, list) == IF Head(list) = t THEN fire_tsc'[t] ELSE msr

(* add_timer, of a timer that may be on the list already.                  *)
add_timer(t, list, f, m, p) ==
    /\ fire_tsc' = [fire_tsc EXCEPT ![t] = f]
    /\ mode' = [mode EXCEPT ![t] = m]
    /\ \/ /\ f = 0
          /\ timer_list' = list /\ period' = [period EXCEPT ![t] = p]
          /\ UNCHANGED <<msr, assert_failed>>
       \/ /\ f # 0 /\ t \in Range(list)
          /\ assert_failed' = TRUE /\ timer_list' = list
          /\ period' = [period EXCEPT ![t] = p]
          /\ UNCHANGED msr
       \/ /\ f # 0 /\ t \notin Range(list)
          /\ period' = [period EXCEPT ![t] = IF m = "periodic" THEN max(p, MinPeriod) ELSE p]
          /\ timer_list' = InsertAt(list, place(list, fire_tsc, f), t)
          /\ msr' = program_head(t, timer_list')
          /\ UNCHANGED assert_failed

(* del_timer: the physical timer keeps its deadline.                       *)
del_timer(t) == SelectSeq(timer_list, LAMBDA u : u # t)

-----------------------------------------------------------------------------
(* Interrupts and softirqs.                                                *)

InThread == ~assert_failed /\ servicing = "no"
Operation == ops < MaxOps /\ ops' = ops + 1

tick == /\ tsc < MaxTsc /\ tsc' = tsc + 1
        /\ UNCHANGED <<listvars, irqvars, assert_failed, guestvars>>

(* The deadline has come and interrupts are on: tsc_deadline_handler, and  *)
(* do_softirq at the end of dispatch_interrupt unless one is servicing.    *)
tsc_deadline_interrupt ==
    /\ ~assert_failed /\ msr # 0 /\ msr <= tsc /\ servicing # "off"
    /\ msr' = 0 /\ pending' = TRUE
    /\ servicing' = IF servicing = "no" THEN "on" ELSE servicing
    /\ UNCHANGED <<timer_list, fire_tsc, mode, period, tsc, walk, assert_failed, guestvars>>

(* do_softirq_internal finds the bit set and calls timer_softirq.          *)
enter_timer_softirq ==
    /\ ~assert_failed /\ servicing # "no" /\ walk = IDLE /\ pending
    /\ pending' = FALSE
    /\ walk' = [pos |-> first(timer_list), n |-> next(timer_list, first(timer_list)),
                tries |-> MAX_TIMER_ACTIONS, now |-> tsc, running |-> FALSE]
    /\ UNCHANGED <<listvars, tsc, servicing, assert_failed, guestvars>>

(* No bit is left: the first pass turns interrupts off, the second one     *)
(* leaves do_softirq.                                                      *)
do_softirq_done ==
    /\ ~assert_failed /\ walk = IDLE /\ ~pending
    /\ \/ servicing = "on" /\ servicing' = "off"
       \/ servicing = "off" /\ servicing' = "no"
    /\ UNCHANGED <<listvars, tsc, pending, walk, assert_failed, guestvars>>

(* The timer at the position of the walk has expired and may still be run. *)
may_run == walk.pos # HEAD /\ fire_tsc[walk.pos] <= walk.now /\ walk.tries - 1 # 0

(* Mutant: the callback disarms the vLAPIC timer in every mode. *)
run_timerStops(t, f) == IF t = Guest THEN 0 ELSE f
(* vlapic_timer_expired, called unless the timer was stopped: it injects   *)
(* the vector, and stops the timer when it is not periodic.                *)
run_timer(t, f) == IF t = Guest /\ lvtt # "periodic" THEN 0 ELSE f

(* An expired timer is unlinked.                                           *)
unlink_timer ==
    /\ ~assert_failed /\ walk # IDLE /\ ~walk.running /\ may_run
    /\ timer_list' = del_timer(walk.pos)
    /\ walk' = [walk EXCEPT !.running = TRUE, !.tries = @ - 1]
    /\ UNCHANGED <<fire_tsc, mode, period, tsc, msr, pending, servicing, assert_failed, guestvars>>

(* It is run, and linked again one period later when it is periodic; the   *)
(* walk goes on at the node that followed it before.                       *)
service_timer ==
    LET t == walk.pos
        f == run_timer(t, fire_tsc[t])
    IN /\ ~assert_failed /\ walk # IDLE /\ walk.running
       /\ IF mode[t] = "periodic"
            THEN /\ fire_tsc' = [fire_tsc EXCEPT ![t] = f + period[t]]
                 /\ timer_list' = InsertAt(timer_list, place(timer_list, fire_tsc, f + period[t]), t)
            ELSE /\ fire_tsc' = [fire_tsc EXCEPT ![t] = f]
                 /\ UNCHANGED timer_list
       /\ walk' = [walk EXCEPT !.running = FALSE, !.pos = walk.n,
                               !.n = next(timer_list', walk.n)]
       /\ counting' = (counting /\ ~(t = Guest /\ lvtt # "periodic"))
       /\ UNCHANGED <<mode, period, tsc, msr, pending, servicing, assert_failed, lvtt, enabled, tmicr, ops>>

(* update_physical_timer: an expired deadline interrupts at once.          *)
update_physical_timer == IF timer_list = <<>> THEN msr ELSE fire_tsc[Head(timer_list)]

leave_timer_softirq ==
    /\ ~assert_failed /\ walk # IDLE /\ ~walk.running
    /\ ~may_run
    /\ walk' = IDLE /\ msr' = update_physical_timer
    /\ UNCHANGED <<timer_list, fire_tsc, mode, period, tsc, pending, servicing, assert_failed, guestvars>>

-----------------------------------------------------------------------------
(* The users.                                                              *)

(* A tick, console or delay timer is set up and added, or deleted.         *)
start_other(t) ==
    /\ Operation /\ InThread /\ t \in Others /\ ~Queued(t)
    /\ \E d \in Deltas, m \in {"oneshot", "periodic"} : add_timer(t, timer_list, tsc + d, m, d)
    /\ UNCHANGED <<tsc, irqvars, lvtt, enabled, tmicr, counting>>
stop_other(t) ==
    /\ Operation /\ InThread /\ t \in Others /\ Queued(t)
    /\ timer_list' = del_timer(t)
    /\ UNCHANGED <<fire_tsc, mode, period, tsc, msr, irqvars, assert_failed, lvtt, enabled, tmicr, counting>>

(* The same from another pCPU, at any point of this one; what is deleted   *)
(* was initialised again there or is not used again.                       *)
remote_del(t) ==
    /\ Operation /\ Remote /\ ~assert_failed /\ t \in Others /\ Queued(t)
    /\ timer_list' = del_timer(t)
    /\ UNCHANGED <<fire_tsc, mode, period, tsc, msr, irqvars, assert_failed, lvtt, enabled, tmicr, counting>>

(* Mutant: a change of mode leaves the timer running. *)
vlapic_update_lvttKeeps(m) ==
    /\ mode' = [mode EXCEPT ![Guest] = IF m = "periodic" THEN "periodic" ELSE "oneshot"]
    /\ lvtt' = m /\ counting' = (counting /\ m = lvtt)
    /\ UNCHANGED <<timer_list, fire_tsc, period>>
(* vlapic_update_lvtt: a change of mode disarms the timer.                 *)
vlapic_update_lvtt(m) ==
    \/ m = lvtt /\ UNCHANGED <<timer_list, fire_tsc, mode, period, lvtt, counting>>
    \/ /\ m # lvtt /\ lvtt' = m
       /\ timer_list' = del_timer(Guest)
       /\ mode' = [mode EXCEPT ![Guest] = IF m = "periodic" THEN "periodic" ELSE "oneshot"]
       /\ fire_tsc' = [fire_tsc EXCEPT ![Guest] = 0]
       /\ period' = [period EXCEPT ![Guest] = 0]
       /\ counting' = FALSE

vlapic_write_lvt ==
    /\ Operation /\ InThread
    /\ \E m \in {"oneshot", "periodic", "tscdeadline"} : vlapic_update_lvtt(m)
    /\ UNCHANGED <<tsc, msr, irqvars, assert_failed, enabled, tmicr>>

(* set_expiration, with the divided count as a number of ticks.            *)
expiration_period(c) == IF lvtt = "periodic" THEN c ELSE period[Guest]

(* The initial count starts the timer; a count of zero stops it.           *)
vlapic_write_icrtmr ==
    /\ Operation /\ InThread /\ lvtt # "tscdeadline"
    /\ \E c \in Deltas \union {0} :
         /\ tmicr' = c /\ counting' = (c # 0)
         /\ IF c = 0
              THEN /\ timer_list' = del_timer(Guest)
                   /\ UNCHANGED <<fire_tsc, mode, period, msr, assert_failed>>
              ELSE add_timer(Guest, del_timer(Guest), tsc + c, mode[Guest], expiration_period(c))
    /\ UNCHANGED <<tsc, irqvars, lvtt, enabled>>

(* The deadline in the pCPU's time: guest time less VMX_TSC_OFFSET, modulo *)
(* the width; zero, which disarms, stays zero.                             *)
host_deadline(v, offset) == IF v = 0 THEN 0 ELSE (v + TscMod - offset) % TscMod

(* A write of IA32_TSC_DEADLINE by the guest, past deadlines included, at  *)
(* whatever offset its last write of the TSC has left.  add_timer refuses  *)
(* a deadline that the offset takes to zero.                               *)
vlapic_set_tsc_deadline_msr ==
    /\ Operation /\ InThread /\ lvtt = "tscdeadline"
    /\ \E v \in Deadlines, offset \in TscOffsets :
         /\ counting' = (v # 0)
         /\ add_timer(Guest, del_timer(Guest), host_deadline(v, offset), mode[Guest], period[Guest])
    /\ UNCHANGED <<tsc, irqvars, lvtt, enabled, tmicr>>

(* Software-disabling the APIC stops the timer; enabling it starts a       *)
(* periodic one again, without taking it off the list.                     *)
vlapic_write_svr ==
    /\ Operation /\ InThread /\ enabled' = ~enabled
    /\ \/ /\ enabled
          /\ timer_list' = del_timer(Guest) /\ counting' = FALSE
          /\ UNCHANGED <<fire_tsc, mode, period, msr, assert_failed>>
       \/ /\ ~enabled /\ lvtt = "periodic" /\ tmicr # 0
          /\ counting' = TRUE
          /\ add_timer(Guest, timer_list, tsc + tmicr, mode[Guest], tmicr)
       \/ /\ ~enabled /\ ~(lvtt = "periodic" /\ tmicr # 0)
          /\ UNCHANGED <<timer_list, fire_tsc, mode, period, msr, assert_failed, counting>>
    /\ UNCHANGED <<tsc, irqvars, lvtt, tmicr>>

(* vlapic_reset, on the pCPU of the vCPU: the registers, and the timer;    *)
(* tmicr keeps its value.                                                  *)
vlapic_reset ==
    /\ Operation /\ InThread
    /\ timer_list' = del_timer(Guest)
    /\ fire_tsc' = [fire_tsc EXCEPT ![Guest] = 0]
    /\ mode' = [mode EXCEPT ![Guest] = "oneshot"]
    /\ period' = [period EXCEPT ![Guest] = 0]
    /\ lvtt' = "oneshot" /\ enabled' = FALSE /\ counting' = FALSE
    /\ UNCHANGED <<tsc, msr, irqvars, assert_failed, tmicr>>

Softirq == \/ enter_timer_softirq \/ unlink_timer \/ service_timer \/ leave_timer_softirq \/ do_softirq_done
TimerNext == \/ tick \/ tsc_deadline_interrupt \/ Softirq
             \/ \E t \in Others : start_other(t) \/ stop_other(t) \/ remote_del(t)
             \/ vlapic_write_lvt \/ vlapic_write_icrtmr \/ vlapic_set_tsc_deadline_msr
             \/ vlapic_write_svr \/ vlapic_reset

(* Time passes, the LAPIC delivers, and code that runs goes on.            *)
TimerSpec == /\ TimerInit /\ [][TimerNext]_timer_vars
             /\ WF_timer_vars(tick) /\ WF_timer_vars(tsc_deadline_interrupt) /\ WF_timer_vars(Softirq)

-----------------------------------------------------------------------------
TypeOK == /\ timer_list \in Seq(Timers) /\ fire_tsc \in [Timers -> Nat]
          /\ mode \in [Timers -> {"oneshot", "periodic"}] /\ period \in [Timers -> Nat]
          /\ tsc \in 1..MaxTsc /\ ops \in 0..MaxOps /\ msr \in Nat /\ tmicr \in Nat
          /\ servicing \in {"no", "on", "off"}
          /\ {pending, assert_failed, enabled, counting} \subseteq BOOLEAN
          /\ lvtt \in {"oneshot", "periodic", "tscdeadline"}

(* The deadline the guest wrote is its TSC offset, zero in the pCPU's time.*)
DeadlineIsZero == lvtt = "tscdeadline" /\ fire_tsc[Guest] = 0

(* Outside the softirq, the hypervisor's timer of a vLAPIC is on the list  *)
(* exactly when the guest's timer counts, but for the one TSC deadline     *)
(* that add_timer takes for a stopped timer.                               *)
GuestTimerQueued == InThread => (Queued(Guest) <=> counting /\ ~DeadlineIsZero)

(* The list holds a timer once, in the order of the deadlines, and outside *)
(* timer_softirq there is always something that will look at its head in   *)
(* time: the pending softirq or a physical deadline that is not later.     *)
(* add_timer, timer_softirq and update_physical_timer, with del_timer      *)
(* never reprogramming the MSR.  The timer of the guest is on it.          *)
TimerInv ==
    /\ TypeOK /\ GuestTimerQueued
    /\ IsInjective(timer_list)
    /\ ~assert_failed => \A i, j \in DOMAIN timer_list :
                           i < j => fire_tsc[timer_list[i]] <= fire_tsc[timer_list[j]]
    /\ ~assert_failed /\ timer_list # <<>> /\ walk = IDLE /\ ~pending
         => msr # 0 /\ msr <= fire_tsc[Head(timer_list)]
    /\ servicing = "no" => ~pending /\ walk = IDLE

(* A timer on the list whose deadline comes (before the end of time) is    *)
(* run, also one that a pass of timer_softirq leaves over or that is added *)
(* while the softirq is pending.                                           *)
TimerWaits(t) == ~assert_failed /\ Queued(t) /\ fire_tsc[t] <= MaxTsc

(* The assertion of add_timer: "add timer again!".                         *)
AddedOnce == ~assert_failed
=============================================================================
