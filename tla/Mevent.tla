------------------------------- MODULE Mevent -------------------------------
(***************************************************************************)
(* The event loop of the device model (devicemodel/core/mevent.c).  One    *)
(* thread waits for descriptors and runs the handlers of their events; the *)
(* thread of the vCPUs adds, enables, disables and deletes events, and     *)
(* asks the loop to end.  A handler may delete its own event or another.   *)
(*                                                                         *)
(* The loop handles a batch of events after it has left epoll_wait, and no *)
(* lock covers the batch: an event that another thread deletes is torn     *)
(* down and freed by the loop itself, after the batch.                     *)
(*                                                                         *)
(* Three things that the code leaves open are in races or not:             *)
(*   "free"    an event that is freed by whoever deletes it (it has no     *)
(*             teardown function, or a handler deletes it) is deleted      *)
(*             while it waits in the batch;                                *)
(*   "signal"  SIGINT comes on the thread of the loop, where nothing is    *)
(*             written to the pipe, just before epoll_wait;                *)
(*   "force"   handle_stop ends the VM by force and notifies nobody.       *)
(* The loop starts with its pipe; a full reset, which starts it again, is  *)
(* left out, and so are failed calls of the host.                          *)
(***************************************************************************)
EXTENDS Naturals, Sequences, Functions

CONSTANTS
    Events,      \* the events
    Teardown,    \* those with a teardown function
    PIPE,        \* the event of the pipe of mevent_notify
    MEVENT_MAX,  \* the size of the array for a batch
    MaxAdds,     \* bound on the events that are added
    LoopRaces,   \* the values of races, see above
    NONE

ASSUME MeventAssumption == MEVENT_MAX \in Nat \ {0} /\ PIPE \notin Events

VARIABLES
    where,       \* [event -> "freed", "new", "global_head", "out", "del_head"]
    me_state,    \* [event -> may its handler run]
    epoll,       \* what epoll_fd watches
    ready,       \* what has something to read
    eventlist,   \* the rest of the batch
    dispatch,    \* where mevent_dispatch is
    op,          \* the call of the other thread: [call, e, at], or NONE
    suspend_mode,
    torn,        \* [event -> its teardown function has run, since it was added]
    misused,     \* the loop used an event that was freed or torn down
    adds,
    races

loopvars == <<eventlist, dispatch>>
mevars == <<where, me_state, epoll, ready, loopvars, op, suspend_mode, torn, misused, adds, races>>

MeventInit ==
    /\ where = [e \in Events |-> "freed"] /\ me_state = [e \in Events |-> FALSE]
    /\ epoll = {PIPE} /\ ready = {} /\ eventlist = <<>> /\ dispatch = "wait"
    /\ op = NONE /\ suspend_mode = FALSE /\ torn = [e \in Events |-> FALSE] /\ misused = FALSE /\ adds = 0
    /\ races \in LoopRaces

InBatch(e) == \E i \in DOMAIN eventlist : eventlist[i] = e

-----------------------------------------------------------------------------
(* The thread of the vCPUs.                                                *)
Begins(call, e) == op = NONE /\ op' = [call |-> call, e |-> e, at |-> 1] /\ dispatch # "done"
OpAt(call, n) == op # NONE /\ op.call = call /\ op.at = n
OpGoto(n) == op' = [op EXCEPT !.at = n]

(* mevent_add: the event is watched before it is in the list.              *)
mevent_add(e) ==
    /\ where[e] = "freed" /\ Begins("add", e) /\ adds < MaxAdds /\ adds' = adds + 1
    /\ where' = [where EXCEPT ![e] = "new"] /\ me_state' = [me_state EXCEPT ![e] = TRUE]
    /\ epoll' = epoll \union {e} /\ torn' = [torn EXCEPT ![e] = FALSE]
    /\ UNCHANGED <<ready, loopvars, suspend_mode, misused, races>>
add_insert ==
    /\ OpAt("add", 1) /\ where' = [where EXCEPT ![op.e] = "global_head"] /\ op' = NONE
    /\ UNCHANGED <<me_state, epoll, ready, loopvars, suspend_mode, torn, misused, adds, races>>

mevent_enable(e) ==
    /\ op = NONE /\ dispatch # "done" /\ where[e] = "global_head" /\ e \notin epoll
    /\ epoll' = epoll \union {e}
    /\ UNCHANGED <<where, me_state, ready, loopvars, op, suspend_mode, torn, misused, adds, races>>
mevent_disable(e) ==
    /\ op = NONE /\ dispatch # "done" /\ where[e] = "global_head" /\ e \in epoll
    /\ epoll' = epoll \ {e}
    /\ UNCHANGED <<where, me_state, ready, loopvars, op, suspend_mode, torn, misused, adds, races>>

(* mevent_delete and mevent_delete_close, in another thread than the loop: *)
(* off the list, no handler from here on, no longer watched.               *)
mevent_delete(e) ==
    /\ where[e] = "global_head" /\ Begins("delete", e)
    /\ where' = [where EXCEPT ![e] = "out"]
    /\ UNCHANGED <<me_state, epoll, ready, loopvars, suspend_mode, torn, misused, adds, races>>
delete_state ==
    /\ OpAt("delete", 1) /\ OpGoto(2) /\ me_state' = [me_state EXCEPT ![op.e] = FALSE]
    /\ UNCHANGED <<where, epoll, ready, loopvars, suspend_mode, torn, misused, adds, races>>
delete_epoll ==
    /\ OpAt("delete", 2) /\ OpGoto(3) /\ epoll' = epoll \ {op.e}
    /\ UNCHANGED <<where, me_state, ready, loopvars, suspend_mode, torn, misused, adds, races>>
(* Mutant: the event is torn down and freed at once. *)
mevent_add_to_del_listFrees ==
    /\ OpAt("delete", 3) /\ op.e \in Teardown /\ op' = NONE
    /\ where' = [where EXCEPT ![op.e] = "freed"] /\ torn' = [torn EXCEPT ![op.e] = TRUE]
    /\ UNCHANGED <<me_state, epoll, ready, loopvars, suspend_mode, misused, adds, races>>
(* With a teardown function, the loop has to do the rest.                  *)
mevent_add_to_del_list ==
    /\ OpAt("delete", 3) /\ op.e \in Teardown /\ OpGoto(4)
    /\ where' = [where EXCEPT ![op.e] = "del_head"]
    /\ UNCHANGED <<me_state, epoll, ready, loopvars, suspend_mode, torn, misused, adds, races>>
(* Without, the event is freed here.                                       *)
delete_free ==
    /\ OpAt("delete", 3) /\ op.e \notin Teardown /\ op' = NONE
    /\ "free" \in races \/ ~InBatch(op.e)
    /\ where' = [where EXCEPT ![op.e] = "freed"]
    /\ UNCHANGED <<me_state, epoll, ready, loopvars, suspend_mode, torn, misused, adds, races>>
(* Mutant: the loop is not told of a deleted event. *)
mevent_notifyNotOfDeletes ==
    /\ OpAt("delete", 4) \/ OpAt("suspend", 1)
    /\ op' = NONE /\ ready' = IF op.call = "delete" THEN ready ELSE ready \union {PIPE}
    /\ UNCHANGED <<where, me_state, epoll, loopvars, suspend_mode, torn, misused, adds, races>>
(* mevent_notify: a byte on the pipe.                                      *)
mevent_notify ==
    /\ OpAt("delete", 4) \/ OpAt("suspend", 1)
    /\ op' = NONE /\ ready' = ready \union {PIPE}
    /\ UNCHANGED <<where, me_state, epoll, loopvars, suspend_mode, torn, misused, adds, races>>

(* The VM is powered off.                                                  *)
vm_set_suspend_mode ==
    /\ ~suspend_mode /\ suspend_mode' = TRUE /\ Begins("suspend", NONE)
    /\ UNCHANGED <<where, me_state, epoll, ready, loopvars, torn, misused, adds, races>>

(* handle_stop by force, in the thread of the monitor.                     *)
handle_stop ==
    /\ "force" \in races /\ ~suspend_mode /\ suspend_mode' = TRUE
    /\ UNCHANGED <<where, me_state, epoll, ready, loopvars, op, torn, misused, adds, races>>
(* sig_handler_term on the thread of the loop: mevent_notify writes        *)
(* nothing there, epoll_wait is interrupted.                               *)
sig_handler_term ==
    /\ ~suspend_mode /\ suspend_mode' = TRUE
    /\ dispatch # "done" /\ (dispatch = "enter" => "signal" \in races)
    /\ dispatch' = IF dispatch = "wait" THEN "handle" ELSE dispatch
    /\ UNCHANGED <<where, me_state, epoll, ready, eventlist, op, torn, misused, adds, races>>

-----------------------------------------------------------------------------
(* Something comes on a descriptor.                                        *)
arrives(e) ==
    /\ e \notin ready /\ e \in epoll /\ ready' = ready \union {e}
    /\ UNCHANGED <<where, me_state, epoll, loopvars, op, suspend_mode, torn, misused, adds, races>>

(* mevent_dispatch: into epoll_wait, and out of it with a batch: all that  *)
(* is ready, or as much of it as the array holds, in any order.            *)
epoll_enter ==
    /\ dispatch = "enter" /\ dispatch' = "wait"
    /\ UNCHANGED <<where, me_state, epoll, ready, eventlist, op, suspend_mode, torn, misused, adds, races>>
epoll_wait ==
    /\ dispatch = "wait" /\ ready \intersect epoll # {} /\ dispatch' = "handle"
    /\ LET batch == ready \intersect epoll IN
       \E n \in 1..MEVENT_MAX :
           eventlist' \in IF n < MEVENT_MAX THEN Bijection(1..n, batch) ELSE Injection(1..n, batch)
    /\ UNCHANGED <<where, me_state, epoll, ready, op, suspend_mode, torn, misused, adds, races>>
(* Some signal interrupts it: no event was reported.                       *)
epoll_interrupted ==
    /\ dispatch = "wait" /\ dispatch' = "handle"
    /\ UNCHANGED <<where, me_state, epoll, ready, eventlist, op, suspend_mode, torn, misused, adds, races>>

(* mevent_handle looks at me_state and runs the handler, which reads the   *)
(* descriptor.  It must not find an event that is gone.                    *)
mevent_handle ==
    /\ dispatch = "handle" /\ eventlist # <<>>
    /\ LET e == Head(eventlist) IN
       IF e = PIPE
         THEN /\ ready' = ready \ {PIPE} /\ eventlist' = Tail(eventlist)
              /\ UNCHANGED <<dispatch, misused, races>>
         ELSE /\ misused' = (misused \/ where[e] = "freed")
              /\ IF me_state[e] THEN dispatch' = "run" /\ UNCHANGED eventlist
                 ELSE eventlist' = Tail(eventlist) /\ UNCHANGED dispatch
              /\ UNCHANGED ready
    /\ UNCHANGED <<where, me_state, epoll, op, suspend_mode, torn, adds, races>>
(* The handler may delete its event or another, which is done at once.     *)
run ==
    /\ dispatch = "run" /\ dispatch' = "handle" /\ eventlist' = Tail(eventlist)
    /\ LET e == Head(eventlist) IN
       /\ ready' = ready \ {e}
       /\ misused' = (misused \/ where[e] = "freed" \/ torn[e])
    /\ \/ UNCHANGED <<where, me_state, epoll, torn>>
       \/ \E d \in Events :
             /\ where[d] = "global_head"
             /\ "free" \in races \/ \A i \in DOMAIN Tail(eventlist) : Tail(eventlist)[i] # d
             /\ where' = [where EXCEPT ![d] = "freed"] /\ me_state' = [me_state EXCEPT ![d] = FALSE]
             /\ epoll' = epoll \ {d} /\ torn' = [torn EXCEPT ![d] = d \in Teardown]
    /\ UNCHANGED <<op, suspend_mode, adds, races>>

(* After the batch mevent_drain_del_list tears down what was deleted; the  *)
(* loop goes on unless the VM is powered off.                              *)
mevent_drain_del_list ==
    /\ dispatch = "handle" /\ eventlist = <<>>
    /\ LET gone == {e \in Events : where[e] = "del_head"} IN
       /\ where' = [e \in Events |-> IF e \in gone THEN "freed" ELSE where[e]]
       /\ torn' = [e \in Events |-> torn[e] \/ e \in gone]
    /\ dispatch' = IF suspend_mode THEN "done" ELSE "enter"
    /\ UNCHANGED <<me_state, epoll, ready, eventlist, op, suspend_mode, misused, adds, races>>
(* mevent_deinit, when the other thread has ended: what is left in either  *)
(* list.                                                                   *)
mevent_destroy ==
    /\ dispatch = "done" /\ op = NONE /\ \E e \in Events : where[e] # "freed"
    /\ torn' = [e \in Events |-> torn[e] \/ (where[e] # "freed" /\ e \in Teardown)]
    /\ where' = [e \in Events |-> "freed"] /\ epoll' = {PIPE}
    /\ UNCHANGED <<me_state, ready, loopvars, op, suspend_mode, misused, adds, races>>

(* The device model ends.                                                  *)
exited == dispatch = "done" /\ op = NONE /\ (\A e \in Events : where[e] = "freed") /\ UNCHANGED mevars

Loop == epoll_enter \/ epoll_wait \/ mevent_handle \/ run \/ mevent_drain_del_list \/ mevent_destroy
Caller == add_insert \/ delete_state \/ delete_epoll \/ mevent_add_to_del_list \/ delete_free \/ mevent_notify
MeventNext == \/ \E e \in Events : mevent_add(e) \/ mevent_enable(e) \/ mevent_disable(e) \/ mevent_delete(e) \/ arrives(e)
              \/ Caller \/ vm_set_suspend_mode \/ handle_stop \/ sig_handler_term \/ epoll_interrupted \/ Loop \/ exited
MeventFairness == WF_mevars(Loop) /\ WF_mevars(Caller)
MeventSpec == MeventInit /\ [][MeventNext]_mevars /\ MeventFairness

-----------------------------------------------------------------------------
(* The loop never touches an event that was freed, nor runs one that was   *)
(* torn down, although deletions come at any point of a batch; what waits  *)
(* for its teardown is not watched and not run again, and nothing that is  *)
(* freed is watched.                                                       *)
MeventInv ==
    /\ where \in [Events -> {"freed", "new", "global_head", "out", "del_head"}]
    /\ misused => "free" \in races
    /\ \A e \in Events : /\ where[e] = "freed" => e \notin epoll
                         /\ where[e] = "del_head" => e \notin epoll /\ ~me_state[e]
                         /\ torn[e] => where[e] = "freed"

(* An event that was deleted is torn down, and a loop that was told to end *)
(* does, although nothing comes on any descriptor.                         *)
MeventWaits(e) == races = {} /\ IF e = NONE THEN suspend_mode /\ dispatch # "done"
                                 ELSE where[e] \in {"out", "del_head"}
TornDown == \A e \in Events \union {NONE} : []<>~MeventWaits(e)
=============================================================================
