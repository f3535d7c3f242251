-------------------------------- MODULE Ioc --------------------------------
(***************************************************************************)
(* The IOC mediator of the device model (hw/platform/ioc.c, ioc_cbc.c):    *)
(* it stands between the I/O controller of the car and the User VM and     *)
(* tells each when the other goes to sleep.  Its core thread reads the     *)
(* native channels, the virtual UART of the guest and its own events; the  *)
(* rx thread handles what the guest sends (heartbeats), the tx thread      *)
(* what the guest is sent (wakeup reasons).  All of them take their        *)
(* requests from one pool.                                                 *)
(*                                                                         *)
(* A request is known by its type, a frame of the guest by its heartbeat;  *)
(* signals and raw channels, which are forwarded, are left out.  The guest *)
(* and the VM manager are external.  Races holds what may happen besides:  *)
(*   "cancel"   the guest takes a shutdown back that it has announced,     *)
(*   "overtake" it announces one before its first heartbeat is answered,   *)
(*   "early"    the VM manager resumes the VM before the mediator sleeps,  *)
(*   "busy"     the threads are stopped while they handle a request.       *)
(***************************************************************************)
EXTENDS Naturals, Sequences

CONSTANTS
    IOC_MAX_REQUESTS,
    MaxUart,       \* frames of the guest that wait to be handled
    MaxPeriodic,   \* periodic wakeup reasons that do
    MaxRequests,   \* requests of the VM manager
    Races,
    NOREQ

VARIABLES
    free,          \* how many requests free_qhead holds
    rx, tx,        \* rx_qhead and tx_qhead
    events,        \* what was written to evt_fd and not read yet
    state, cbc_enable, vm_req,
    native,        \* the native channels are open
    core,          \* the event the core thread handles, "wait" or "exit"
    rxt, txt,      \* the rx and tx threads: [at, req]
    last,          \* evt of the packet of the rx thread
    uos_active,    \* of the packet of the tx thread
    closing,       \* how far ioc_kill_workers is
    guest, uart,   \* the guest, and what it has sent
    noted          \* [lost: send_tx_request has failed; late: a wakeup reason
                   \*  came after that of shutdown; unopened: the channels could
                   \*  not be opened again; unheard: the VM was resumed without a
                   \*  wakeup reason; requests]

queuevars == <<free, rx, tx>>
iocvars == <<free, rx, tx, events, state, cbc_enable, vm_req, native, core, rxt, txt, last,
             uos_active, closing, guest, uart, noted>>

Waiting == [at |-> "wait", req |-> NOREQ]
Exited == [at |-> "exit", req |-> NOREQ]

IocInit ==
    /\ free = IOC_MAX_REQUESTS /\ rx = <<>> /\ tx = <<>> /\ events = <<>>
    /\ state = "INIT" /\ cbc_enable = TRUE /\ vm_req = "NONE" /\ native = TRUE
    /\ core = "wait" /\ rxt = Waiting /\ txt = Waiting /\ last = "INVALID" /\ uos_active = FALSE
    /\ closing = "no" /\ guest = "boot" /\ uart = <<>>
    /\ noted = [lost |-> FALSE, late |-> FALSE, unopened |-> FALSE, unheard |-> FALSE, requests |-> 0]

-----------------------------------------------------------------------------
(* The core thread.                                                        *)
ioc_build_request ==
    /\ core = "wait" /\ closing = "no" /\ uart # <<>> /\ uart' = Tail(uart)
    /\ IF free = 0 THEN UNCHANGED <<free, rx>>
       ELSE free' = free - 1 /\ rx' = Append(rx, Head(uart))
    /\ UNCHANGED <<tx, events, state, cbc_enable, vm_req, native, core, rxt, txt, last, uos_active,
                   closing, guest, noted>>
(* A periodic wakeup reason comes on the native lifecycle channel.         *)
ioc_process_tx ==
    /\ core = "wait" /\ closing = "no" /\ native
    /\ Len(SelectSeq(tx, LAMBDA r : r = "PROT")) < MaxPeriodic
    /\ free > 0 /\ free' = free - 1 /\ tx' = Append(tx, "PROT")
    /\ UNCHANGED <<rx, events, state, cbc_enable, vm_req, native, core, rxt, txt, last, uos_active,
                   closing, guest, uart, noted>>

(* ioc_process_events takes one event; the handlers of RAM_REFRESH and     *)
(* HB_INACTIVE begin with cbc_enable.  In any other state it is dropped.   *)
Handled(evt) ==
    \/ evt = "HB_ACTIVE" /\ state = "INIT"
    \/ evt \in {"RAM_REFRESH", "HB_INACTIVE"} /\ state = "ACTIVE"
    \/ evt = "SHUTDOWN" /\ state = "SUSPENDING"
    \/ evt = "RESUME" /\ state = "SUSPENDED"
(* Mutant: packets are discarded only once the channels are closed. *)
ioc_process_eventsLate ==
    /\ core = "wait" /\ events # <<>> /\ events' = Tail(events)
    /\ core' = IF Handled(Head(events)) THEN Head(events) ELSE "wait"
    /\ cbc_enable' = CASE core' = "SHUTDOWN" -> FALSE
                       [] core' = "RESUME" -> TRUE
                       [] OTHER -> cbc_enable
    /\ UNCHANGED <<queuevars, state, vm_req, native, rxt, txt, last, uos_active, closing, guest, uart, noted>>
ioc_process_events ==
    /\ core = "wait" /\ events # <<>> /\ events' = Tail(events)
    /\ core' = IF Handled(Head(events)) THEN Head(events) ELSE "wait"
    /\ cbc_enable' = CASE core' \in {"RAM_REFRESH", "HB_INACTIVE"} -> FALSE
                       [] core' = "RESUME" -> TRUE
                       [] OTHER -> cbc_enable
    /\ UNCHANGED <<queuevars, state, vm_req, native, rxt, txt, last, uos_active, closing, guest, uart, noted>>

(* send_tx_request, and the state that follows when it does not fail.      *)
send_tx_request(type, next) ==
    /\ IF free = 0 THEN UNCHANGED <<free, tx, state>> /\ noted' = [noted EXCEPT !.lost = TRUE]
       ELSE free' = free - 1 /\ tx' = <<type>> \o tx /\ state' = next /\ UNCHANGED noted
    /\ UNCHANGED rx
process_hb_active_event ==
    /\ core = "HB_ACTIVE" /\ send_tx_request("UOS_ACTIVE", "ACTIVE") /\ core' = "wait"
    /\ UNCHANGED <<events, cbc_enable, vm_req, native, rxt, txt, last, uos_active, closing, guest, uart>>
process_ram_refresh_event ==
    /\ core \in {"RAM_REFRESH", "HB_INACTIVE"} /\ core' = "wait"
    /\ send_tx_request("UOS_INACTIVE", "SUSPENDING")
    /\ UNCHANGED <<events, cbc_enable, vm_req, native, rxt, txt, last, uos_active, closing, guest, uart>>
process_shutdown_event ==
    /\ core = "SHUTDOWN" /\ core' = "wait" /\ native' = FALSE /\ state' = "SUSPENDED"
    /\ UNCHANGED <<queuevars, events, cbc_enable, vm_req, rxt, txt, last, uos_active, closing, guest, uart, noted>>
(* A channel that cannot be opened is left closed, and the state follows.  *)
process_resume_event ==
    /\ core = "RESUME" /\ core' = "wait" /\ native' \in BOOLEAN /\ state' = "INIT"
    /\ noted' = [noted EXCEPT !.unopened = ~native']
    /\ UNCHANGED <<queuevars, events, cbc_enable, vm_req, rxt, txt, last, uos_active, closing, guest, uart>>
ioc_core_exit ==
    /\ core = "wait" /\ closing # "no" /\ core' = "exit"
    /\ UNCHANGED <<queuevars, events, state, cbc_enable, vm_req, native, rxt, txt, last, uos_active,
                   closing, guest, uart, noted>>

-----------------------------------------------------------------------------
(* The rx thread: it takes a request, the handler drops it unless          *)
(* cbc_enable is set, and a heartbeat that is new becomes an event.  The   *)
(* request goes back to the pool, or, for the first heartbeat of a guest,  *)
(* to the head of the tx queue.                                            *)
RxGoto(at) == rxt' = [rxt EXCEPT !.at = at]
rx_get ==
    /\ rxt.at = "wait" /\ rx # <<>> /\ closing = "no"
    /\ rxt' = [at |-> "got", req |-> Head(rx)] /\ rx' = Tail(rx)
    /\ UNCHANGED <<free, tx, events, state, cbc_enable, vm_req, native, core, txt, last, uos_active,
                   closing, guest, uart, noted>>
cbc_rx_handler ==
    /\ rxt.at = "got" /\ RxGoto(IF cbc_enable THEN "heartbeat" ELSE "free")
    /\ UNCHANGED <<queuevars, events, state, cbc_enable, vm_req, native, core, txt, last, uos_active,
                   closing, guest, uart, noted>>
EventOf(hb) == CASE hb \in {"INITIAL", "ACTIVE"} -> "HB_ACTIVE"
                 [] hb = "SD_PREP_REFRESH" -> "RAM_REFRESH"
                 [] hb = "SD_PREP" -> "HB_INACTIVE"
cbc_update_heartbeat ==
    /\ rxt.at = "heartbeat"
    /\ LET evt == EventOf(rxt.req) IN
       /\ events' = IF evt # last THEN Append(events, evt) ELSE events
       /\ last' = evt
    /\ RxGoto(IF rxt.req = "INITIAL" THEN "tx" ELSE "free")
    /\ UNCHANGED <<queuevars, state, cbc_enable, vm_req, native, core, txt, uos_active, closing, guest, uart, noted>>
rx_route ==
    /\ rxt.at \in {"free", "tx"} /\ rxt' = Waiting
    /\ IF rxt.at = "tx" THEN tx' = <<"HB_INIT">> \o tx /\ UNCHANGED free
       ELSE free' = free + 1 /\ UNCHANGED tx
    /\ UNCHANGED <<rx, events, state, cbc_enable, vm_req, native, core, txt, last, uos_active,
                   closing, guest, uart, noted>>

-----------------------------------------------------------------------------
(* The tx thread: it takes a request, the handler decides whether to send  *)
(* a wakeup reason and sends it; after that of shutdown there is an event. *)
TxGoto(at) == txt' = [txt EXCEPT !.at = at]
tx_get ==
    /\ txt.at = "wait" /\ tx # <<>> /\ closing = "no"
    /\ txt' = [at |-> "got", req |-> Head(tx)] /\ tx' = Tail(tx)
    /\ UNCHANGED <<free, rx, events, state, cbc_enable, vm_req, native, core, rxt, last, uos_active,
                   closing, guest, uart, noted>>
cbc_tx_handler ==
    /\ txt.at = "got" /\ TxGoto(IF txt.req = "PROT" /\ ~cbc_enable THEN "free" ELSE "send")
    /\ UNCHANGED <<queuevars, events, state, cbc_enable, vm_req, native, core, rxt, last, uos_active,
                   closing, guest, uart, noted>>
(* The wakeup reason: with the SoC bit or not, that of an ignition that is *)
(* switched off (with force S5 for a VM that is to stop, without for one   *)
(* that is to be suspended), or none.                                      *)
Reason ==
    CASE txt.req \in {"HB_INIT", "UOS_ACTIVE"} -> "soc"
      [] txt.req = "UOS_INACTIVE" -> "shutdown"
      [] txt.req = "PROT" /\ vm_req = "STOP" -> "off_s5"
      [] txt.req = "PROT" /\ vm_req = "SUSPEND" -> "off"
      [] txt.req = "PROT" /\ vm_req \notin {"STOP", "SUSPEND"} -> IF uos_active THEN "soc" ELSE "boot"
(* The first heartbeat of the guest has been handled and answered.         *)
Answered ==
    /\ last = "HB_ACTIVE" /\ rxt.req # "INITIAL" /\ core # "HB_ACTIVE"
    /\ \A k \in DOMAIN events : events[k] # "HB_ACTIVE"
    /\ \A r \in {"HB_INIT", "UOS_ACTIVE"} : txt.req # r /\ \A k \in DOMAIN tx : tx[k] # r
MayLeave == guest = "active" /\ (Answered \/ "overtake" \in Races)
(* What the guest does on it: it begins to shut down when the ignition is  *)
(* off, and is down with the reason of shutdown.                           *)
GuestOn(reason) ==
    CASE MayLeave /\ reason = "off" -> {"sleepy"}
      [] MayLeave /\ reason = "off_s5" -> {"leaving"}
      [] guest \in {"sleepy", "leaving"} /\ reason = "shutdown" -> {"down"}
      [] OTHER -> {guest}
cbc_send_pkt ==
    /\ txt.at = "send" /\ guest' \in GuestOn(Reason)
    /\ noted' = IF guest = "down" THEN [noted EXCEPT !.late = TRUE] ELSE noted
    /\ uos_active' = CASE txt.req \in {"HB_INIT", "UOS_ACTIVE"} -> TRUE
                       [] txt.req = "UOS_INACTIVE" -> FALSE
                       [] OTHER -> uos_active
    /\ TxGoto(IF txt.req = "UOS_INACTIVE" THEN "event" ELSE "free")
    /\ UNCHANGED <<queuevars, events, state, cbc_enable, vm_req, native, core, rxt, last, closing, uart>>
shutdown_event ==
    /\ txt.at = "event" /\ events' = Append(events, "SHUTDOWN") /\ TxGoto("free")
    /\ UNCHANGED <<queuevars, state, cbc_enable, vm_req, native, core, rxt, last, uos_active, closing,
                   guest, uart, noted>>
tx_route ==
    /\ txt.at = "free" /\ txt' = Waiting /\ free' = free + 1
    /\ UNCHANGED <<rx, tx, events, state, cbc_enable, vm_req, native, core, rxt, last, uos_active,
                   closing, guest, uart, noted>>

-----------------------------------------------------------------------------
(* ioc_kill_workers: the core thread is knocked and joined, then each of   *)
(* the others signalled and joined.  A thread that is signalled and does   *)
(* not wait does not hear it, and waits afterwards unless its queue holds  *)
(* a request.                                                              *)
ioc_kill_workers ==
    /\ closing = "no" /\ guest = "down" /\ closing' = "core" /\ events' = Append(events, "KNOCK")
    /\ UNCHANGED <<queuevars, state, cbc_enable, vm_req, native, core, rxt, txt, last, uos_active,
                   guest, uart, noted>>
Idle(t) == t.at \in {"wait", "exit"} \/ "busy" \in Races
join_rx ==
    /\ closing = "core" /\ core = "exit" /\ Idle(rxt) /\ closing' = "rx"
    /\ rxt' = IF rxt.at = "wait" THEN Exited ELSE rxt
    /\ UNCHANGED <<queuevars, events, state, cbc_enable, vm_req, native, core, txt, last, uos_active,
                   guest, uart, noted>>
join_tx ==
    /\ closing = "rx" /\ rxt = Exited /\ Idle(txt) /\ closing' = "tx"
    /\ txt' = IF txt.at = "wait" THEN Exited ELSE txt
    /\ UNCHANGED <<queuevars, events, state, cbc_enable, vm_req, native, core, rxt, last, uos_active,
                   guest, uart, noted>>
(* A thread that finds a request and that it is to stop.                   *)
rx_exit ==
    /\ closing # "no" /\ rxt.at = "wait" /\ rx # <<>> /\ rxt' = Exited
    /\ UNCHANGED <<queuevars, events, state, cbc_enable, vm_req, native, core, txt, last, uos_active,
                   closing, guest, uart, noted>>
tx_exit ==
    /\ closing # "no" /\ txt.at = "wait" /\ tx # <<>> /\ txt' = Exited
    /\ UNCHANGED <<queuevars, events, state, cbc_enable, vm_req, native, core, rxt, last, uos_active,
                   closing, guest, uart, noted>>

-----------------------------------------------------------------------------
(* The VM manager.  It resumes a VM that is down; with a wakeup reason of  *)
(* zero the mediator does not hear of it.                                  *)
vm_stop_handler ==
    /\ guest = "active" /\ noted.requests < MaxRequests /\ vm_req' \in {"STOP", "SUSPEND"}
    /\ noted' = [noted EXCEPT !.requests = @ + 1]
    /\ UNCHANGED <<queuevars, events, state, cbc_enable, native, core, rxt, txt, last, uos_active,
                   closing, guest, uart>>
vm_resume_handler ==
    /\ guest = "down" /\ closing = "no" /\ noted.requests < MaxRequests
    /\ state = "SUSPENDED" \/ "early" \in Races
    /\ \E reason \in 0..1 :
          /\ IF reason = 0 THEN UNCHANGED <<vm_req, events>>
             ELSE vm_req' = "RESUME" /\ events' = Append(events, "RESUME")
          /\ noted' = [noted EXCEPT !.requests = @ + 1, !.unheard = (reason = 0)]
    /\ guest' = "boot"
    /\ UNCHANGED <<queuevars, state, cbc_enable, native, core, rxt, txt, last, uos_active, closing, uart>>

(* The guest repeats its heartbeat; the first is INITIAL.                  *)
HeartbeatOf == CASE guest = "boot" -> "INITIAL"
                 [] guest = "active" -> "ACTIVE"
                 [] guest = "sleepy" -> "SD_PREP_REFRESH"
                 [] guest = "leaving" -> "SD_PREP"
heartbeat ==
    /\ guest # "down" /\ Len(uart) + Len(rx) < MaxUart /\ uart' = Append(uart, HeartbeatOf)
    /\ guest' = IF guest = "boot" THEN "active" ELSE guest
    /\ UNCHANGED <<queuevars, events, state, cbc_enable, vm_req, native, core, rxt, txt, last,
                   uos_active, closing, noted>>
(* It goes down by itself, and may take that back.                         *)
Minds == CASE MayLeave -> {"sleepy", "leaving"}
           [] guest \in {"sleepy", "leaving"} /\ "cancel" \in Races -> {"active"}
           [] OTHER -> {}
leave ==
    /\ guest' \in Minds
    /\ UNCHANGED <<queuevars, events, state, cbc_enable, vm_req, native, core, rxt, txt, last,
                   uos_active, closing, uart, noted>>

Core == \/ ioc_build_request \/ ioc_process_tx \/ ioc_process_events \/ process_hb_active_event
        \/ process_ram_refresh_event \/ process_shutdown_event \/ process_resume_event \/ ioc_core_exit
Rx == rx_get \/ cbc_rx_handler \/ cbc_update_heartbeat \/ rx_route \/ rx_exit
Tx == tx_get \/ cbc_tx_handler \/ cbc_send_pkt \/ shutdown_event \/ tx_route \/ tx_exit
Manager == vm_stop_handler \/ vm_resume_handler \/ ioc_kill_workers \/ join_rx \/ join_tx
IocNext == Core \/ Rx \/ Tx \/ Manager \/ heartbeat \/ leave

-----------------------------------------------------------------------------
Stopping == join_rx \/ join_tx \/ ioc_core_exit
Events == ioc_process_events \/ process_hb_active_event \/ process_ram_refresh_event
          \/ process_shutdown_event \/ process_resume_event
IocFairness ==
    /\ WF_iocvars(Events) /\ WF_iocvars(ioc_build_request) /\ WF_iocvars(ioc_process_tx)
    /\ WF_iocvars(Rx) /\ WF_iocvars(Tx) /\ WF_iocvars(heartbeat) /\ WF_iocvars(Stopping)
IocSpec == IocInit /\ [][IocNext]_iocvars /\ IocFairness

-----------------------------------------------------------------------------
In(x, s) == \E k \in DOMAIN s : s[k] = x
Holds(t) == IF t.at \in {"wait", "exit"} THEN 0 ELSE 1

(* Every request of the pool is in one queue or with one thread, so that   *)
(* no path of the handlers loses one.                                      *)
PoolKept == free + Len(rx) + Len(tx) + Holds(rxt) + Holds(txt) = IOC_MAX_REQUESTS

(* ioc->state tells what the other threads and the channels do: packets    *)
(* are discarded while the guest is told that it may go, and in no other   *)
(* state unless send_tx_request has failed (ioc.c:889); the native         *)
(* channels are closed while it sleeps, and in no other state unless they  *)
(* could not be opened at its resume; from each state that is left by      *)
(* itself the event that leaves it is under way; and a guest that sleeps   *)
(* is down, or the mediator is told of its resume, unless that came        *)
(* without a wakeup reason.                                                *)
StatesAgree ==
    /\ core = "wait" =>
           /\ cbc_enable => state \in {"INIT", "ACTIVE"}
           /\ state \in {"INIT", "ACTIVE"} => cbc_enable \/ noted.lost
           /\ native = (state # "SUSPENDED" /\ ~noted.unopened)
    /\ state = "SUSPENDING" =>
           \/ In("UOS_INACTIVE", tx)
           \/ txt.req = "UOS_INACTIVE" /\ txt.at # "free"
           \/ In("SHUTDOWN", events) \/ core = "SHUTDOWN" \/ closing # "no"
    /\ state = "SUSPENDED" =>
           /\ uos_active => core = "RESUME"
           /\ guest = "down" \/ In("RESUME", events) \/ core = "RESUME" \/ noted.unheard

(* The pool, the states, and that the guest hears nothing between the      *)
(* wakeup reason of shutdown and its resume.                               *)
IocInv ==
    /\ state \in {"INIT", "ACTIVE", "SUSPENDING", "SUSPENDED"}
    /\ guest \in {"boot", "active", "sleepy", "leaving", "down"}
    /\ PoolKept /\ StatesAgree /\ ~noted.late

(* A guest that announces its shutdown, or that the VM manager wants       *)
(* stopped or suspended, goes down, once the mediator is told of its       *)
(* resume and has the channels open; and ioc_kill_workers returns.         *)
IocWaits(i) ==
    /\ ~noted.lost /\ ~noted.unopened /\ ~noted.unheard
    /\ CASE i = 0 -> guest \in {"sleepy", "leaving"} \/ (guest = "active" /\ vm_req \in {"STOP", "SUSPEND"})
         [] i = 1 -> closing # "no" /\ ~(closing = "tx" /\ txt = Exited)
IocProgress == []<>\A i \in 0..1 : ~IocWaits(i)
=============================================================================
