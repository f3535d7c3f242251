------------------------------- MODULE Vuart -------------------------------
(***************************************************************************)
(* The virtual UARTs of the hypervisor (dm/vuart.c): two of them in two    *)
(* VMs connected to each other, or one that the console of the hypervisor  *)
(* serves (debug/console.c).  A character is a unit of num; of the         *)
(* registers those are modelled that move characters or interrupts.        *)
(* Loopback, modem lines, divisor and scratch register are left out.       *)
(*                                                                         *)
(* A step is what runs under the lock of one UART, or one access of a      *)
(* pointer or flag without it.  The guest driver is that of a 16550 on an  *)
(* edge-triggered interrupt: it reads the IIR until nothing is pending and *)
(* sends up to BURST characters when the transmitter is ready.             *)
(***************************************************************************)
EXTENDS Naturals, FiniteSets

CONSTANTS
    A, B,        \* the two UARTs
    SIZE,        \* RX_BUF_SIZE
    MARGIN,      \* the room a FIFO has when it counts as full, 64 in the code
    BURST,       \* what a driver sends at once, 16 in the code
    Uses,        \* what a guest has to send, and what else may happen (below): [a, b, races]
    MaxOps,      \* bound on those
    NULL

V == {A, B}
Peer(v) == IF v = A THEN B ELSE A

VARIABLES
    vu,          \* [UART -> [active, target_vu, num (of rxfifo), ier, thre_int_pending, lsr]]
    line,        \* [UART -> the interrupt line is asserted]
    edge,        \* [UART -> an interrupt is on its way to the guest]
    vcpu,        \* [UART -> where the guest or the handler of its access is]
    seen,        \* [UART -> the target_vu that the handler has read]
    credit,      \* [UART -> characters left of the burst]
    data,        \* [UART -> characters left to send]
    vm,          \* [UART -> the VM: "up", "off", or a step between them]
    console,     \* the console timer: "idle", or a step of its callback
    races,       \* the races of this behaviour
    overwritten, \* history: a character was lost in a full FIFO
    misused,     \* history: a NULL pointer was used
    ops

vuartvars == <<vu, line, edge, vcpu, seen, credit, data, vm, console, races, overwritten, misused, ops>>
guestvars == <<vcpu, seen, credit, data>>
othervars == <<vm, console, races, misused, ops>>

-----------------------------------------------------------------------------
vuart_intr_reason(u) == CASE u.num > 0 /\ "ERBFI" \in u.ier -> "RXTOUT"
                          [] u.thre_int_pending /\ "ETBEI" \in u.ier -> "TXRDY"
                          [] OTHER -> "NOPEND"
(* Mutant: full when there is no room for one more. *)
fifo_isfullLate(u) == SIZE - u.num < 1
fifo_isfull(u) == SIZE - u.num < MARGIN
(* fifo_putchar overwrites the oldest character of a full FIFO.            *)
fifo_putchar(u) == [u EXCEPT !.num = IF @ < SIZE THEN @ + 1 ELSE @]
fifo_getchar(u) == [u EXCEPT !.num = IF @ > 0 THEN @ - 1 ELSE @]

(* vuart_toggle_intr: the line, and the edge that a rise makes.            *)
SetLine(v, level) ==
    /\ line' = [line EXCEPT ![v] = level]
    /\ edge' = [edge EXCEPT ![v] = @ \/ (level /\ ~line[v])]
vuart_toggle_intr(v, u) == SetLine(v, vuart_intr_reason(u) # "NOPEND")
(* A section under the lock of v leaves it as u and sets the line.         *)
UnderLock(v, u) == vu' = [vu EXCEPT ![v] = u] /\ vuart_toggle_intr(v, u)
Goto(v, where) == vcpu' = [vcpu EXCEPT ![v] = where]

NewUart(active) == [active |-> active, target_vu |-> NULL, num |-> 0, ier |-> {},
                    thre_int_pending |-> TRUE, lsr |-> FALSE]
VuartInit ==
    /\ vu = [v \in V |-> NewUart(FALSE)]
    /\ line = [v \in V |-> FALSE] /\ edge = [v \in V |-> FALSE]
    /\ vcpu = [v \in V |-> "boot"] /\ seen = [v \in V |-> NULL]
    /\ credit = [v \in V |-> 0]
    /\ \E u \in Uses : races = u.races /\ data = [v \in V |-> IF v = A THEN u.a ELSE u.b]
    /\ vm = [v \in V |-> "off"] /\ console = "idle"
    /\ overwritten = FALSE /\ misused = FALSE /\ ops = 0

-----------------------------------------------------------------------------
(* The guest.  Its driver enables both interrupts; then it waits.          *)
Runs(v, where) == vm[v] = "up" /\ vcpu[v] = where
write_ier(v) ==
    /\ Runs(v, "boot") /\ Goto(v, "guest")
    /\ UnderLock(v, [vu[v] EXCEPT !.ier = {"ERBFI", "ETBEI"}, !.thre_int_pending = @ \/ "ETBEI" \notin vu[v].ier])
    /\ UNCHANGED <<seen, credit, data, overwritten, othervars>>
interrupt(v) ==
    /\ Runs(v, "guest") /\ edge[v]
    /\ edge' = [edge EXCEPT ![v] = FALSE] /\ Goto(v, "isr")
    /\ UNCHANGED <<vu, line, seen, credit, data, overwritten, othervars>>
read_iir(v) ==
    LET reason == vuart_intr_reason(vu[v])
        burst == IF data[v] < BURST THEN data[v] ELSE BURST
    IN  /\ Runs(v, "isr")
        /\ UnderLock(v, [vu[v] EXCEPT !.thre_int_pending = @ /\ reason # "TXRDY"])
        /\ credit' = [credit EXCEPT ![v] = IF reason = "TXRDY" THEN burst ELSE 0]
        /\ Goto(v, CASE reason = "RXTOUT" -> "rbr" [] reason = "TXRDY" -> "thr" [] OTHER -> "guest")
        /\ UNCHANGED <<seen, data, overwritten, othervars>>

(* vuart_write of the THR: to the target, or into the own txfifo, which    *)
(* nobody but the console reads.                                           *)
Sent(v) == credit' = [credit EXCEPT ![v] = @ - 1] /\ data' = [data EXCEPT ![v] = @ - 1]
vuart_write(v) ==
    /\ Runs(v, "thr") /\ credit[v] > 0
    /\ IF vu[v].target_vu # NULL
       THEN /\ seen' = [seen EXCEPT ![v] = vu[v].target_vu] /\ Goto(v, "send")
            /\ UNCHANGED <<vu, line, edge, credit, data>>
       ELSE /\ UnderLock(v, [vu[v] EXCEPT !.thre_int_pending = TRUE]) /\ Sent(v)
            /\ UNCHANGED <<vcpu, seen>>
    /\ UNCHANGED <<overwritten, othervars>>
send_to_target(v) ==
    LET t == seen[v] IN
    /\ vcpu[v] = "send" /\ Sent(v) /\ seen' = [seen EXCEPT ![v] = NULL]
    /\ IF vu[t].active
       THEN /\ UnderLock(t, fifo_putchar(vu[t])) /\ overwritten' = (overwritten \/ vu[t].num = SIZE)
            /\ Goto(v, IF fifo_isfull(fifo_putchar(vu[t])) THEN "thr" ELSE "thre")
       ELSE Goto(v, "thre") /\ UNCHANGED <<vu, line, edge, overwritten>>
    /\ UNCHANGED othervars
raise_thre(v) ==
    /\ vcpu[v] = "thre" /\ Goto(v, "thr")
    /\ UnderLock(v, [vu[v] EXCEPT !.thre_int_pending = TRUE])
    /\ UNCHANGED <<seen, credit, data, overwritten, othervars>>
burst_done(v) ==
    /\ Runs(v, "thr") /\ credit[v] = 0 /\ Goto(v, "isr")
    /\ UNCHANGED <<vu, line, edge, seen, credit, data, overwritten, othervars>>

(* Mutant: the other side is never told. *)
notify_targetNever(v) ==
    /\ vcpu[v] = "notify" /\ Goto(v, "isr")
    /\ UNCHANGED <<vu, line, edge, seen, credit, data, overwritten, othervars>>
(* vuart_read of the RBR; notify_target reads target_vu and then looks at  *)
(* the FIFO, both without a lock, before it takes the lock of the other.   *)
read_rbr(v) ==
    /\ Runs(v, "rbr") /\ UnderLock(v, fifo_getchar(vu[v])) /\ Goto(v, "notify")
    /\ UNCHANGED <<seen, credit, data, overwritten, othervars>>
notify_target(v) ==
    LET t == vu[v].target_vu IN
    /\ vcpu[v] = "notify" /\ Goto(v, IF t # NULL THEN "full?" ELSE "isr")
    /\ seen' = [seen EXCEPT ![v] = t]
    /\ UNCHANGED <<vu, line, edge, credit, data, overwritten, othervars>>
notify_full(v) ==
    LET full == fifo_isfull(vu[v]) IN
    /\ vcpu[v] = "full?" /\ Goto(v, IF full THEN "isr" ELSE "notified")
    /\ seen' = [seen EXCEPT ![v] = IF full THEN NULL ELSE @]
    /\ UNCHANGED <<vu, line, edge, credit, data, overwritten, othervars>>
notify_thre(v) ==
    /\ vcpu[v] = "notified" /\ Goto(v, "isr") /\ seen' = [seen EXCEPT ![v] = NULL]
    /\ UnderLock(seen[v], [vu[seen[v]] EXCEPT !.thre_int_pending = TRUE])
    /\ UNCHANGED <<credit, data, overwritten, othervars>>

-----------------------------------------------------------------------------
(* What may also happen, MaxOps times: "fcr": a guest clears its receive   *)
(* FIFO.  "ier": a driver disables the THRE interrupt for a while, and is  *)
(* told that it may send when it enables it again.  "lsr": a driver looks  *)
(* at the THRE bit of the LSR, which is never cleared, on any interrupt.   *)
(* "restart": a VM is shut down and created again; "overlap": while the    *)
(* other one is.  "console": there is no peer, and the console timer       *)
(* fires.                                                                  *)
Race(r) == r \in races /\ ops < MaxOps /\ ops' = ops + 1
write_fcr(v) ==
    /\ Race("fcr") /\ Runs(v, "guest") /\ UnderLock(v, [vu[v] EXCEPT !.num = 0])
    /\ UNCHANGED <<guestvars, vm, console, races, overwritten, misused>>
stop_tx(v) ==
    /\ Race("ier") /\ Runs(v, "guest") /\ Goto(v, "boot") /\ UnderLock(v, [vu[v] EXCEPT !.ier = {"ERBFI"}])
    /\ UNCHANGED <<seen, credit, data, vm, console, races, overwritten, misused>>
read_lsr(v) ==
    LET t == vu[v].target_vu
        thre == vu[v].lsr \/ t = NULL \/ ~fifo_isfull(vu[t])
        burst == IF data[v] < BURST THEN data[v] ELSE BURST
    IN  /\ Race("lsr") /\ Runs(v, "isr")
        /\ UnderLock(v, [vu[v] EXCEPT !.lsr = thre])
        /\ credit' = [credit EXCEPT ![v] = IF thre THEN burst ELSE 0] /\ Goto(v, "thr")
        /\ UNCHANGED <<seen, data, vm, console, races, overwritten, misused>>

(* The console timer: a character for the guest, and vuart_toggle_intr     *)
(* without the lock.  That it then prints the txfifo changes nothing here. *)
Console(from, to) == console = from /\ console' = to /\ UNCHANGED <<guestvars, vm, races, misused>>
console_putchar ==
    /\ Race("console") /\ vu[A].active /\ vm[A] = "up" /\ Console("idle", "toggle")
    /\ vu' = [vu EXCEPT ![A] = fifo_putchar(@)] /\ overwritten' = (overwritten \/ vu[A].num = SIZE)
    /\ UNCHANGED <<line, edge>>
console_reason ==
    /\ Console("toggle", IF vuart_intr_reason(vu[A]) # "NOPEND" THEN "raise" ELSE "lower")
    /\ UNCHANGED <<vu, line, edge, overwritten, ops>>
console_line ==
    /\ console \in {"raise", "lower"} /\ Console(console, "idle") /\ SetLine(A, console = "raise")
    /\ UNCHANGED <<vu, overwritten, ops>>

-----------------------------------------------------------------------------
(* init_vuart of a VM that is created.                                     *)
Alone(v) == "overlap" \in races \/ vm[Peer(v)] \in {"up", "off"}
At(v, from, to) == /\ vm[v] = from /\ vm' = [vm EXCEPT ![v] = to]
                   /\ UNCHANGED <<console, races, overwritten>>
Step(v, from, to) == At(v, from, to) /\ UNCHANGED <<guestvars, line, edge, ops>>
setup_vuart(v) ==
    /\ Alone(v) /\ ("console" \in races => v = A)
    /\ At(v, "off", "connect") /\ UnderLock(v, NewUart(TRUE))
    /\ vcpu' = [vcpu EXCEPT ![v] = "boot"] /\ credit' = [credit EXCEPT ![v] = 0]
    /\ UNCHANGED <<seen, data, misused, ops>>
find_active_target_vuart(v) ==
    LET t == Peer(v) IN
    /\ Step(v, "connect", IF vu[t].active /\ vu[t].target_vu = NULL THEN "join" ELSE "up")
    /\ UNCHANGED <<vu, misused>>
vuart_setup_connection(v) ==
    \/ /\ Step(v, "join", "joined")
       /\ vu' = [vu EXCEPT ![v].target_vu = Peer(v)] /\ UNCHANGED misused
    \/ /\ Step(v, "joined", "up")
       /\ vu' = [vu EXCEPT ![Peer(v)].target_vu = v] /\ UNCHANGED misused

(* shutdown_vm: the vCPUs do not run any more, and are not in a handler.   *)
shutdown_vm(v) ==
    /\ Race("restart") /\ Alone(v) /\ vcpu[v] \in {"boot", "guest", "isr", "thr", "rbr"}
    /\ At(v, "up", "deinit") /\ vu' = [vu EXCEPT ![v].active = FALSE]
    /\ UNCHANGED <<guestvars, line, edge, misused>>
deinit_vuart(v) ==
    /\ Step(v, "deinit", IF vu[v].target_vu # NULL THEN "part" ELSE "off")
    /\ UNCHANGED <<vu, misused>>
vuart_deinit_connection(v) ==
    \/ /\ Step(v, "part", "parted")
       /\ IF vu[v].target_vu = NULL THEN misused' = TRUE /\ UNCHANGED vu
          ELSE vu' = [vu EXCEPT ![vu[v].target_vu].target_vu = NULL] /\ UNCHANGED misused
    \/ /\ Step(v, "parted", "off")
       /\ vu' = [vu EXCEPT ![v].target_vu = NULL] /\ UNCHANGED misused

Guest(v) == \/ write_ier(v) \/ interrupt(v) \/ read_iir(v) \/ vuart_write(v) \/ send_to_target(v)
            \/ raise_thre(v) \/ burst_done(v) \/ read_rbr(v) \/ notify_target(v)
            \/ notify_full(v) \/ notify_thre(v)
Life(v) == \/ setup_vuart(v) \/ find_active_target_vuart(v) \/ vuart_setup_connection(v)
           \/ deinit_vuart(v) \/ vuart_deinit_connection(v)
VuartNext == \/ \E v \in V : Guest(v) \/ Life(v) \/ shutdown_vm(v) \/ write_fcr(v) \/ stop_tx(v) \/ read_lsr(v)
             \/ console_putchar \/ console_reason \/ console_line
(* A guest goes on in its driver, and a VM that is being created comes up. *)
VuartFairness == \A v \in V : WF_vuartvars(Guest(v)) /\ WF_vuartvars(Life(v))
VuartSpec == VuartInit /\ [][VuartNext]_vuartvars /\ VuartFairness

-----------------------------------------------------------------------------
(* No character is lost between two guests that send on THRE interrupts    *)
(* only: fifo_isfull leaves room for the bursts that are already under     *)
(* way, whatever the two sides see of each other's FIFO without the lock.  *)
(* The line of a UART is asserted exactly while it has a reason, and a     *)
(* guest outside its handler has the edge of an asserted line, so that no  *)
(* interrupt is missed.  UARTs of VMs that are up are targets of each      *)
(* other or of nobody, through any sequence of shutdowns and creations.    *)
VuartInv ==
    /\ races \subseteq {"fcr"} => ~overwritten
    /\ "console" \notin races =>
          \A v \in V : /\ line[v] = (vuart_intr_reason(vu[v]) # "NOPEND")
                       /\ vm[v] = "up" /\ vcpu[v] = "guest" /\ line[v] => edge[v]
    /\ "overlap" \notin races =>
          /\ ~misused
          /\ \A v \in V : /\ vm[v] = "up" /\ vm[Peer(v)] \in {"up", "off"} /\ vu[v].target_vu = Peer(v)
                             => vu[Peer(v)].target_vu = v
                          /\ vm[v] = "up" /\ vm[Peer(v)] = "up" => vu[v].target_vu = Peer(v)

(* A guest gets its characters off: a transmitter that found the FIFO of   *)
(* its target full is told when the other guest has read it (what none of  *)
(* the races above must happen for).                                       *)
SerialWaits(v) == races = {} /\ vm[v] = "up" /\ data[v] > 0
SerialFlows == []<>\A v \in V : ~SerialWaits(v)
=============================================================================
