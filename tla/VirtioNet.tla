----------------------------- MODULE VirtioNet -----------------------------
(***************************************************************************)
(* The virtio network device with a tap backend (virtio_net.c): the thread *)
(* that emulates the accesses of the guest, the transmit thread, the event *)
(* thread, which receives, and the driver of the guest.                    *)
(*                                                                         *)
(* The mutex of the device, net.mtx, is held through an access.  The other *)
(* two protect tx_in_progress and rx_in_progress, which a reset waits for. *)
(***************************************************************************)
EXTENDS VirtQueue

CONSTANTS
    Msix,       \* the guest uses MSI-X
    StopsBusy,  \* the VM may be stopped while the transmit thread works
    MaxTap,     \* bound on the packets in the tap device
    Workloads,  \* the sets of queues that the guest may use
    NONE

K == {"rx", "tx"}

VARIABLES
    q,          \* the two queues
    uses,       \* the queues that it uses
    on_empty,   \* VIRTIO_F_NOTIFY_ON_EMPTY was negotiated
    tap,        \* packets to receive
    mtx, tx_mtx, rx_mtx,             \* the owners of the mutexes, or NONE
    tx_in_progress, rx_in_progress, rx_ready, resetting, closing,
    vcpu,       \* the access underway: [at, k]
    txt,        \* where the transmit thread is
    rxt,        \* where virtio_net_rx_callback is
    held,       \* [queue -> the chain its thread works on, as a set]
    intr,       \* queues with an interrupt on the way
    isr         \* [queue -> is its interrupt handler running]

ring == <<q, held>>
flags == <<tx_in_progress, rx_in_progress, rx_ready, resetting, closing>>
locks == <<mtx, tx_mtx, rx_mtx>>
guest == <<intr, isr>>
netvars == <<q, uses, on_empty, tap, mtx, tx_mtx, rx_mtx, tx_in_progress, rx_in_progress,
             rx_ready, resetting, closing, vcpu, txt, rxt, held, intr, isr>>

At(a, k) == [at |-> a, k |-> k]
FirstTx == IF "tx" \in uses THEN "start" ELSE "wait0"
NetInit == /\ q = [k \in K |-> FreshQueue] /\ uses \in Workloads /\ on_empty \in BOOLEAN /\ tap = 0
           /\ mtx = NONE /\ tx_mtx = NONE /\ rx_mtx = NONE
           /\ tx_in_progress = FALSE /\ rx_in_progress = FALSE /\ rx_ready = FALSE
           /\ resetting = FALSE /\ closing = FALSE
           /\ vcpu = At("guest", NONE) /\ rxt = "idle"
           /\ txt = FirstTx
           /\ held = [k \in K |-> {}] /\ intr = {} /\ isr = [k \in K |-> FALSE]

-----------------------------------------------------------------------------
(* The guest: it publishes a chain, and then notifies the device unless    *)
(* the device does not want it (external).  It publishes fewer than Wrap   *)
(* chains between two calls of vq_endchains.                               *)
drv_add(k) ==
    /\ vcpu.at = "guest" /\ k \in uses /\ q[k].ready /\ vcpu' = At("published", k)
    /\ q[k].free # {} /\ Ahead(q[k].avail, q[k].save_used) < Wrap - 1 /\ q' = [q EXCEPT ![k] = drv_publish(@)]
    /\ UNCHANGED <<uses, on_empty, tap, locks, flags, txt, rxt, held, guest>>
drv_kick ==
    /\ vcpu.at = "published"
    /\ vcpu' = IF q[vcpu.k].no_notify THEN At("guest", NONE) ELSE At("notify", vcpu.k)
    /\ UNCHANGED <<ring, uses, on_empty, tap, locks, flags, txt, rxt, guest>>
(* Its interrupt handler takes what is used and asks for no interrupts,    *)
(* asks for them again, and looks once more.                               *)
drv_interrupt(k) ==
    /\ k \in intr /\ intr' = intr \ {k} /\ ~isr[k] /\ q[k].ready /\ vcpu.at \notin {"join", "stopped"}
    /\ isr' = [isr EXCEPT ![k] = TRUE] /\ q' = [q EXCEPT ![k] = drv_reclaim(@)]
    /\ UNCHANGED <<uses, on_empty, tap, locks, flags, vcpu, txt, rxt, held>>
drv_enables(k) ==
    /\ isr[k] /\ q[k].no_interrupt /\ q' = [q EXCEPT ![k].no_interrupt = FALSE]
    /\ UNCHANGED <<uses, on_empty, tap, locks, flags, vcpu, txt, rxt, held, guest>>
drv_returns(k) ==
    /\ isr[k] /\ ~q[k].no_interrupt
    /\ \/ q[k].seen = q[k].used /\ isr' = [isr EXCEPT ![k] = FALSE] /\ UNCHANGED q
       \/ q[k].seen # q[k].used /\ q' = [q EXCEPT ![k] = drv_reclaim(@)] /\ UNCHANGED isr
    /\ UNCHANGED <<held, uses, on_empty, tap, locks, flags, vcpu, txt, rxt, intr>>

(* virtio_pci_write takes the mutex of the device for the whole access.    *)
Access(a, k) == /\ mtx = NONE /\ mtx' = "vcpu" /\ vcpu' = At(a, k)
Leave == mtx' = NONE /\ vcpu' = At("guest", NONE)

(* virtio_net_ping_rxq *)
virtio_net_ping_rxq ==
    /\ vcpu = At("notify", "rx") /\ mtx = NONE /\ vcpu' = At("guest", NONE)
    /\ rx_ready' = TRUE /\ q' = [q EXCEPT !["rx"].no_notify = @ \/ ~rx_ready]
    /\ UNCHANGED <<uses, on_empty, tap, locks, tx_in_progress, rx_in_progress, resetting, closing, txt, rxt, held, guest>>
(* virtio_net_ping_txq, with the test outside of the lock.                 *)
virtio_net_ping_txq ==
    /\ vcpu = At("notify", "tx") /\ mtx = NONE
    /\ IF vq_has_descs(q["tx"]) THEN Access("signal", "tx") ELSE vcpu' = At("guest", NONE) /\ UNCHANGED mtx
    /\ UNCHANGED <<ring, uses, on_empty, tap, tx_mtx, rx_mtx, flags, txt, rxt, guest>>
(* The signal is lost on a thread that does not wait.                      *)
Wake == IF txt \in {"wait0", "wait"} THEN (IF txt = "wait0" THEN "woken0" ELSE "woken") ELSE txt
virtio_net_signal_tx ==
    /\ vcpu.at = "signal" /\ tx_mtx = NONE /\ Leave
    /\ q' = [q EXCEPT !["tx"].no_notify = TRUE]
    /\ txt' = IF tx_in_progress THEN txt ELSE Wake
    /\ UNCHANGED <<uses, on_empty, tap, tx_mtx, rx_mtx, flags, rxt, held, guest>>

(* The guest gives the device its rings.                                   *)
virtio_vq_inits ==
    /\ vcpu.at = "guest" /\ mtx = NONE /\ \A k \in K : ~q[k].ready
    /\ q' = [k \in K |-> virtio_vq_init]
    /\ UNCHANGED <<uses, on_empty, tap, locks, flags, vcpu, txt, rxt, held, guest>>

-----------------------------------------------------------------------------
(* virtio_net_reset.                                                       *)
virtio_net_reset ==
    /\ vcpu.at = "guest" /\ q["tx"].ready /\ Access("txwait", NONE) /\ resetting' = TRUE
    /\ UNCHANGED <<ring, uses, on_empty, tap, tx_mtx, rx_mtx, tx_in_progress, rx_in_progress, rx_ready, closing, txt, rxt, guest>>
(* Mutant: the reset does not wait for the transmit thread. *)
virtio_net_txwaitNever ==
    /\ vcpu.at = "txwait" /\ tx_mtx = NONE /\ vcpu' = At("rxwait", NONE)
    /\ UNCHANGED <<ring, uses, on_empty, tap, locks, flags, txt, rxt, guest>>
virtio_net_txwait ==
    /\ vcpu.at = "txwait" /\ tx_mtx = NONE /\ ~tx_in_progress /\ vcpu' = At("rxwait", NONE)
    /\ UNCHANGED <<ring, uses, on_empty, tap, locks, flags, txt, rxt, guest>>
virtio_net_rxwait ==
    /\ vcpu.at = "rxwait" /\ rx_mtx = NONE /\ ~rx_in_progress /\ vcpu' = At("reset", NONE)
    /\ UNCHANGED <<ring, uses, on_empty, tap, locks, flags, txt, rxt, guest>>
virtio_reset_dev ==
    /\ vcpu.at = "reset" /\ Leave
    /\ rx_ready' = FALSE /\ resetting' = FALSE /\ closing' = FALSE
    /\ q' = [k \in K |-> virtio_reset_vq] /\ intr' = {} /\ isr' = [k \in K |-> FALSE]
    /\ UNCHANGED <<uses, on_empty, tap, tx_mtx, rx_mtx, tx_in_progress, rx_in_progress, txt, rxt, held>>

(* virtio_net_deinit, once the guest does not run.                         *)
virtio_net_tx_stop ==
    /\ StopsBusy \/ txt \in {"wait0", "wait"}
    /\ vcpu.at = "guest" /\ tx_mtx = NONE
    /\ closing' = TRUE /\ txt' = Wake /\ vcpu' = At("join", NONE) /\ intr' = {} /\ isr' = [k \in K |-> FALSE]
    /\ UNCHANGED <<ring, uses, on_empty, tap, locks, tx_in_progress, rx_in_progress, rx_ready, resetting, rxt>>
virtio_net_tx_joined ==
    /\ vcpu.at = "join" /\ txt = "exit" /\ vcpu' = At("stopped", NONE)
    /\ UNCHANGED <<ring, uses, on_empty, tap, locks, flags, txt, rxt, guest>>
(* virtio_net_init, when it starts again.                                  *)
virtio_net_init ==
    /\ vcpu.at = "stopped" /\ rxt = "idle" /\ vcpu' = At("guest", NONE) /\ txt' = FirstTx
    /\ q' = [k \in K |-> FreshQueue] /\ rx_ready' = FALSE /\ closing' = FALSE
    /\ intr' = {} /\ isr' = [k \in K |-> FALSE]
    /\ UNCHANGED <<uses, on_empty, tap, locks, tx_in_progress, rx_in_progress, resetting, rxt, held>>

-----------------------------------------------------------------------------
(* virtio_net_tx_thread.                                                   *)
tx_starts ==
    /\ txt \in {"start", "woken0"} /\ tx_mtx = NONE
    /\ \/ closing /\ txt' = "exit" /\ UNCHANGED tx_mtx
       \/ ~closing /\ ~vq_ring_ready(q["tx"]) /\ txt' = "wait0" /\ UNCHANGED tx_mtx
       \/ ~closing /\ vq_ring_ready(q["tx"]) /\ txt' = "test" /\ tx_mtx' = "tx"
    /\ UNCHANGED <<ring, uses, on_empty, tap, mtx, rx_mtx, flags, vcpu, rxt, guest>>
tx_woken ==
    /\ txt = "woken" /\ tx_mtx = NONE
    /\ IF closing THEN txt' = "exit" /\ UNCHANGED tx_mtx ELSE txt' = "test" /\ tx_mtx' = "tx"
    /\ UNCHANGED <<ring, uses, on_empty, tap, mtx, rx_mtx, flags, vcpu, rxt, guest>>

MayTransmit == ~resetting /\ vq_has_descs(q["tx"])
Begin == /\ q' = [q EXCEPT !["tx"].no_notify = TRUE] /\ tx_in_progress' = TRUE
         /\ tx_mtx' = NONE /\ txt' = "get"
(* The first test; without work, notifications are enabled again, and it   *)
(* tests once more for what was published in between.                      *)
tx_tests ==
    /\ txt = "test"
    /\ \/ MayTransmit /\ Begin
       \/ ~MayTransmit /\ txt' = "clear" /\ tx_in_progress' = FALSE /\ UNCHANGED <<q, tx_mtx>>
    /\ UNCHANGED <<uses, on_empty, tap, mtx, rx_mtx, rx_in_progress, rx_ready, resetting, closing, vcpu, rxt, held, guest>>
vq_clear_used_ring_flags ==
    /\ txt = "clear" /\ txt' = "again" /\ q' = [q EXCEPT !["tx"].no_notify = FALSE]
    /\ UNCHANGED <<uses, on_empty, tap, locks, flags, vcpu, rxt, held, guest>>
tx_tests_again ==
    /\ txt = "again"
    /\ \/ MayTransmit /\ Begin
       \/ ~MayTransmit /\ txt' = "wait" /\ tx_mtx' = NONE /\ UNCHANGED <<q, tx_in_progress>>
    /\ UNCHANGED <<uses, on_empty, tap, mtx, rx_mtx, rx_in_progress, rx_ready, resetting, closing, vcpu, rxt, held, guest>>
(* virtio_net_proctx, until the queue is empty.                            *)
virtio_net_proctx ==
    /\ txt = "get" /\ txt' = "release"
    /\ held' = [held EXCEPT !["tx"] = {vq_head(q["tx"])}] /\ q' = [q EXCEPT !["tx"] = vq_getchain(@)]
    /\ UNCHANGED <<uses, on_empty, tap, locks, flags, vcpu, rxt, guest>>
tx_releases ==
    /\ txt = "release"
    /\ LET r == vq_relchain(q["tx"], CHOOSE c \in held["tx"] : TRUE) IN
         q' = [q EXCEPT !["tx"] = r] /\ txt' = IF vq_has_descs(r) THEN "get" ELSE "end"
    /\ held' = [held EXCEPT !["tx"] = {}]
    /\ UNCHANGED <<uses, on_empty, tap, locks, flags, vcpu, rxt, guest>>
(* vq_interrupt takes the mutex of the device, but for MSI-X.              *)
tx_ends ==
    /\ txt = "end" /\ q' = [q EXCEPT !["tx"] = vq_endchains(@)]
    /\ txt' = IF vq_must_interrupt(q["tx"], TRUE, on_empty) THEN "intr" ELSE "relock"
    /\ UNCHANGED <<uses, on_empty, tap, locks, flags, vcpu, rxt, held, guest>>
tx_interrupts ==
    /\ txt = "intr" /\ (Msix \/ mtx = NONE) /\ intr' = intr \union {"tx"} /\ txt' = "relock"
    /\ UNCHANGED <<ring, uses, on_empty, tap, locks, flags, vcpu, rxt, isr>>
tx_relocks ==
    /\ txt = "relock" /\ tx_mtx = NONE /\ tx_mtx' = "tx" /\ txt' = "test" /\ tx_in_progress' = FALSE
    /\ UNCHANGED <<ring, uses, on_empty, tap, mtx, rx_mtx, rx_in_progress, rx_ready, resetting, closing, vcpu, rxt, guest>>

-----------------------------------------------------------------------------
(* virtio_net_rx_callback, and virtio_net_tap_rx.                          *)
tap_receives ==
    /\ "rx" \in uses /\ tap < MaxTap /\ tap' = tap + 1
    /\ UNCHANGED <<ring, uses, on_empty, locks, flags, vcpu, txt, rxt, guest>>
virtio_net_rx_callback ==
    /\ rxt = "idle" /\ tap > 0 /\ vcpu.at # "stopped" /\ rx_mtx = NONE /\ rx_mtx' = "rx"
    /\ rx_in_progress' = TRUE /\ rxt' = "begin"
    /\ UNCHANGED <<ring, uses, on_empty, tap, mtx, tx_mtx, tx_in_progress, rx_ready, resetting, closing, vcpu, txt, guest>>
(* A packet without a buffer is dropped.                                   *)
virtio_net_tap_rx ==
    /\ rxt = "begin"
    /\ \/ ~(rx_ready /\ ~resetting) /\ tap' = tap - 1 /\ rxt' = "leave"
       \/ rx_ready /\ ~resetting /\ ~vq_has_descs(q["rx"]) /\ tap' = tap - 1 /\ rxt' = "end all"
       \/ rx_ready /\ ~resetting /\ vq_has_descs(q["rx"]) /\ rxt' = "get" /\ UNCHANGED tap
    /\ UNCHANGED <<ring, uses, on_empty, locks, flags, vcpu, txt, guest>>
rx_gets ==
    /\ rxt = "get" /\ rxt' = "read"
    /\ held' = [held EXCEPT !["rx"] = {vq_head(q["rx"])}] /\ q' = [q EXCEPT !["rx"] = vq_getchain(@)]
    /\ UNCHANGED <<uses, on_empty, tap, locks, flags, vcpu, txt, guest>>
(* readv: a packet, or none and the chain goes back.                       *)
rx_reads ==
    /\ rxt = "read" /\ held' = [held EXCEPT !["rx"] = {}]
    /\ \/ /\ tap > 0 /\ tap' = tap - 1
          /\ LET r == vq_relchain(q["rx"], CHOOSE c \in held["rx"] : TRUE) IN
               q' = [q EXCEPT !["rx"] = r] /\ rxt' = IF vq_has_descs(r) THEN "get" ELSE "end all"
       \/ tap = 0 /\ rxt' = "end" /\ q' = [q EXCEPT !["rx"] = vq_retchain(@)] /\ UNCHANGED tap
    /\ UNCHANGED <<uses, on_empty, locks, flags, vcpu, txt, guest>>
rx_ends ==
    /\ rxt \in {"end", "end all"} /\ q' = [q EXCEPT !["rx"] = vq_endchains(@)]
    /\ rxt' = IF vq_must_interrupt(q["rx"], rxt = "end all", on_empty) THEN "intr" ELSE "leave"
    /\ UNCHANGED <<uses, on_empty, tap, locks, flags, vcpu, txt, held, guest>>
rx_interrupts ==
    /\ rxt = "intr" /\ (Msix \/ mtx = NONE) /\ intr' = intr \union {"rx"} /\ rxt' = "leave"
    /\ UNCHANGED <<ring, uses, on_empty, tap, locks, flags, vcpu, txt, isr>>
(* Mutant: rx_in_progress stays. *)
rx_leavesBusy ==
    /\ rxt = "leave" /\ rxt' = "idle" /\ rx_mtx' = NONE
    /\ UNCHANGED <<ring, uses, on_empty, tap, mtx, tx_mtx, flags, vcpu, txt, guest>>
rx_leaves ==
    /\ rxt = "leave" /\ rxt' = "idle" /\ rx_mtx' = NONE /\ rx_in_progress' = FALSE
    /\ UNCHANGED <<ring, uses, on_empty, tap, mtx, tx_mtx, tx_in_progress, rx_ready, resetting, closing, vcpu, txt, guest>>

-----------------------------------------------------------------------------
Driver(k) == drv_interrupt(k) \/ drv_enables(k) \/ drv_returns(k)
Vcpu == \/ drv_kick \/ virtio_net_ping_rxq \/ virtio_net_ping_txq \/ virtio_net_signal_tx
        \/ virtio_net_txwait \/ virtio_net_rxwait \/ virtio_reset_dev \/ virtio_net_tx_joined
        \/ virtio_net_init
Choices == \/ \E k \in K : drv_add(k)
           \/ virtio_vq_inits \/ virtio_net_reset \/ virtio_net_tx_stop
Tx == \/ tx_starts \/ tx_woken \/ tx_tests \/ vq_clear_used_ring_flags \/ tx_tests_again \/ virtio_net_proctx
      \/ tx_releases \/ tx_ends \/ tx_interrupts \/ tx_relocks
Rx == \/ virtio_net_rx_callback \/ virtio_net_tap_rx \/ rx_gets \/ rx_reads
      \/ rx_ends \/ rx_interrupts \/ rx_leaves
NetNext == (\E k \in K : Driver(k)) \/ Vcpu \/ Choices \/ Tx \/ Rx \/ tap_receives

(* The threads run; the reset gets rx_mtx, which packets that come in all  *)
(* the time let go again and again.                                        *)
NetFairness == /\ \A k \in K : WF_netvars(Driver(k))
               /\ WF_netvars(Vcpu) /\ SF_netvars(virtio_net_rxwait)
               /\ WF_netvars(Tx) /\ WF_netvars(Rx)
NetSpec == NetInit /\ [][NetNext]_netvars /\ NetFairness

-----------------------------------------------------------------------------
(* The thread of a queue is about to take a chain, to return one, or to    *)
(* read the indices of the ring in vq_endchains.                           *)
Serves(k) == \/ k = "tx" /\ txt \in {"get", "release", "end"}
             \/ k = "rx" /\ rxt \in {"get", "read", "end", "end all"}

(* Types; every chain of a ring in use is in exactly one place: with the   *)
(* driver, available, in the hands of a thread, or returned; and no thread *)
(* serves a ring that a reset has taken away: virtio_net_reset waits for   *)
(* both, and neither begins again before it is over.  A transmit thread    *)
(* without work still clears the flag of such a ring that asks for no      *)
(* notifications (vq_clear_used_ring_flags), and does nothing else to it.  *)
NetInv ==
    /\ q \in [K -> Queue] /\ tap \in 0 .. MaxTap /\ intr \subseteq K
    /\ \A k \in K : q[k].ready => Accounted(q[k], held[k])
    /\ \A k \in K : Serves(k) \/ held[k] # {} => q[k].ready

(* What the driver waits for: a chain to come back from transmission, and  *)
(* a reset to return.                                                      *)
NetWaits(c) == \/ c \notin q["tx"].free /\ vcpu.at \notin {"join", "stopped"}
               \/ vcpu.at \in {"txwait", "rxwait", "reset"}

(* virtio_net_tx_stop: "Send signal to tx I/O thread and wait till it      *)
(* exits".                                                                 *)
StopReturns == vcpu.at = "join" ~> vcpu.at = "stopped"
=============================================================================
