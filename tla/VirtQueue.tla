----------------------------- MODULE VirtQueue -----------------------------
(***************************************************************************)
(* The virtqueue of the device model (hw/pci/virtio/virtio.c): what the    *)
(* device does to a ring that it shares with the driver of the guest, and, *)
(* from the virtio protocol, what that driver does.  A chain is known by   *)
(* its head descriptor.                                                    *)
(***************************************************************************)
EXTENDS Naturals, FiniteSets

CONSTANTS
    QSize,   \* entries of a ring, a power of two
    Wrap     \* the indices count modulo Wrap (2^16), a multiple of QSize

Chain == 0 .. QSize - 1
Index == 0 .. Wrap - 1
Ahead(i, j) == (i + Wrap - j) % Wrap

(* ready, last_avail, save_used: struct virtio_vq_info.  avail, used and   *)
(* the two flags: the ring in guest memory.  seen, free: the driver's.     *)
FreshQueue == [ready |-> FALSE, last_avail |-> 0, save_used |-> 0,
               avail |-> 0, avail_ring |-> [i \in Chain |-> 0], no_interrupt |-> FALSE,
               used |-> 0, used_ring |-> [i \in Chain |-> 0], no_notify |-> FALSE,
               seen |-> 0, free |-> Chain]
Queue == [ready : BOOLEAN, last_avail : Index, save_used : Index,
          avail : Index, avail_ring : [Chain -> Chain], no_interrupt : BOOLEAN,
          used : Index, used_ring : [Chain -> Chain], no_notify : BOOLEAN,
          seen : Index, free : SUBSET Chain]

-----------------------------------------------------------------------------
(* The device.                                                             *)
vq_ring_ready(q) == q.ready
vq_has_descs(q) == vq_ring_ready(q) /\ q.last_avail # q.avail

(* vq_getchain: the head of the next chain, and the queue without it.      *)
vq_head(q) == q.avail_ring[q.last_avail % QSize]
vq_getchain(q) == [q EXCEPT !.last_avail = (@ + 1) % Wrap]
vq_retchain(q) == [q EXCEPT !.last_avail = Ahead(@, 1)]
vq_relchain(q, c) == [q EXCEPT !.used_ring[q.used % QSize] = c, !.used = (@ + 1) % Wrap]

(* vq_endchains: does the guest get an interrupt?  No device of the device *)
(* model offers VIRTIO_RING_F_EVENT_IDX.                                   *)
vq_must_interrupt(q, used_all, on_empty) ==
    (used_all /\ on_empty) \/ (q.used # q.save_used /\ ~q.no_interrupt)
(* What the device has taken from the available ring is not read again.    *)
Unread(q, i) == Ahead(q.avail, q.last_avail) > (i + Wrap - q.last_avail) % QSize
vq_endchains(q) == [q EXCEPT !.save_used = q.used,
                             !.avail_ring = [i \in Chain |-> IF Unread(q, i) THEN @[i] ELSE 0]]

(* virtio_reset_dev clears what the device knows of a ring, and the driver *)
(* gives up that ring; virtio_vq_init or virtio_vq_enable begin with a     *)
(* ring that the driver has prepared.                                      *)
virtio_reset_vq == FreshQueue
virtio_vq_init == [FreshQueue EXCEPT !.ready = TRUE]

-----------------------------------------------------------------------------
(* The driver (external) publishes a chain.                                *)
drv_publish(q) == LET c == CHOOSE x \in q.free : \A y \in q.free : x <= y IN
                  [q EXCEPT !.avail_ring[q.avail % QSize] = c, !.avail = (@ + 1) % Wrap,
                            !.free = @ \ {c}]
(* Where the chains of a queue are.                                        *)
Available(q) == {q.avail_ring[(q.last_avail + i) % QSize] : i \in 0 .. Ahead(q.avail, q.last_avail) - 1}
Returned(q) == {q.used_ring[(q.seen + i) % QSize] : i \in 0 .. Ahead(q.used, q.seen) - 1}
(* The driver takes back what is returned, and asks for no interrupt       *)
(* meanwhile.                                                              *)
drv_reclaim(q) == [q EXCEPT !.free = @ \union Returned(q), !.seen = q.used, !.no_interrupt = TRUE,
                            !.used_ring = [i \in Chain |-> 0]]
(* With those the device holds, they are all of them, and each is in one   *)
(* place.                                                                  *)
Accounted(q, held) ==
    /\ q.free \union Available(q) \union Returned(q) \union held = Chain
    /\ Cardinality(q.free) + Ahead(q.avail, q.last_avail) + Ahead(q.used, q.seen)
         + Cardinality(held) = QSize
=============================================================================
