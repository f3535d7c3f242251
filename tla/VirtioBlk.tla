----------------------------- MODULE VirtioBlk -----------------------------
(***************************************************************************)
(* The virtio block device (virtio_block.c): the thread that emulates the  *)
(* accesses of the guest takes the requests from the ring and gives them   *)
(* to the block backend, whose threads call virtio_blk_done.               *)
(*                                                                         *)
(* The mutex of the device is held through an access, and to return a      *)
(* chain.  Of the requests, those that are "bad" are not well formed,      *)
(* "inline" is answered at once (VBH_OP_IDENT, an unknown operation, a     *)
(* write to a read-only disk, beyond the end of it), and the others go to  *)
(* the backend; a flush has no end at which another begins.                *)
(***************************************************************************)
EXTENDS VirtQueue, BlockIf

CONSTANTS
    BlkWorkloads, \* what a guest does: [kinds, on_empty, dummy], the requests
                  \* it makes, whether it negotiates VIRTIO_F_NOTIFY_ON_EMPTY,
                  \* and whether the disk begins without a backing file
    Hasty         \* the guest resets the device with requests underway

VARIABLES
    bq,          \* the ring
    kind,        \* [chain -> the request in it]
    work,        \* one of BlkWorkloads
    dummy_bctxt, \* the disk has no backing file yet
    blk_mtx,     \* the owner of the mutex: NoOne, "vcpu" or a thread
    access,      \* where the access of the guest is
    blkintr      \* an interrupt is on the way

NoOne == "none"
rest == <<work, dummy_bctxt>>
kvars == <<bq, kind, work, dummy_bctxt, blk_mtx, access, blkintr>>
blkvars == <<bvars, kvars>>

NotIo == {"bad", "inline"}
NoReq == [op |-> "bad", offset |-> 0, block |-> 0]

RingInit ==
    /\ bq = FreshQueue /\ kind = [c \in Chain |-> NoReq]
    /\ work \in BlkWorkloads /\ dummy_bctxt = work.dummy
    /\ blk_mtx = NoOne /\ access = "guest" /\ blkintr = FALSE
BlkInit == RingInit /\ blockif_open(dummy_bctxt)

-----------------------------------------------------------------------------
(* The driver of the guest (external).  At an interrupt it takes what is   *)
(* used; it never asks for no interrupts.                                  *)
blk_add ==
    /\ access = "guest" /\ bq.ready /\ bq.free # {} /\ Ahead(bq.avail, bq.save_used) < Wrap - 1
    /\ bq' = drv_publish(bq) /\ access' = "published"
    /\ \E k \in work.kinds : kind' = [kind EXCEPT ![bq'.avail_ring[bq.avail % QSize]] = k]
    /\ UNCHANGED <<bvars, rest, blk_mtx, blkintr>>
blk_interrupt ==
    /\ blkintr /\ blkintr' = FALSE /\ bq.ready /\ access # "join"
    /\ bq' = [drv_reclaim(bq) EXCEPT !.no_interrupt = FALSE]
    /\ UNCHANGED <<bvars, kind, rest, blk_mtx, access>>
(* It gives the device a ring.                                             *)
blk_vq_init ==
    /\ access = "guest" /\ ~bq.ready /\ bq' = virtio_vq_init
    /\ UNCHANGED <<bvars, kind, rest, blk_mtx, access, blkintr>>

-----------------------------------------------------------------------------
(* virtio_pci_write takes the mutex, and virtio_blk_notify takes chains    *)
(* until there is none.                                                    *)
virtio_blk_notify ==
    /\ access = "published" /\ blk_mtx = NoOne /\ blk_mtx' = "vcpu" /\ access' = "proc"
    /\ UNCHANGED <<bvars, bq, kind, rest, blkintr>>
notify_returns ==
    /\ access = "proc" /\ ~vq_has_descs(bq) /\ access' = "guest" /\ blk_mtx' = NoOne
    /\ UNCHANGED <<bvars, bq, kind, rest, blkintr>>
(* virtio_blk_proc: what is refused or answered here is returned at once.  *)
(* Mutant: a request that is not well formed is dropped. *)
virtio_blk_procDrops ==
    /\ access = "proc" /\ vq_has_descs(bq)
    /\ LET c == vq_head(bq)
           Here == kind[c].op \in NotIo \/ dummy_bctxt IN
         /\ \/ /\ Here /\ UNCHANGED bvars
               /\ bq' = IF kind[c].op = "bad" THEN vq_getchain(bq) ELSE vq_relchain(vq_getchain(bq), c)
               /\ access' = IF kind[c].op = "bad" THEN "proc" ELSE "done"
            \/ /\ ~Here /\ bq' = vq_getchain(bq) /\ UNCHANGED access
               /\ blockif_request(Request(c, kind[c].offset, kind[c].block), thr)
         /\ kind' = [kind EXCEPT ![c] = NoReq]
    /\ UNCHANGED <<rest, blk_mtx, blkintr>>
virtio_blk_proc ==
    /\ access = "proc" /\ vq_has_descs(bq)
    /\ LET c == vq_head(bq)
           Here == kind[c].op \in NotIo \/ dummy_bctxt IN
         /\ \/ /\ Here /\ bq' = vq_relchain(vq_getchain(bq), c) /\ UNCHANGED bvars
               /\ access' = IF kind[c].op = "bad" THEN "abort" ELSE "done"
            \/ /\ ~Here /\ bq' = vq_getchain(bq) /\ UNCHANGED access
               /\ blockif_request(Request(c, kind[c].offset, kind[c].block), thr)
         /\ kind' = [kind EXCEPT ![c] = NoReq]
    /\ UNCHANGED <<rest, blk_mtx, blkintr>>
(* The chains that the backend has.                                        *)
With == {e.req : e \in Pending} \union
        {thr[t].be.req : t \in {x \in Thr : thr[x].at \in {"io", "callback"} /\ blk_mtx # x}}
EndChains(used_all) == /\ bq' = vq_endchains(bq)
                       /\ blkintr' = (blkintr \/ vq_must_interrupt(bq, used_all, work.on_empty))
(* The end of virtio_blk_abort, and of virtio_blk_done.                    *)
proc_endchains ==
    /\ access \in {"abort", "done"} /\ access' = "proc"
    /\ EndChains(access = "done" /\ ~vq_has_descs(bq))
    /\ UNCHANGED <<bvars, kind, rest, blk_mtx>>

(* virtio_blk_done in a thread of the backend.                             *)
virtio_blk_done(t) ==
    /\ thr[t].at = "callback" /\ blk_mtx = NoOne /\ blk_mtx' = t
    /\ bq' = vq_relchain(bq, thr[t].be.req)
    /\ UNCHANGED <<bvars, kind, rest, access, blkintr>>
done_endchains(t) ==
    /\ blk_mtx = t /\ blk_mtx' = NoOne /\ thr' = Called(t)
    /\ EndChains(~vq_has_descs(bq))
    /\ UNCHANGED <<pendq, bc_mtx, bc_closing, kind, rest, access>>

(* virtio_blk_rescan: the disk gets its backing file, without the mutex.   *)
virtio_blk_rescan ==
    /\ dummy_bctxt /\ access # "join" /\ dummy_bctxt' = FALSE /\ thr' = [t \in Thr |-> Idle("run")]
    /\ UNCHANGED <<pendq, bc_mtx, bc_closing, bq, kind, work, blk_mtx, access, blkintr>>

(* virtio_blk_reset.                                                       *)
virtio_blk_reset ==
    /\ access = "guest" /\ bq.ready /\ blk_mtx = NoOne
    /\ Hasty \/ (With = {} /\ Available(bq) = {})
    /\ bq' = virtio_reset_vq /\ kind' = [c \in Chain |-> NoReq] /\ blkintr' = FALSE
    /\ UNCHANGED <<bvars, rest, blk_mtx, access>>
(* virtio_blk_deinit, once the VM does not run; it starts again.           *)
virtio_blk_deinit ==
    /\ access = "guest" /\ blk_mtx = NoOne
    /\ access' = "join" /\ blockif_close /\ blkintr' = FALSE
    /\ UNCHANGED <<bq, kind, rest, blk_mtx>>
virtio_blk_init ==
    /\ access = "join" /\ blockif_joined /\ pendq' = <<>> /\ bc_closing' = FALSE
    /\ thr' = [t \in Thr |-> Idle(IF dummy_bctxt THEN "exit" ELSE "run")]
    /\ bq' = FreshQueue /\ kind' = [c \in Chain |-> NoReq] /\ blkintr' = FALSE
    /\ access' = "guest" /\ UNCHANGED <<bc_mtx, rest, blk_mtx>>

-----------------------------------------------------------------------------
BlkVcpu == \/ virtio_blk_notify \/ notify_returns \/ virtio_blk_proc \/ proc_endchains
           \/ virtio_blk_init
BlkChoices == blk_add \/ blk_vq_init \/ virtio_blk_reset \/ virtio_blk_deinit \/ virtio_blk_rescan
BlkThread(t) == \/ virtio_blk_done(t) \/ done_endchains(t)
                \/ blockif_thr(t) /\ UNCHANGED kvars
                \/ blockif_proc(t) /\ UNCHANGED kvars
BlkNext == blk_interrupt \/ BlkVcpu \/ BlkChoices \/ \E t \in Thr : BlkThread(t)

(* The threads run.  The mutex, which the guest takes again and again,     *)
(* goes to each thread of the backend that waits for it.                   *)
BlkFairness == /\ WF_blkvars(blk_interrupt) /\ WF_blkvars(BlkVcpu)
               /\ \A t \in Thr : WF_blkvars(BlkThread(t)) /\ SF_blkvars(virtio_blk_done(t))
BlkSpec == BlkInit /\ [][BlkNext]_blkvars /\ BlkFairness

-----------------------------------------------------------------------------
(* Every chain of the ring is in exactly one place: with the driver,       *)
(* available, with the backend, or returned.  In particular the backend    *)
(* refuses none: BLOCKIF_MAXREQ counts the requests of a full ring, and    *)
(* those that their threads have answered but not yet completed.           *)
BlkInv ==
    /\ bq \in Queue /\ blk_mtx \in {NoOne, "vcpu"} \union Thr
    /\ BlockIfInv
    /\ bq.ready => Accounted(bq, With)

(* What the driver waits for: its requests, until the ring is reset or the *)
(* device is there again.                                                  *)
BlkWaits(c) == c \notin bq.free
=============================================================================
