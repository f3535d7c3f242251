------------------------------ MODULE BlockIf ------------------------------
(***************************************************************************)
(* The block backend of the device model (hw/block_if.c): requests wait in *)
(* pendq for one of a few I/O threads.  A request that begins where one    *)
(* before it ends waits for it (BLOCK); it becomes ready (PEND) when that  *)
(* one is complete.                                                        *)
(*                                                                         *)
(* The sections under bc.mtx are one step each, but for blockif_cancel,    *)
(* which waits inside of its own: bc_mtx says whether it does.             *)
(***************************************************************************)
EXTENDS Naturals, Sequences, FiniteSets

CONSTANTS
    Thr,       \* the I/O threads, BLOCKIF_NUMTHR of them
    RingMax    \* most requests that a device has outstanding (64)

VARIABLES
    pendq,     \* the requests that wait, oldest first
    thr,       \* [thread -> where it is, and the request in its hands]
    bc_mtx,    \* blockif_cancel holds the mutex, and waits
    bc_closing

bvars == <<pendq, thr, bc_mtx, bc_closing>>

(* A request: whose it is, where it begins and where it ends (block).      *)
Request(req, offset, block) == [req |-> req, offset |-> offset, block |-> block, status |-> "PEND"]
Idle(a) == [at |-> a, be |-> Request(0, 0, 0)]
(* The threads begin with blockif_open, if there is a backing file.        *)
blockif_open(dummy) == /\ pendq = <<>> /\ thr = [t \in Thr |-> Idle(IF dummy THEN "exit" ELSE "run")]
                       /\ bc_mtx = FALSE /\ bc_closing = FALSE

(* busyq: BST_BUSY during the I/O ("io"), and BST_DONE from there.         *)
Busy == {t \in Thr : thr[t].at \in {"io", "callback", "complete"}}
Pending == {pendq[i] : i \in 1 .. Len(pendq)}
Elements == Pending \union {thr[t].be : t \in Busy}

BLOCKIF_MAXREQ == RingMax + Cardinality(Thr)

blockif_enqueue(r) ==
    [r EXCEPT !.status = IF \E e \in Elements : e.block = r.offset THEN "BLOCK" ELSE "PEND"]

(* pthread_cond_signal wakes one of the threads that wait, if any does.    *)
Signalled(th) == IF \E t \in Thr : th[t].at = "wait"
                 THEN {[th EXCEPT ![t] = Idle("run")] : t \in {x \in Thr : th[x].at = "wait"}}
                 ELSE {th}
(* With no element free, it is E2BIG.  th: the threads, as the caller      *)
(* leaves them.                                                            *)
blockif_request(r, th) ==
    /\ ~bc_mtx
    /\ IF Len(pendq) + Cardinality(Busy) < BLOCKIF_MAXREQ
       THEN LET e == blockif_enqueue(r) IN
              /\ pendq' = Append(pendq, e)
              /\ thr' \in IF e.status = "PEND" THEN Signalled(th) ELSE {th}
       ELSE pendq' = pendq /\ thr' = th
    /\ UNCHANGED <<bc_mtx, bc_closing>>

(* What waits for the end of e is ready.                                   *)
blockif_complete(e, s) ==
    [i \in 1 .. Len(s) |-> IF s[i].offset = e.block THEN [s[i] EXCEPT !.status = "PEND"] ELSE s[i]]
RemoveAt(s, i) == SubSeq(s, 1, i - 1) \o SubSeq(s, i + 1, Len(s))

(* blockif_thr, with the mutex: it completes its request, and takes the    *)
(* first that is ready, or leaves, or waits.  Where a request began is not *)
(* looked at any more.                                                     *)
blockif_thr(t) ==
    /\ ~bc_mtx /\ thr[t].at \in {"run", "complete"}
    /\ LET s == IF thr[t].at = "complete" THEN blockif_complete(thr[t].be, pendq) ELSE pendq
           ready == {i \in 1 .. Len(s) : s[i].status = "PEND"} IN
         \/ \E i \in ready :
              /\ \A j \in ready : i <= j
              /\ pendq' = RemoveAt(s, i)
              /\ thr' = [thr EXCEPT ![t] = [at |-> "io", be |-> [s[i] EXCEPT !.offset = 0]]]
         \/ ready = {} /\ pendq' = s /\ thr' = [thr EXCEPT ![t] = Idle(IF bc_closing THEN "exit" ELSE "wait")]
    /\ UNCHANGED <<bc_mtx, bc_closing>>
(* blockif_proc: the I/O, and then the callback of the device, an action   *)
(* of its own.                                                             *)
blockif_proc(t) ==
    /\ thr[t].at = "io" /\ thr' = [thr EXCEPT ![t].at = "callback"]
    /\ UNCHANGED <<pendq, bc_mtx, bc_closing>>
Called(t) == [thr EXCEPT ![t].at = "complete"]

(* blockif_cancel: a request that waits is taken away at once.  One in     *)
(* flight is waited for, with the mutex.                                   *)
Waits(r) == {i \in 1 .. Len(pendq) : pendq[i].req = r}
InFlight(r) == {t \in Busy : thr[t].be.req = r}
blockif_cancel_pending(r) ==
    /\ ~bc_mtx
    /\ \E i \in Waits(r) : pendq' = blockif_complete(pendq[i], RemoveAt(pendq, i))
    /\ UNCHANGED <<thr, bc_mtx, bc_closing>>
blockif_cancel_busy(r) ==
    /\ ~bc_mtx /\ Waits(r) = {} /\ bc_mtx' = TRUE /\ UNCHANGED <<pendq, thr, bc_closing>>
blockif_cancel_interrupted(r) ==
    /\ bc_mtx /\ (InFlight(r) = {} \/ \E t \in InFlight(r) : thr[t].at # "io")
    /\ bc_mtx' = FALSE /\ UNCHANGED <<pendq, thr, bc_closing>>

(* blockif_close.                                                          *)
blockif_close ==
    /\ ~bc_mtx /\ bc_closing' = TRUE /\ UNCHANGED <<pendq, bc_mtx>>
    /\ thr' = [t \in Thr |-> IF thr[t].at = "wait" THEN Idle("run") ELSE thr[t]]
blockif_joined == \A t \in Thr : thr[t].at = "exit"

-----------------------------------------------------------------------------
(* What waits has something to wait for: a request that is ready has a     *)
(* thread that will look at the queue again, and one that is blocked has   *)
(* an earlier one that ends where it begins.  So the threads that leave on *)
(* blockif_close leave no request behind.                                  *)
BlockIfInv ==
    /\ Len(pendq) + Cardinality(Busy) <= BLOCKIF_MAXREQ
    /\ \A i \in 1 .. Len(pendq) :
         /\ pendq[i].status = "PEND" => \E t \in Thr : thr[t].at \notin {"wait", "exit"}
         /\ pendq[i].status = "BLOCK" =>
              \/ \E j \in 1 .. i - 1 : pendq[j].block = pendq[i].offset
              \/ \E t \in Busy : thr[t].be.block = pendq[i].offset
    /\ blockif_joined => pendq = <<>>
=============================================================================
