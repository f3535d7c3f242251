------------------------------- MODULE Hvlog -------------------------------
(***************************************************************************)
(* The log of the hypervisor: do_logmsg (debug/logmsg.c) numbers a message *)
(* and puts it, in elements of fixed size, into the shared buffer of its   *)
(* pCPU (debug/sbuf.c); acrnlog (misc/tools/acrnlog) in the Service VM     *)
(* reads the buffers through the hvlog devices, puts the elements together *)
(* again and merges the messages of the pCPUs by their numbers.            *)
(*                                                                         *)
(* A buffer has one writer and one reader and no lock.  An element is its  *)
(* message's number, its place in the message, and whether text fills it   *)
(* to the last byte, which tells the reader that more may follow.  What an *)
(* interrupt handler logs in the middle of a message is left out.          *)
(***************************************************************************)
EXTENDS Naturals, Sequences, SequencesExt

CONSTANTS
    Cpus,      \* the pCPUs, 0..n
    EleNum,    \* ele_num: the buffer holds one element less
    Shapes,    \* the messages: [n |-> elements, full |-> the last is filled]
    MaxSeq,    \* bound on the messages
    MaxRaw,    \* LOG_MSG_SIZE / LOG_ELEMENT_SIZE - 1
    EMPTY

VARIABLES
    seq,       \* logmsg_ctl.seq
    shared,    \* the pCPUs whose buffer has been set up
    writer,    \* [pCPU -> do_logmsg under way: [seq, n, full, i, at], or EMPTY]
    slot,      \* [pCPU -> [0..EleNum-1 -> element]]
    head,      \* [pCPU -> where the reader is]
    tail,      \* [pCPU -> where the writer is]
    latched,   \* [pCPU -> the element in dev->entry_latch, or EMPTY]
    msg,       \* [pCPU -> the message in cur[i].msg, or <<>>]
    reader,    \* cur_read_func: [at, cpu, raw, ele]
    log,       \* the messages written: [warned, raw]
    heads,     \* the messages whose first element was accepted
    dropped    \* pCPUs that dropped an element of a message

buffers == <<slot, head, tail>>
ctlvars == <<seq, writer, heads, dropped>>
sosvars == <<latched, msg, reader, log>>
logvars == <<ctlvars, sosvars, buffers, shared>>

Element(m) == [seq |-> m.seq, i |-> m.i, full |-> m.i < m.n \/ m.full, last |-> m.i = m.n]
IsHead(e) == e.i = 1
sbuf_next_ptr(pos) == IF pos + 1 >= EleNum THEN pos + 1 - EleNum ELSE pos + 1

LogInit ==
    /\ seq = 0 /\ shared = {} /\ writer = [p \in Cpus |-> EMPTY]
    /\ slot = [p \in Cpus |-> [k \in 0..EleNum - 1 |-> EMPTY]]
    /\ head = [p \in Cpus |-> 0] /\ tail = [p \in Cpus |-> 0]
    /\ latched = [p \in Cpus |-> EMPTY] /\ msg = [p \in Cpus |-> <<>>]
    /\ reader = [at |-> "next", cpu |-> 0, raw |-> <<>>, ele |-> EMPTY]
    /\ log = <<>> /\ heads = {} /\ dropped = {}

-----------------------------------------------------------------------------
(* The hvlog module of the Service VM sets up a buffer.                    *)
sbuf_share_setup(p) ==
    /\ p \notin shared /\ shared' = shared \union {p}
    /\ UNCHANGED <<ctlvars, sosvars, buffers>>

(* do_logmsg takes a number.  A message is dropped when there is no buffer *)
(* yet.  Console and trace hub are left out.                               *)
do_logmsg(p) ==
    /\ writer[p] = EMPTY /\ seq < MaxSeq /\ seq' = seq + 1
    /\ \E s \in Shapes :
         writer' = [writer EXCEPT ![p] = IF p \notin shared THEN EMPTY
                                         ELSE [seq |-> seq + 1, n |-> s.n, full |-> s.full, i |-> 1, at |-> "put"]]
    /\ UNCHANGED <<heads, dropped, sosvars, buffers, shared>>

(* The loop over the elements goes on, whatever sbuf_put returned.         *)
NextElement(m) == IF m.i = m.n THEN EMPTY ELSE [m EXCEPT !.i = @ + 1, !.at = "put"]

(* Mutant: a full buffer is not noticed. *)
sbuf_putUnchecked(p) ==
    /\ writer[p] # EMPTY /\ writer[p].at = "put"
    /\ slot' = [slot EXCEPT ![p][tail[p]] = Element(writer[p])]
    /\ writer' = [writer EXCEPT ![p].at = "publish"]
    /\ UNCHANGED <<seq, heads, dropped, sosvars, head, tail, shared>>
(* sbuf_put: the test of head and the copy, then the new tail.  The flags  *)
(* that allow to overwrite are not set for logs.                           *)
sbuf_put(p) ==
    /\ writer[p] # EMPTY /\ writer[p].at = "put"
    /\ IF sbuf_next_ptr(tail[p]) = head[p]
         THEN /\ writer' = [writer EXCEPT ![p] = NextElement(@)]
              /\ dropped' = dropped \union {p} /\ UNCHANGED slot
         ELSE /\ slot' = [slot EXCEPT ![p][tail[p]] = Element(writer[p])]
              /\ writer' = [writer EXCEPT ![p].at = "publish"] /\ UNCHANGED dropped
    /\ UNCHANGED <<seq, heads, sosvars, head, tail, shared>>
put_publish(p) ==
    /\ writer[p] # EMPTY /\ writer[p].at = "publish"
    /\ tail' = [tail EXCEPT ![p] = sbuf_next_ptr(@)]
    /\ writer' = [writer EXCEPT ![p] = NextElement(@)]
    /\ heads' = IF writer[p].i = 1 THEN heads \union {writer[p].seq} ELSE heads
    /\ UNCHANGED <<seq, dropped, sosvars, slot, head, shared>>

-----------------------------------------------------------------------------
(* cur_read_func.  hvlog_dev_read_msg goes over the devices that have no   *)
(* message waiting.                                                        *)
NextDevice(r) == IF r.cpu + 1 \in Cpus
                 THEN [at |-> "next", cpu |-> r.cpu + 1, raw |-> <<>>, ele |-> EMPTY]
                 ELSE [at |-> "merge", cpu |-> 0, raw |-> <<>>, ele |-> EMPTY]
(* What a message needs for the loop in hvlog_read_dev to read on.         *)
More(raw) == Last(raw).full /\ Len(raw) < MaxRaw
(* The end of hvlog_read_dev with this text.                               *)
Finish(raw) == /\ msg' = [msg EXCEPT ![reader.cpu] = raw]
               /\ reader' = NextDevice(reader)
Continue(raw) == IF More(raw)
                 THEN reader' = [reader EXCEPT !.at = "get", !.raw = raw, !.ele = EMPTY] /\ UNCHANGED msg
                 ELSE Finish(raw)

skip_device ==
    /\ reader.at = "next" /\ msg[reader.cpu] # <<>> /\ reader' = NextDevice(reader)
    /\ UNCHANGED <<ctlvars, buffers, shared, latched, msg, log>>
(* hvlog_read_dev starts with the latched element, if there is one.        *)
hvlog_read_dev ==
    /\ reader.at = "next" /\ msg[reader.cpu] = <<>>
    /\ latched' = [latched EXCEPT ![reader.cpu] = EMPTY]
    /\ IF latched[reader.cpu] # EMPTY
         THEN Continue(<<latched[reader.cpu]>>)
         ELSE reader' = [reader EXCEPT !.at = "get"] /\ UNCHANGED msg
    /\ UNCHANGED <<ctlvars, buffers, shared, log>>

(* read() on the device: sbuf_get tests, copies, and moves head.  With no  *)
(* element there the message ends where it is.                             *)
get_element ==
    /\ reader.at = "get"
    /\ LET p == reader.cpu IN
       IF head[p] = tail[p]
         THEN Finish(reader.raw)
         ELSE reader' = [reader EXCEPT !.at = "got", !.ele = slot[p][head[p]]] /\ UNCHANGED msg
    /\ UNCHANGED <<ctlvars, buffers, shared, latched, log>>

(* An element with a header starts a message; the second one is latched.   *)
(* One without, where no message was started, is thrown away, and the loop *)
(* ends.                                                                   *)
got_element ==
    /\ reader.at = "got" /\ head' = [head EXCEPT ![reader.cpu] = sbuf_next_ptr(@)]
    /\ LET e == reader.ele  raw == reader.raw IN
       CASE IsHead(e) /\ raw # <<>> -> latched' = [latched EXCEPT ![reader.cpu] = e] /\ Finish(raw)
         [] ~IsHead(e) /\ raw = <<>> -> Finish(<<>>) /\ UNCHANGED latched
         [] OTHER -> Continue(Append(raw, e)) /\ UNCHANGED latched
    /\ UNCHANGED <<ctlvars, slot, tail, shared, log>>

(* get_min_seq_msg, the warning, and the text; or the thread sleeps.       *)
last_seq == IF log = <<>> THEN 0 ELSE Last(log).raw[1].seq
get_min_seq_msg ==
    /\ reader.at = "merge" /\ reader' = [reader EXCEPT !.at = "next"]
    /\ LET full == {p \in Cpus : msg[p] # <<>>} IN
       IF full = {} THEN UNCHANGED <<msg, log>>
       ELSE LET p == CHOOSE q \in full : \A r \in full : msg[q][1].seq <= msg[r][1].seq IN
            /\ log' = Append(log, [cpu |-> p, raw |-> msg[p], warned |-> last_seq + 1 < msg[p][1].seq])
            /\ msg' = [msg EXCEPT ![p] = <<>>]
    /\ UNCHANGED <<ctlvars, buffers, shared, latched>>

Writer(p) == sbuf_put(p) \/ put_publish(p)
Acrnlog == skip_device \/ hvlog_read_dev \/ get_element \/ got_element \/ get_min_seq_msg
LogNext == \/ \E p \in Cpus : sbuf_share_setup(p) \/ do_logmsg(p) \/ Writer(p)
           \/ Acrnlog
LogFairness == (\A p \in Cpus : WF_logvars(Writer(p))) /\ WF_logvars(Acrnlog)
LogSpec == LogInit /\ [][LogNext]_logvars /\ LogFairness

-----------------------------------------------------------------------------
Before(d, e) == d.seq < e.seq \/ (d.seq = e.seq /\ d.i < e.i)
Rising(s) == \A j \in 1..Len(s) - 1 : Before(s[j], s[j + 1])
Count(p) == (tail[p] + EleNum - head[p]) % EleNum
Buffered(p) == [j \in 1..Count(p) |-> slot[p][(head[p] + j - 1) % EleNum]]
Written == {log[j].raw[1].seq : j \in DOMAIN log}

(* What the reader of pCPU p has in its hands, oldest first.               *)
InHand(p) == LET mine == reader.cpu = p /\ reader.at \in {"get", "got"} IN
             msg[p] \o (IF mine THEN reader.raw ELSE <<>>)
                    \o (IF latched[p] # EMPTY THEN <<latched[p]>> ELSE <<>>)
                    \o Buffered(p)
(* A message's elements from its first on, without a hole.                 *)
Prefix(raw) == \A j \in DOMAIN raw : raw[j].seq = raw[1].seq /\ raw[j].i = j

(* What passes through a buffer without a lock, and what comes out.  Every *)
(* element is there once, whole and in the order of sbuf_put, between the  *)
(* reader and the writer; a message begins with its header, and while its  *)
(* pCPU dropped nothing it has no hole and nothing of another message; no  *)
(* message is written twice, none whose header was accepted disappears,    *)
(* and a number that has not come when a later one is written has been     *)
(* announced by the warning (acrnlog.c: "if msg->seq is not contineous,    *)
(* warn for logs missing").                                                *)
HvlogInv ==
    /\ seq \in 0..MaxSeq /\ heads \subseteq 1..seq /\ head \in [Cpus -> 0..EleNum - 1] /\ tail \in [Cpus -> 0..EleNum - 1]
    /\ \A p \in Cpus : /\ Rising(InHand(p))
                       /\ writer[p] # EMPTY /\ Count(p) > 0 => Before(Last(Buffered(p)), Element(writer[p]))
    /\ \A j \in DOMAIN log : /\ IsHead(log[j].raw[1]) /\ Rising(log[j].raw)
                             /\ log[j].cpu \notin dropped => Prefix(log[j].raw)
    /\ \A j, k \in DOMAIN log : log[j].raw[1].seq = log[k].raw[1].seq => j = k
    /\ \A s \in heads : s \in Written \/ \E p \in Cpus : \E j \in DOMAIN InHand(p) : InHand(p)[j].seq = s
    /\ \A j \in DOMAIN log : \A s \in 1..log[j].raw[1].seq - 1 :
         \/ \E k \in 1..j - 1 : log[k].raw[1].seq = s
         \/ \E k \in 1..j : /\ log[k].warned /\ log[k].raw[1].seq > s
                            /\ k > 1 => log[k - 1].raw[1].seq < s

(* A message whose header was accepted is written to the log.              *)
LogWaits(s) == s \in heads /\ s \notin Written

(* "The function read a complete msg from acrnlog dev." (acrnlog.c): what  *)
(* is written is the whole message when nothing was dropped.               *)
Whole(raw) == Last(raw).last
ReadsComplete == \A j \in DOMAIN log : log[j].cpu \notin dropped => Whole(log[j].raw)

(* "with log messages in ascending order by the global sequence number"    *)
(* (hld-trace-log.rst).                                                    *)
Ascending == \A j \in 1..Len(log) - 1 : log[j].raw[1].seq < log[j + 1].raw[1].seq
=============================================================================
