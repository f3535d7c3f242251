----------------------------- MODULE VirqProofs -----------------------------
(***************************************************************************)
(* Event injection into a vCPU, for any set of vectors and any workload.   *)
(* The three invariants are kept by one induction.  What has to be added   *)
(* to them is what the injection fields may hold at each point of the      *)
(* loop: entry_info only between the evaluation of the requests and the VM *)
(* entry, idt_vectoring only from the VM exit to the next evaluation; and  *)
(* that only what the workload allows is ever requested.                   *)
(***************************************************************************)
EXTENDS Virq, TLAPS

(* A priority, and a vector; hidden from the provers unless it matters. *)
Byte == 0..255

(* What exception.exception may hold. *)
Exception == Faults \cup {"DF", "INVALID"}

(* The bits of pending_req. *)
Request == {"EVENT", "EXTINT", "NMI", "FLUSH", "EXCP", "TRP_FAULT", "INIT_VMCS"}

(* What the injection fields hold. *)
EventInfo ==
    {none, pic, nmi} \cup {intr(v) : v \in Vector}
                     \cup {excp(x) : x \in Exception}

(* VirqTypeOK with the values of the fields. *)
Typed ==
    /\ VirqTypeOK
    /\ workload \in Workloads
    /\ idt_vectoring \in {none, pic} \cup {intr(v) : v \in Vector}
    /\ entry_info \in EventInfo

(* A vector is put in service when the scan has found it. *)
Nested == InServiceOrder /\ \A v \in isr : v >= 32

(* The exception queue: a request has a vector, an injected exception too. *)
Queued ==
    ~Resets => /\ "EXCP" \in pending_req => exception # "INVALID"
               /\ entry_info # excp("INVALID")

(* Between the evaluation and the guest. *)
Evaluated ==
    /\ workload.tprs = {}
    /\ pc \in {"ready", "guest"}
    /\ vlapic_find_deliverable_intr(irr, vlapic_update_ppr(tpr, isrv))
    => \/ "EVENT" \in pending_req
       \/ irq_window_enabled
       \/ accepting # {}

(* The condition of InServiceReaches. *)
NothingGoesFirst == Faults = {} /\ (Vectoring => "NMI" \notin Sources)

(* Where a vector in service is, and what could go before it. *)
Reaches ==
    /\ pc \in {"root", "guest", "stopped"} => entry_info = none
    /\ ~Vectoring => idt_vectoring = none
    /\ "NMI" \in pending_req \/ entry_info = nmi => "NMI" \in Sources
    /\ NothingGoesFirst =>
           /\ "EXCP" \notin pending_req
           /\ entry_info.type # "EXCP"
           /\ pc \in {"window", "ready", "guest"} => idt_vectoring = none
           /\ InServiceReaches

(* The inductive invariant. *)
VirqIInv == Typed /\ Nested /\ Queued /\ Evaluated /\ Reaches

-----------------------------------------------------------------------------
(* The operators of the vLAPIC. *)

(* Every non-empty set of naturals that fits in n successive ones has a    *)
(* largest member; a set of vectors is reached by doubling n.              *)
Bounded(n) ==
    \A a \in Nat : \A S \in SUBSET (a..(a + n - 1)) :
        S # {} => \E m \in S : \A u \in S : u <= m

LEMMA Doubling ==
  ASSUME NEW n \in Nat, Bounded(n)
  PROVE  Bounded(n + n)
<1> SUFFICES ASSUME NEW a \in Nat, NEW S \in SUBSET (a..(a + (n + n) - 1)), S # {}
             PROVE  \E m \in S : \A u \in S : u <= m
  BY Zenon DEF Bounded
<1>1. PICK U : U = S \cap ((a + n)..((a + n) + n - 1))
  BY Zenon
<1>2. CASE U # {}
  <2>1. PICK m \in U : \A u \in U : u <= m
    <3>1. a + n \in Nat
      OBVIOUS
    <3> QED
      BY <1>1, <1>2, <3>1, Zenon DEF Bounded
  <2>2. ASSUME NEW u \in S PROVE u <= m
    <3>1. u \in U \/ (u \in Nat /\ u < a + n)
      BY <1>1
    <3>2. m \in Nat /\ m >= a + n
      BY <1>1
    <3> QED
      BY <2>1, <3>1, <3>2
  <2> QED
    BY <1>1, <2>1, <2>2, Zenon
<1>3. CASE U = {}
  <2>1. S \in SUBSET (a..(a + n - 1))
    BY <1>1, <1>3
  <2> QED
    BY <2>1, Zenon DEF Bounded
<1> QED
  BY <1>2, <1>3, Zenon

LEMMA Maximum ==
  ASSUME NEW S, S \subseteq Byte, S # {}
  PROVE  \E m \in S : \A u \in S : u <= m
<1>1. Bounded(1)
  <2>1. ASSUME NEW a \in Nat, NEW T \in SUBSET (a..(a + 1 - 1)), T # {}
        PROVE  \E m \in T : \A u \in T : u <= m
    <3>1. \A u \in T : u = a
      OBVIOUS
    <3>2. a <= a
      OBVIOUS
    <3> QED
      BY <2>1, <3>1, <3>2, Zenon
  <2> QED
    BY <2>1, Zenon DEF Bounded
<1>2. Bounded(2) /\ Bounded(4) /\ Bounded(8) /\ Bounded(16)
  <2>1. \A n \in Nat : Bounded(n) => Bounded(n + n)
    BY Doubling, Zenon
  <2>2. 1 + 1 = 2 /\ 2 + 2 = 4 /\ 4 + 4 = 8 /\ 8 + 8 = 16 /\ {1, 2, 4, 8} \subseteq Nat
    OBVIOUS
  <2> QED
    BY <1>1, <2>1, <2>2
<1>3. Bounded(32) /\ Bounded(64) /\ Bounded(128) /\ Bounded(256)
  <2>1. \A n \in Nat : Bounded(n) => Bounded(n + n)
    BY Doubling, Zenon
  <2>2. 16 + 16 = 32 /\ 32 + 32 = 64 /\ 64 + 64 = 128 /\ 128 + 128 = 256 /\ {16, 32, 64, 128} \subseteq Nat
    OBVIOUS
  <2> QED
    BY <1>2, <2>1, <2>2
<1>4. PICK n : n = 256
  BY Zenon
<1>5. Bounded(n)
  BY <1>3, <1>4, Zenon
<1>6. n \in Nat /\ 0 \in Nat /\ S \in SUBSET (0..(0 + n - 1))
  BY <1>4 DEF Byte
<1> QED
  BY <1>5, <1>6, Zenon DEF Bounded

LEMMA Prio ==
  ASSUME NEW x \in Byte
  PROVE  prio(x) \in 0..15 /\ 16 * prio(x) <= x /\ x < 16 * prio(x) + 16
  BY DEF prio, Byte

LEMMA Prios ==
  ASSUME NEW x \in Byte, NEW y \in Byte
  PROVE  /\ prio(x) \in 0..15
         /\ x <= y => prio(x) <= prio(y)
         /\ prio(x) < prio(y) => x < y
<1>1. prio(x) \in 0..15 /\ 16 * prio(x) <= x /\ x < 16 * prio(x) + 16
  BY Prio, Zenon
<1>2. prio(y) \in 0..15 /\ 16 * prio(y) <= y /\ y < 16 * prio(y) + 16
  BY Prio, Zenon
<1> QED
  BY <1>1, <1>2 DEF Byte

(* The processor priority is not below that of the TPR, nor below that of the
   vector in service. *)
LEMMA Ppr ==
  ASSUME NEW t \in Byte, NEW v \in Byte
  PROVE  /\ vlapic_update_ppr(t, v) \in Byte
         /\ prio(vlapic_update_ppr(t, v)) >= prio(v)
<1>1. v - (v % 16) \in Byte /\ prio(v - (v % 16)) = prio(v)
  BY DEF prio, Byte
<1>2. prio(t) \in 0..15 /\ prio(v) \in 0..15
  BY Prio, Zenon
<1> QED
  BY <1>1, <1>2 DEF vlapic_update_ppr

(* The scan of the IRR or of the ISR finds the highest of the vectors it
   looks at, and 0 if there is none. *)
LEMMA FindHighest ==
  ASSUME NEW s, s \subseteq Vector
  PROVE  /\ find_highest(s) \in s \cup {0}
         /\ find_highest(s) \in Byte
         /\ find_highest(s) # 0 => find_highest(s) >= 32
         /\ \A u \in s : u >= 32 => u <= find_highest(s)
<1> DEFINE seen == {v \in s : v \div 32 > 0}
<1>1. s \subseteq 16..255
  BY VlapicAssumption
<1>2. seen = {v \in s : v >= 32}
  <2>1. ASSUME NEW v \in 16..255 PROVE (v \div 32 > 0) <=> v >= 32
    OBVIOUS
  <2> QED
    BY <1>1, <2>1, Zenon
<1>3. CASE seen = {}
  BY <1>1, <1>2, <1>3 DEF find_highest, Byte
<1>4. CASE seen # {}
  <2>1. \E m \in seen : \A u \in seen : u <= m
    <3>1. seen \subseteq Byte
      <4>1. \A u \in 16..255 : u \in Byte
        BY DEF Byte
      <4> QED
        BY <1>1, <4>1, Zenon
    <3> HIDE DEF seen
    <3> QED
      BY <1>4, <3>1, Maximum, Zenon
  <2>2. find_highest(s) = CHOOSE m \in seen : \A u \in seen : u <= m
    BY <1>4, Zenon DEF find_highest
  <2>3. find_highest(s) \in seen /\ \A u \in seen : u <= find_highest(s)
    <3> HIDE DEF seen
    <3> QED
      BY <2>1, <2>2, Zenon
  <2> HIDE DEF seen
  <2>4. \A u \in s : u >= 32 => u \in seen
    BY <1>2, Zenon
  <2>5. \A u \in seen : u \in s /\ u \in Byte /\ u >= 32
    BY <1>1, <1>2 DEF Byte
  <2> QED
    BY <2>3, <2>4, <2>5, Zenon
<1> QED
  BY <1>3, <1>4, Zenon

LEMMA FindHighestIs ==
  ASSUME NEW s, s \subseteq Vector, NEW h \in s, h >= 32, \A u \in s : u >= 32 => u <= h
  PROVE  find_highest(s) = h
<1>1. s \subseteq 16..255
  BY VlapicAssumption
<1>2. /\ find_highest(s) \in s \cup {0} /\ h <= find_highest(s)
      /\ find_highest(s) # 0 => find_highest(s) >= 32
  BY FindHighest, Zenon
<1>3. h \in 16..255
  BY <1>1, Zenon
<1>4. ASSUME NEW f \in s \cup {0}, h <= f, f # 0 => f >= 32 PROVE f = h
  <2>1. f \in s
    BY <1>3, <1>4
  <2>2. f \in 16..255 /\ f <= h
    BY <1>1, <1>3, <1>4, <2>1
  <2> QED
    BY <1>3, <1>4, <2>2
<1> QED
  BY <1>2, <1>4, Zenon

-----------------------------------------------------------------------------
(* The exception queue. *)

LEMMA QueueException ==
  ASSUME NEW q \in [exception : Exception, req : SUBSET Request], NEW x \in Exception
  PROVE  LET r == vcpu_queue_exception(q, x) IN
         /\ r \in [exception : Exception, req : SUBSET Request]
         /\ r.req \ {"EXCP", "TRP_FAULT"} = q.req \ {"EXCP", "TRP_FAULT"}
         /\ x # "INVALID" /\ ("EXCP" \in q.req => q.exception # "INVALID")
                => ("EXCP" \in r.req => r.exception # "INVALID")
  BY Zenon DEF vcpu_queue_exception, Exception, Request

(* A VM exit, whatever delivery it interrupts and whatever its handler queues. *)
LEMMA Exit ==
  ASSUME Typed, NEW e \in EventInfo, NEW x \in Faults \cup {"INVALID"}, exit(e, x),
         workload' = workload
  PROVE  /\ exception' \in Exception /\ pending_req' \subseteq Request
         /\ pc' = "root" /\ entry_info' = none
         /\ idt_vectoring' = IF e.type = "INTR" THEN e ELSE none
         /\ ~Resets /\ e # excp("INVALID") /\ ("EXCP" \in pending_req => exception # "INVALID")
                => ("EXCP" \in pending_req' => exception' # "INVALID")
         /\ "NMI" \in pending_req' => "NMI" \in pending_req \/ e = nmi
         /\ Faults = {} /\ e.type # "EXCP" /\ "EXCP" \in pending_req' => "EXCP" \in pending_req
<1> DEFINE Queue == [exception : Exception, req : SUBSET Request]
           q0 == [exception |-> exception, req |-> pending_req]
           q1 == CASE e.type = "EXCP" -> vcpu_queue_exception(q0, e.of)
                   [] e.type = "NMI" -> [q0 EXCEPT !.req = @ \cup {"NMI"}]
                   [] OTHER -> q0
           q2 == IF x = "INVALID" THEN q1 ELSE vcpu_queue_exception(q1, x)
           Valid(q) == "EXCP" \in q.req => q.exception # "INVALID"
<1>1. /\ exception' = q2.exception /\ pending_req' = q2.req
      /\ pc' = "root" /\ entry_info' = none
      /\ idt_vectoring' = IF e.type = "INTR" THEN e ELSE none
  BY Zenon DEF exit
<1>2. q0 \in Queue
  BY Zenon DEF Typed, VirqTypeOK, Exception, Request
<1>3. /\ q1 \in Queue
      /\ e # excp("INVALID") /\ Valid(q0) => Valid(q1)
      /\ "NMI" \in q1.req => "NMI" \in q0.req \/ e = nmi
      /\ e.type # "EXCP" /\ "EXCP" \in q1.req => "EXCP" \in q0.req
  <2>1. CASE e.type = "EXCP"
    <3>1. PICK y \in Exception : e = excp(y)
      BY <2>1 DEF EventInfo, none, pic, nmi, intr, excp
    <3>2. q1 = vcpu_queue_exception(q0, y)
      BY <2>1, <3>1, Zenon DEF excp
    <3> HIDE DEF q0, q1
    <3> QED
      BY <1>2, <2>1, <3>1, <3>2, QueueException
  <2>2. CASE e.type = "NMI"
    <3>1. e = nmi
      BY <2>2 DEF EventInfo, none, pic, nmi, intr, excp
    <3> QED
      BY <1>2, <2>2, <3>1, Zenon DEF Request
  <2>3. CASE e.type \notin {"EXCP", "NMI"}
    BY <1>2, <2>3, Zenon
  <2> QED
    BY <2>1, <2>2, <2>3, Zenon
<1>4. /\ q2 \in Queue
      /\ Valid(q1) => Valid(q2)
      /\ "NMI" \in q2.req => "NMI" \in q1.req
      /\ Faults = {} /\ "EXCP" \in q2.req => "EXCP" \in q1.req
  <2>1. CASE x = "INVALID"
    BY <1>3, <2>1, Zenon
  <2>2. CASE x # "INVALID"
    <3>1. x \in Exception /\ Faults # {}
      BY <2>2, Zenon DEF Exception
    <3>2. q2 = vcpu_queue_exception(q1, x)
      BY <2>2, Zenon
    <3> HIDE DEF q1, q2
    <3> QED
      BY <1>3, <2>2, <3>1, <3>2, QueueException
  <2> QED
    BY <2>1, <2>2, Zenon
<1>5. q0.req = pending_req /\ q0.exception = exception
  OBVIOUS
<1> HIDE DEF q0, q1, q2
<1> QED
  BY <1>1, <1>3, <1>4, <1>5, Zenon

-----------------------------------------------------------------------------
LEMMA WorkloadFacts ==
  ASSUME Typed
  PROVE  /\ workload.vectors \subseteq Vector /\ workload.tprs \subseteq TprValue
         /\ Sources \subseteq {"EVENT", "EXTINT", "NMI", "FLUSH"}
         /\ Faults \subseteq {"GP", "PF", "UD"}
         /\ Vectoring \in BOOLEAN /\ Resets \in BOOLEAN
  BY VirqAssumption, Zenon DEF Typed, Sources, Faults, Vectoring, Resets

LEMMA SameWorkload == [VirqNext]_virq_vars => workload' = workload
  BY Zenon DEF VirqNext, virq_vars, irq_vars, accept_intr, request_event, vcpu_make_request,
     handle_triple_fault, handle_pending_request, enable_irq_window, enter, exit_vectoring,
     exit_guest, interrupt_window_vmexit_handler, write_tpr, write_eoi, guest_runs, write_svr,
     reset_vcpu

(* The vector that vlapic_inject_intr moves from the IRR to the ISR is above
   the class of everything in service. *)
LEMMA Injected ==
  ASSUME Typed, Nested, NEW can \in BOOLEAN, injected_vector(can) # 0
  PROVE  LET v == injected_vector(can) IN
         /\ can /\ v \in irr /\ v >= 32
         /\ \A u \in isr : prio(u) < prio(v) /\ u < v
<1> DEFINE v == injected_vector(can)
           p == vlapic_update_ppr(tpr, isrv)
<1>1. can /\ v = find_highest(irr) /\ prio(find_highest(irr)) > prio(p)
  BY Zenon DEF injected_vector, vlapic_find_deliverable_intr
<1>2. irr \subseteq Vector /\ isr \subseteq Vector /\ isr \subseteq Byte
  BY VlapicAssumption DEF Typed, VirqTypeOK, VlapicTypeOK, Byte
<1>3. isrv \in Byte /\ tpr \in Byte
  BY VlapicAssumption DEF Typed, VirqTypeOK, VlapicTypeOK, Byte
<1>4. v \in irr /\ v >= 32 /\ v \in Byte
  <2>1. /\ find_highest(irr) \in irr \cup {0} /\ find_highest(irr) \in Byte
        /\ find_highest(irr) # 0 => find_highest(irr) >= 32
    BY <1>2, FindHighest, Zenon
  <2> QED
    BY <1>1, <2>1, Zenon
<1> HIDE DEF v, p
<1>5. p \in Byte /\ prio(p) >= prio(isrv)
  BY <1>3, Ppr, Zenon DEF p
<1>6. prio(v) \in 0..15 /\ prio(p) \in 0..15 /\ prio(isrv) \in 0..15
  BY <1>3, <1>4, <1>5, Prio, Zenon
<1>7. prio(isrv) < prio(v)
  BY <1>1, <1>5, <1>6
<1>8. ASSUME NEW u \in isr PROVE prio(u) < prio(v) /\ u < v
  <2>1. u <= isrv
    BY <1>2, FindHighest, Zenon DEF Nested, InServiceOrder
  <2>2. u \in Byte
    BY <1>2, Zenon
  <2>3. prio(u) \in 0..15 /\ prio(u) <= prio(isrv)
    BY <1>3, <2>1, <2>2, Prios, Zenon
  <2>4. prio(u) < prio(v)
    BY <1>6, <1>7, <2>3
  <2> QED
    BY <1>4, <2>2, <2>4, Prios, Zenon
<1> QED
  BY <1>1, <1>4, <1>8, Zenon DEF v

(* The step keeps the registers of the vLAPIC typed. *)
LEMMA VlapicKept ==
  ASSUME Typed, Nested, NEW can \in BOOLEAN,
         vlapic_inject_intr(can) \/ vlapic_process_eoi \/ UNCHANGED vlapic_vars
  PROVE  VlapicTypeOK'
<1>1. VlapicTypeOK /\ irr \subseteq Vector /\ isr \subseteq Vector /\ tpr \in Byte
  BY VlapicAssumption DEF Typed, VirqTypeOK, VlapicTypeOK, Byte
<1>2. CASE vlapic_inject_intr(can)
  <2> DEFINE v == injected_vector(can)
  <2>1. v \in irr \cup {0}
    BY Injected, Zenon
  <2>2. irr' \subseteq Vector /\ isr' \subseteq Vector /\ isrv' \in Vector \cup {0}
    <3> HIDE DEF v
    <3>1. irr' = irr \ {v} /\ isr' = (IF v = 0 THEN isr ELSE isr \cup {v})
          /\ isrv' = IF v = 0 THEN isrv ELSE v
      BY <1>2, Zenon DEF vlapic_inject_intr, v
    <3> QED
      BY <1>1, <2>1, <3>1, Zenon DEF VlapicTypeOK
  <2>3. find_highest(irr') \in Byte
    BY <2>2, FindHighest, Zenon
  <2>4. prio(find_highest(irr')) \in 0..15
    BY <2>3, Prio, Zenon
  <2>5. tpr_threshold' \in 0..15
    BY <1>2, <2>4 DEF vlapic_inject_intr, vlapic_update_tpr_threshold
  <2> QED
    BY <1>1, <1>2, <2>2, <2>5, Zenon DEF vlapic_inject_intr, VlapicTypeOK
<1>3. CASE vlapic_process_eoi
  <2>1. isr' \subseteq Vector /\ isrv' = find_highest(isr')
    BY <1>1, <1>3, Zenon DEF vlapic_process_eoi
  <2>2. isrv' \in isr' \cup {0}
    BY <2>1, FindHighest, Zenon
  <2> QED
    BY <1>1, <1>3, <2>1, <2>2, Zenon DEF vlapic_process_eoi, VlapicTypeOK
<1>4. CASE UNCHANGED vlapic_vars
  BY <1>1, <1>4, Zenon DEF vlapic_vars, VlapicTypeOK
<1> QED
  BY <1>2, <1>3, <1>4, Zenon

(* acrn_inject_pending_intr keeps the nesting. *)
LEMMA NestedInject ==
  ASSUME Typed, Nested, NEW can \in BOOLEAN, vlapic_inject_intr(can)
  PROVE  Nested'
<1> DEFINE v == injected_vector(can)
<1>1. irr \subseteq Vector /\ isr \subseteq Vector /\ isr \subseteq Byte /\ irr \subseteq Byte
  BY VlapicAssumption DEF Typed, VirqTypeOK, VlapicTypeOK, Byte
<1>2. v # 0 => v \in irr /\ v >= 32 /\ \A u \in isr : prio(u) < prio(v) /\ u < v
  BY Injected, Zenon
<1>3. isr' = (IF v = 0 THEN isr ELSE isr \cup {v}) /\ isrv' = IF v = 0 THEN isrv ELSE v
  BY Zenon DEF vlapic_inject_intr
<1> HIDE DEF v
<1>4. CASE v = 0
  BY <1>3, <1>4, Zenon DEF Nested, InServiceOrder
<1>5. CASE v # 0
  <2>1. isr' = isr \cup {v} /\ isrv' = v /\ isr' \subseteq Vector
    BY <1>1, <1>2, <1>3, <1>5, Zenon
  <2>2. v \in Byte /\ \A u \in isr' : u >= 32 /\ u <= v
    <3>1. v \in Byte
      BY <1>1, <1>2, <1>5, Zenon
    <3>2. ASSUME NEW u \in isr PROVE u >= 32 /\ u <= v
      <4>1. u \in Byte /\ u < v
        BY <1>1, <1>2, <1>5, Zenon
      <4> QED
        BY <3>1, <4>1 DEF Nested, Byte
    <3>3. v >= 32 /\ v <= v
      BY <1>2, <1>5, <3>1 DEF Byte
    <3> QED
      BY <2>1, <3>1, <3>2, <3>3, Zenon
  <2>3. isrv' = find_highest(isr')
    BY <1>2, <1>5, <2>1, <2>2, FindHighestIs, Zenon
  <2>4. \A u, w \in isr' : prio(u) = prio(w) => u = w
    <3>1. prio(v) \in 0..15 /\ \A u \in isr : prio(u) \in 0..15
      BY <1>1, <2>2, Prio, Zenon
    <3>2. \A u \in isr : prio(u) # prio(v)
      BY <1>2, <1>5, <3>1
    <3> QED
      BY <2>1, <3>2, Zenon DEF Nested, InServiceOrder
  <2> QED
    BY <2>2, <2>3, <2>4, Zenon DEF Nested, InServiceOrder
<1> QED
  BY <1>4, <1>5, Zenon

-----------------------------------------------------------------------------
(* The types. *)

LEMMA InfoTypes ==
  ASSUME NEW e
  PROVE  /\ e \in EventInfo => e.type \in {"none", "INTR", "NMI", "EXCP"}
         /\ e \in {none, pic} \cup {intr(v) : v \in Vector} =>
                e.type \in {"none", "INTR"} /\ e \in EventInfo
         /\ e \in EventInfo /\ e.type = "INTR" => e \in {none, pic} \cup {intr(v) : v \in Vector}
  BY DEF EventInfo, none, pic, nmi, intr, excp

LEMMA VectorOf ==
  ASSUME NEW i \in EventInfo, i.type = "INTR", i.of # 0
  PROVE  i.of \in Vector
<1>1. CASE i \in {none, pic, nmi}
  BY <1>1 DEF none, pic, nmi
<1>2. ASSUME NEW v \in Vector, i = intr(v) PROVE i.of \in Vector
  BY <1>2, Zenon DEF intr
<1>3. ASSUME NEW x \in Exception, i = excp(x) PROVE FALSE
  BY <1>3, Zenon DEF excp
<1> QED
  BY <1>1, <1>2, <1>3, Zenon DEF EventInfo

LEMMA TypedFrame ==
  ASSUME Typed, workload' = workload, VlapicTypeOK',
         pc' \in {"root", "window", "ready", "guest", "stopped"},
         pending_req' \subseteq Request, exception' \in Exception,
         irq_window_enabled' \in BOOLEAN,
         idt_vectoring' \in {none, pic} \cup {intr(v) : v \in Vector},
         entry_info' \in EventInfo,
         guest_irq' \in BOOLEAN, nmi_injectable' \in BOOLEAN, vpic_intr' \in BOOLEAN,
         accepting' \subseteq Vector, taken' \subseteq Vector
  PROVE  Typed'
<1>1. EventInfo' = EventInfo /\ Exception' = Exception /\ Faults' = Faults
  BY Zenon DEF EventInfo, Exception, Faults
<1>2. idt_vectoring'.type \in {"none", "INTR"} /\ entry_info'.type \in {"none", "INTR", "NMI", "EXCP"}
  BY InfoTypes, Zenon
<1> QED
  BY <1>1, <1>2, Zenon DEF Typed, VirqTypeOK, Exception, Request

LEMMA FirstEvent == ASSUME Typed PROVE first_event \in EventInfo
<1>1. nmi \in EventInfo /\ none \in EventInfo /\ idt_vectoring \in EventInfo
      /\ excp(exception) \in EventInfo
  BY InfoTypes, Zenon DEF Typed, VirqTypeOK, EventInfo, Exception
<1> QED
  BY <1>1, Zenon DEF first_event

(* What acrn_handle_pending_request leaves for the VM entry. *)
LEMMA Handled ==
  ASSUME Typed, Nested, handle_pending_request
  PROVE  \E can \in BOOLEAN :
         LET v == IF "EVENT" \in pending_req THEN injected_vector(can) ELSE 0 IN
         /\ IF "EVENT" \in pending_req THEN vlapic_inject_intr(can) ELSE UNCHANGED vlapic_vars
         /\ v # 0 => first_event = none /\ v \in Vector /\ entry_info' = intr(v)
         /\ first_event # none => entry_info' = first_event
         /\ v = 0 /\ first_event = none => entry_info' \in {none, pic}
<1> DEFINE injected == first_event # none
           extint == guest_irq /\ ~injected /\ "EXTINT" \in pending_req
           picked == extint /\ vpic_intr
           can == guest_irq /\ ~injected /\ ~picked
           v == IF "EVENT" \in pending_req THEN injected_vector(can) ELSE 0
<1>1. can \in BOOLEAN
  BY Zenon DEF Typed, VirqTypeOK
<1>2. v # 0 => can /\ v \in Vector
  <2>1. v # 0 => v = injected_vector(can)
    OBVIOUS
  <2>2. irr \subseteq Vector
    BY Zenon DEF Typed, VirqTypeOK, VlapicTypeOK
  <2> HIDE DEF can, v
  <2> QED
    BY <1>1, <2>1, <2>2, Injected, Zenon
<1>3. entry_info' = CASE injected -> first_event
                      [] ~injected /\ picked -> pic
                      [] OTHER -> IF v = 0 THEN none ELSE intr(v)
  BY Zenon DEF handle_pending_request
<1>4. IF "EVENT" \in pending_req THEN vlapic_inject_intr(can) ELSE UNCHANGED vlapic_vars
  BY Zenon DEF handle_pending_request
<1>5. can => ~injected /\ ~picked
  OBVIOUS
<1> HIDE DEF can, picked, injected
<1>6. /\ v # 0 => ~injected /\ entry_info' = intr(v)
      /\ injected => entry_info' = first_event
      /\ v = 0 /\ ~injected => entry_info' \in {none, pic}
  BY <1>2, <1>3, <1>5, Zenon
<1> QED
  BY <1>1, <1>2, <1>4, <1>6, Zenon DEF injected

LEMMA TypedKept ==
  ASSUME Typed, Nested, [VirqNext]_virq_vars
  PROVE  Typed'
<1>1. workload' = workload
  BY SameWorkload, Zenon
<1>2. /\ VlapicTypeOK
      /\ pc \in {"root", "window", "ready", "guest", "stopped"}
      /\ pending_req \subseteq Request /\ exception \in Exception
      /\ irq_window_enabled \in BOOLEAN
      /\ idt_vectoring \in {none, pic} \cup {intr(v) : v \in Vector}
      /\ entry_info \in EventInfo
      /\ guest_irq \in BOOLEAN /\ nmi_injectable \in BOOLEAN /\ vpic_intr \in BOOLEAN
      /\ accepting \subseteq Vector /\ taken \subseteq Vector
  BY Zenon DEF Typed, VirqTypeOK, Exception, Request
<1>3. UNCHANGED vlapic_vars => VlapicTypeOK'
  BY VlapicKept, Zenon
<1>4. ASSUME NEW v \in Vector, accept_intr(v) \/ request_event(v) PROVE Typed'
  <2>1. VlapicTypeOK'
    BY <1>2, <1>3, <1>4, Zenon DEF accept_intr, request_event, VlapicTypeOK
  <2> QED
    BY <1>1, <1>2, <1>4, <2>1, TypedFrame, Zenon DEF accept_intr, request_event, Request
<1>5. ASSUME NEW r \in Sources, vcpu_make_request(r) PROVE Typed'
  <2>1. r \in Request
    BY WorkloadFacts, Zenon DEF Request
  <2> QED
    BY <1>1, <1>2, <1>3, <1>5, <2>1, TypedFrame, Zenon DEF vcpu_make_request
<1>6. CASE handle_triple_fault
  BY <1>1, <1>2, <1>3, <1>6, TypedFrame, Zenon DEF handle_triple_fault
<1>7. CASE handle_pending_request
  <2>1. PICK can \in BOOLEAN :
           LET v == IF "EVENT" \in pending_req THEN injected_vector(can) ELSE 0 IN
           /\ IF "EVENT" \in pending_req THEN vlapic_inject_intr(can) ELSE UNCHANGED vlapic_vars
           /\ v # 0 => first_event = none /\ v \in Vector /\ entry_info' = intr(v)
           /\ first_event # none => entry_info' = first_event
           /\ v = 0 /\ first_event = none => entry_info' \in {none, pic}
    BY <1>7, Handled, Zenon
  <2>2. VlapicTypeOK'
    BY <2>1, VlapicKept, Zenon
  <2>3. entry_info' \in EventInfo
    <3>1. {none, pic} \subseteq EventInfo /\ \A v \in Vector : intr(v) \in EventInfo
      BY Zenon DEF EventInfo
    <3> QED
      BY <2>1, <3>1, FirstEvent, Zenon
  <2>4. /\ pc' = "window"
        /\ pending_req' \subseteq pending_req
        /\ exception' \in {"INVALID", exception}
        /\ idt_vectoring' \in {none, idt_vectoring}
        /\ vpic_intr' \in BOOLEAN
        /\ UNCHANGED <<irq_window_enabled, guest_irq, nmi_injectable, accepting, taken>>
    BY <1>7, Zenon DEF handle_pending_request
  <2> QED
    BY <1>1, <1>2, <2>2, <2>3, <2>4, TypedFrame, Zenon DEF Exception
<1>8. CASE enable_irq_window
  BY <1>1, <1>2, <1>3, <1>8, TypedFrame, Zenon DEF enable_irq_window, Request
<1>9. CASE enter
  <2>1. entry_info.type = "INTR" /\ entry_info.of # 0 => entry_info.of \in Vector
    BY <1>2, VectorOf, Zenon
  <2>2. none \in EventInfo
    BY Zenon DEF EventInfo
  <2> QED
    BY <1>1, <1>2, <1>3, <1>9, <2>1, <2>2, TypedFrame, Zenon DEF enter, deliver
<1>10. none \in EventInfo
  BY Zenon DEF EventInfo
<1>11. ASSUME NEW e \in EventInfo, NEW x \in Faults \cup {"INVALID"}, exit(e, x), VlapicTypeOK',
              irq_window_enabled' \in BOOLEAN,
              UNCHANGED <<guest_irq, nmi_injectable, vpic_intr, accepting, taken>>
       PROVE  Typed'
  <2>1. /\ exception' \in Exception /\ pending_req' \subseteq Request
        /\ pc' = "root" /\ entry_info' = none
        /\ idt_vectoring' = IF e.type = "INTR" THEN e ELSE none
    BY <1>1, <1>11, Exit, Zenon
  <2>2. idt_vectoring' \in {none, pic} \cup {intr(v) : v \in Vector}
    BY <1>11, <2>1, InfoTypes, Zenon
  <2> QED
    BY <1>1, <1>2, <1>10, <1>11, <2>1, <2>2, TypedFrame, Zenon
<1>12. ASSUME NEW x \in Faults \cup {"INVALID"}, exit_vectoring(x) \/ exit_guest(x) PROVE Typed'
  BY <1>2, <1>3, <1>12, <1>10, <1>11, Zenon DEF exit_vectoring, exit_guest
<1>13. CASE interrupt_window_vmexit_handler
  BY <1>2, <1>3, <1>13, <1>10, <1>11, Zenon DEF interrupt_window_vmexit_handler
<1>14. ASSUME NEW t \in workload.tprs, write_tpr(t) PROVE Typed'
  <2>1. t \in TprValue
    BY WorkloadFacts, Zenon
  <2>2. VlapicTypeOK'
    BY <1>2, <1>14, <2>1, Zenon DEF write_tpr, VlapicTypeOK
  <2> QED
    BY <1>1, <1>2, <1>14, <2>2, TypedFrame, Zenon DEF write_tpr, Request
<1>15. CASE write_eoi
  BY <1>1, <1>2, <1>15, VlapicKept, TypedFrame, Zenon DEF write_eoi, Request
<1>16. CASE write_svr
  <2>1. VlapicTypeOK'
    BY <1>2, <1>16, Zenon DEF write_svr, VlapicTypeOK
  <2> QED
    BY <1>2, <1>16, <1>10, <1>11, <2>1, Zenon DEF write_svr
<1>17. CASE guest_runs
  BY <1>1, <1>2, <1>3, <1>17, TypedFrame, Zenon DEF guest_runs
<1>18. CASE reset_vcpu
  <2>1. VlapicTypeOK'
    <3>1. 0 \in 0..15
      OBVIOUS
    <3> QED
      BY <1>18, <3>1, Zenon DEF reset_vcpu, VlapicTypeOK
  <2> QED
    BY <1>1, <1>2, <1>18, <2>1, TypedFrame, Zenon DEF reset_vcpu, Request, Exception
<1>19. CASE UNCHANGED virq_vars
  BY <1>1, <1>2, <1>3, <1>19, TypedFrame, Zenon DEF virq_vars, irq_vars
<1> QED
  BY <1>4, <1>5, <1>6, <1>7, <1>8, <1>9, <1>12, <1>13, <1>14, <1>15, <1>16, <1>17, <1>18, <1>19, Zenon
     DEF VirqNext

-----------------------------------------------------------------------------
(* The vectors in service. *)

LEMMA NestedKept ==
  ASSUME Typed, Nested, [VirqNext]_virq_vars
  PROVE  Nested'
<1>1. UNCHANGED <<isr, isrv>> => Nested'
  BY Zenon DEF Nested, InServiceOrder
<1>2. CASE handle_pending_request
  <2>1. \E can \in BOOLEAN : vlapic_inject_intr(can) \/ UNCHANGED vlapic_vars
    BY <1>2, Handled, Zenon
  <2> QED
    BY <1>1, <2>1, NestedInject, Zenon DEF vlapic_vars
<1>3. CASE write_eoi
  <2>1. isr' \subseteq isr /\ isrv' = find_highest(isr')
    BY <1>3, Zenon DEF write_eoi, vlapic_process_eoi
  <2> QED
    BY <2>1, Zenon DEF Nested, InServiceOrder
<1>4. CASE reset_vcpu
  <2>1. isr' = {} /\ isrv' = 0
    BY <1>4, Zenon DEF reset_vcpu
  <2>2. find_highest({}) = 0
    BY Zenon DEF find_highest
  <2> QED
    BY <2>1, <2>2, Zenon DEF Nested, InServiceOrder
<1>5. CASE UNCHANGED virq_vars
  BY <1>1, <1>5, Zenon DEF virq_vars, vlapic_vars
<1>6. CASE VirqNext /\ ~handle_pending_request /\ ~write_eoi /\ ~reset_vcpu
  <2>1. UNCHANGED <<isr, isrv>>
    BY <1>6, Zenon DEF VirqNext, vlapic_vars, accept_intr, request_event, vcpu_make_request,
       handle_triple_fault, enable_irq_window, enter, exit_vectoring, exit_guest,
       interrupt_window_vmexit_handler, write_tpr, guest_runs, write_svr
  <2> QED
    BY <1>1, <2>1, Zenon
<1> QED
  BY <1>2, <1>3, <1>4, <1>5, <1>6, Zenon

-----------------------------------------------------------------------------
(* The queue of exceptions. *)

LEMMA QueuedKept ==
  ASSUME Typed, Nested, Queued, [VirqNext]_virq_vars
  PROVE  Queued'
<1>1. workload' = workload /\ Resets' = Resets
  BY SameWorkload, Zenon DEF Resets
<1>2. SUFFICES ASSUME ~Resets
               PROVE  /\ "EXCP" \in pending_req' => exception' # "INVALID"
                      /\ entry_info' # excp("INVALID")
  BY <1>1, Zenon DEF Queued, excp
<1>3. ("EXCP" \in pending_req => exception # "INVALID") /\ entry_info # excp("INVALID")
  BY <1>2, Zenon DEF Queued
<1>4. none # excp("INVALID") /\ pic # excp("INVALID") /\ \A v : intr(v) # excp("INVALID")
  BY Zenon DEF none, pic, intr, excp
<1>5. CASE /\ "EXCP" \in pending_req' => "EXCP" \in pending_req
           /\ exception' = exception
           /\ entry_info' \in {entry_info, none}
  BY <1>3, <1>4, <1>5, Zenon
<1>6. CASE handle_pending_request
  <2>1. "EXCP" \notin pending_req'
    BY <1>6, Zenon DEF handle_pending_request
  <2>2. first_event # excp("INVALID")
    <3>1. idt_vectoring # excp("INVALID")
      BY DEF Typed, none, pic, intr, excp
    <3> QED
      BY <1>3, <1>4, <3>1, Zenon DEF first_event, nmi, excp
  <2>3. entry_info' \in {none, pic, first_event} \/ \E v : entry_info' = intr(v)
    BY <1>6, Handled, Zenon
  <2> QED
    BY <1>4, <2>1, <2>2, <2>3, Zenon
<1>7. ASSUME NEW e \in {none, entry_info}, NEW x \in Faults \cup {"INVALID"}, exit(e, x)
      PROVE  /\ "EXCP" \in pending_req' => exception' # "INVALID"
             /\ entry_info' # excp("INVALID")
  <2>1. e \in EventInfo /\ e # excp("INVALID")
    BY <1>3, <1>4, Zenon DEF Typed, EventInfo
  <2> QED
    BY <1>1, <1>2, <1>3, <1>4, <1>7, <2>1, Exit, Zenon
<1>8. ASSUME NEW x \in Faults \cup {"INVALID"}, exit_vectoring(x) \/ exit_guest(x)
      PROVE  \E e \in {none, entry_info} : exit(e, x)
  BY <1>8, Zenon DEF exit_vectoring, exit_guest
<1>9. CASE interrupt_window_vmexit_handler \/ write_svr
  <2>1. exit(none, "INVALID")
    BY <1>9, Zenon DEF interrupt_window_vmexit_handler, write_svr
  <2> QED
    BY <1>7, <2>1, Zenon
<1>10. ASSUME NEW r \in Sources, vcpu_make_request(r)
       PROVE  /\ "EXCP" \in pending_req' => "EXCP" \in pending_req
              /\ exception' = exception /\ entry_info' = entry_info
  BY <1>10, WorkloadFacts, Zenon DEF vcpu_make_request
<1>11. CASE UNCHANGED virq_vars
  BY <1>5, <1>11, Zenon DEF virq_vars, irq_vars
<1>12. ASSUME \/ \E v \in Vector : accept_intr(v) \/ request_event(v)
              \/ handle_triple_fault \/ enable_irq_window \/ enter
              \/ \E t \in workload.tprs : write_tpr(t)
              \/ write_eoi \/ guest_runs
       PROVE  /\ "EXCP" \in pending_req' => "EXCP" \in pending_req
              /\ exception' = exception /\ entry_info' \in {entry_info, none}
  BY <1>12, Zenon DEF accept_intr, request_event, handle_triple_fault, enable_irq_window, enter,
     write_tpr, write_eoi, guest_runs
<1> QED
  BY <1>2, <1>5, <1>6, <1>7, <1>8, <1>9, <1>10, <1>11, <1>12, Zenon DEF VirqNext, reset_vcpu

-----------------------------------------------------------------------------
(* The evaluation before the VM entry. *)

LEMMA EvaluatedKept ==
  ASSUME Typed, Evaluated, [VirqNext]_virq_vars
  PROVE  Evaluated'
<1> DEFINE Deliverable == vlapic_find_deliverable_intr(irr, vlapic_update_ppr(tpr, isrv))
<1>1. SUFFICES ASSUME workload.tprs = {}, pc' \in {"ready", "guest"}, Deliverable'
               PROVE  \/ "EVENT" \in pending_req'
                      \/ irq_window_enabled'
                      \/ accepting' # {}
  BY SameWorkload, Zenon DEF Evaluated
<1>2. UNCHANGED vlapic_vars => (Deliverable <=> Deliverable')
  BY Zenon DEF vlapic_vars
<1>3. Deliverable /\ pc \in {"ready", "guest"} =>
         "EVENT" \in pending_req \/ irq_window_enabled \/ accepting # {}
  BY <1>1, Zenon DEF Evaluated
<1> HIDE DEF Deliverable
<1>4. ASSUME NEW v \in Vector, accept_intr(v) \/ request_event(v)
      PROVE  accepting' # {} \/ "EVENT" \in pending_req'
  BY <1>4, Zenon DEF accept_intr, request_event
<1>5. CASE enable_irq_window
  <2>1. Deliverable
    BY <1>1, <1>2, <1>5, Zenon DEF enable_irq_window
  <2> QED
    BY <1>5, <2>1, Zenon DEF enable_irq_window, Deliverable
<1>6. CASE (\E r \in Sources : vcpu_make_request(r)) \/ enter \/ guest_runs \/ UNCHANGED virq_vars
  <2>1. /\ UNCHANGED <<vlapic_vars, irq_window_enabled, accepting>>
        /\ pending_req \subseteq pending_req'
        /\ pc \in {"ready", "guest"}
    BY <1>1, <1>6, Zenon DEF vcpu_make_request, enter, guest_runs, virq_vars, irq_vars
  <2> QED
    BY <1>1, <1>2, <1>3, <2>1, Zenon
<1>7. ASSUME \/ handle_triple_fault \/ handle_pending_request
             \/ (\E x \in Faults \cup {"INVALID"} : exit_vectoring(x) \/ exit_guest(x))
             \/ interrupt_window_vmexit_handler \/ write_eoi \/ write_svr \/ reset_vcpu
      PROVE  FALSE
  BY <1>1, <1>7, Zenon DEF handle_triple_fault, handle_pending_request, exit_vectoring, exit_guest,
     exit, interrupt_window_vmexit_handler, write_eoi, write_svr, reset_vcpu
<1> QED
  BY <1>1, <1>4, <1>5, <1>6, <1>7, Zenon DEF VirqNext

-----------------------------------------------------------------------------
(* The way of a vector in service to the guest. *)

LEMMA ReachesKept ==
  ASSUME Typed, Nested, Reaches, [VirqNext]_virq_vars
  PROVE  Reaches'
<1>1. /\ workload' = workload /\ Faults' = Faults /\ Sources' = Sources /\ Vectoring' = Vectoring
      /\ NothingGoesFirst' = NothingGoesFirst
  BY SameWorkload, Zenon DEF Faults, Sources, Vectoring, NothingGoesFirst
<1>2. /\ pc \in {"root", "guest", "stopped"} => entry_info = none
      /\ ~Vectoring => idt_vectoring = none
      /\ "NMI" \in pending_req \/ entry_info = nmi => "NMI" \in Sources
  BY Zenon DEF Reaches
<1>3. NothingGoesFirst =>
           /\ "EXCP" \notin pending_req
           /\ entry_info.type # "EXCP"
           /\ pc \in {"window", "ready", "guest"} => idt_vectoring = none
           /\ InServiceReaches
  BY Zenon DEF Reaches
<1>4. NothingGoesFirst =>
        (InServiceReaches <=>
           \A v \in isr : v \in taken \/ entry_info = intr(v) \/ idt_vectoring = intr(v))
  BY Zenon DEF NothingGoesFirst, InServiceReaches
<1>5. NothingGoesFirst =>
        (InServiceReaches' <=>
           \A v \in isr' : v \in taken' \/ entry_info' = intr(v) \/ idt_vectoring' = intr(v))
  BY <1>1, Zenon DEF NothingGoesFirst, InServiceReaches
<1>6. none # nmi /\ none.type = "none" /\ \A v : intr(v) # none /\ intr(v) # nmi /\ intr(v).type = "INTR"
  BY Zenon DEF none, nmi, intr
<1>7. isr \subseteq Vector /\ 0 \notin isr
  BY VlapicAssumption DEF Typed, VirqTypeOK, VlapicTypeOK
<1>8. ASSUME UNCHANGED <<isr, taken, entry_info, idt_vectoring>>,
             \/ pc' = pc
             \/ pc = "root" /\ pc' = "stopped"
             \/ pc = "window" /\ pc' = "ready",
             "NMI" \in pending_req' => "NMI" \in pending_req \cup Sources,
             "EXCP" \in pending_req' => "EXCP" \in pending_req
      PROVE  Reaches'
  BY <1>1, <1>2, <1>3, <1>4, <1>5, <1>8, Zenon DEF Reaches
<1>9. CASE \/ \E v \in Vector : accept_intr(v) \/ request_event(v)
           \/ \E r \in Sources : vcpu_make_request(r)
           \/ handle_triple_fault \/ enable_irq_window \/ guest_runs \/ UNCHANGED virq_vars
  <2>1. "EXCP" \notin Sources
    BY WorkloadFacts, Zenon
  <2>2. UNCHANGED <<isr, taken, entry_info, idt_vectoring>>
    BY <1>9, Zenon DEF accept_intr, request_event, vcpu_make_request, handle_triple_fault,
       enable_irq_window, guest_runs, virq_vars, irq_vars, vlapic_vars
  <2>3. pc' = pc \/ (pc = "root" /\ pc' = "stopped") \/ (pc = "window" /\ pc' = "ready")
    BY <1>9, Zenon DEF accept_intr, request_event, vcpu_make_request, handle_triple_fault,
       enable_irq_window, guest_runs, virq_vars, irq_vars
  <2>4. pending_req' \subseteq pending_req \cup Sources \cup {"EVENT"}
    <3>1. \/ pending_req' \in {pending_req, pending_req \cup {"EVENT"}, pending_req \ {"INIT_VMCS", "TRP_FAULT"}}
          \/ \E r \in Sources : pending_req' = pending_req \cup {r}
      BY <1>9, Zenon DEF accept_intr, request_event, vcpu_make_request, handle_triple_fault,
         enable_irq_window, guest_runs, virq_vars, irq_vars
    <3> QED
      BY <3>1, Zenon
  <2> QED
    BY <1>8, <2>1, <2>2, <2>3, <2>4, Zenon
<1>10. CASE handle_pending_request
  <2>1. PICK can \in BOOLEAN :
           LET v == IF "EVENT" \in pending_req THEN injected_vector(can) ELSE 0 IN
           /\ IF "EVENT" \in pending_req THEN vlapic_inject_intr(can) ELSE UNCHANGED vlapic_vars
           /\ v # 0 => first_event = none /\ v \in Vector /\ entry_info' = intr(v)
           /\ first_event # none => entry_info' = first_event
           /\ v = 0 /\ first_event = none => entry_info' \in {none, pic}
    BY <1>10, Handled, Zenon
  <2> DEFINE v == IF "EVENT" \in pending_req THEN injected_vector(can) ELSE 0
  <2>2. isr' = IF v = 0 THEN isr ELSE isr \cup {v}
    BY <2>1, Zenon DEF vlapic_inject_intr, vlapic_vars
  <2>3. /\ v # 0 => first_event = none /\ entry_info' = intr(v)
        /\ first_event # none => entry_info' = first_event
        /\ v = 0 /\ first_event = none => entry_info' \in {none, pic}
    BY <2>1, Zenon
  <2> HIDE DEF v
  <2>4. /\ pc = "root" /\ pc' = "window" /\ taken' = taken
        /\ pending_req' \subseteq pending_req /\ "EXCP" \notin pending_req'
        /\ idt_vectoring' = IF {"EXCP", "NMI"} \cap pending_req = {} THEN none ELSE idt_vectoring
    BY <1>10, Zenon DEF handle_pending_request
  <2>5. /\ first_event = nmi => "NMI" \in pending_req
        /\ first_event.type = "EXCP" => "EXCP" \in pending_req
        /\ {"EXCP", "NMI"} \cap pending_req = {} => first_event = idt_vectoring
    BY DEF Typed, VirqTypeOK, first_event, none, nmi, excp
  <2>6. /\ entry_info' = nmi => "NMI" \in pending_req
        /\ entry_info'.type = "EXCP" => "EXCP" \in pending_req
    BY <1>6, <2>3, <2>5 DEF pic, nmi, none
  <2>7. ASSUME NothingGoesFirst
        PROVE  /\ idt_vectoring' = none /\ "EXCP" \notin pending_req
               /\ "NMI" \notin pending_req \/ idt_vectoring = none
    BY <1>2, <1>3, <2>4, <2>7, Zenon DEF NothingGoesFirst
  <2>8. ASSUME NothingGoesFirst, NEW u \in isr'
        PROVE  u \in taken' \/ entry_info' = intr(u) \/ idt_vectoring' = intr(u)
    <3>1. CASE u \notin isr
      BY <2>2, <2>3, <2>8, <3>1, Zenon
    <3>2. CASE u \in isr /\ idt_vectoring = intr(u)
      <4>1. {"EXCP", "NMI"} \cap pending_req = {} /\ idt_vectoring # none
        BY <1>6, <2>7, <2>8, <3>2, Zenon
      <4> QED
        BY <2>3, <2>5, <3>2, <4>1, Zenon
    <3>3. CASE u \in isr /\ idt_vectoring # intr(u)
      BY <1>2, <1>3, <1>4, <1>6, <2>4, <2>8, <3>3, Zenon
    <3> QED
      BY <3>1, <3>2, <3>3, Zenon
  <2> QED
    BY <1>1, <1>2, <1>3, <1>5, <2>4, <2>6, <2>7, <2>8, Zenon DEF Reaches
<1>11. CASE enter
  <2>1. /\ pc = "ready" /\ pc' = "guest" /\ entry_info' = none
        /\ UNCHANGED <<isr, pending_req, idt_vectoring>>
        /\ taken' = IF entry_info.type = "INTR" /\ entry_info.of # 0 THEN taken \cup {entry_info.of} ELSE taken
    BY <1>11, Zenon DEF enter, deliver, vlapic_vars
  <2>2. ASSUME NEW u \in isr, entry_info = intr(u) PROVE u \in taken'
    BY <1>7, <2>1, <2>2, Zenon DEF intr
  <2> QED
    BY <1>1, <1>2, <1>3, <1>4, <1>5, <1>6, <2>1, <2>2, Zenon DEF Reaches
<1>12. ASSUME NEW e \in {none, entry_info}, NEW x \in Faults \cup {"INVALID"}, exit(e, x),
              UNCHANGED <<isr, taken>>,
              \/ pc = "guest" /\ e = none
              \/ pc = "ready" /\ e = entry_info /\ Vectoring
       PROVE  Reaches'
  <2>1. e \in EventInfo
    BY Zenon DEF Typed, EventInfo
  <2>2. /\ pc' = "root" /\ entry_info' = none
        /\ idt_vectoring' = IF e.type = "INTR" THEN e ELSE none
        /\ "NMI" \in pending_req' => "NMI" \in pending_req \/ e = nmi
        /\ Faults = {} /\ e.type # "EXCP" /\ "EXCP" \in pending_req' => "EXCP" \in pending_req
    BY <1>1, <1>12, <2>1, Exit, Zenon
  <2>3. ~Vectoring => idt_vectoring' = none
    BY <1>6, <1>12, <2>2, Zenon
  <2>4. "NMI" \in pending_req' => "NMI" \in Sources
    BY <1>2, <1>6, <1>12, <2>2, Zenon
  <2>5. NothingGoesFirst => "EXCP" \notin pending_req'
    BY <1>3, <1>6, <1>12, <2>2, Zenon DEF NothingGoesFirst
  <2>6. ASSUME NothingGoesFirst, NEW u \in isr
        PROVE  u \in taken \/ idt_vectoring' = intr(u)
    <3>1. u \in taken \/ entry_info = intr(u)
      BY <1>3, <1>4, <1>6, <1>12, <2>6, Zenon
    <3>2. CASE entry_info = intr(u)
      BY <1>2, <1>6, <1>12, <2>2, <3>2, Zenon
    <3> QED
      BY <3>1, <3>2, Zenon
  <2> QED
    BY <1>1, <1>5, <1>6, <1>12, <2>2, <2>3, <2>4, <2>5, <2>6, Zenon DEF Reaches
<1>13. ASSUME NEW x \in Faults \cup {"INVALID"}, exit_vectoring(x) \/ exit_guest(x) PROVE Reaches'
  BY <1>12, <1>13, Zenon DEF exit_vectoring, exit_guest, vlapic_vars
<1>14. CASE interrupt_window_vmexit_handler \/ write_svr
  BY <1>12, <1>14, Zenon DEF interrupt_window_vmexit_handler, write_svr, vlapic_vars
<1>15. CASE \E t \in workload.tprs : write_tpr(t)
  <2>1. /\ pc = "guest" /\ pc' \in {"root", "guest"} /\ UNCHANGED <<isr, taken, entry_info>>
        /\ idt_vectoring' \in {none, idt_vectoring}
        /\ pending_req' \subseteq pending_req \cup {"EVENT"}
    BY <1>15, Zenon DEF write_tpr
  <2> QED
    BY <1>1, <1>2, <1>3, <1>4, <1>5, <1>6, <2>1, Zenon DEF Reaches
<1>16. CASE write_eoi
  <2>1. /\ pc = "guest" /\ pc' = "root" /\ entry_info' = entry_info /\ idt_vectoring' = none
        /\ isr' = isr \ {isrv} /\ taken' = taken \ {isrv}
        /\ pending_req' = pending_req \cup {"EVENT"}
    BY <1>16, Zenon DEF write_eoi, vlapic_process_eoi
  <2> QED
    BY <1>1, <1>2, <1>3, <1>4, <1>5, <1>6, <2>1, Zenon DEF Reaches
<1>17. CASE reset_vcpu
  <2>1. /\ pc \in {"root", "stopped"} /\ pc' = "root" /\ isr' = {}
        /\ UNCHANGED <<entry_info, idt_vectoring>>
        /\ pending_req' = pending_req \cup {"FLUSH", "INIT_VMCS"}
    BY <1>17, Zenon DEF reset_vcpu
  <2> QED
    BY <1>1, <1>2, <1>3, <1>5, <2>1, Zenon DEF Reaches
<1> QED
  BY <1>9, <1>10, <1>11, <1>13, <1>14, <1>15, <1>16, <1>17, Zenon DEF VirqNext

-----------------------------------------------------------------------------
LEMMA VirqInvariantInit == VirqInit => VirqIInv
<1> SUFFICES ASSUME VirqInit PROVE VirqIInv
  OBVIOUS
<1>1. VlapicTypeOK /\ Nested
  <2>1. find_highest({}) = 0
    BY Zenon DEF find_highest
  <2>2. 0 \in 0..15
    OBVIOUS
  <2> QED
    BY <2>1, <2>2, Zenon DEF VirqInit, VlapicInit, VlapicTypeOK, Nested, InServiceOrder
<1>2. Typed
  BY <1>1, Zenon DEF VirqInit, Typed, VirqTypeOK, EventInfo, none
<1>3. Queued /\ Evaluated
  BY Zenon DEF VirqInit, Queued, Evaluated, none, excp
<1>4. Reaches
  BY Zenon DEF VirqInit, VlapicInit, Reaches, InServiceReaches, none, nmi
<1> QED
  BY <1>1, <1>2, <1>3, <1>4, Zenon DEF VirqIInv

LEMMA VirqInvariantKept == VirqIInv /\ [VirqNext]_virq_vars => VirqIInv'
  BY TypedKept, NestedKept, QueuedKept, EvaluatedKept, ReachesKept, Zenon DEF VirqIInv

(* The inductive invariant. *)
THEOREM VirqInvariance == VirqSpec => []VirqIInv
  BY VirqInvariantInit, VirqInvariantKept, PTL DEF VirqSpec

(* Vectors in service nest by priority class, whatever the guest writes to its
   TPR and in whatever order vectors come (vlapic_get_deliverable_intr,
   vlapic_process_eoi), and acrn_handle_pending_request never injects an
   exception that was not queued, unless the VM was reset. *)
THEOREM VirqInvThm == VirqSpec => []VirqInv
<1>1. VirqIInv => VirqInv
  BY Zenon DEF VirqIInv, Typed, Nested, Queued, VirqInv, ExceptionValid
<1> QED
  BY <1>1, VirqInvariance, PTL

(* No vCPU enters the guest with a deliverable vector that nothing will make
   it look at again: enable_irq_window sees what acrn_inject_pending_intr has
   left, and later vectors bring their own request. *)
THEOREM NotForgottenThm == VirqSpec => []NotForgotten
<1>1. VirqIInv => NotForgotten
  BY Zenon DEF VirqIInv, Evaluated, NotForgotten
<1> QED
  BY <1>1, VirqInvariance, PTL

(* A vector in service is in its handler or in an injection field, through any
   number of interrupted deliveries, as long as no exception and no NMI goes
   before the interrupted event. *)
THEOREM InServiceReachesThm == VirqSpec => []InServiceReaches
<1>1. VirqIInv => InServiceReaches
  BY Zenon DEF VirqIInv, Reaches, NothingGoesFirst, InServiceReaches
<1> QED
  BY <1>1, VirqInvariance, PTL
=============================================================================
