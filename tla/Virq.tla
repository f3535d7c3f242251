-------------------------------- MODULE Virq --------------------------------
(***************************************************************************)
(* Event injection into one vCPU (guest/virq.c): the requests in           *)
(* pending_req that other pCPUs and VM exits make, the exception queue,    *)
(* acrn_handle_pending_request before every VM entry, the interrupt        *)
(* window, and events whose delivery a VM exit interrupts.                 *)
(***************************************************************************)
EXTENDS Vlapic, FiniteSets

CONSTANT Workloads  \* what the guest, its devices and the VM exits may do

ASSUME VirqAssumption ==
    \A w \in Workloads :
        /\ w.vectors \subseteq Vector /\ w.tprs \subseteq TprValue
        /\ w.Sources \subseteq {"EVENT", "EXTINT", "NMI", "FLUSH"}
        /\ w.Faults \subseteq {"GP", "PF", "UD"}
        /\ w.Vectoring \in BOOLEAN /\ w.Resets \in BOOLEAN

VARIABLES
    pc,                 \* "root" (top of the loop), "window", "ready", "guest", "stopped"
    pending_req,        \* acrn_vcpu_arch.pending_req
    exception,          \* exception_info.exception, "INVALID" for none
    irq_window_enabled,
    idt_vectoring,      \* the event whose delivery the last exit interrupted
    entry_info,         \* VMX_ENTRY_INT_INFO_FIELD
    guest_irq,          \* is_guest_irq_enabled
    nmi_injectable,     \* is_nmi_injectable
    vpic_intr,          \* vpic_pending_intr has a vector
    accepting,          \* a vector another pCPU put into irr, request to follow
    taken,              \* history: the vectors whose handlers the guest is in
    workload            \* the member of Workloads this behaviour is under, fixed

Sources == workload.Sources \* what others ask for: "EVENT", "EXTINT", "NMI", "FLUSH"

Faults == workload.Faults   \* exceptions queued by VM exits: "GP", "PF", "UD"

Vectoring == workload.Vectoring \* a VM exit may interrupt the delivery of an event

Resets == workload.Resets   \* the VM is reset

irq_vars == <<pc, pending_req, exception, irq_window_enabled, idt_vectoring,
              entry_info, guest_irq, nmi_injectable, vpic_intr, accepting, taken,
              workload>>

virq_vars == <<vlapic_vars, irq_vars>>

none == [type |-> "none", of |-> 0]

intr(v) == [type |-> "INTR", of |-> v]

pic == [type |-> "INTR", of |-> 0]

nmi == [type |-> "NMI", of |-> 0]

excp(x) == [type |-> "EXCP", of |-> x]

(* create_vcpu and launch_vcpu. *)
VirqInit ==
    /\ VlapicInit
    /\ pc = "root"
    /\ pending_req = {"FLUSH", "INIT_VMCS"}
    /\ exception = "INVALID"
    /\ irq_window_enabled = FALSE
    /\ idt_vectoring = none /\ entry_info = none
    /\ guest_irq = FALSE /\ nmi_injectable = TRUE
    /\ vpic_intr = FALSE
    /\ accepting = {}
    /\ taken = {}
    /\ workload \in Workloads

-----------------------------------------------------------------------------
(* Requests from other pCPUs. *)

(* apicv_basic_accept_intr: the IRR bit, then vcpu_make_request. *)
accept_intr(v) ==
    /\ "EVENT" \in Sources /\ v \in workload.vectors
    /\ svr_enable
    /\ v \notin irr
    /\ irr' = irr \cup {v}
    /\ accepting' = accepting \cup {v}
    /\ UNCHANGED <<isr, isrv, tpr, svr_enable, tpr_threshold, pc, pending_req, exception,
                   irq_window_enabled, idt_vectoring, entry_info, guest_irq,
                   nmi_injectable, vpic_intr, taken, workload>>

request_event(v) ==
    /\ v \in accepting
    /\ accepting' = accepting \ {v}
    /\ pending_req' = pending_req \cup {"EVENT"}
    /\ UNCHANGED <<vlapic_vars, pc, exception, irq_window_enabled, idt_vectoring,
                   entry_info, guest_irq, nmi_injectable, vpic_intr, taken,
                   workload>>

(* vcpu_inject_nmi, vcpu_inject_extint behind the vPIC, and the flush and
   EOI-bitmap requests. *)
vcpu_make_request(r) ==
    /\ r \in Sources \ {"EVENT"}
    /\ pending_req' = pending_req \cup {r}
    /\ vpic_intr' = (vpic_intr \/ r = "EXTINT")
    /\ UNCHANGED <<vlapic_vars, pc, exception, irq_window_enabled, idt_vectoring,
                   entry_info, guest_irq, nmi_injectable, accepting, taken,
                   workload>>

-----------------------------------------------------------------------------
(* acrn_handle_pending_request. *)

get_excep_class(x) ==
    CASE x = "GP" -> "CONT" [] x = "PF" -> "PF" [] OTHER -> "BENIGN"

(* vcpu_queue_exception on a queue of the exception and the requests. *)
vcpu_queue_exception(q, x) ==
    LET class == get_excep_class(x) IN
    IF q.exception = "DF" /\ class # "BENIGN"
    THEN [q EXCEPT !.req = @ \cup {"TRP_FAULT"}]
    ELSE IF \/ get_excep_class(q.exception) = "CONT" /\ class = "CONT"
            \/ get_excep_class(q.exception) = "PF" /\ class # "BENIGN"
         THEN [exception |-> "DF", req |-> q.req \cup {"EXCP"}]
         ELSE [exception |-> x, req |-> q.req \cup {"EXCP"}]

(* Mutant: an interrupted delivery is not taken up again. *)
first_eventNoReinject ==
    CASE "EXCP" \in pending_req -> excp(exception)
      [] "EXCP" \notin pending_req /\ "NMI" \in pending_req ->
            IF nmi_injectable THEN nmi ELSE none
      [] OTHER -> none

(* What is injected before interrupts are looked at: an exception, else an
   NMI, else the event whose delivery was interrupted. *)
first_event ==
    CASE "EXCP" \in pending_req -> excp(exception)
      [] "EXCP" \notin pending_req /\ "NMI" \in pending_req ->
            IF nmi_injectable THEN nmi ELSE none
      [] OTHER -> idt_vectoring

(* A triple fault ends the loop: the vCPU thread parks itself. *)
handle_triple_fault ==
    /\ pc = "root"
    /\ "TRP_FAULT" \in pending_req
    /\ pending_req' = pending_req \ {"INIT_VMCS", "TRP_FAULT"}
    /\ pc' = "stopped"
    /\ UNCHANGED <<vlapic_vars, exception, irq_window_enabled, idt_vectoring,
                   entry_info, guest_irq, nmi_injectable, vpic_intr, accepting,
                   taken, workload>>

(* acrn_handle_pending_request up to and with acrn_inject_pending_intr. *)
handle_pending_request ==
    LET first == first_event
        injected == first # none
        extint == guest_irq /\ ~injected /\ "EXTINT" \in pending_req
        picked == extint /\ vpic_intr
        can == guest_irq /\ ~injected /\ ~picked
        v == IF "EVENT" \in pending_req THEN injected_vector(can) ELSE 0
    IN
    /\ pc = "root"
    /\ "TRP_FAULT" \notin pending_req
    /\ IF "EVENT" \in pending_req
       THEN vlapic_inject_intr(can)
       ELSE UNCHANGED vlapic_vars
    /\ entry_info' = CASE injected -> first
                       [] ~injected /\ picked -> pic
                       [] OTHER -> IF v = 0 THEN none ELSE intr(v)
    /\ pending_req' = {r \in pending_req :
                          \/ r = "NMI" /\ first # nmi
                          \/ r = "EXTINT" /\ ~extint}
    /\ exception' = IF "EXCP" \in pending_req THEN "INVALID" ELSE exception
    /\ idt_vectoring' = IF {"EXCP", "NMI"} \cap pending_req = {} THEN none
                                                                 ELSE idt_vectoring
    /\ vpic_intr' = (vpic_intr /\ ~picked)
    /\ pc' = "window"
    /\ UNCHANGED <<irq_window_enabled, guest_irq, nmi_injectable, accepting, taken,
                   workload>>

(* Mutant: only a request opens the interrupt window. *)
enable_irq_windowRequested ==
    /\ pc = "window"
    /\ irq_window_enabled' = (irq_window_enabled \/ pending_req # {})
    /\ pc' = "ready"
    /\ UNCHANGED <<vlapic_vars, pending_req, exception, idt_vectoring, entry_info,
                   guest_irq, nmi_injectable, vpic_intr, accepting, taken,
                   workload>>

(* The rest of it: a request that is left, or that
   vlapic_has_pending_delivery_intr makes, opens the interrupt window. *)
enable_irq_window ==
    LET looks == ~irq_window_enabled /\ {"EXTINT", "NMI"} \cap pending_req = {}
        deliverable == vlapic_find_deliverable_intr(irr, vlapic_update_ppr(tpr, isrv))
    IN
    /\ pc = "window"
    /\ pending_req' = IF looks /\ deliverable THEN pending_req \cup {"EVENT"}
                                              ELSE pending_req
    /\ irq_window_enabled' = (irq_window_enabled \/ pending_req' # {})
    /\ pc' = "ready"
    /\ UNCHANGED <<vlapic_vars, exception, idt_vectoring, entry_info, guest_irq,
                   nmi_injectable, vpic_intr, accepting, taken, workload>>

-----------------------------------------------------------------------------
(* VM entry and the guest. *)

deliver(e) ==
    /\ taken' = IF e.type = "INTR" /\ e.of # 0 THEN taken \cup {e.of} ELSE taken
    /\ guest_irq' = (guest_irq /\ e.type # "INTR")
    /\ nmi_injectable' = (nmi_injectable /\ e.type # "NMI")

(* run_vcpu: the event of entry_info is delivered to the guest. *)
enter ==
    /\ pc = "ready"
    /\ deliver(entry_info)
    /\ entry_info' = none
    /\ pc' = "guest"
    /\ UNCHANGED <<vlapic_vars, pending_req, exception, irq_window_enabled,
                   idt_vectoring, vpic_intr, accepting, workload>>

(* A VM exit with the exception x queued by its handler, "INVALID" for none;
   the head of vmexit_handler has saved the interrupted event e. *)
exit(e, x) ==
    LET q0 == [exception |-> exception, req |-> pending_req]
        q1 == CASE e.type = "EXCP" -> vcpu_queue_exception(q0, e.of)
                [] e.type = "NMI" -> [q0 EXCEPT !.req = @ \cup {"NMI"}]
                [] OTHER -> q0
        q2 == IF x = "INVALID" THEN q1 ELSE vcpu_queue_exception(q1, x)
    IN
    /\ idt_vectoring' = IF e.type = "INTR" THEN e ELSE none
    /\ exception' = q2.exception
    /\ pending_req' = q2.req
    /\ entry_info' = none
    /\ pc' = "root"

(* The exit comes while the event of the VM entry is being delivered. *)
exit_vectoring(x) ==
    /\ Vectoring
    /\ pc = "ready"
    /\ entry_info # none
    /\ exit(entry_info, x)
    /\ UNCHANGED <<vlapic_vars, irq_window_enabled, guest_irq, nmi_injectable,
                   vpic_intr, accepting, taken, workload>>

(* Any other exit: an external interrupt such as the kick behind a request, or
   one whose handler queues the exception x. *)
exit_guest(x) ==
    /\ pc = "guest"
    /\ exit(none, x)
    /\ UNCHANGED <<vlapic_vars, irq_window_enabled, guest_irq, nmi_injectable,
                   vpic_intr, accepting, taken, workload>>

interrupt_window_vmexit_handler ==
    /\ pc = "guest"
    /\ irq_window_enabled /\ guest_irq
    /\ exit(none, "INVALID")
    /\ irq_window_enabled' = FALSE
    /\ UNCHANGED <<vlapic_vars, guest_irq, nmi_injectable, vpic_intr, accepting,
                   taken, workload>>

(* The guest lowers or raises the TPR; below the threshold the processor exits
   and tpr_below_threshold_vmexit_handler asks for an evaluation. *)
write_tpr(t) ==
    /\ pc = "guest"
    /\ t # tpr
    /\ tpr' = t
    /\ IF prio(t) < tpr_threshold
       THEN /\ pending_req' = pending_req \cup {"EVENT"}
            /\ pc' = "root"
            /\ idt_vectoring' = none
       ELSE UNCHANGED <<pending_req, pc, idt_vectoring>>
    /\ UNCHANGED <<irr, isr, isrv, svr_enable, tpr_threshold, exception, irq_window_enabled,
                   entry_info, guest_irq, nmi_injectable, vpic_intr, accepting, taken,
                   workload>>

(* The guest ends the handler of the highest vector in service. *)
write_eoi ==
    /\ pc = "guest"
    /\ taken # {} /\ isrv # 0
    /\ vlapic_process_eoi
    /\ taken' = taken \ {isrv}
    /\ pending_req' = pending_req \cup {"EVENT"}
    /\ pc' = "root"
    /\ idt_vectoring' = none
    /\ UNCHANGED <<exception, irq_window_enabled, entry_info, guest_irq,
                   nmi_injectable, vpic_intr, accepting, workload>>

(* STI, CLI, IRET: no VM exit. *)
guest_runs ==
    /\ pc = "guest"
    /\ \/ guest_irq' = ~guest_irq /\ UNCHANGED nmi_injectable
       \/ ~nmi_injectable /\ nmi_injectable' = TRUE /\ UNCHANGED guest_irq
    /\ UNCHANGED <<vlapic_vars, pc, pending_req, exception, irq_window_enabled,
                   idt_vectoring, entry_info, vpic_intr, accepting, taken,
                   workload>>

(* vlapic_write_svr of the guest: the enable bit. *)
write_svr ==
    /\ pc = "guest"
    /\ svr_enable' = ~svr_enable
    /\ exit(none, "INVALID")
    /\ UNCHANGED <<irr, isr, isrv, tpr, tpr_threshold, irq_window_enabled, guest_irq,
                   nmi_injectable, vpic_intr, accepting, taken, workload>>

(* pause_vm, reset_vm and start_vm: vcpu_reset_internal under a parked thread,
   the EOI-bitmap request of vlapic_reset, then the request to set the VMCS
   up again, whose threshold is 0. *)
reset_vcpu ==
    /\ Resets
    /\ pc \in {"root", "stopped"}
    /\ irr' = {} /\ isr' = {} /\ isrv' = 0
    /\ tpr' = 0 /\ svr_enable' = FALSE /\ tpr_threshold' = 0
    /\ exception' = "INVALID"
    /\ irq_window_enabled' = FALSE
    /\ pending_req' = pending_req \cup {"FLUSH", "INIT_VMCS"}
    /\ guest_irq' = FALSE /\ nmi_injectable' = TRUE
    /\ taken' = {}
    /\ pc' = "root"
    /\ UNCHANGED <<idt_vectoring, entry_info, vpic_intr, accepting, workload>>

VirqNext ==
    \/ \E v \in Vector : accept_intr(v) \/ request_event(v)
    \/ \E r \in Sources : vcpu_make_request(r)
    \/ handle_triple_fault
    \/ handle_pending_request
    \/ enable_irq_window
    \/ enter
    \/ \E x \in Faults \cup {"INVALID"} : exit_vectoring(x) \/ exit_guest(x)
    \/ interrupt_window_vmexit_handler
    \/ \E t \in workload.tprs : write_tpr(t)
    \/ write_eoi
    \/ write_svr
    \/ guest_runs
    \/ reset_vcpu

VirqSpec == VirqInit /\ [][VirqNext]_virq_vars

-----------------------------------------------------------------------------
(* Types of the interrupt and exception state of a vCPU. *)
VirqTypeOK ==
    /\ VlapicTypeOK
    /\ pc \in {"root", "window", "ready", "guest", "stopped"}
    /\ pending_req \subseteq {"EVENT", "EXTINT", "NMI", "FLUSH", "EXCP",
                              "TRP_FAULT", "INIT_VMCS"}
    /\ exception \in Faults \cup {"DF", "INVALID"}
    /\ irq_window_enabled \in BOOLEAN
    /\ idt_vectoring.type \in {"none", "INTR"}
    /\ entry_info.type \in {"none", "INTR", "NMI", "EXCP"}
    /\ guest_irq \in BOOLEAN /\ nmi_injectable \in BOOLEAN
    /\ vpic_intr \in BOOLEAN
    /\ accepting \subseteq Vector
    /\ taken \subseteq Vector

(* Interrupts nest by priority class: the recorded isrv is the highest vector
   in service, and no class is in service twice. *)
InServiceOrder ==
    /\ isrv = find_highest(isr)
    /\ \A u, v \in isr : prio(u) = prio(v) => u = v

(* The precondition of vcpu_inject_exception: a requested exception has a
   vector below 32.  A reset clears the vector but not the request. *)
ExceptionValid ==
    ~Resets /\ pc = "root" /\ "EXCP" \in pending_req => exception # "INVALID"

(* Types, the nesting that vlapic_get_deliverable_intr and EOI maintain, and
   the exceptions that acrn_handle_pending_request may inject. *)
VirqInv == VirqTypeOK /\ InServiceOrder /\ ExceptionValid

(* A pending interrupt the guest could take is not forgotten when the vCPU
   enters the guest: it will be looked at again without any new interrupt,
   because of a request, the interrupt window, or the vector's own sender.
   (For a guest that leaves the TPR alone: the threshold under which a TPR
   write exits is computed only with an "EVENT" request.) *)
NotForgotten ==
    /\ workload.tprs = {}
    /\ pc = "guest"
    /\ vlapic_find_deliverable_intr(irr, vlapic_update_ppr(tpr, isrv))
    => \/ "EVENT" \in pending_req
       \/ irq_window_enabled
       \/ accepting # {}

(* A vector that was moved to the ISR reaches the guest: its handler runs, or
   the vector still is in an injection field (virq.c: "there are many reason
   inject failed, we need re-inject again").  An exception or NMI that goes
   first costs the interrupted delivery its field. *)
InServiceReaches ==
    Faults = {} /\ (Vectoring => "NMI" \notin Sources) =>
        \A v \in isr : \/ v \in taken
                       \/ entry_info = intr(v)
                       \/ idt_vectoring = intr(v)
=============================================================================
