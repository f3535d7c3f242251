------------------------------- MODULE Vlapic -------------------------------
(***************************************************************************)
(* The priority machinery of a virtual local APIC without APICv virtual    *)
(* interrupt delivery (the apicv_basic callbacks of vlapic.c).  The IRR    *)
(* and ISR bitmaps are sets of vectors.  The operators are what the        *)
(* functions do to the registers; Virq calls them from VM exits, from      *)
(* other pCPUs and from acrn_handle_pending_request.  The PPR register is  *)
(* left out: the code writes it (vlapic_update_ppr) before each read.      *)
(***************************************************************************)
EXTENDS Naturals

CONSTANTS
    Vector,     \* the vectors interrupt sources use
    TprValue    \* the values a guest writes to the TPR

ASSUME VlapicAssumption ==
    /\ Vector \subseteq 16..255
    /\ TprValue \subseteq 0..255

VARIABLES
    irr,            \* lapic_regs.irr
    isr,            \* lapic_regs.isr
    isrv,           \* acrn_vlapic.isrv: the highest vector in service, or 0
    tpr,            \* lapic_regs.tpr
    svr_enable,     \* APIC_SVR_ENABLE of lapic_regs.svr
    tpr_threshold   \* VMX_TPR_THRESHOLD

vlapic_vars == <<irr, isr, isrv, tpr, svr_enable, tpr_threshold>>

(* vlapic_reset with its memset of the register page. *)
VlapicInit ==
    /\ irr = {} /\ isr = {}
    /\ isrv = 0
    /\ tpr = 0 /\ svr_enable = FALSE
    /\ tpr_threshold = 0

prio(x) == x \div 16

(* vlapic_find_isrv and vlapic_find_highest_irr: the scan leaves out the
   first of the eight 32-bit registers. *)
find_highest(s) ==
    LET seen == {v \in s : v \div 32 > 0} IN
    IF seen = {} THEN 0 ELSE CHOOSE v \in seen : \A u \in seen : u <= v

(* Mutant: the vector in service does not count. *)
vlapic_update_pprTprOnly(t, v) == t

vlapic_update_ppr(t, v) == IF prio(t) >= prio(v) THEN t ELSE v - (v % 16)

vlapic_find_deliverable_intr(s, p) == prio(find_highest(s)) > prio(p)

vlapic_update_tpr_threshold(s, t) ==
    LET highest == prio(find_highest(s)) IN
    IF highest > prio(t) THEN 0 ELSE highest

(* apicv_basic_inject_intr; `can`: the guest takes interrupts and no other
   event is being injected.  Returns through injected_vector. *)
injected_vector(can) ==
    IF can /\ vlapic_find_deliverable_intr(irr, vlapic_update_ppr(tpr, isrv))
    THEN find_highest(irr) ELSE 0

vlapic_inject_intr(can) ==
    LET v == injected_vector(can) IN
    /\ irr' = irr \ {v}
    /\ isr' = IF v = 0 THEN isr ELSE isr \cup {v}
    /\ isrv' = IF v = 0 THEN isrv ELSE v
    /\ tpr_threshold' = vlapic_update_tpr_threshold(irr', tpr)
    /\ UNCHANGED <<tpr, svr_enable>>

(* vlapic_process_eoi for a vector in service. *)
vlapic_process_eoi ==
    /\ isr' = isr \ {isrv}
    /\ isrv' = find_highest(isr')
    /\ UNCHANGED <<irr, tpr, svr_enable, tpr_threshold>>

(* Types of the vLAPIC registers; isrv is 0 when no vector is in service. *)
VlapicTypeOK ==
    /\ irr \subseteq Vector /\ isr \subseteq Vector
    /\ isrv \in Vector \cup {0}
    /\ tpr \in TprValue \cup {0}
    /\ svr_enable \in BOOLEAN
    /\ tpr_threshold \in 0..15
=============================================================================
