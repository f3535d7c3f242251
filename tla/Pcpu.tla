-------------------------------- MODULE Pcpu --------------------------------
(***************************************************************************)
(* Function calls between pCPUs (arch/x86/notify.c) and the pCPUs that go  *)
(* offline and come back around a suspend of the host (arch/x86/cpu.c,     *)
(* pm.c and the idle loop of hv_main.c).                                   *)
(*                                                                         *)
(* One vector serves two purposes: it kicks a pCPU out of its guest, and   *)
(* it makes it run the function of the current call.  The bit of a pCPU in *)
(* smp_call_mask tells the two apart.                                      *)
(*                                                                         *)
(* Three races are left to the speed of the pCPUs.  Races names those an   *)
(* instance lets happen: "kick", a kick arrives while a call is prepared;  *)
(* "offline", a pCPU goes down with a call underway to it; "boot", a call  *)
(* is sent to an AP that is active and has not enabled its local APIC.     *)
(***************************************************************************)
EXTENDS Naturals, FiniteSets

CONSTANTS
    P,            \* the pCPUs
    BSP,          \* the boot pCPU, which suspends the host
    MaxKicks,     \* bound on the kicks of vCPUs and on the calls of APs
    LapicPt,      \* the pCPUs of a VM with a passed-through LAPIC
    Races         \* the races between two pCPUs that the timing permits

APs == P \ {BSP}

(* The pCPUs are numbered, and those of a passed-through LAPIC do not      *)
(* include the boot pCPU.                                                  *)
PcpuConstants == P \subseteq Nat /\ BSP \in P /\ LapicPt \subseteq APs
ASSUME PcpuAssumption == PcpuConstants

VARIABLES
    cpu,            \* [pCPU -> "run", "dead", "boot", "active", "sync"]
    pcpu_active,    \* pcpu_active_bitmap
    pcpu_sync,      \* TRUE while APs have to wait
    smp_call_mask,  \* the pCPUs that have not run the current call
    smp_call_func,  \* [pCPU -> the function it runs next, or "none"]: func of smp_call_info,
    smp_call_data,  \* and data, which is known by the pCPU that made the call
    call,           \* [pCPU -> the smp_call_function it is in: [at, func, todo, target]]
    ipi,            \* pCPUs with the notification vector pending
    handler,        \* [pCPU -> "none", "test", "clear": where kick_notification is]
    ran,            \* [pCPU -> where the function of its call ran]
    offline,        \* pCPUs with NEED_OFFLINE
    pm,             \* [at: where host_enter_s3 or offline_lapic_pt_enabled_pcpus is;
                    \*  s3: it is the former]
    down,           \* the pCPUs that it stops and starts
    tsc_suspend,    \* pCPUs that hold the TSC of this suspend
    missed,         \* a call returned before it ran on all of its pCPUs
    kicks

bootVars == <<cpu, pcpu_active, pcpu_sync, offline>>
infoVars == <<smp_call_func, smp_call_data>>
callVars == <<smp_call_mask, infoVars, call, ran, missed>>
intrVars == <<ipi, handler>>
pmVars == <<pm, down, tsc_suspend>>
pcpuvars == <<bootVars, callVars, intrVars, pmVars, kicks>>

NoCall == [at |-> "none", func |-> "none", todo |-> {}, target |-> {}]
Running(p) == cpu[p] = "run" /\ handler[p] = "none"
PcpuInit == /\ cpu = [p \in P |-> "run"] /\ pcpu_active = P /\ pcpu_sync = FALSE
            /\ smp_call_mask = {} /\ smp_call_func = [p \in P |-> "none"]
            /\ smp_call_data = [p \in P |-> p] /\ call = [p \in P |-> NoCall]
            /\ ipi = {} /\ handler = [p \in P |-> "none"] /\ ran = [p \in P |-> {}]
            /\ offline = {} /\ pm = [at |-> "on", s3 |-> FALSE] /\ down = {}
            /\ tsc_suspend = {} /\ missed = FALSE /\ kicks = 0

-----------------------------------------------------------------------------
(* smp_call_function, on a pCPU with interrupts enabled.                   *)

Quiet == ipi = {} /\ \A q \in P : handler[q] = "none"
InCall(p, at) == Running(p) /\ call[p].at = at
smp_call_function(p, func, mask) ==
    call' = [call EXCEPT ![p] = [at |-> "claim", func |-> func, todo |-> mask, target |-> mask]]
Goto(p, at, todo, target) ==
    call' = [call EXCEPT ![p] = [at |-> at, func |-> call[p].func, todo |-> todo, target |-> target]]
(* Mutant: a call does not wait for the one before. *)
claim_maskAtOnce(p) ==
    /\ InCall(p, "claim")
    /\ smp_call_mask' = call[p].target
    /\ Goto(p, "prepare", call[p].todo, call[p].target)
    /\ ran' = [ran EXCEPT ![p] = {}]
    /\ UNCHANGED <<bootVars, infoVars, missed, intrVars, pmVars, kicks>>
(* It waits until no call is underway and takes the mask.                  *)
claim_mask(p) ==
    /\ InCall(p, "claim")
    /\ smp_call_mask = {} /\ smp_call_mask' = call[p].target
    /\ "kick" \in Races \/ Quiet
    /\ Goto(p, "prepare", call[p].todo, call[p].target)
    /\ ran' = [ran EXCEPT ![p] = {}]
    /\ UNCHANGED <<bootVars, infoVars, missed, intrVars, pmVars, kicks>>

ffs64(mask) == CHOOSE x \in mask : \A y \in mask : x <= y
(* Each target gets the function, and one that is not active leaves the    *)
(* mask.                                                                   *)
prepare_target(p) ==
    /\ InCall(p, "prepare") /\ call[p].todo # {}
    /\ LET t == ffs64(call[p].todo) IN
       IF t \in pcpu_active
         THEN /\ smp_call_func' = [smp_call_func EXCEPT ![t] = call[p].func]
              /\ smp_call_data' = [smp_call_data EXCEPT ![t] = p]
              /\ Goto(p, "prepare", call[p].todo \ {t}, call[p].target)
              /\ UNCHANGED smp_call_mask
         ELSE /\ smp_call_mask' = smp_call_mask \ {t}
              /\ Goto(p, "prepare", call[p].todo \ {t}, call[p].target \ {t})
              /\ UNCHANGED infoVars
    /\ UNCHANGED <<bootVars, ran, missed, intrVars, pmVars, kicks>>

(* The vector goes to whoever is in the mask by now and active.  The local *)
(* APIC of a pCPU keeps it once software has enabled that APIC.            *)
Reached == {p \in pcpu_active : cpu[p] \in {"run", "sync"}}
send_dest_ipi_mask(p) ==
    /\ InCall(p, "prepare") /\ call[p].todo = {}
    /\ "boot" \in Races \/ smp_call_mask \intersect pcpu_active \subseteq Reached
    /\ ipi' = ipi \union (smp_call_mask \intersect Reached)
    /\ Goto(p, "wait", {}, call[p].target)
    /\ UNCHANGED <<bootVars, smp_call_mask, infoVars, ran, missed, handler, pmVars, kicks>>

Complete(p) == call[p].target \subseteq ran[p]
(* Mutant: the caller does not wait for the end of its call. *)
wait_sync_changeNever(p) ==
    /\ InCall(p, "wait")
    /\ call' = [call EXCEPT ![p] = NoCall] /\ missed' = (missed \/ ~Complete(p))
    /\ UNCHANGED <<bootVars, smp_call_mask, infoVars, ran, intrVars, pmVars, kicks>>
wait_sync_change(p) ==
    /\ InCall(p, "wait") /\ smp_call_mask = {}
    /\ call' = [call EXCEPT ![p] = NoCall] /\ missed' = (missed \/ ~Complete(p))
    /\ UNCHANGED <<bootVars, smp_call_mask, infoVars, ran, intrVars, pmVars, kicks>>

-----------------------------------------------------------------------------
(* kick_notification: the bit, the function, the bit again.  A pCPU that   *)
(* its caller has not come to yet runs the function of an earlier call.    *)
(* The functions of the suspend save and restore the TSC.                  *)
kick_notification(p) ==
    /\ cpu[p] = "run" /\ p \in ipi /\ handler[p] = "none" /\ ipi' = ipi \ {p}
    /\ handler' = [handler EXCEPT ![p] = IF p \in smp_call_mask THEN "test" ELSE "none"]
    /\ UNCHANGED <<bootVars, callVars, pmVars, kicks>>
run_function(p) ==
    /\ handler[p] = "test"
    /\ handler' = [handler EXCEPT ![p] = "clear"]
    /\ ran' = IF smp_call_func[p] = "none" \/ p \in call[smp_call_data[p]].todo THEN ran
              ELSE [ran EXCEPT ![smp_call_data[p]] = @ \union {p}]
    /\ tsc_suspend' = IF smp_call_func[p] = "suspend_tsc" THEN tsc_suspend \union {p}
                      ELSE IF smp_call_func[p] = "resume_tsc" THEN tsc_suspend \ {p}
                      ELSE tsc_suspend
    /\ UNCHANGED <<bootVars, smp_call_mask, infoVars, call, missed, ipi, pm, down, kicks>>
clear_bit(p) ==
    /\ handler[p] = "clear" /\ handler' = [handler EXCEPT ![p] = "none"]
    /\ smp_call_mask' = smp_call_mask \ {p}
    /\ UNCHANGED <<bootVars, infoVars, call, ran, missed, ipi, pmVars, kicks>>

(* kick_vcpu or make_reschedule_request send the same vector.              *)
MayKick == "kick" \in Races \/ \A p \in P : call[p].at # "prepare"
kick_vcpu(p) ==
    /\ kicks < MaxKicks /\ kicks' = kicks + 1
    /\ MayKick
    /\ cpu[p] = "run" /\ ipi' = ipi \union {p}
    /\ UNCHANGED <<bootVars, callVars, handler, pmVars>>

(* A hypercall of the SOS reads or writes an MSR of another pCPU, or       *)
(* profiles all of them.  The SOS is paused before the host suspends.      *)
sos_calls(p) ==
    /\ p \in P \ LapicPt /\ p \notin down /\ (p = BSP => pm.at = "on")
    /\ InCall(p, "none") /\ kicks < MaxKicks /\ kicks' = kicks + 1
    /\ \E m \in {{BSP}, pcpu_active} : smp_call_function(p, "msr", m)
    /\ UNCHANGED <<bootVars, smp_call_mask, infoVars, ran, missed, intrVars, pmVars>>

-----------------------------------------------------------------------------
(* host_enter_s3 on the boot pCPU stops and starts all APs; the shutdown   *)
(* or reset of a VM with a passed-through LAPIC stops and starts its own.  *)
(* These pCPUs are idle, their vCPUs are paused.                           *)
Power(from, to, s3) ==
    pm.at = from /\ pm' = [at |-> to, s3 |-> s3] /\ InCall(BSP, "none")
host_enter_s3 ==
    /\ Power("on", "save", TRUE) /\ down' = APs /\ \A p \in APs : call[p].at = "none"
    /\ smp_call_function(BSP, "suspend_tsc", pcpu_active)
    /\ UNCHANGED <<bootVars, smp_call_mask, infoVars, ran, missed, intrVars, tsc_suspend, kicks>>
offline_lapic_pt_enabled_pcpus ==
    /\ Power("on", "stop", FALSE) /\ MayKick /\ down' = LapicPt /\ kicks < MaxKicks /\ kicks' = kicks + 1
    /\ offline' = offline \union LapicPt /\ ipi' = ipi \union (LapicPt \intersect Reached)
    /\ UNCHANGED <<cpu, pcpu_active, pcpu_sync, callVars, handler, tsc_suspend>>
(* stop_pcpus: make_pcpu_offline for all but itself, with the same vector. *)
stop_pcpus ==
    /\ Power("save", "stop", TRUE) /\ MayKick
    /\ offline' = offline \union APs /\ ipi' = ipi \union (APs \intersect Reached)
    /\ UNCHANGED <<cpu, pcpu_active, pcpu_sync, callVars, handler, down, tsc_suspend, kicks>>
(* The wait for them, whose timeout (CPU_DOWN_TIMEOUT) does not expire;    *)
(* start_pcpus sets pcpu_sync.                                             *)
wait_pcpus_offline ==
    /\ Power("stop", "start", pm.s3) /\ pcpu_active \intersect down = {} /\ pcpu_sync' = TRUE
    /\ UNCHANGED <<cpu, pcpu_active, offline, callVars, intrVars, down, tsc_suspend, kicks>>
(* One after the other, until it is active.  INIT clears its local APIC.   *)
(* That a pCPU fails to come up in time, on which host_enter_s3 panics and *)
(* the shutdown of a VM reports a timeout, is left out.                    *)
start_pcpu(p) ==
    /\ pm.at = "start" /\ Running(BSP) /\ p \in down \ pcpu_active /\ cpu[p] = "dead"
    /\ \A q \in down : q < p => q \in pcpu_active
    /\ cpu' = [cpu EXCEPT ![p] = "boot"] /\ ipi' = ipi \ {p}
    /\ UNCHANGED <<pcpu_active, pcpu_sync, offline, callVars, handler, pmVars, kicks>>
(* Then all go on; a suspend restores the TSC of all of them.              *)
start_pcpus ==
    /\ Power("start", "restore", pm.s3) /\ down \subseteq pcpu_active /\ pcpu_sync' = FALSE
    /\ IF pm.s3 THEN smp_call_function(BSP, "resume_tsc", pcpu_active) ELSE UNCHANGED call
    /\ UNCHANGED <<cpu, pcpu_active, offline, smp_call_mask, infoVars, ran, missed, intrVars, down, tsc_suspend, kicks>>
pm_done ==
    /\ Power("restore", "on", FALSE) /\ down' = {}
    /\ UNCHANGED <<bootVars, callVars, intrVars, tsc_suspend, kicks>>

(* The idle loop tests and clears NEED_OFFLINE with interrupts disabled,   *)
(* and they stay disabled: a dead pCPU takes none.                         *)
cpu_dead(p) ==
    /\ p \in offline /\ InCall(p, "none")
    /\ "offline" \in Races \/ p \notin smp_call_mask
    /\ offline' = offline \ {p} /\ pcpu_active' = pcpu_active \ {p} /\ cpu' = [cpu EXCEPT ![p] = "dead"]
    /\ UNCHANGED <<pcpu_sync, callVars, intrVars, pmVars, kicks>>

(* init_pcpu_pre makes the AP active, init_pcpu_post enables its local     *)
(* APIC and waits for pcpu_sync; the idle loop enables interrupts.         *)
init_pcpu_pre(p) ==
    /\ cpu[p] = "boot" /\ cpu' = [cpu EXCEPT ![p] = "active"]
    /\ pcpu_active' = pcpu_active \union {p}
    /\ UNCHANGED <<pcpu_sync, offline, callVars, intrVars, pmVars, kicks>>
init_interrupt(p) ==
    /\ cpu[p] = "active" /\ cpu' = [cpu EXCEPT ![p] = "sync"]
    /\ UNCHANGED <<pcpu_active, pcpu_sync, offline, callVars, intrVars, pmVars, kicks>>
init_pcpu_post(p) ==
    /\ cpu[p] = "sync" /\ ~pcpu_sync /\ cpu' = [cpu EXCEPT ![p] = "run"]
    /\ UNCHANGED <<pcpu_active, pcpu_sync, offline, callVars, intrVars, pmVars, kicks>>

Call(p) == claim_mask(p) \/ prepare_target(p) \/ send_dest_ipi_mask(p) \/ wait_sync_change(p)
Notified(p) == kick_notification(p) \/ run_function(p) \/ clear_bit(p)
Boot(p) == start_pcpu(p) \/ cpu_dead(p) \/ init_pcpu_pre(p) \/ init_interrupt(p) \/ init_pcpu_post(p)
Suspend == \/ host_enter_s3 \/ offline_lapic_pt_enabled_pcpus
           \/ stop_pcpus \/ wait_pcpus_offline \/ start_pcpus \/ pm_done
SuspendGoesOn == pm.at # "on" /\ Suspend
PcpuNext == \/ \E p \in P : Call(p) \/ Notified(p) \/ Boot(p) \/ kick_vcpu(p) \/ sos_calls(p)
            \/ Suspend

(* Every pCPU executes.                                                    *)
PcpuFairness == /\ \A p \in P : /\ WF_pcpuvars(Call(p))
                                /\ WF_pcpuvars(Notified(p)) /\ WF_pcpuvars(Boot(p))
                /\ WF_pcpuvars(SuspendGoesOn)
PcpuSpec == PcpuInit /\ [][PcpuNext]_pcpuvars /\ PcpuFairness

-----------------------------------------------------------------------------
(* When smp_call_function returns, its function ran on every pCPU of its   *)
(* mask that was active.                                                   *)
CallComplete == ~missed

(* smp_call_mask belongs to one caller: of the calls that have claimed it  *)
(* all but one are over, though not all may have noticed, and what is left *)
(* in it are targets of that one.                                          *)
Claimed(p) == call[p].at \in {"prepare", "wait"}
Unfinished(p) == Claimed(p) /\ (call[p].at = "prepare" \/ ~Complete(p))
MaskOwned ==
    /\ \A p, q \in P : Unfinished(p) /\ Unfinished(q) => p = q
    /\ smp_call_mask # {} => \E p \in P : Claimed(p) /\ smp_call_mask \subseteq call[p].target

(* Types; the mask of calls; a call is complete; no AP runs before the boot *)
(* pCPU lets all of them go on; and the pCPUs go down for a suspend, and    *)
(* come back, with the TSC that they saved for it.                          *)
PcpuInv ==
    /\ cpu \in [P -> {"run", "dead", "boot", "active", "sync"}]
    /\ pcpu_active \subseteq P /\ smp_call_mask \subseteq P /\ ipi \subseteq P /\ offline \subseteq P
    /\ MaskOwned /\ CallComplete
    /\ pcpu_sync => \A p \in down : cpu[p] # "run"
    /\ pm.at \in {"stop", "start"} /\ pm.s3 => tsc_suspend = P
    /\ pm.at = "on" => tsc_suspend = {}

(* A call that was begun returns, and so do the suspend of the host and    *)
(* the restart of the pCPUs of a VM.                                       *)
CallWaits(p) == call[p].at # "none"
SuspendWaits == pm.at # "on"
CallsReturn == (\A p \in P : []<>~CallWaits(p)) /\ []<>~SuspendWaits
=============================================================================
