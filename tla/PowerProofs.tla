----------------------------- MODULE PowerProofs -----------------------------
(***************************************************************************)
(* Calls between pCPUs while some of them go down and come back (Pcpu),    *)
(* and the handshake by which VMs power off (LifeMngr).                    *)
(*                                                                         *)
(* Pcpu, for any set of pCPUs: PowerInv alone is inductive, whatever calls *)
(* and kicks do. For the calls, the invariant follows each bit of          *)
(* smp_call_mask from the claim to the handler that clears it, and needs   *)
(* that no kick comes before the function is stored.                       *)
(*                                                                         *)
(* LifeMngr, for any number of requests and losses: what may be on the     *)
(* lines and in the buffers of either side.                                *)
(***************************************************************************)
EXTENDS Pcpu, LifeMngr, Integers, TLAPS

Funcs == {"none", "msr", "suspend_tsc", "resume_tsc"}
Calls == [at : {"none", "claim", "prepare", "wait"}, func : Funcs, todo : SUBSET P, target : SUBSET P]

TypeOK ==
    /\ cpu \in [P -> {"run", "dead", "boot", "active", "sync"}]
    /\ pcpu_active \subseteq P /\ pcpu_sync \in BOOLEAN /\ offline \subseteq P
    /\ smp_call_mask \subseteq P /\ smp_call_func \in [P -> Funcs] /\ smp_call_data \in [P -> P]
    /\ call \in [P -> Calls] /\ ran \in [P -> SUBSET P]
    /\ ipi \subseteq P /\ handler \in [P -> {"none", "test", "clear"}]
    /\ pm \in [at : {"on", "save", "stop", "start", "restore"}, s3 : BOOLEAN]
    /\ down \subseteq APs /\ tsc_suspend \subseteq P

(* Only the pCPUs of down leave, each once; the boot pCPU goes on when     *)
(* none of them is left and, later, when all of them are back.             *)
PowerInv ==
    /\ \A p \in P : p \in pcpu_active <=> cpu[p] \in {"run", "active", "sync"}
    /\ offline = (IF pm.at = "stop" THEN down \intersect pcpu_active ELSE {})
    /\ P \ down \subseteq pcpu_active
    /\ pm.at \in {"on", "save", "restore"} => pcpu_active = P
    /\ pm.at = "on" => down = {} /\ ~pm.s3
    /\ pm.at = "save" => pm.s3
    /\ pm.s3 => down = APs
    /\ ~pm.s3 => down \subseteq LapicPt
    /\ pcpu_sync <=> pm.at = "start"
    /\ \A p \in P : cpu[p] = "boot" => pm.at = "start"
    /\ pcpu_sync => \A p \in down : cpu[p] # "run"

(* While a call is prepared the mask is its own and no vector is on its    *)
(* way, and the calls that claimed the mask before it are complete.        *)
Given(p, t) == smp_call_func[t] = call[p].func /\ smp_call_data[t] = p
OthersDone(p) == \A q \in P : q # p /\ Claimed(q) => call[q].at = "wait" /\ Complete(q)
Prepared(p) ==
    /\ call[p].at # "none" => BSP \in call[p].target /\ call[p].func # "none"
    /\ call[p].at = "claim" => call[p].todo = call[p].target
    /\ call[p].at = "prepare" =>
           /\ smp_call_mask = call[p].target /\ Quiet /\ OthersDone(p)
           /\ \A t \in call[p].target \ call[p].todo : Given(p, t)
PrepareInv == \A p \in P : Prepared(p)

(* A target that has not run the function of a call that was sent has its  *)
(* bit and the function.                                                   *)
WaitInv ==
    \A p \in P : call[p].at = "wait" =>
        /\ call[p].todo = {}
        /\ \A t \in call[p].target : t \in ran[p] \/ (t \in smp_call_mask /\ Given(p, t))

(* The mask is that of one call, whose function those in it have once the  *)
(* call was sent.                                                          *)
Owner(p) == /\ Claimed(p) /\ smp_call_mask \subseteq call[p].target
            /\ call[p].at = "wait" => \A t \in smp_call_mask : Given(p, t)
OwnerInv == smp_call_mask # {} => \E p \in P : Owner(p)

(* A handler that found the bit of its pCPU holds on to it until it has    *)
(* run the function.                                                       *)
HandlerInv ==
    \A t \in P : /\ handler[t] # "none" => t \in smp_call_mask
                 /\ handler[t] = "clear" => t \in ran[smp_call_data[t]]

(* Who calls what when, and whose TSC is saved.                            *)
CallerInv ==
    /\ \A p \in P : p \in LapicPt \union down => call[p].at = "none"
    /\ \A p \in APs : call[p].at # "none" => call[p].func = "msr"
    /\ call[BSP].at # "none" =>
           \/ pm.at = "on" /\ call[BSP].func = "msr"
           \/ pm.at = "save" /\ call[BSP].func = "suspend_tsc" /\ call[BSP].target = P
           \/ pm.at = "restore" /\ pm.s3 /\ call[BSP].func = "resume_tsc" /\ call[BSP].target = P
TscInv ==
    /\ ~pm.s3 => tsc_suspend = {}
    /\ pm.s3 /\ pm.at \in {"stop", "start"} => tsc_suspend = P
    /\ pm.at = "save" => IF call[BSP].at = "none" THEN tsc_suspend = P
                         ELSE Claimed(BSP) => ran[BSP] \subseteq tsc_suspend
    /\ pm.s3 /\ pm.at = "restore" =>
           IF call[BSP].at = "none" THEN tsc_suspend = {}
           ELSE Claimed(BSP) => ran[BSP] \intersect tsc_suspend = {}

CallInv == PrepareInv /\ WaitInv /\ OwnerInv /\ HandlerInv /\ CallerInv /\ TscInv /\ ~missed
IInv == TypeOK /\ PowerInv /\ CallInv

-----------------------------------------------------------------------------
(* The steps that leave the pCPUs where they are: those of the calls, of   *)
(* their handlers, of the kicks.                                           *)
LEMMA CallKeepsTypes ==
  ASSUME PcpuConstants, TypeOK, PowerInv, NEW p \in P, Call(p)
  PROVE  TypeOK' /\ PowerInv'
<1> USE DEF TypeOK, PowerInv, PcpuConstants, bootVars, callVars, infoVars, intrVars, pmVars
<1>0. call[p] \in Calls
  OBVIOUS
<1>1. CASE claim_mask(p)
  BY <1>0, <1>1, Zenon DEF claim_mask, Calls, Goto
<1>2. CASE prepare_target(p)
  <2> DEFINE t == ffs64(call[p].todo)
  <2>1. PICK target \in SUBSET P : Goto(p, "prepare", call[p].todo \ {t}, target)
    BY <1>0, <1>2, Zenon DEF prepare_target, Calls
  <2>2. call' \in [P -> Calls]
    BY <1>0, <2>1, Zenon DEF Calls, Goto
  <2>3. /\ smp_call_mask' \subseteq P /\ smp_call_func' \in [P -> Funcs]
        /\ smp_call_data' \in [P -> P]
    <3>1. CASE t \in pcpu_active
      <4>1. /\ smp_call_mask' = smp_call_mask /\ call[p].func \in Funcs
            /\ smp_call_func' = [smp_call_func EXCEPT ![t] = call[p].func]
            /\ smp_call_data' = [smp_call_data EXCEPT ![t] = p]
        BY <1>0, <1>2, <3>1, Zenon DEF prepare_target, Calls
      <4> QED
        BY <4>1, Zenon
    <3>2. CASE t \notin pcpu_active
      BY <1>2, <3>2, Zenon DEF prepare_target
    <3> QED
      BY <3>1, <3>2, Zenon
  <2> QED
    BY <1>2, <2>2, <2>3, Zenon DEF prepare_target
<1>3. CASE send_dest_ipi_mask(p)
  BY <1>0, <1>3, Zenon DEF send_dest_ipi_mask, Calls, Goto, Reached
<1>4. CASE wait_sync_change(p)
  BY <1>0, <1>4, Zenon DEF wait_sync_change, NoCall, Calls, Funcs
<1> QED
  BY <1>1, <1>2, <1>3, <1>4, Zenon DEF Call

LEMMA NotifiedKeepsTypes ==
  ASSUME PcpuConstants, TypeOK, PowerInv, NEW p \in P, Notified(p) \/ kick_vcpu(p) \/ sos_calls(p)
  PROVE  TypeOK' /\ PowerInv'
<1> USE DEF TypeOK, PowerInv, PcpuConstants, bootVars, callVars, infoVars, intrVars, pmVars
<1>1. CASE kick_notification(p)
  BY <1>1, Zenon DEF kick_notification
<1>2. CASE run_function(p)
  <2>1. ran' \in [P -> SUBSET P]
    BY <1>2, Zenon DEF run_function
  <2>2. tsc_suspend' \subseteq P
    BY <1>2, Zenon DEF run_function
  <2> QED
    BY <1>2, <2>1, <2>2, Zenon DEF run_function
<1>3. CASE clear_bit(p)
  BY <1>3, Zenon DEF clear_bit
<1>4. CASE kick_vcpu(p)
  BY <1>4, Zenon DEF kick_vcpu
<1>5. CASE sos_calls(p)
  <2>1. PICK m \in SUBSET P : smp_call_function(p, "msr", m)
    BY <1>5, Zenon DEF sos_calls
  <2>2. call' \in [P -> Calls]
    BY <2>1, Zenon DEF smp_call_function, Calls, Funcs
  <2> QED
    BY <1>5, <2>1, <2>2, Zenon DEF sos_calls
<1> QED
  BY <1>1, <1>2, <1>3, <1>4, <1>5, Zenon DEF Notified

(* The steps by which pCPUs go down and come back.                         *)
LEMMA BootKeepsTypes ==
  ASSUME PcpuConstants, TypeOK, PowerInv, NEW p \in P, Boot(p)
  PROVE  TypeOK' /\ PowerInv'
<1> USE DEF TypeOK, PowerInv, PcpuConstants, bootVars, callVars, infoVars, intrVars, pmVars, APs
<1>1. CASE start_pcpu(p)
  BY <1>1, Zenon DEF start_pcpu
<1>2. CASE cpu_dead(p)
  BY <1>2 DEF cpu_dead, Running
<1>3. CASE init_pcpu_pre(p)
  BY <1>3, Zenon DEF init_pcpu_pre
<1>4. CASE init_interrupt(p)
  BY <1>4 DEF init_interrupt
<1>5. CASE init_pcpu_post(p)
  BY <1>5, Zenon DEF init_pcpu_post
<1> QED
  BY <1>1, <1>2, <1>3, <1>4, <1>5, Zenon DEF Boot

LEMMA SuspendKeepsTypes ==
  ASSUME PcpuConstants, TypeOK, PowerInv, Suspend
  PROVE  TypeOK' /\ PowerInv'
<1> USE DEF TypeOK, PowerInv, PcpuConstants, bootVars, callVars, infoVars, intrVars, pmVars, APs, Power
<1>1. ASSUME NEW f \in Funcs, smp_call_function(BSP, f, pcpu_active)
      PROVE  call' \in [P -> Calls]
  BY <1>1, Zenon DEF smp_call_function, Calls
<1>2. CASE host_enter_s3
  BY <1>1, <1>2, Zenon DEF host_enter_s3, Funcs
<1>3. CASE offline_lapic_pt_enabled_pcpus
  BY <1>3, Zenon DEF offline_lapic_pt_enabled_pcpus
<1>4. CASE stop_pcpus
  BY <1>4, Zenon DEF stop_pcpus
<1>5. CASE wait_pcpus_offline
  BY <1>5, Zenon DEF wait_pcpus_offline
<1>6. CASE start_pcpus
  BY <1>1, <1>6, Zenon DEF start_pcpus, Funcs
<1>7. CASE pm_done
  BY <1>7, Zenon DEF pm_done
<1> QED
  BY <1>2, <1>3, <1>4, <1>5, <1>6, <1>7, Zenon DEF Suspend

(* The pCPUs go down and come back in order, whatever the calls and the    *)
(* kicks do: NEED_OFFLINE is only set for those that are to leave, the     *)
(* wait for them and for their return misses none, and no AP runs before   *)
(* the boot pCPU lets all of them go on (cpu.c: stop_pcpus, start_pcpus,   *)
(* wait_pcpus_offline, init_pcpu_post).                                    *)
THEOREM BootOrder == PcpuSpec => [](TypeOK /\ PowerInv)
<1>0. PcpuConstants
  BY PcpuAssumption, Zenon
<1>1. PcpuInit => TypeOK /\ PowerInv
  <2> SUFFICES ASSUME PcpuInit PROVE TypeOK /\ PowerInv
    OBVIOUS
  <2>1. TypeOK
    BY Zenon DEF PcpuInit, TypeOK, NoCall, Calls, Funcs
  <2>2. PowerInv
    BY <1>0, Zenon DEF PcpuInit, PowerInv, PcpuConstants, APs
  <2> QED
    BY <2>1, <2>2, Zenon
<1>2. ASSUME TypeOK, PowerInv, [PcpuNext]_pcpuvars PROVE TypeOK' /\ PowerInv'
  <2>1. CASE UNCHANGED pcpuvars
    BY <1>2, <2>1, Zenon DEF pcpuvars, bootVars, callVars, infoVars, intrVars, pmVars, TypeOK, PowerInv
  <2>2. CASE PcpuNext
    BY <1>0, <1>2, <2>2, CallKeepsTypes, NotifiedKeepsTypes, BootKeepsTypes, SuspendKeepsTypes, Zenon
       DEF PcpuNext
  <2> QED
    BY <1>2, <2>1, <2>2, Zenon
<1> QED
  BY <1>1, <1>2, PTL DEF PcpuSpec

-----------------------------------------------------------------------------
(* smp_call_function: the mask is claimed once every earlier call is       *)
(* complete.                                                               *)
LEMMA ClaimKeepsCalls ==
  ASSUME PcpuConstants, "kick" \notin Races, IInv, NEW p \in P, claim_mask(p)
  PROVE  CallInv'
<1> USE DEF IInv, CallInv, TypeOK, PcpuConstants, Claimed, Complete
<1>1. /\ call[p].at = "claim" /\ call' \in [P -> Calls]
      /\ call'[p] = [at |-> "prepare", func |-> call[p].func,
                     todo |-> call[p].todo, target |-> call[p].target]
      /\ \A q \in P : q # p => call'[q] = call[q]
  BY Zenon DEF claim_mask, InCall, Goto, Calls
<1>2. /\ smp_call_mask = {} /\ smp_call_mask' = call[p].target /\ Quiet
      /\ ran' \in [P -> SUBSET P] /\ ran'[p] = {} /\ \A q \in P : q # p => ran'[q] = ran[q]
      /\ UNCHANGED <<bootVars, infoVars, missed, intrVars, pmVars>>
  BY Zenon DEF claim_mask
<1>3. \A q \in P : Claimed(q) => call[q].at = "wait" /\ Complete(q)
  BY <1>2, Zenon DEF PrepareInv, Prepared, OthersDone, WaitInv, Calls
<1>6. PrepareInv'
  BY <1>1, <1>2, <1>3 DEF PrepareInv, Prepared, OthersDone, Quiet, intrVars
<1>7. WaitInv'
  BY <1>1, <1>2, <1>3 DEF WaitInv
<1>8. OwnerInv'
  BY <1>1, <1>2 DEF OwnerInv, Owner
<1>9. HandlerInv'
  BY <1>2, Zenon DEF HandlerInv, Quiet, intrVars
<1>10. CallerInv'
  <2>1. \A q \in P : /\ call'[q].at # "none" <=> call[q].at # "none"
                    /\ call'[q].func = call[q].func /\ call'[q].target = call[q].target
    BY <1>1
  <2>2. pm' = pm /\ down' = down /\ BSP \in P /\ APs \subseteq P
    BY <1>2, PcpuAssumption DEF pmVars, APs, PcpuConstants
  <2> QED
    BY <2>1, <2>2, Zenon DEF CallerInv
<1>11. TscInv'
  BY <1>1, <1>2, <1>3 DEF TscInv, CallerInv, pmVars
<1> QED
  BY <1>2, <1>6, <1>7, <1>8, <1>9, <1>10, <1>11, Zenon

(* Each target that is active gets the function, the others leave.         *)
LEMMA PrepareKeepsCalls ==
  ASSUME PcpuConstants, IInv, NEW p \in P, prepare_target(p)
  PROVE  CallInv'
<1> USE DEF IInv, CallInv, TypeOK, PcpuConstants, Claimed, Complete
<1> DEFINE t == ffs64(call[p].todo)
<1>1. /\ call[p].at = "prepare" /\ call' \in [P -> Calls]
      /\ \A q \in P : q # p => call'[q] = call[q]
      /\ UNCHANGED <<bootVars, ran, missed, intrVars, pmVars>>
  BY CallKeepsTypes DEF prepare_target, InCall, Goto, Call
<1>2. /\ smp_call_mask = call[p].target /\ Quiet
      /\ \A u \in call[p].target \ call[p].todo : Given(p, u)
      /\ \A q \in P : q # p /\ Claimed(q) => call[q].at = "wait" /\ Complete(q)
  BY <1>1, Zenon DEF PrepareInv, Prepared, OthersDone
<1>3. /\ call'[p].at = "prepare" /\ call'[p].func = call[p].func
      /\ smp_call_mask' = call'[p].target /\ BSP \in call'[p].target
      /\ call[p].target = P /\ pcpu_active = P => call'[p].target = P
      /\ \A u \in call'[p].target \ call'[p].todo : Given(p, u)'
  <2>1. BSP \in pcpu_active /\ BSP \in call[p].target
    BY <1>1, Zenon DEF PowerInv, APs, PrepareInv, Prepared, OthersDone
  <2>2. CASE t \in pcpu_active
    <3>1. /\ call'[p] = [at |-> "prepare", func |-> call[p].func,
                         todo |-> call[p].todo \ {t}, target |-> call[p].target]
          /\ smp_call_mask' = smp_call_mask
          /\ smp_call_func' = [smp_call_func EXCEPT ![t] = call[p].func]
          /\ smp_call_data' = [smp_call_data EXCEPT ![t] = p]
      BY <2>2, Zenon DEF prepare_target, Goto
    <3>2. \A u \in call'[p].target \ call'[p].todo : Given(p, u)'
      <4> SUFFICES ASSUME NEW u \in call'[p].target \ call'[p].todo PROVE Given(p, u)'
        OBVIOUS
      <4>1. u \in P /\ call'[p].func = call[p].func
        BY <1>1, <3>1 DEF Calls
      <4>2. CASE u = t
        BY <3>1, <4>1, <4>2, Zenon DEF Given
      <4>3. CASE u # t
        <5>1. Given(p, u)
          BY <1>2, <3>1, <4>3
        <5> QED
          BY <3>1, <4>1, <4>3, <5>1, Zenon DEF Given
      <4> QED
        BY <4>2, <4>3, Zenon
    <3> QED
      BY <1>2, <2>1, <3>1, <3>2
  <2>3. CASE t \notin pcpu_active
    <3>1. /\ call'[p] = [at |-> "prepare", func |-> call[p].func,
                         todo |-> call[p].todo \ {t}, target |-> call[p].target \ {t}]
          /\ smp_call_mask' = smp_call_mask \ {t} /\ UNCHANGED infoVars
      BY <2>3, Zenon DEF prepare_target, Goto
    <3> QED
      BY <1>2, <2>1, <2>3, <3>1 DEF Given, infoVars
  <2> QED
    BY <2>2, <2>3, Zenon
<1>4. PrepareInv'
  <2>1. Prepared(p) /\ OthersDone(p)' /\ Quiet'
    BY <1>1, <1>2, Zenon DEF PrepareInv, OthersDone, Quiet, intrVars
  <2>2. Prepared(p)'
    BY <1>1, <1>3, <2>1, Zenon DEF Prepared
  <2>3. ASSUME NEW q \in P, q # p PROVE Prepared(q)'
    BY <1>1, <1>2, <2>3 DEF PrepareInv, Prepared
  <2> QED
    BY <2>2, <2>3, Zenon DEF PrepareInv
<1>5. WaitInv'
  BY <1>1, <1>2, <1>3, Zenon DEF WaitInv
<1>6. OwnerInv'
  BY <1>3, Zenon DEF OwnerInv, Owner
<1>7. HandlerInv'
  BY <1>1, <1>2, Zenon DEF HandlerInv, Quiet, intrVars
<1>8. CallerInv'
  BY <1>1, <1>3 DEF CallerInv, PowerInv, pmVars, APs
<1>9. TscInv'
  BY <1>1, <1>3, Zenon DEF TscInv, pmVars
<1> QED
  BY <1>1, <1>4, <1>5, <1>6, <1>7, <1>8, <1>9, Zenon

(* The vector is sent when every target has the function.                  *)
LEMMA SendKeepsCalls ==
  ASSUME PcpuConstants, IInv, NEW p \in P, send_dest_ipi_mask(p)
  PROVE  CallInv'
<1> USE DEF IInv, CallInv, TypeOK, PcpuConstants, Claimed, Complete
<1>1. /\ call[p].at = "prepare" /\ call[p].todo = {} /\ call' \in [P -> Calls]
      /\ call'[p] = [at |-> "wait", func |-> call[p].func, todo |-> {}, target |-> call[p].target]
      /\ \A q \in P : q # p => call'[q] = call[q]
      /\ UNCHANGED <<bootVars, smp_call_mask, infoVars, ran, missed, handler, pmVars>>
  BY Zenon DEF send_dest_ipi_mask, InCall, Goto, Calls
<1>2. /\ smp_call_mask = call[p].target /\ Quiet /\ \A u \in call[p].target : Given(p, u)
      /\ \A q \in P : q # p /\ Claimed(q) => call[q].at = "wait" /\ Complete(q)
  BY <1>1, Zenon DEF PrepareInv, Prepared, OthersDone
<1>3. \A u \in call'[p].target : Given(p, u)'
  BY <1>1, <1>2 DEF Given, infoVars
<1>4. PrepareInv'
  BY <1>1, <1>2 DEF PrepareInv, Prepared, OthersDone
<1>5. WaitInv'
  BY <1>1, <1>2, <1>3 DEF WaitInv
<1>6. OwnerInv'
  BY <1>1, <1>2, <1>3 DEF OwnerInv, Owner
<1>7. HandlerInv'
  BY <1>1, <1>2, Zenon DEF HandlerInv, Quiet
<1>8. CallerInv'
  BY <1>1 DEF CallerInv, pmVars, APs
<1>9. TscInv'
  BY <1>1 DEF TscInv, pmVars
<1> QED
  BY <1>1, <1>4, <1>5, <1>6, <1>7, <1>8, <1>9, Zenon

(* When the mask is empty every target has run the function.               *)
LEMMA WaitKeepsCalls ==
  ASSUME PcpuConstants, IInv, NEW p \in P, wait_sync_change(p)
  PROVE  CallInv'
<1> USE DEF IInv, CallInv, TypeOK, PcpuConstants, Claimed, Complete
<1>1. /\ call[p].at = "wait" /\ call' \in [P -> Calls] /\ call'[p] = NoCall
      /\ \A q \in P : q # p => call'[q] = call[q]
      /\ smp_call_mask = {} /\ missed' = (missed \/ ~Complete(p))
      /\ UNCHANGED <<bootVars, smp_call_mask, infoVars, ran, intrVars, pmVars>>
  BY CallKeepsTypes, Zenon DEF wait_sync_change, InCall, Call
<1>2. Complete(p)
  BY <1>1, Zenon DEF WaitInv
<1>3. PrepareInv'
  BY <1>1 DEF PrepareInv, Prepared, OthersDone, NoCall
<1>4. WaitInv'
  BY <1>1 DEF WaitInv, NoCall, Given, infoVars
<1>5. OwnerInv' /\ HandlerInv'
  BY <1>1, Zenon DEF OwnerInv, HandlerInv, intrVars, infoVars
<1>6. CallerInv'
  BY <1>1 DEF CallerInv, NoCall, pmVars, APs
<1>7. TscInv'
  <2>1. UNCHANGED <<pm, tsc_suspend, ran>>
    BY <1>1, Zenon DEF pmVars
  <2>2. CASE p # BSP
    BY <1>1, <2>1, <2>2, Zenon DEF TscInv
  <2>3. CASE p = BSP
    <3>1. call'[BSP].at = "none"
      BY <1>1, <2>3 DEF NoCall
    <3>2. pm.at = "on" \/ (pm.at \in {"save", "restore"} /\ call[BSP].target = P)
      BY <1>1, <2>3, Zenon DEF CallerInv
    <3>3. pm.at # "on" => ran[BSP] = P
      <4>1. ran[BSP] \subseteq P /\ call[BSP].target \subseteq ran[BSP]
        BY <1>2, <2>3, Zenon
      <4> QED
        BY <3>2, <4>1, Zenon
    <3>4. pm.at = "save" => tsc_suspend = P
      BY <1>1, <2>3, <3>3, Zenon DEF TscInv
    <3>5. pm.s3 /\ pm.at = "restore" => tsc_suspend = {}
      BY <1>1, <2>3, <3>3, Zenon DEF TscInv
    <3> QED
      BY <2>1, <3>1, <3>4, <3>5, Zenon DEF TscInv
  <2> QED
    BY <2>2, <2>3, Zenon
<1> QED
  BY <1>1, <1>2, <1>3, <1>4, <1>5, <1>6, <1>7, Zenon

(* What a step leaves alone when it touches neither the calls nor the mask.*)
LEMMA CallFrame ==
  ASSUME UNCHANGED <<smp_call_mask, smp_call_func, smp_call_data, call, ran>>
  PROVE  /\ WaitInv => WaitInv'
         /\ OwnerInv => OwnerInv'
         /\ \A q \in P : OthersDone(q) => OthersDone(q)'
         /\ \A p, t \in P : Given(p, t) => Given(p, t)'
         /\ HandlerInv /\ UNCHANGED handler => HandlerInv'
         /\ CallerInv /\ UNCHANGED <<pm, down>> => CallerInv'
         /\ TscInv /\ UNCHANGED <<pm, tsc_suspend>> => TscInv'
<1>1. WaitInv => WaitInv'
  BY DEF WaitInv, Given
<1>2. OwnerInv => OwnerInv'
  BY Zenon DEF OwnerInv, Owner, Given, Claimed
<1>3. \A q \in P : OthersDone(q) => OthersDone(q)'
  BY Zenon DEF OthersDone, Claimed, Complete
<1>4. \A p, t \in P : Given(p, t) => Given(p, t)'
  BY Zenon DEF Given
<1>5. HandlerInv /\ UNCHANGED handler => HandlerInv'
  BY Zenon DEF HandlerInv
<1>6. CallerInv /\ UNCHANGED <<pm, down>> => CallerInv'
  BY Zenon DEF CallerInv
<1>7. TscInv /\ UNCHANGED <<pm, tsc_suspend>> => TscInv'
  BY Zenon DEF TscInv, Claimed
<1> QED
  BY <1>1, <1>2, <1>3, <1>4, <1>5, <1>6, <1>7, Zenon

(* A call that waits is none the worse for a function that has run.        *)
LEMMA MoreHaveRun ==
  ASSUME WaitInv, UNCHANGED <<smp_call_mask, smp_call_func, smp_call_data, call>>,
         \A p \in P : ran[p] \subseteq ran'[p]
  PROVE  WaitInv'
<1>1. smp_call_mask' = smp_call_mask /\ call' = call /\ \A p, t : Given(p, t)' <=> Given(p, t)
  BY Zenon DEF Given
<1> SUFFICES ASSUME NEW p \in P, call[p].at = "wait"
             PROVE  /\ call[p].todo = {}
                    /\ \A t \in call[p].target : t \in ran'[p] \/ (t \in smp_call_mask /\ Given(p, t))
  BY <1>1, Zenon DEF WaitInv
<1> QED
  BY Zenon DEF WaitInv

(* kick_notification, which begins only when no call is being prepared.    *)
LEMMA NotifiedKeepsCalls ==
  ASSUME PcpuConstants, IInv, NEW p \in P, Notified(p)
  PROVE  CallInv'
<1> USE DEF IInv, CallInv, TypeOK, PcpuConstants, Claimed, Complete
<1>1. \A q \in P : call[q].at # "prepare"
  BY Zenon DEF PrepareInv, Prepared, OthersDone, Quiet, Notified, kick_notification, run_function, clear_bit
<1>2. CASE kick_notification(p)
  <2>1. /\ UNCHANGED <<smp_call_mask, smp_call_func, smp_call_data, call, ran, missed, pm,
                       down, tsc_suspend>>
        /\ handler' = [handler EXCEPT ![p] = IF p \in smp_call_mask THEN "test" ELSE "none"]
    BY <1>2, Zenon DEF kick_notification, callVars, infoVars, pmVars
  <2>2. PrepareInv'
    BY <1>1, <2>1, Zenon DEF PrepareInv, Prepared
  <2>3. WaitInv' /\ OwnerInv' /\ CallerInv' /\ TscInv'
    BY <2>1, CallFrame, Zenon
  <2>4. HandlerInv'
    BY <2>1, Zenon DEF HandlerInv
  <2> QED
    BY <2>1, <2>2, <2>3, <2>4, Zenon
<1>3. CASE run_function(p)
  <2>1. p \in smp_call_mask
    BY <1>3, Zenon DEF HandlerInv, run_function
  <2>2. PICK o \in P : Owner(o)
    BY <2>1, Zenon DEF OwnerInv
  <2>3. call[o].at = "wait" /\ Given(o, p) /\ call[o].func # "none" /\ call[o].todo = {}
    BY <1>1, <2>1, <2>2, Zenon DEF Owner, PrepareInv, Prepared, OthersDone, WaitInv
  <2>4. /\ ran' = [ran EXCEPT ![o] = @ \union {p}]
        /\ handler' = [handler EXCEPT ![p] = "clear"]
        /\ UNCHANGED <<smp_call_mask, infoVars, call, missed, pm, down>>
    BY <1>3, <2>3, Zenon DEF run_function, Given
  <2>5. PrepareInv' /\ CallerInv'
    BY <1>1, <2>4, Zenon DEF PrepareInv, Prepared, OthersDone, CallerInv
  <2>6. WaitInv'
    <3>1. \A q \in P : ran[q] \subseteq ran'[q]
      BY <2>4, Zenon
    <3>2. UNCHANGED <<smp_call_mask, smp_call_func, smp_call_data, call>> /\ WaitInv
      BY <2>4, Zenon DEF infoVars
    <3> QED
      BY <3>1, <3>2, MoreHaveRun, Zenon
  <2>9. OwnerInv'
    BY <2>2, <2>4 DEF OwnerInv, Owner, Given, infoVars
  <2>7. HandlerInv'
    BY <2>1, <2>3, <2>4, Zenon DEF HandlerInv, Given, infoVars
  <2>8. TscInv'
    <3>1. tsc_suspend' = IF call[o].func = "suspend_tsc" THEN tsc_suspend \union {p}
                         ELSE IF call[o].func = "resume_tsc" THEN tsc_suspend \ {p}
                         ELSE tsc_suspend
      BY <1>3, <2>3, Zenon DEF run_function, Given
    <3>2. CASE o = BSP
      BY <2>3, <2>4, <3>1, <3>2, SMTT(30) DEF TscInv, CallerInv, PowerInv
    <3>3. CASE o # BSP
      BY <2>3, <2>4, <3>1, <3>3, Zenon DEF TscInv, CallerInv, PowerInv, APs
    <3> QED
      BY <3>2, <3>3, Zenon
  <2> QED
    BY <2>4, <2>5, <2>6, <2>7, <2>8, <2>9, Zenon
<1>4. CASE clear_bit(p)
  <2>1. /\ p \in smp_call_mask /\ p \in ran[smp_call_data[p]] /\ smp_call_mask' = smp_call_mask \ {p}
        /\ handler' = [handler EXCEPT ![p] = "none"]
        /\ UNCHANGED <<infoVars, call, ran, missed, pmVars>>
    BY <1>4, Zenon DEF clear_bit, HandlerInv
  <2>2. PrepareInv' /\ CallerInv' /\ TscInv'
    BY <1>1, <2>1 DEF PrepareInv, Prepared, OthersDone, CallerInv, TscInv, pmVars
  <2>3. WaitInv'
    <3>1. ASSUME NEW q \in P, call'[q].at = "wait"
          PROVE  call'[q].todo = {}
      BY <2>1, <3>1, Zenon DEF WaitInv
    <3>2. ASSUME NEW q \in P, call'[q].at = "wait", NEW t \in call'[q].target
          PROVE  t \in ran'[q] \/ (t \in smp_call_mask' /\ Given(q, t)')
      <4>1. t \in ran[q] \/ (t \in smp_call_mask /\ Given(q, t))
        BY <2>1, <3>2, Zenon DEF WaitInv
      <4> QED
        BY <2>1, <4>1, Zenon DEF Given, infoVars
    <3> QED
      BY <3>1, <3>2, Zenon DEF WaitInv
  <2>4. OwnerInv'
    BY <2>1 DEF OwnerInv, Owner, Given, infoVars
  <2>5. HandlerInv'
    BY <2>1, Zenon DEF HandlerInv, infoVars
  <2> QED
    BY <2>1, <2>2, <2>3, <2>4, <2>5, Zenon
<1> QED
  BY <1>2, <1>3, <1>4, Zenon DEF Notified

(* A kick, and a pCPU that goes down or comes back, leave the calls alone; *)
(* no kick comes while one is prepared.                                    *)
LEMMA OthersKeepCalls ==
  ASSUME PcpuConstants, "kick" \notin Races, IInv, NEW p \in P, kick_vcpu(p) \/ Boot(p)
  PROVE  CallInv'
<1> USE DEF IInv, CallInv, TypeOK, PcpuConstants, Claimed, Complete
<1>1. UNCHANGED <<smp_call_mask, smp_call_func, smp_call_data, call, ran, missed, handler, pm,
                  down, tsc_suspend>>
  BY Zenon DEF kick_vcpu, Boot, start_pcpu, cpu_dead, init_pcpu_pre, init_interrupt, init_pcpu_post,
     callVars, infoVars, intrVars, pmVars
<1>2. (\E q \in P : call[q].at = "prepare") => ipi' \subseteq ipi
  BY Zenon DEF kick_vcpu, MayKick, Boot, start_pcpu, cpu_dead, init_pcpu_pre, init_interrupt,
     init_pcpu_post, intrVars
<1>3. PrepareInv'
  <2>1. ASSUME NEW q \in P PROVE Prepared(q)'
    <3>1. Prepared(q) /\ (OthersDone(q) => OthersDone(q)')
      BY <1>1, CallFrame, Zenon DEF PrepareInv
    <3>2. call[q].at = "prepare" /\ Quiet => Quiet'
      BY <1>1, <1>2, Zenon DEF Quiet
    <3> QED
      BY <1>1, <3>1, <3>2, Zenon DEF Prepared, Given
  <2> QED
    BY <2>1, Zenon DEF PrepareInv
<1>4. WaitInv' /\ OwnerInv' /\ HandlerInv' /\ CallerInv' /\ TscInv'
  BY <1>1, CallFrame, Zenon
<1> QED
  BY <1>1, <1>3, <1>4, Zenon

(* A hypercall of the SOS begins a call.                                   *)
LEMMA SosKeepsCalls ==
  ASSUME PcpuConstants, IInv, NEW p \in P, sos_calls(p)
  PROVE  CallInv'
<1> USE DEF IInv, CallInv, TypeOK, PcpuConstants, Claimed, Complete
<1>1. PICK m \in {{BSP}, pcpu_active} : smp_call_function(p, "msr", m)
  BY Zenon DEF sos_calls
<1>2. BSP \in m
  BY Zenon DEF PowerInv, APs
<1>3. /\ call[p].at = "none" /\ call' \in [P -> Calls]
      /\ call'[p] = [at |-> "claim", func |-> "msr", todo |-> m, target |-> m]
      /\ \A q \in P : q # p => call'[q] = call[q]
      /\ UNCHANGED <<smp_call_mask, infoVars, ran, missed, intrVars, pmVars>>
      /\ p \notin LapicPt /\ p \notin down /\ (p = BSP => pm.at = "on")
  <2>1. call' \in [P -> Calls]
    BY NotifiedKeepsTypes, Zenon
  <2>2. /\ call'[p] = [at |-> "claim", func |-> "msr", todo |-> m, target |-> m]
        /\ \A q \in P : q # p => call'[q] = call[q]
    BY <1>1, Zenon DEF smp_call_function
  <2>3. /\ call[p].at = "none" /\ p \notin LapicPt /\ p \notin down /\ (p = BSP => pm.at = "on")
        /\ UNCHANGED <<smp_call_mask, infoVars, ran, missed, intrVars, pmVars>>
    BY Zenon DEF sos_calls, InCall
  <2> QED
    BY <2>1, <2>2, <2>3, Zenon
<1>4. PrepareInv'
  BY <1>2, <1>3 DEF PrepareInv, Prepared, OthersDone, Quiet, Given, intrVars, infoVars
<1>5. WaitInv' /\ HandlerInv'
  BY <1>3 DEF WaitInv, HandlerInv, Given, intrVars, infoVars
<1>6. OwnerInv'
  BY <1>3 DEF OwnerInv, Owner, Given, infoVars
<1>7. CallerInv'
  BY <1>3 DEF CallerInv, pmVars, APs
<1>8. TscInv'
  BY <1>3, Zenon DEF TscInv, PowerInv, pmVars
<1> QED
  BY <1>3, <1>4, <1>5, <1>6, <1>7, <1>8, Zenon

(* The boot pCPU, whose own calls save and restore the TSC of all pCPUs.   *)
LEMMA SuspendKeepsCalls ==
  ASSUME PcpuConstants, "kick" \notin Races, IInv, Suspend
  PROVE  CallInv'
<1> USE DEF IInv, CallInv, TypeOK, PcpuConstants, Claimed, Complete
<1>1. /\ call[BSP].at = "none" /\ call' \in [P -> Calls]
      /\ \A q \in P : q # BSP => call'[q] = call[q]
      /\ UNCHANGED <<smp_call_mask, infoVars, ran, missed, handler, tsc_suspend>>
  BY SuspendKeepsTypes, ZenonT(20) DEF Suspend, host_enter_s3, offline_lapic_pt_enabled_pcpus, stop_pcpus,
     wait_pcpus_offline, start_pcpus, pm_done, Power, InCall, smp_call_function, callVars,
     intrVars, pmVars
<1>2. (\E q \in P : call[q].at = "prepare") => ipi' \subseteq ipi
  BY Zenon DEF Suspend, host_enter_s3, offline_lapic_pt_enabled_pcpus, stop_pcpus, wait_pcpus_offline,
     start_pcpus, pm_done, MayKick, intrVars
<1>3. \/ call'[BSP] = call[BSP]
      \/ \E f \in Funcs \ {"none"} : call'[BSP] = [at |-> "claim", func |-> f,
                                                   todo |-> pcpu_active, target |-> pcpu_active]
  <2>1. CASE host_enter_s3
    BY <2>1, Zenon DEF host_enter_s3, smp_call_function, Funcs
  <2>2. CASE start_pcpus /\ pm.s3
    BY <2>2 DEF start_pcpus, smp_call_function, Funcs
  <2>3. CASE start_pcpus /\ ~pm.s3
    BY <2>3, Zenon DEF start_pcpus
  <2> QED
    BY <2>1, <2>2, <2>3, Zenon DEF Suspend, offline_lapic_pt_enabled_pcpus, stop_pcpus,
       wait_pcpus_offline, pm_done, callVars
<1>4. BSP \in pcpu_active
  BY Zenon DEF PowerInv, APs
<1>5. PrepareInv'
  <2>1. BSP \in call'[BSP].target \/ call'[BSP].at = "none"
    BY <1>1, <1>3, <1>4
  <2>2. /\ call'[BSP].at \in {"none", "claim"}
        /\ call'[BSP].at = "claim" => call'[BSP].func # "none" /\ call'[BSP].todo = call'[BSP].target
    BY <1>1, <1>3
  <2>3. (\E q \in P : call'[q].at = "prepare") /\ Quiet => Quiet'
    BY <1>1, <1>2, <2>2 DEF Quiet
  <2>4. ASSUME NEW q \in P, q # BSP PROVE Prepared(q)'
    <3>1. Prepared(q) /\ (OthersDone(q) => OthersDone(q)')
      BY <1>1, <2>2, <2>4, Zenon DEF PrepareInv, OthersDone
    <3> QED
      BY <1>1, <2>3, <2>4, <3>1, Zenon DEF Prepared, Given, infoVars
  <2>5. Prepared(BSP)'
    BY <2>1, <2>2, Zenon DEF Prepared
  <2> QED
    BY <2>4, <2>5, Zenon DEF PrepareInv
<1>6. WaitInv' /\ HandlerInv'
  BY <1>1, <1>3 DEF WaitInv, HandlerInv, Given, infoVars
<1>7. OwnerInv'
  BY <1>1, <1>3 DEF OwnerInv, Owner, Given, infoVars
<1>8. CallerInv' /\ TscInv'
  <2> USE DEF CallerInv, TscInv, PowerInv, Power, APs, callVars, intrVars, pmVars, bootVars
  <2>1. CASE host_enter_s3
    <3>1. /\ call'[BSP] = [at |-> "claim", func |-> "suspend_tsc",
                           todo |-> pcpu_active, target |-> pcpu_active]
          /\ pm.at = "on" /\ pm' = [at |-> "save", s3 |-> TRUE] /\ down' = APs
          /\ \A q \in APs : call[q].at = "none"
      BY <2>1, Zenon DEF host_enter_s3, smp_call_function
    <3>2. pcpu_active = P /\ tsc_suspend' = tsc_suspend
      BY <1>1, <3>1, Zenon
    <3>3. CallerInv'
      BY <1>1, <3>1, <3>2
    <3>4. TscInv'
      <4>1. pm'.s3 /\ pm'.at = "save" /\ call'[BSP].at = "claim"
        BY <3>1
      <4> QED
        BY <4>1, Zenon
    <3> QED
      BY <3>3, <3>4, Zenon
  <2>2. CASE offline_lapic_pt_enabled_pcpus
    BY <1>1, <2>2, Zenon DEF offline_lapic_pt_enabled_pcpus
  <2>3. CASE stop_pcpus
    BY <1>1, <2>3, Zenon DEF stop_pcpus
  <2>4. CASE wait_pcpus_offline
    BY <1>1, <2>4, Zenon DEF wait_pcpus_offline
  <2>5. CASE start_pcpus
    <3>1. CASE pm.s3
      <4>1. /\ call'[BSP] = [at |-> "claim", func |-> "resume_tsc",
                             todo |-> pcpu_active, target |-> pcpu_active]
            /\ pcpu_active = P /\ pm' = [at |-> "restore", s3 |-> TRUE] /\ down' = down
        BY <2>5, <3>1, Zenon DEF start_pcpus, smp_call_function
      <4> QED
        BY <1>1, <3>1, <4>1, SMTT(30)
    <3>2. CASE ~pm.s3
      BY <1>1, <2>5, <3>2, Zenon DEF start_pcpus
    <3> QED
      BY <3>1, <3>2, Zenon
  <2>6. CASE pm_done
    BY <1>1, <2>6, Zenon DEF pm_done
  <2> QED
    BY <2>1, <2>2, <2>3, <2>4, <2>5, <2>6, Zenon DEF Suspend
<1> QED
  BY <1>1, <1>5, <1>6, <1>7, <1>8, Zenon

-----------------------------------------------------------------------------
(* Of two unfinished calls one would have to own the mask of the other.    *)
LEMMA InvariantSuffices ==
  ASSUME PcpuConstants, IInv
  PROVE  PcpuInv
<1> USE DEF IInv, CallInv, TypeOK
<1>1. ASSUME NEW p \in P, NEW q \in P, Unfinished(p), Unfinished(q) PROVE p = q
  <2>1. CASE call[p].at = "prepare" \/ call[q].at = "prepare"
    BY <1>1, <2>1, Zenon DEF PrepareInv, Prepared, OthersDone, Unfinished, Claimed
  <2>2. CASE call[p].at = "wait" /\ call[q].at = "wait"
    <3>1. PICK t \in smp_call_mask, u \in smp_call_mask : Given(p, t) /\ Given(q, u)
      BY <1>1, <2>2, Zenon DEF WaitInv, Unfinished, Complete
    <3>2. PICK o \in P : Owner(o)
      BY <3>1, Zenon DEF OwnerInv
    <3>3. call[o].at = "wait"
      BY <1>1, <2>2, <3>2, Zenon DEF Owner, Claimed, PrepareInv, Prepared, OthersDone, Unfinished, Complete
    <3> QED
      BY <3>1, <3>2, <3>3, Zenon DEF Owner, Given
  <2> QED
    BY <1>1, <2>1, <2>2, Zenon DEF Unfinished, Claimed
<1>2. MaskOwned
  BY <1>1, Zenon DEF MaskOwned, OwnerInv, Owner
<1> QED
  BY <1>2, Zenon DEF PcpuInv, CallComplete, PowerInv, TscInv

LEMMA InvariantInit ==
  ASSUME PcpuConstants, PcpuInit
  PROVE  IInv
<1>1. TypeOK /\ PowerInv
  BY Zenon DEF PcpuInit, TypeOK, PowerInv, PcpuConstants, APs, NoCall, Calls, Funcs
<1>2. CallInv
  BY Zenon DEF PcpuInit, PcpuConstants, APs, NoCall, CallInv, PrepareInv, Prepared, OthersDone, WaitInv,
     OwnerInv, HandlerInv, CallerInv, TscInv
<1> QED
  BY <1>1, <1>2, Zenon DEF IInv

LEMMA InvariantKept ==
  ASSUME PcpuConstants, "kick" \notin Races, IInv, [PcpuNext]_pcpuvars
  PROVE  IInv'
<1>1. CASE UNCHANGED pcpuvars
  <2>1. /\ UNCHANGED <<cpu, pcpu_active, pcpu_sync, offline, smp_call_mask, smp_call_func,
                       smp_call_data, call>>
        /\ UNCHANGED <<ran, missed, ipi, handler, pm, down, tsc_suspend>>
    BY <1>1, Zenon DEF pcpuvars, bootVars, callVars, infoVars, intrVars, pmVars
  <2>2. TypeOK' /\ PowerInv'
    BY <2>1, Zenon DEF IInv, TypeOK, PowerInv
  <2>3. PrepareInv'
    <3>1. ASSUME NEW q \in P PROVE Prepared(q)'
      <4>1. Prepared(q)
        BY Zenon DEF IInv, CallInv, PrepareInv
      <4>2. (Quiet => Quiet') /\ (OthersDone(q) => OthersDone(q)')
        BY <2>1, CallFrame, Zenon DEF Quiet
      <4> QED
        BY <2>1, <4>1, <4>2, Zenon DEF Prepared, Given
    <3> QED
      BY <3>1, Zenon DEF PrepareInv
  <2>4. WaitInv' /\ OwnerInv' /\ HandlerInv' /\ CallerInv' /\ TscInv'
    BY <2>1, CallFrame, Zenon DEF IInv, CallInv
  <2> QED
    BY <2>1, <2>2, <2>3, <2>4, Zenon DEF IInv, CallInv
<1>2. CASE PcpuNext
  <2>1. TypeOK' /\ PowerInv'
    BY <1>2, CallKeepsTypes, NotifiedKeepsTypes, BootKeepsTypes, SuspendKeepsTypes, Zenon DEF PcpuNext, IInv
  <2>2. CallInv'
    BY <1>2, ClaimKeepsCalls, PrepareKeepsCalls, SendKeepsCalls, WaitKeepsCalls, NotifiedKeepsCalls,
       OthersKeepCalls, SosKeepsCalls, SuspendKeepsCalls, Zenon DEF PcpuNext, Call
  <2> QED
    BY <2>1, <2>2, Zenon DEF IInv
<1> QED
  BY <1>1, <1>2, Zenon

(* For any number of pCPUs and of callers: smp_call_mask has one owner,    *)
(* smp_call_function returns only when its function has run on every       *)
(* active pCPU of its mask (notify.c), and a suspend of the host stops and *)
(* starts the APs with the TSC of all of them saved (pm.c, cpu.c), unless  *)
(* a kick comes while a call is prepared.                                  *)
THEOREM PcpuInvariance ==
  ASSUME "kick" \notin Races
  PROVE  PcpuSpec => []PcpuInv
<1>1. PcpuInit => IInv
  BY PcpuAssumption, InvariantInit, Zenon
<1>2. IInv /\ [PcpuNext]_pcpuvars => IInv'
  BY PcpuAssumption, InvariantKept, Zenon
<1>3. IInv => PcpuInv
  BY PcpuAssumption, InvariantSuffices, Zenon
<1> QED
  BY <1>1, <1>2, <1>3, PTL DEF PcpuSpec

-----------------------------------------------------------------------------
(* The life managers.                                                      *)

(* What can be on the lines.  A request of the User VM is there only if the
   operator asked for it; what comes to the User VM is the command of the
   Service VM, if it sent one, an acknowledgement, if sos_socket_thread saw a
   request, or text that means nothing. *)
FromUos == {"acked", "other"} \union (IF asked THEN {"shutdown"} ELSE {})
FromSos == {"other"} \union (IF stopped THEN {"shutdown"} ELSE {})
                     \union (IF sos = "closed" THEN {"acked"} ELSE {})

LifeTyped ==
    /\ retry \in 0..TRY_SEND_CNT
    /\ shutdown_state \in {"REQ_WAITING", "ACK_WAITING", "REQ_FROM_SOS", "REQ_FROM_UOS"}
    /\ listener \in {"poll", "handle", "off"}
    /\ operator \in {"idle", "checked", "claimed", "sent"}
    /\ sos \in {"read", "closed"} /\ asked \in BOOLEAN /\ stopped \in BOOLEAN
    /\ offset \in 0..CMD_LEN - 1

LifeLines ==
    /\ toDm \in Seq(FromUos) /\ toSos \in Seq(FromUos)
    /\ toUos \in Seq(FromSos) /\ Len(toUos) <= Cap
    /\ buf \in FromSos \union {"none"}
    /\ toLink \in Seq({"acked"}) /\ (toLink # <<>> => sos = "closed")

(* Who may be where: the listener and the operator's thread share
   shutdown_state and retry without a lock. *)
LifeStates ==
    /\ operator = "checked" => shutdown_state \in {"REQ_WAITING", "REQ_FROM_SOS"}
    /\ operator \in {"claimed", "sent"} => shutdown_state = "REQ_FROM_UOS"
    /\ operator = "sent" \/ shutdown_state = "ACK_WAITING" => asked
    /\ sos = "closed" => asked
    /\ listener = "off" => stopped \/ sos = "closed"
    /\ shutdown_state # "ACK_WAITING" /\ listener # "off" => retry = TRY_SEND_CNT

LifeIInv == LifeTyped /\ LifeLines /\ LifeStates

LEMMA WiderSeq ==
  ASSUME NEW S, NEW T, S \subseteq T, NEW q \in Seq(S)
  PROVE  q \in Seq(T)
OBVIOUS

LEMMA NotEmpty ==
  ASSUME NEW S, NEW q \in Seq(S), Len(q) > 0
  PROVE  q # <<>>
OBVIOUS

LEMMA Appended ==
  ASSUME NEW S, NEW q \in Seq(S), NEW m \in S
  PROVE  Append(q, m) \in Seq(S) /\ Len(Append(q, m)) = Len(q) + 1
OBVIOUS

LEMMA Replaced ==
  ASSUME NEW S, NEW q \in Seq(S), q # <<>>, NEW m \in S
  PROVE  /\ [q EXCEPT ![1] = m] \in Seq(S)
         /\ Len([q EXCEPT ![1] = m]) = Len(q)
  OBVIOUS

LEMMA Spoilt ==
  ASSUME NEW S, NEW q \in Seq(S), q # <<>>, "other" \in S
  PROVE  Spoil(q) \in Seq(S) /\ Len(Spoil(q)) = Len(q) - 1
<1> DEFINE t == Tail(q)
<1>1. t \in Seq(S) /\ Len(t) = Len(q) - 1 /\ Len(q) \in Nat
  OBVIOUS
<1>2. Spoil(q) = IF Len(q) > 1 THEN [t EXCEPT ![1] = "other"] ELSE t
  BY Zenon DEF Spoil
<1> HIDE DEF t
<1>3. CASE Len(q) > 1
  <2>1. t # <<>>
    BY <1>1, <1>3, NotEmpty
  <2>2. /\ [t EXCEPT ![1] = "other"] \in Seq(S)
        /\ Len([t EXCEPT ![1] = "other"]) = Len(t)
    BY <1>1, <2>1, Replaced, Zenon
  <2> QED
    BY <1>1, <1>2, <1>3, <2>2, Zenon
<1>4. CASE ~(Len(q) > 1)
  BY <1>1, <1>2, <1>4, Zenon
<1> QED
  BY <1>3, <1>4, Zenon

(* The operator's thread. *)
LEMMA OperatorKeeps ==
  ASSUME LifeIInv, op_request \/ Operator
  PROVE  LifeIInv'
<1> USE LifeMngrAssumption DEF LifeIInv, uos, lines, socket, Requested
<1>1. CASE op_request
  <2>1. FromUos' = FromUos /\ FromSos' = FromSos
    BY <1>1, Zenon DEF op_request, FromUos, FromSos
  <2>2. LifeLines'
    BY <1>1, <2>1, Zenon DEF op_request, LifeLines
  <2>3. LifeTyped' /\ LifeStates'
    BY <1>1, Zenon DEF op_request, LifeTyped, LifeStates
  <2> QED
    BY <2>2, <2>3, Zenon
<1>2. CASE op_claim
  <2>1. FromUos' = FromUos /\ FromSos' = FromSos
    BY <1>2, Zenon DEF op_claim, FromUos, FromSos
  <2>2. LifeLines'
    BY <1>2, <2>1, Zenon DEF op_claim, LifeLines
  <2>3. LifeTyped' /\ LifeStates'
    BY <1>2, Zenon DEF op_claim, LifeTyped, LifeStates
  <2> QED
    BY <2>2, <2>3, Zenon
<1>3. CASE op_send
  <2>1. FromUos \subseteq FromUos' /\ FromSos' = FromSos
    BY <1>3, Zenon DEF op_send, FromUos, FromSos, LifeTyped
  <2>2. toDm \in Seq(FromUos') /\ toSos' \in Seq(FromUos')
    BY <1>3, <2>1, WiderSeq, Zenon DEF op_send, LifeLines
  <2>3. toDm' \in Seq(FromUos')
    BY <1>3, <2>2 DEF op_send, FromUos
  <2>4. LifeLines'
    BY <1>3, <2>1, <2>2, <2>3, Zenon DEF op_send, LifeLines
  <2>5. LifeTyped' /\ LifeStates'
    BY <1>3, Zenon DEF op_send, LifeTyped, LifeStates
  <2> QED
    BY <2>4, <2>5, Zenon
<1>4. CASE op_wait
  <2>1. FromUos' = FromUos /\ FromSos' = FromSos
    BY <1>4, Zenon DEF op_wait, FromUos, FromSos
  <2>2. LifeLines'
    BY <1>4, <2>1, Zenon DEF op_wait, LifeLines
  <2>3. LifeTyped' /\ LifeStates'
    BY <1>4, Zenon DEF op_wait, LifeTyped, LifeStates
  <2> QED
    BY <2>2, <2>3, Zenon
<1> QED
  BY <1>1, <1>2, <1>3, <1>4, Zenon DEF Operator

(* listener_fn_to_sos. *)
LEMMA ListenerKeeps ==
  ASSUME LifeIInv, Listener
  PROVE  LifeIInv'
<1> USE LifeMngrAssumption DEF LifeIInv, uos, lines, socket, Handle
<1>1. FromUos' = FromUos /\ FromSos' = FromSos /\ {"acked", "other"} \subseteq FromUos /\ "other" \in FromSos
  BY DEF Listener, receive_message, obey, acknowledged, resend, ignore, FromUos, FromSos
<1>2. CASE receive_message
  <2>1. CASE toUos = <<>>
    <3>1. LifeLines'
      BY <1>1, <1>2, <2>1, Zenon DEF receive_message, LifeLines
    <3> QED
      BY <1>2, <2>1, <3>1, Zenon DEF receive_message, LifeTyped, LifeStates
  <2>2. CASE toUos # <<>>
    <3>1. Head(toUos) \in FromSos /\ Tail(toUos) \in Seq(FromSos) /\ Len(Tail(toUos)) = Len(toUos) - 1
      BY <2>2 DEF LifeLines
    <3>2. Spoil(toUos) \in Seq(FromSos) /\ Len(Spoil(toUos)) = Len(toUos) - 1
      BY <1>1, <2>2, Spoilt, Zenon DEF LifeLines
    <3>3. toUos' \in Seq(FromSos') /\ Len(toUos') = Len(toUos) - 1 /\ buf' = Head(toUos)
      BY <1>1, <1>2, <2>2, <3>1, <3>2, Zenon DEF receive_message
    <3>4. LifeLines'
      BY <1>1, <1>2, <3>1, <3>3 DEF receive_message, LifeLines
    <3> QED
      BY <1>2, <3>4, Zenon DEF receive_message, LifeTyped, LifeStates
  <2> QED
    BY <2>1, <2>2, Zenon
<1>3. CASE obey
  <2>0. toDm \in Seq(FromUos) /\ Append(toDm, "acked") \in Seq(FromUos)
    BY <1>1, Appended, Zenon DEF LifeLines
  <2>1. toDm' \in Seq(FromUos')
    BY <1>1, <1>3, <2>0, Zenon DEF obey
  <2>2. LifeLines'
    BY <1>1, <1>3, <2>1, Zenon DEF obey, LifeLines
  <2>3. stopped
    BY <1>3, Zenon DEF obey, LifeLines, FromSos
  <2> QED
    BY <1>3, <2>2, <2>3, Zenon DEF obey, LifeTyped, LifeStates
<1>4. CASE acknowledged
  <2>1. LifeLines'
    BY <1>1, <1>4, Zenon DEF acknowledged, LifeLines
  <2>2. sos = "closed"
    BY <1>4, Zenon DEF acknowledged, LifeLines, FromSos
  <2> QED
    BY <1>4, <2>1, <2>2, Zenon DEF acknowledged, LifeTyped, LifeStates
<1>5. CASE resend
  <2>1. asked /\ "shutdown" \in FromUos
    BY <1>5, Zenon DEF resend, LifeStates, FromUos
  <2>0. toDm \in Seq(FromUos) /\ Append(toDm, "shutdown") \in Seq(FromUos)
    BY <2>1, Appended, Zenon DEF LifeLines
  <2>2. toDm' \in Seq(FromUos')
    <3>1. toDm' = toDm \/ toDm' = Append(toDm, "shutdown")
      BY <1>5, Zenon DEF resend
    <3> QED
      BY <1>1, <2>0, <3>1, Zenon
  <2>3. LifeLines'
    BY <1>1, <1>5, <2>2, Zenon DEF resend, LifeLines
  <2>4. LifeTyped'
    BY <1>5 DEF resend, LifeTyped
  <2>5. LifeStates'
    BY <1>5, Zenon DEF resend, LifeTyped, LifeStates
  <2> QED
    BY <2>3, <2>4, <2>5, Zenon
<1>6. CASE ignore
  <2>1. LifeLines'
    BY <1>1, <1>6, Zenon DEF ignore, LifeLines
  <2> QED
    BY <1>6, <2>1, Zenon DEF ignore, LifeTyped, LifeStates
<1> QED
  BY <1>2, <1>3, <1>4, <1>5, <1>6, Zenon DEF Listener

(* The device model, the Service VM and the lines. *)
LEMMA OthersKeep ==
  ASSUME LifeIInv, Monitor \/ vm_stop_handler \/ sos_socket_thread \/ lose_to_dm \/ lose_to_uos
  PROVE  LifeIInv'
<1> USE LifeMngrAssumption DEF LifeIInv, uos, lines, socket
<1>1. "other" \in FromUos /\ "other" \in FromSos
  BY Zenon DEF FromUos, FromSos
<1>2. CASE forward_to_sos
  <2>1. FromUos' = FromUos /\ FromSos' = FromSos
    BY <1>2, Zenon DEF forward_to_sos, FromUos, FromSos
  <2>2. toDm' \in Seq(FromUos)
    BY <1>1, <1>2, Spoilt, Zenon DEF forward_to_sos, LifeLines
  <2>3. toSos' \in Seq(FromUos)
    BY <1>2 DEF forward_to_sos, LifeLines
  <2>4. LifeLines'
    BY <1>2, <2>1, <2>2, <2>3, Zenon DEF forward_to_sos, LifeLines
  <2> QED
    BY <1>2, <2>4, Zenon DEF forward_to_sos, LifeTyped, LifeStates
<1>3. CASE forward_to_uos
  <2>1. FromUos' = FromUos /\ FromSos' = FromSos
    BY <1>3, Zenon DEF forward_to_uos, FromUos, FromSos
  <2>2. toLink # <<>> => Head(toLink) \in FromSos /\ Tail(toLink) \in Seq({"acked"})
    BY DEF LifeLines, FromSos
  <2>3. toLink' \in Seq({"acked"}) /\ (toLink' # <<>> => sos = "closed")
    BY <1>3, <2>2, Zenon DEF forward_to_uos, LifeLines
  <2>4. toUos' \in Seq(FromSos) /\ Len(toUos') <= Cap
    BY <1>1, <1>3, <2>2 DEF forward_to_uos, LifeLines
  <2>5. LifeLines'
    BY <1>3, <2>1, <2>3, <2>4, Zenon DEF forward_to_uos, LifeLines
  <2> QED
    BY <1>3, <2>5, Zenon DEF forward_to_uos, LifeTyped, LifeStates
<1>4. CASE vm_stop_handler
  <2>1. FromUos' = FromUos /\ FromSos \subseteq FromSos' /\ "shutdown" \in FromSos'
    BY <1>4, Zenon DEF vm_stop_handler, FromUos, FromSos, LifeTyped
  <2>2. toUos \in Seq(FromSos')
    BY <2>1, WiderSeq, Zenon DEF LifeLines
  <2>3. toUos' \in Seq(FromSos') /\ Len(toUos') <= Cap
    BY <1>4, <2>1, <2>2 DEF vm_stop_handler
  <2>4. LifeLines'
    BY <1>4, <2>1, <2>3, Zenon DEF vm_stop_handler, LifeLines
  <2> QED
    BY <1>4, <2>4, Zenon DEF vm_stop_handler, LifeTyped, LifeStates
<1>5. CASE sos_socket_thread
  <2>1. FromUos' = FromUos /\ FromSos \subseteq FromSos'
    BY <1>5, Zenon DEF sos_socket_thread, FromUos, FromSos, LifeTyped
  <2>2. toUos' \in Seq(FromSos') /\ toDm' \in Seq(FromUos') /\ toUos' = toUos /\ buf' \in FromSos' \union {"none"}
    BY <1>5, <2>1, WiderSeq, Zenon DEF sos_socket_thread, LifeLines
  <2>3. CASE offset = 0 /\ Head(toSos) = "shutdown"
    <3>1. asked
      BY <1>5, <2>3 DEF sos_socket_thread, LifeLines, FromUos
    <3>2. LifeLines'
      BY <1>5, <2>1, <2>2, <2>3 DEF sos_socket_thread, LifeLines
    <3> QED
      BY <1>5, <2>3, <3>1, <3>2, Zenon DEF sos_socket_thread, LifeTyped, LifeStates
  <2>4. CASE ~(offset = 0 /\ Head(toSos) = "shutdown")
    <3> DEFINE piece == IF CMD_LEN * Len(toSos) - offset < READ_LEN
                        THEN CMD_LEN * Len(toSos) - offset ELSE READ_LEN
    <3>0. /\ offset' = (offset + piece) % CMD_LEN
          /\ toSos' = IF offset + piece < CMD_LEN THEN toSos ELSE Tail(toSos)
          /\ UNCHANGED <<toLink, sos>>
      BY <1>5, <2>4, Zenon DEF sos_socket_thread
    <3>6. toSos \in Seq(FromUos) /\ toSos # <<>> /\ Tail(toSos) \in Seq(FromUos)
      BY <1>5 DEF LifeLines, sos_socket_thread
    <3>1. toSos' \in Seq(FromUos) /\ UNCHANGED <<toLink, sos>>
      BY <3>0, <3>6, Zenon
    <3>2. LifeLines'
      BY <1>5, <2>1, <2>2, <3>1, Zenon DEF sos_socket_thread, LifeLines
    <3>3. Len(toSos) \in Nat
      BY DEF LifeLines
    <3>4. offset \in Int /\ piece \in Int
      BY <3>3 DEF LifeTyped, CMD_LEN, READ_LEN
    <3> HIDE DEF piece
    <3>5. offset' \in 0..CMD_LEN - 1
      BY <3>0, <3>4 DEF CMD_LEN
    <3> QED
      BY <1>5, <3>1, <3>2, <3>5, Zenon DEF sos_socket_thread, LifeTyped, LifeStates
  <2> QED
    BY <2>3, <2>4, Zenon
<1>6. CASE lose_to_dm
  <2>1. FromUos' = FromUos /\ FromSos' = FromSos
    BY <1>6, Zenon DEF lose_to_dm, FromUos, FromSos
  <2>2. toDm' \in Seq(FromUos)
    BY <1>1, <1>6, Replaced, Zenon DEF lose_to_dm, LifeLines
  <2>3. LifeLines'
    BY <1>6, <2>1, <2>2, Zenon DEF lose_to_dm, LifeLines
  <2> QED
    BY <1>6, <2>3, Zenon DEF lose_to_dm, LifeTyped, LifeStates
<1>7. CASE lose_to_uos
  <2>1. FromUos' = FromUos /\ FromSos' = FromSos
    BY <1>7, Zenon DEF lose_to_uos, FromUos, FromSos
  <2>2. toUos' \in Seq(FromSos) /\ Len(toUos') = Len(toUos)
    BY <1>1, <1>7, Replaced, Zenon DEF lose_to_uos, LifeLines
  <2>3. LifeLines'
    BY <1>7, <2>1, <2>2, Zenon DEF lose_to_uos, LifeLines
  <2> QED
    BY <1>7, <2>3, Zenon DEF lose_to_uos, LifeTyped, LifeStates
<1> QED
  BY <1>2, <1>3, <1>4, <1>5, <1>6, <1>7, Zenon DEF Monitor

(* A User VM powers off only on the command of the Service VM or on its
   acknowledgement, the Service VM triggers its shutdown only on a request that
   the operator made (life_mngr.c), and each request has all of its attempts:
   whatever the lines of the UART lose, however the messages are cut by reads of
   another length (pm_vuart.c), for any number of requests and losses. *)
THEOREM LifeMngrInvariance == S5Spec => []LifeMngrInv
<1>1. S5Init => LifeIInv
  <2> SUFFICES ASSUME S5Init PROVE LifeIInv
    OBVIOUS
  <2>0. 0 \in 0..CMD_LEN - 1 /\ TRY_SEND_CNT \in 0..TRY_SEND_CNT
    BY LifeMngrAssumption DEF CMD_LEN
  <2>1. LifeTyped /\ LifeStates
    BY <2>0, Zenon DEF S5Init, LifeTyped, LifeStates
  <2>2. LifeLines
    BY LifeMngrAssumption DEF S5Init, LifeLines
  <2> QED
    BY <2>1, <2>2, Zenon DEF LifeIInv
<1>2. LifeIInv /\ [S5Next]_lifevars => LifeIInv'
  <2> SUFFICES ASSUME LifeIInv, [S5Next]_lifevars PROVE LifeIInv'
    OBVIOUS
  <2>1. CASE UNCHANGED lifevars
    BY <2>1 DEF lifevars, uos, lines, socket, LifeIInv, LifeTyped, LifeLines, LifeStates, FromUos, FromSos
  <2>2. CASE S5Next
    BY <2>2, OperatorKeeps, ListenerKeeps, OthersKeep, Zenon DEF S5Next
  <2> QED
    BY <2>1, <2>2, Zenon
<1>3. LifeIInv => LifeMngrInv
  BY Zenon DEF LifeIInv, LifeTyped, LifeLines, LifeStates, LifeMngrInv
<1> QED
  BY <1>1, <1>2, <1>3, PTL DEF S5Spec
=============================================================================
