------------------------------- MODULE MCIoReq ------------------------------
(***************************************************************************)
(* A VM with a BSP and an AP, each on a pCPU of its own.  The workload     *)
(* tells whether its life alone is of interest, under a toolstack that     *)
(* calls what it likes, or the I/O requests of its vCPUs under the Device  *)
(* Model.                                                                  *)
(***************************************************************************)
EXTENDS IoReq

MCPcpu == {"pcpu0", "pcpu1"}

MCThread == {"idle0", "idle1", "bsp", "ap1"}

MCpcpu_id == [t \in MCThread |->
                IF t \in {"idle0", "bsp"} THEN "pcpu0" ELSE "pcpu1"]

MCidle == [p \in MCPcpu |-> IF p = "pcpu0" THEN "idle0" ELSE "idle1"]

MCvcpu_id == [t \in {"bsp", "ap1"} |-> IF t = "bsp" THEN 0 ELSE 1]

(* A VM of the Device Model that is reset over and over ... *)
Resetting(ops) ==
    [GuestOps |-> ops, Hypercalls |-> {"reset"}, Interrupted |-> {"RUNNING"},
     is_polling_ioreq |-> FALSE, Client |-> {"dm"}, Resets |-> TRUE,
     InitsBusyVcpu |-> FALSE]

(* ... with an AP or without, and a polling VM with a kernel client too. *)
MCWorkloads ==
    {Resetting({"INIT", "SIPI"}), Resetting({}),
     [GuestOps |-> {"INIT", "SIPI"}, Hypercalls |-> {"reset"},
      Interrupted |-> {"RUNNING"}, is_polling_ioreq |-> TRUE,
      Client |-> {"dm", "kernel"}, Resets |-> FALSE, InitsBusyVcpu |-> FALSE]}

(* No I/O: every hypercall on a VM whose vCPUs send INIT and SIPI, and a VM
   whose vCPUs also stop on fatal errors, until it is destroyed. *)
NoIo(ops, calls) ==
    [GuestOps |-> ops, Hypercalls |-> calls, Interrupted |-> {"RUNNING"},
     is_polling_ioreq |-> FALSE, Client |-> {}, Resets |-> FALSE, InitsBusyVcpu |-> FALSE]

MCAllWorkloads ==
    MCWorkloads \cup {NoIo({"INIT", "SIPI"}, {"reset", "destroy", "create"}),
                     NoIo({"INIT", "SIPI", "FATAL"}, {"destroy"})}

(* The BSP starts the AP while the toolstack pauses the VM; no interrupts. *)
MCStartingAp == {[NoIo({"SIPI"}, {}) EXCEPT !.Interrupted = {}]}

(* One vCPU that waits for its requests, and no resets. *)
MCWaiting == {[Resetting({}) EXCEPT !.Resets = FALSE]}

-----------------------------------------------------------------------------
Life(A) == Client = {} /\ A /\ UNCHANGED io_vars

Io(A) == Client # {} /\ A

VmNext == Life(LifeNext) \/ Io(IoNext)

(* The fairness of VmLifecycle and of IoReq. *)
VmSpec ==
    /\ IoInit /\ [][VmNext]_io_everything
    /\ \A p \in Pcpu :
        /\ WF_io_everything(Life(life_boot(p)) \/ Io(io_boot(p)))
        /\ WF_io_everything(Life(life_switch(p)) \/ Io(io_switch(p)))
    /\ \A t \in VcpuThread :
        /\ SF_io_everything(Life(vcpu_step(t)))
        /\ WF_io_everything(Life(pause_vcpu(t)) \/ Io(emulate_io(t)))
        /\ WF_io_everything(Io(io_enter(t)))
        /\ WF_io_everything(Io(\E c \in Client : claim(t, c)))
        /\ WF_io_everything(Io(answer(t)))
        /\ WF_io_everything(Io(hcall_notify_ioreq_finish(t)))
    /\ WF_io_everything(Life(pause_end) \/ Io(vm_system_reset))
    /\ WF_io_everything(Life(sync_done) \/ Io(io_sync_done))

(* Nothing but a vCPU that spins for vm_lock keeps pause_vm from ending. *)
PauseReturnsOrSpins ==
    (Client = {} /\ hcall = "pause")
        ~> (hcall = "none" \/ \E t \in VcpuThread : SpinsForPause(t))
=============================================================================
