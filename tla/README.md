# A verification project for the ACRN hypervisor

TLA+ models of the parts of ACRN where several actors meet: the scheduler and
its events, the life cycle of a VM, I/O requests, interrupts, pCPUs that go down
and come back, device assignment, page tables, the devices of the device model
and the services around it. TLC checks them on small instances. TLAPS proves, for
every value of the constants, the safety properties of the scheduler, of events, of
HLT, of the VM life cycle, of I/O requests, of event injection, of physical and of
passed-through interrupts, of the virtual PIC, of device assignment, of the calls
between pCPUs, of the event loop of the device model and of the shutdown handshake.
`PROJECT.json` lists the components, the runs, the mutants
that show each property can fail, the source lines of every definition, the
findings, the hazards and the theorems.

    tlc -workers 2 -config MCIoReq.cfg MCIoReq       # one run
    tlapm IoReqProofs.tla                            # the proofs of a module

## 1. The system

ACRN is a type-1 hypervisor (`hypervisor/`). A Service VM (SOS) runs one device
model process, acrn-dm (`devicemodel/`), per post-launched VM; the kernel driver
VHM, which is not in this repository, connects the two. Tools (`misc/`) of the
Service VM and of the User VMs arrange shutdown and read the logs.

| Part | Module | State and operations | What makes it hard |
|---|---|---|---|
| Scheduling framework, `common/schedule.c` | `SchedThread`, `Schedule` | status, `be_blocking`, NEED_RESCHEDULE, `curr_obj`; `schedule`, `sleep_thread(_sync)`, `wake_thread`, `yield_current`, `run_thread` | sleeps and wakes from other pCPUs against a thread that runs |
| Policies, `sched_{noop,iorr,bvt}.c` | `SchedNoop`, `SchedIorr`, `SchedBvt` | run queue, slices, virtual times; tick, `pick_next`, `sleep`, `wake` | time charged late; woken threads overtake |
| Events, `common/event.c` | `Event` | `set`, `waiting_thread`; `wait_event`, `signal_event`, `reset_event` | the lock is dropped around `schedule()` |
| VM life cycle, `vm.c`, `vcpu.c`, `hypercall.c`, `hv_main.c` | `VmLifecycle` | VM and vCPU state, `nr_sipi`, `vm_lock`; create, start, pause, reset, destroy, INIT, SIPI, fatal errors | a pause waits under a spinlock for threads that take that lock |
| I/O requests, `dm/io_req.c`, `devicemodel/core/main.c` | `IoReq` | one slot per vCPU in a shared page; insertion, completion, `vm_system_reset` | two machines share memory; a reset comes in mid-request |
| HLT and signals, `virq.c`, `vlapic.c`, `notify.c` | `VirtualIntr` | the test for a pending interrupt, the wait, the senders | the two orders of request and signal |
| Injection, `virq.c`, `vlapic.c`, `vmexit.c` | `Vlapic`, `Virq` | `pending_req`, IRR, ISR, TPR, window; injection, EOI | requests come in two steps; deliveries are interrupted |
| Timers, `arch/x86/timer.c`, `softirq.c`, vLAPIC timer | `Timer` | the list, the TSC deadline, the softirq | a list that is served in bounded passes |
| pCPUs, `notify.c`, `cpu.c`, `pm.c` | `Pcpu` | `smp_call_mask`, active mask, `pcpu_sync`, offline requests; calls, kicks, suspend | a mask and a vector shared by all callers |
| vPCI assignment, `vpci.c`, `passthrough.c` | `Vpci` | vdevs, `user`, IOMMU domain | a wrong order panics the host |
| I/O handlers, `io_req.c`, `pci_pt.c`, `vsriov.c` | `IoHandlers` | handler tables, BARs, EPT | handlers run while others are moved |
| vPIC; vIOAPIC and INTx passthrough | `Vpic`, `PtIntx` | two chips with rotating priorities; line, softirq, delay timer, remote IRR | a level interrupt that must come back after masking and remapping |
| EPT, `pagetable.c`, `ept.c` | `Ept` | four levels with large pages; add, modify, delete, flush | the hardware walks while entries are written |
| vUART, `vuart.c`, console | `Vuart` | FIFOs, interrupt conditions, connection | two guests look at each other's FIFO without a lock |
| Physical interrupts, `irq.c`, `ptdev.c` | `Irq` | numbers, vectors, handlers | requests that fail half way; removal against interrupts |
| Log, `logmsg.c`, `sbuf.c`, `acrnlog.c` | `Hvlog` | a ring per pCPU without a lock, its reader | overflow; merging by sequence number |
| Virtio, `virtio.c`, `virtio_net.c`, `virtio_block.c` | `VirtQueue`, `VirtioNet`, `VirtioBlk` | rings with wrapping indices; threads; reset | a reset against threads that hold chains |
| Block backend and AHCI, `block_if.c`, `ahci.c` | `BlockIf`, `AhciPort` | request queues, threads, cancel; commands of a port | stop and reset against requests in flight |
| Event loop, `mevent.c` | `Mevent` | events, epoll set, deletion list | deletions from other threads in the middle of a batch |
| Life managers, `life_mngr.c`, `pm_vuart.c` | `LifeMngr` | the shutdown handshake over a serial line | records get lost and repeated |
| IOC mediator, `ioc.c`, `ioc_cbc.c` | `Ioc` | states, three threads, a pool of requests | guest, I/O controller and VM manager want different things |

The definitions stand for some 10,000 source lines, about 7 % of the C code of
the repository (143,000 lines). It is a model of what runs concurrently, not of
ACRN as a whole. What is not modelled, with the reason for each part, is in
`PROJECT.json`: ICR decoding, MSI remapping, the secure world, instruction and
register emulation, guest power management registers, loading, boot, debugging,
hardware programming, the other devices of the device model and the VM manager.
They are sequential transformations of data, hardware access, or repetitions of a
protocol that is modelled.

## 2. Modules

    SchedThread <- Schedule <- Event <- VmLifecycle <- IoReq <- MCIoReq
                                     <- VirtualIntr, with Mevent, LifeMngr <- MCSignals
    SchedThread <- SchedNoop, SchedIorr, SchedBvt, with Pcpu <- MCSched  (each policy refines Schedule)
    Vlapic <- Virq, with Irq <- MCVirq
    Timer, Vpci, IoHandlers, Hvlog <- MCPlatform
    Vpic, PtIntx <- MCInterrupts
    Ept, Vuart, Ioc <- MCResources
    VirtQueue <- VirtioNet, VirtioBlk;  BlockIf <- VirtioBlk, AhciPort;  all <- MCDevices

    VmLifecycle <- VmLifecycleProofs <- IoClientProofs (IoReq) <- IoReqProofs (VirtualIntr)
    Virq <- VirqProofs;  Irq <- IrqProofs;  PtIntx, Vpic <- InterruptProofs
    Vpci, Mevent <- DeviceProofs;  Pcpu, LifeMngr <- PowerProofs

The granularity of each module is the one of the code's locks. A step is what one
holder of a lock does, and a function is split where it drops the lock, waits, or
where another actor sees what it has written so far.

* `SchedThread` holds what the framework does to thread objects and to the
  control block of a pCPU; all of it runs under `scheduler_lock`, so one call is
  one step. `Schedule` adds an abstract policy: a set of ready threads per pCPU,
  of which `pick_next` may take any. It is the promise that the policies are held
  to: `SchedNoop`, `SchedIorr` and `SchedBvt` implement it by a mapping from their
  queue to the set. Time is the number of cycles a step finds to have passed
  (IORR) or a clock (BVT, with the equal weights that the code has).
* `Event` is `event.c`. `wait_event` is split where it drops its lock: `wait_pc`
  is "asleep" between `sleep_thread` and `schedule()`, "relock" behind it.
* `VmLifecycle` has one post-launched VM and its toolstack. Hypercalls are one
  step each, except pause, which waits vCPU by vCPU. `vm_pc` says where a vCPU
  thread is with the lock; while it spins, or holds the lock and waits for
  another thread, it does not come to `schedule()`.
* `IoReq` adds the request slots, the clients and the device model's reset path.
  VHM (`claim`, `vm_clear_ioreq`) is external, modelled from how acrn-dm and the
  hypervisor use it.
* `VirtualIntr` is a halting vCPU against the orders in which senders make an
  interrupt pending and signal: `vcpu_inject_extint` and `_nmi` request first,
  `vlapic_accept_intr` signals first, the posted-interrupt handler does both. `late`
  notes a signal in the window of `wait_event` (section 6); no step reads it.
* `Virq` is the loop of one vCPU around `Vlapic`. `acrn_handle_pending_request` is
  two steps, as requests of other pCPUs may come between its injection and its
  test for the window.
* `Timer` runs the list, `timer_softirq` with its limit of `MAX_TIMER_ACTIONS` and
  the timer of a guest on it; `Pcpu` has any number of callers of
  `smp_call_function` with the steps of claim, preparation and wait, and the boot
  processor that takes the others down and up. Kicks use the same vector.
* `Vpci` has one acrn-dm per VM in the order of its boot, reset, suspend and
  power-off paths; a deassignment is two steps, as the code drops the lock before
  it hands the device back. `IoHandlers` moves the MSI-X handler of a device step
  by step as the locks are taken and released.
* `Ept` performs every write of an entry as a step of its own, with a vCPU that
  walks the levels and caches what it finds. `Irq` has the tables of `irq.c` under
  threads that request and free, and devices that interrupt.
* `VirtQueue` and `BlockIf` are shared by the devices that use them. The drivers
  of the guest and the host's files and network are external.

Operators marked "Mutant" in their comment are wrong versions of the definition
that follows; no specification uses them.

### Workloads, races, and runs with several parts

`VmLifecycle`, `IoReq` and `Virq` take a set `Workloads` of records that say what
the guest, the toolstack and the devices do. A variable `workload` is chosen at
the start and never changes, so that one run covers several environments and a
property that needs something of its environment says so in its own formula
(`ParkedStay`, `NoneStops`, ...). Other modules have a set of races: steps the
code allows, but that break a promise; `races` is a variable where the property
is conditional on it, and a constant where the module is checked without them.
Section 5 says what each of them does.

All runs but `vm` check several specifications that share no state in the code. A
variable (`policy`, `part`, `dev`) chooses one at the start, and an action of a part
leaves the variables of the others as they are, so a behaviour belongs to one part
throughout, with its next-state relation, its fairness and its properties, and the
state count is a sum, not a product. The invariants of the parts are those of their
modules. The invariants of `Ept`, `VirtioBlk` and `AhciPort` are asked of behaviours of
their part only (`MemoryInv`, `DiskInv`, `PortInv`). In a liveness property each
part stands with what it waits for.

## 3. Runs

| Run | Distinct states | Properties | What it shows |
|---|---|---|---|
| `sched` | 105,499 | `PolicyInv`, `PreemptsInTime`, `PcpuInv`, `PoliciesImplementSchedule`, `NoStarvation` | the policies refine `Schedule`; queues are sorted and without duplicates; a thread whose time is up has a reschedule request, also when `schedule()` is late; nobody starves once wake-ups stop. `Pcpu`: a call that returns has run everywhere; calls and suspends return |
| `signals` | 66,105 | `EventInv`, `VirtualIntrInv`, `MeventInv`, `LifeMngrInv`, `RepeatedSignalsWake`, `KeepsWaking`, `SignalsAnswered` | status, queues, requests and waiters agree; the assertion of `wait_event` holds; HLT sleeps over an interrupt only in the ways of section 5: a signal between `sleep_thread` and `schedule()`, or one ahead of its request; signals that keep coming wake. The event loop uses no event after it was freed and tears deleted ones down; who may power off, and that who was asked does |
| `vm` | 34,835 | `LifeInv`, `PausedIsQuiet`, `IoInv`, `Answered`, `NoNewIoreqAfterPause`, `PolledRequestResumes`, `ResetReruns`, `PauseReturnsOrSpins` | a parked vCPU is blocked and a launched one runs; a paused VM is quiet; slots are free and answered across resets; a polled completion is not missed; a reset VM reruns; `pause_vm` ends unless the vCPU it waits for spins for its lock |
| `virq` | 747,706 | `VirqInv`, `NotForgotten`, `InServiceReaches`, `IrqInv` | in-service order; valid exceptions; no deliverable interrupt is forgotten; what is in service reaches the guest. The tables of physical interrupts agree whatever fails half way |
| `platform` | 246,050 | `TimerInv`, `VpciInv`, `IoHandlersInv`, `HvlogInv`, `Progress` | something always looks at the head of the timer list in time; no IOMMU panic and DMA follows the user; handlers, BARs and EPT agree; log messages are whole, in order, once, and gaps are announced; what was begun ends |
| `interrupts` | 182,214 | `VpicInv`, `PtIntxInv`, `ReachesGuest` | a deliverable pin is announced and served; a physical pin that was masked is unmasked again; an asserted level reaches its guest |
| `devices` | 219,849 | `NetInv`, `DiskInv`, `PortInv`, `RequestServed` | every chain and request is in one place; no thread serves a ring after its reset or holds chains of it; a stopped port has nothing in flight and a reason for an interrupt is never left without one; requests are served |
| `resources` | 288,353 | `MemoryInv`, `VuartInv`, `IocInv`, `Served` | at every single write a page is mapped as before or as meant, and the TLB is never stale for good; no character or edge of a UART is lost; the mediator loses no request, its state agrees with its channels, and it lets a guest go down |
| `pause_deadlock`, `lost_wakeup`, `tx_stop`, `smp_call` | violation | `PauseReturns`, `CompletedRequestResumes`, `StopReturns`, `CallComplete` | section 6 |

A name that ends in `Inv` is a module's type invariant joined with its structural
invariants. "What waits is served" is stated as `[]<>~W`, which says the same as
`W ~> ~W` and costs TLC much less; where the work of a part is bounded, one formula
says it of all its threads, timers or lines at once, which is stronger. Each property has at least one mutant in `PROJECT.json` under which
TLC finds it violated; for a joined invariant this shows that the conjunction can
fail, not each of its conjuncts.

**Bounds.** They are in the cfg files and MC modules, and named.
Two vCPU threads on one pCPU meet every interleaving of schedule, sleep and wake;
a third makes queue positions matter. A BSP and an AP suffice for INIT and SIPI in
both directions (the proofs cover more). IORR has slices of two units and overruns
of up to three, so that a replenishment can be too small; BVT two clock units per
MCU, so that remainders exist, and virtual time up to twice the allowance. Vectors
48 and 49 share a priority class and 64 is above. There are two timers, of which a
pass of `timer_softirq` runs one, so that one is left over. Three pCPUs are two that
race for the mask and a third, with a passed-through LAPIC, that is a target. Three VMs contend
for three devices with two slots each. Rings have two chains and indices that wrap
at 4; the backend has two threads and the port two slots; where
the port shares its MSI it has NCQ, so that commands end while the driver handles an interrupt. The vPIC chips have three
pins each, the cascade among them, so that a rotation changes who comes first. The EPT has
two entries per table, four levels and two callers, and two probes, in different
large pages. A FIFO is one character longer than the margin that `fifo_isfull`
keeps, and the margin is four bursts, as in the code. Interrupt numbers and vectors are fewer than the devices that ask for them.
A log ring holds two elements, so that messages overflow it. Lost records of the
life managers are as many as the attempts allow (`MaxLost` = `TRY_SEND_CNT`).
Larger instances were checked once: `IoReq` with its inductive invariant under wider
workloads (fatal errors; a polling VM that is reset; every source of wake-ups:
21,122,549 states), `Irq` with five devices (1,605,277) and with two CPUs (1,484,844).

**Deadlock** is checked in `sched`, `signals`, `virq`, `devices` and `smp_call`. In the
others the system may stop: a VM is powered off, a bounded number of calls,
deadlines or characters is used up, a loop has ended.

**Fairness.** A pCPU goes on executing: weak fairness of `schedule()` once the flag
is set (the flag comes with an IPI or NMI, or from an interrupt on the pCPU itself,
and each takes the pCPU out of the guest), of boot, and of plain code such as the
second half of `wait_event`, the handler of an IPI, a softirq. Spinlocks of the
hypervisor are ticket locks (`spinlock_obtain`), which justifies strong fairness of
what waits for one; the same is assumed of the mutexes of the device model where a
thread competes for one over and over. Threads of acrn-dm and of the tools run;
files and the network answer. The periodic tick goes on. VHM and its clients serve
every request, and acrn-dm goes through with what it has begun. Nothing makes a
guest halt, send IPIs or reset, a device interrupt, a toolstack call, or a line lose
a record. `RepeatedSignalsWake` and `KeepsWaking` assume a policy that starves
nobody (`PolicyIsFair`), because `Schedule` lets `pick_next` take any ready thread;
noop has this always and IORR when wake-ups end (`NoStarvation`).

## 4. Proofs

The theorems hold for all constants that satisfy the assumptions, which TLC
evaluates in the runs: `ThreadAssumption` (every thread has a pCPU, every pCPU an
idle thread of its own, `NULL` is no thread), `SendersAssumption` (each vCPU has some
kinds of senders, and an event for them), `LifecycleAssumption` and
`IoReqAssumption` (the BSP is a vCPU, vCPUs are numbered, workloads are records of
the stated type), `VlapicAssumption` and `VirqAssumption` (vectors from 16 to 255,
and workloads of the stated type), `IrqAssumption` (the fixed numbers have
vectors of their own), `VpicAssumption` (up to eight pins, the cascade among them),
`VpciAssumption` (what VMs are given, and the names that are no VM),
`MeventAssumption`, `LifeMngrAssumption`, `PtIntxAssumption`, and `PcpuConstants`
(numbered pCPUs, a boot pCPU among them, passed-through LAPICs only on others).
There are 292 theorems and lemmas. Each invariance proof has one lemma or step per
action and under it one step per conjunct that the action can disturb.

**Scheduler and events (`VmLifecycleProofs`).** `Invariance` is `Spec => []SchedInv`: types,
`OneRunner`, `QueueMatchesStatus`, `BlockingIsPending`, `NoIdleOverReady` and
`Affinity`. None is inductive alone. `schedule()` keeps `OneRunner` only because
what it picks belongs to this pCPU (`Affinity`) and is ready
(`QueueMatchesStatus`), and it keeps `QueueMatchesStatus` only because the thread
that leaves is `be_blocking` exactly if it is no longer queued. `EventInvariance`
adds `ExclusiveWait`, the `ASSERT` at `event.c:34`, and `AsleepIsRunning`: a thread
between `sleep_thread` and `schedule()` in `wait_event` is RUNNING, is `be_blocking`
and has the flag set. This is what keeps a wake from reaching the thread there,
and so what makes the queue invariants survive.

**HLT (`IoReqProofs`).** `HltInvariance` has two halves. A vCPU that sleeps in HLT, or
is about to, while its event is set was signalled between the `sleep_thread` and the
`schedule()` of `wait_event`, the window of the finding `lost_wakeup`. And where the
interrupt is requested before, or together with, its signal, a vCPU in HLT with an
interrupt pending has its event set or the sender about to signal. Together: outside of
that window no such interrupt is slept over. It is not a theorem that HLT always
wakes, which the code does not give. The strengthening says that only HLT waits and is
the waiter its event knows (`Halted`), so that a signal behind `schedule()` wakes it, and
follows the interrupt from the last test on (`Remembered`). `HltUsesEvents` is the refinement step by step: initial states of the vCPU
loop are initial states of `Event`, and each step of it is a step of `Event` or
leaves its variables alone. `EventInv` therefore carries over.

**Life cycle (`VmLifecycleProofs`).** `LifeInvariance` and `PausedQuiet`,
for any workload. The inductive invariant `LifeIInv` is layered by what the workload
permits. Under every workload: types, `LockInv` (`vm_lock` is SOS's exactly during a
pause, and nobody waits in `sleep_thread_sync` without the lock) and `HolderInv` (a
vCPU that holds it is on its pCPU, in an INIT, and has parked the target). If
`hcall_create_vm` takes no thread that still executes (`ThreadsKept`): `EventInv`.
If also no interrupt meets a parked vCPU (`SourcesQuiet`): `ParkedInv`, a parked vCPU
is off its pCPU unless the holder of the lock waits for it or it stopped by itself,
and a VM that is not RUNNING has no RUNNING vCPU. If also none stops on a fatal
error: `LaunchInv`, a RUNNING vCPU leaves its pCPU for good only in `wait_event`,
so that no launch is lost. `PausedIsQuiet` needs the last two: the wait of `pause_vm`
is what turns "about to block" into BLOCKED.

**I/O requests (`IoClientProofs`, `IoReqProofs`).** `IoInvariance`, `AnsweredThm` and the
action property `NoNewIoreq`. `IoIInv` has, under every workload, the course of
`vm_system_reset` (`DmInv`) and what VHM and its clients hold (`Served`); and when
nothing wakes parked vCPUs (`ParkedStay`) also `ParkedInv`, the slot at each point
of `emulate_io` (`Requested`) and that a vCPU parked while its VM is not paused has
no request (`Idle`). The key is in `Requested`: the event is set only with a COMPLETE
slot whose vCPU has not seen it, so a wait never ends on a notification of an earlier
request. A late notification cannot exist, because a client that has still to notify
keeps the slot from being freed by its vCPU, and `vm_clear_ioreq` drops the clients
before the hypervisor resets the slots.

**Calls between pCPUs (`PowerProofs`).** `BootOrder` holds with every race:
who is active, who is asked to leave and `pcpu_sync` follow from where the boot
processor is. `PcpuInvariance` is `PcpuInv`, for any set of pCPUs that call at the same
time, when no kick comes into the window of section 6. Its strengthening says of a
caller that prepares that what it has not yet given out is still in the mask
(`PrepareInv`), of one that waits that the targets left in the mask have its function
and all others ran it (`WaitInv`), that two claims are never both unfinished
(`OwnerInv`), and of a handler between its test and its clear that it works for the
unfinished call (`HandlerInv`).

**Event injection (`VirqProofs`).** `VirqInvThm`, `NotForgottenThm` and
`InServiceReachesThm` come from one induction over `VirqIInv`. `Nested` needs that the scan
of the ISR and IRR finds the highest bit, so that a vector is put in service only
above the one that is served. `Evaluated` is `NotForgotten` from the second half of
`acrn_handle_pending_request` on, not only in the guest. `Reaches` says where the
injection fields are empty: `entry_info` outside of the way from evaluation to VM entry,
`idt_vectoring` behind the evaluation; with it a delivery that was interrupted is never
overwritten by another.

**Interrupts (`InterruptProofs`).** `PtIntxInvariance`: `PtIInv` adds that a pin with
`remote_irr` has its vector in the vLAPIC (`IrrInv`), that an unmasked virtual pin has the
polarity of the entry, and its last write went to the physical pin too (`OwnerInv`), and
what is left of `PinInv` for each point of the softirq: while the physical pin is masked,
the entry is queued, delayed or handled, or an EOI is still to come that unmasks it or finds
the virtual pin asserted. `VpicInvariance`: `VpicInv` is nearly inductive. The
argument is about `vpic_notify_intr`: it leaves both chips announced, given the slave is
looked at first, and whatever else an operation does comes before it.

**Physical interrupts (`IrqProofs`).** `IrqInvThm`: `IrqIInv` says at each point of a request
or a removal what its thread has done so far to its number (`ThreadInv`), that one thread at a
time holds `ptdev_lock` (`LockInv`), that numbers and vectors are inverse to each other at every
step, not only while the lock is free (`TablesInv`), that nothing else is in use (`UseInv`), and that an interrupt
that is dispatched has read the entries of a device that is there (`CpuInv`).

**Device assignment and the event loop (`DeviceProofs`).** `VpciInvariance`: a device is
with the SOS, or with the one VM whose live vdev the SOS's vdev points to, or on its way back
(`DeviceInv`), and each place of a device model's course determines the state of its VM and
how many vdevs there are (`DmInv`): this is what makes the guards of the hypercalls hold where
the code relies on them. `MeventInvariance`: what an operation under way has still to
do to its event (`OpInv`), and a batch that has each event once and none that was freed
(`BatchInv`).

**Shutdown (`PowerProofs`).** `LifeMngrInvariance`: what may be on the lines is what was
sent (`LifeLines`: an acknowledgement only behind a request that the Service VM saw, a
request only if the operator made one), and the listener and the operator's thread, which
share `shutdown_state` and `retry` without a lock, keep out of each other's way (`LifeStates`): the
thread is past its claim only in REQ_FROM_UOS, and attempts are used up only in ACK_WAITING.

Only model-checked, and why:

* all liveness, and the fairness part of the refinements of `Schedule`: outside the
  prover's reach;
* the refinements of the policies and what the policies keep (`PolicyInv`,
  `PreemptsInTime`), and `TimerInv`: their queues are sequences with insertions in order,
  the facts about which need induction over sequences;
* `HvlogInv`, and `NetInv`, `BlkInv` and `AhciInv` with their rings, chains and request
  queues, for the same reason;
* `EptInv`: what `mmu_add` and `mmu_modify_or_del` write is a nest of folds over the
  entries of the tables, about which only induction says something;
* `IoHandlersInv`, `VuartInv` and `IocInv`: within reach in principle, not proved.

## 5. What the properties leave out, and why

Each condition below stands in a property, a workload or a constant because TLC finds
a counterexample without it: the code does not give the property there. To see one,
drop the condition or let the constants include the excluded case.

| Property | Holds for | Otherwise |
|---|---|---|
| `ParkedIsBlocked` | interrupts only for RUNNING vCPUs | `signal_event` (`event.c:54`) looks at no vCPU state and wakes the thread of a zombie that had halted; `hv-cpu-virt.rst:145` says its "vCPU thread is not running" |
| `PausedIsQuiet`, `LaunchTakes` | vCPUs that do not park themselves | a vCPU that stops on an error uses `sleep_thread` without waiting (`vcpu.c:743`), and `pause_vm` takes it for parked; `hcall_create_vm` may reuse a thread that still executes |
| `SlotFree`, `Answered` | `ParkedStay` | INIT ends the wait of a busy target but does not free its slot (`vlapic.c:1115`), against `acrn_common.h:261`; so does a SIPI that overtakes an INIT, with three vCPUs |
| `NoNewIoreqAfterPause` | `ParkedStay` | the completion of a kernel client of a VM that does not poll wakes a parked vCPU, against the comment at `devicemodel/core/main.c:614` |
| `ResetReruns` | completion by event | the polling loop ends only on COMPLETE, and `reset_vm_ioreqs` makes the slot FREE (`io_req.c:120`); acrn-dm polls for real-time VMs only, which it does not reset |
| `NotForgotten` | guests that leave the TPR alone | the TPR threshold is computed only with an EVENT request (`vlapic.c:2514`) and can be stale when the guest lowers the TPR again |
| `InServiceReaches` | no exception or NMI ahead of an interrupted delivery | the next exit overwrites `idt_vectoring_info` (`vmexit.c:183`), while `virq.c:415` says "we need re-inject again" |
| `ExceptionValid` | no reset of the vCPU | `vcpu_reset_internal` clears the exception and not its request (`vcpu.c:206`) |
| `VirtualIntrInv` (`HaltWakes`) | a signal outside of `wait_event`'s window (`late`) | a signal between `sleep_thread` and `schedule()` wakes nobody (`schedule.c:228`), and the vCPU sleeps in HLT with the event set until the next interrupt: the finding `lost_wakeup`, for HLT |
| `VirtualIntrInv` (`HaltWakes`) | the request made before the signal, or with it | `vlapic_accept_intr` signals first (`vlapic.c:555`); a vCPU that resets the event and halts in between sleeps until the next interrupt |
| `RunsWithDevices` | VMs without system reset | `hcall_assign_pcidev` refuses the paused VM (`hypercall.c:856`) and `vm_reset_vdevs` ignores the failure |
| `HandlerRegistered` | devices that are no VFs | a VF's handler runs without the lock (`vsriov.c:138`), and `disable_vfs` unregisters it; the comment at `io_req.c:501` says it "will never modify once register" |
| `TableMatchesBars` | a table with a node for every handler | a registration in a full table is dropped without a word (`io_req.c:690`) |
| `TableTrapped` | outside a configuration write | the whole BAR is mapped before the table's page is taken out (`pci_pt.c:119`) |
| `TimerInv` | until a timer is added twice | the assertion "add timer again!" (`timer.c:97`) fails, so `AddedOnce` does not hold: `vlapic_write_icrtmr` adds the timer of a software-disabled vLAPIC, and `vlapic_write_svr` adds it again |
| `TimerInv` (`GuestTimerQueued`) | a TSC deadline that differs from the TSC offset | `val -= VMX_TSC_OFFSET` (`vlapic.c:443`) makes it zero, and `add_timer` refuses it: the guest's timer counts and the hypervisor has none, against the comment at `vlapic.c:445` "timer->fire_tsc is not 0,here add_timer should not return error" |
| `NoStarvation` (`CallsReturn`) | no `Races` | a pCPU that goes down with a call underway to it ("offline"), or a call to an AP that is active but has not enabled its local APIC ("boot"), leaves a bit that nobody clears |
| `HvlogInv` (whole messages) | pCPUs that dropped nothing | acrnlog stops at an empty ring although the writer has more to put, so a message may be written in pieces: `ReadsComplete`, against `acrnlog.c:111` "The function read a complete msg from acrnlog dev."; nor is the order `Ascending`, as `hld-trace-log.rst` says |
| `SignalsAnswered` (`PowersOff`) | no `faults` | each of five cases can end without a power-off: a poll before an answer that is on its way, a poll between two statements of the operator's thread, both sides asking at once, text to the User VM that is lost, an acknowledgement that cannot be sent. `pm_vuart.c:280` says "no need to resend shutdown here, will resend in pm_monitor thread", which never resends |
| `MeventInv` | no "free" race | an event without a teardown function is freed by whoever deletes it, also while it is in the batch of the loop; timers are deleted on other threads, and a handler may delete an event further down in its batch |
| `SignalsAnswered` (`TornDown`) | no "signal" or "force" | SIGINT just before `epoll_wait` is lost; a forced stop never notifies the loop |
| `PicServes` | pins not withdrawn, no level-triggered passthrough EOI | what is masked or lowered between announcement and acceptance leaves `intr_raised` set, and later pins are not announced; an EOI that acknowledges a level-triggered passthrough pin takes the lock its caller holds and does not return |
| `NotMisused` (`PtIntx`) | `Quiesced`: removal while guest and softirq do not use the entry | the softirq handles an entry that was released |
| `StopReturns`, `RequestServed` (net) | no stop of a busy thread; MSI-X | section 6; and without MSI-X the transmit thread needs the mutex for its interrupt that a reset holds while it waits for the thread |
| `NetInv` (reset rings) | threads that serve the ring or hold its chains (`Serves`) | a transmit thread that was woken before the reset still runs `vq_clear_used_ring_flags` (`virtio_net.c:582`, `virtio.c:667`) on a ring whose reset is done and that may not be set up again: it writes the flags through the pointer to the ring, and takes no chain |
| `BlkInv` | `Hasty` = FALSE: reset with no request in flight | a completion writes to the ring of the next life of the device; `virtio.c:151` says "This erases all queues, i.e., all the queues become invalid." |
| `AhciInv` | `HastyReset` = FALSE | a reset of the controller with commands underway does not wait for them, and the backend goes on writing to the guest's memory behind a stopped port |
| `EptInv` | `MR_MODIFY` on mapped memory | on an absent entry it asserts; and where a large page lost its execute right, 4K pages at its tail lose it too (`page.c:223`), until the violation handler gives it back |
| `VuartInv` (`~overwritten`), `SerialFlows` | no race but "fcr"; none | re-enabling THRE in IER, reading LSR, or a VM restart let a guest send into a full FIFO, and the margin covers four bursts (`vuart.c:82`); a FIFO reset by FCR or a restart does not tell the peer that there is room |
| `VuartInv` (lines, targets) | no "console", no "overlap" | the console toggles the line without the lock; two VMs that are set up and torn down at once are connected one way |
| `IrqInv` (`~wrong`) | no "inflight" | an interrupt in flight when its device is removed may run the handler, or be given the data, of another device |
| `IrqInv` (removal) | a guest that no longer programs the device it loses (`Untouched`) | between the release of `ptdev_lock` and the programming of the entry (`assign.c:582`, `assign.c:748`) a removal frees the entry that is then used; `hcall_deassign_pcidev` comes from a device model whose guest has stopped |
| `IocInv`, `Served` | `IocRaces` = {} | a shutdown that the guest takes back ("cancel") or announces before its first heartbeat is answered ("overtake"), and a resume before the mediator sleeps ("early"), leave it in a state that does not match the guest; threads that are stopped while they handle a request ("busy") do not end; and an event that is refused because the pool is empty is not repeated |
| `IocInv` (`StatesAgree`) | except after `noted.lost`, `unopened`, `unheard` | `send_tx_request` finds the pool empty (`ioc.c:889`): packets are off in ACTIVE; a native channel does not open again at a resume (`ioc.c:1012`): the state is INIT without it; a resume with wakeup reason 0 (`ioc.c:1456`, `monitor.c:388`) is refused: the mediator stays SUSPENDED under a guest that runs. What is not concerned holds all the same: packets are never on in SUSPENDING and SUSPENDED, and no request of the pool is lost. `Served` is about resumes that succeed |

Other cases are left out by the models themselves, and no property speaks of them:

* `AhciPort`: a driver sets FRE and IE before ST, and starts a port that was left busy with
  CLO or behind a COMRESET. A stop in the middle of a command without NCQ leaves
  `ATA_S_BUSY` set, and `ahci_handle_port` issues nothing while it is (`ahci.c:1864`); a driver
  that starts the port with neither gets no command served. The controller has MSI, of
  its own for the port or shared; the legacy line is not modelled.
* `Pcpu`: pCPUs go down and come up within `CPU_DOWN_TIMEOUT` and `CPU_UP_TIMEOUT`. Behind
  them the host would suspend with a pCPU that still runs (`cpu.c:416`), or panic for one
  that does not come up (`pm.c:225`).
* `Vpic`: an OCW1 that unmasks a pin also remaps the passthrough entry of the pin
  (`ptirq_intx_pin_remap`), which is a matter of `PtIntx`.
* `Ept`: `LargeLevels` is {pd, pdpt}, a pCPU with 1 GB pages. Without them, or for a real-time VM
  under `is_ept_force_4k_ipage`, the same functions map smaller pages.
* `Hvlog`: the driver of the hvlog device is external; a `read()` takes one element, as
  acrnlog uses it.

More was seen while modelling and is in no property:

* A reset leaves `idt_vectoring_info` alone (`vcpu.c:198`), so an interrupt may be
  injected again into a vCPU that starts with interrupts off.
* BVT gives no bound on the spread of two runnable threads: a wake reads the running
  thread's virtual time before it is charged (`sched_bvt.c:283`), while
  `doc/tutorials/cpu_sharing.rst:120` speaks of a scheduling window.
* Of two MMIO handlers for one address the lower index is called (`io_req.c:478`), not
  the later one as `hv-io-emulation.rst:73` says.
* `start_pcpus` skips its `i = ffs64` on `continue`; `stop_pcpus` says "Timeout never
  occurs here" (`cpu.c:416`) of a loop that may time out; a caller whose call is over
  may go on waiting while another one has claimed the mask.
* `virtio_net_neg_features` subtracts from the header length on every call; a batch
  of exactly 2^16 chains loses its interrupt; the command loop of an AHCI port spins on a
  FIS that is no host-to-device one; `mevent_deinit` does not clear its pipe.

## 6. Findings

* `lost_wakeup` (`CompletedRequestResumes`). `wake_thread` acts only on a BLOCKED
  thread (`schedule.c:228`). A completion that comes between the `sleep_thread` and
  the `schedule()` of `wait_event` finds the vCPU still RUNNING, does nothing to it, and
  `schedule()` then blocks it with the event set. The vCPU sleeps until something else
  signals it. A polling VM is not affected (`PolledRequestResumes`), nor is an event
  that is signalled again and again (`RepeatedSignalsWake`).
* `pause_deadlock` (`PauseReturns`). `hcall_pause_vm` holds `vm_lock` while `pause_vm`
  spins for a vCPU to block; the vCPU spins for `vm_lock` in
  `vlapic_process_init_sipi` to send a SIPI. `PauseReturnsOrSpins` shows that nothing
  else keeps a pause from ending.
* `tx_stop` (`StopReturns`). `virtio_net_tx_thread` looks at `closing` only behind
  `pthread_cond_wait` (`virtio_net.c:590`). A stop that comes while it transmits signals
  nobody; the thread then waits, and `pthread_join` never returns.
* `smp_call` (`CallComplete`). `smp_call_function` sets the mask before it stores the
  function (`notify.c:46`), and kicks use the same vector. A kick in between makes the
  target run the previous function, or none, and clear its bit; the call returns
  without having run there. `PcpuInvariance` shows that without such a kick it does not.
