----------------------------- MODULE MCDevices -----------------------------
(***************************************************************************)
(* Three devices of the device model, each for itself: a behaviour is one  *)
(* of the network device, of the virtio block device, or of the AHCI port  *)
(* (dev), and what belongs to the others stays as it is.                   *)
(***************************************************************************)
EXTENDS VirtioNet, VirtioBlk, AhciPort

VARIABLE dev

R(o, b, e) == [op |-> o, offset |-> b, block |-> e]
FirstWorkload ==
    [kinds |-> {R("bad", 0, 0), R("inline", 0, 0), R("flush", 0, 128)}, on_empty |-> TRUE, dummy |-> TRUE]
MCBlkWorkloads ==
    {FirstWorkload,
     [kinds |-> {R("io", 0, 1), R("io", 1, 2)}, on_empty |-> FALSE, dummy |-> FALSE]}
MCCommands == {[offset |-> 0, more |-> TRUE], [offset |-> 1, more |-> FALSE]}

NoNet == uses = {"tx"} /\ ~on_empty
all == <<dev, netvars, bvars, kvars, avars>>

(* The two disks share the threads of BlockIf.  A port with a shared MSI   *)
(* has NCQ, where commands end while the driver handles an interrupt.      *)
DevicesInit ==
    /\ NetInit /\ RingInit /\ PortInit
    /\ \/ dev = "net" /\ on_empty = (uses = {"rx"}) /\ work = FirstWorkload /\ ~ncq /\ ~shared
       \/ dev = "blk" /\ NoNet /\ ~ncq /\ ~shared
       \/ dev = "ahci" /\ NoNet /\ work = FirstWorkload /\ (shared => ncq)
    /\ blockif_open(dev = "blk" /\ dummy_bctxt)
AsNet(A) == dev = "net" /\ A /\ UNCHANGED <<dev, bvars, kvars, avars>>
AsBlk(A) == dev = "blk" /\ A /\ UNCHANGED <<dev, netvars, avars>>
AsAhci(A) == dev = "ahci" /\ A /\ UNCHANGED <<dev, netvars, kvars>>
DevicesNext == AsNet(NetNext) \/ AsBlk(BlkNext) \/ AsAhci(AhciNext)

(* The fairness of the three specifications.  A behaviour is of one device *)
(* only, so that a conjunct may have a part for each.                      *)
T1 == CHOOSE t \in Thr : TRUE
T2 == CHOOSE t \in Thr \ {T1} : TRUE
DevicesFairness ==
    /\ WF_all(AsNet(Driver("rx")) \/ AsBlk(blk_interrupt))
    /\ WF_all(AsNet(Driver("tx")) \/ AsBlk(BlkVcpu) \/ AsAhci(AhciDriver))
    /\ WF_all(AsNet(Vcpu))
    /\ WF_all(AsNet(Tx) \/ AsBlk(BlkThread(T1)) \/ AsAhci(AhciThread(T1)))
    /\ WF_all(AsNet(Rx) \/ AsBlk(BlkThread(T2)) \/ AsAhci(AhciThread(T2)))
    /\ SF_all(\/ AsNet(virtio_net_rxwait) \/ AsBlk(virtio_blk_done(T1))
              \/ AsAhci(cb_more(T1) \/ cb_done(T1)))
    /\ SF_all(AsBlk(virtio_blk_done(T2)) \/ AsAhci(cb_more(T2) \/ cb_done(T2)))
DevicesSpec == DevicesInit /\ [][DevicesNext]_all /\ DevicesFairness

-----------------------------------------------------------------------------
(* The chains of the block device are accounted for, and the backend       *)
(* leaves no request behind (see VirtioBlk).                               *)
DiskInv == dev = "blk" => BlkInv
(* What the AHCI port has in flight, its registers and the driver agree    *)
(* (see AhciPort).                                                         *)
PortInv == dev = "ahci" => AhciInv

(* What the driver of a guest waits for happens.  A chain of the transmit  *)
(* queue comes back, though notifications are suppressed while the thread  *)
(* works, and interrupts while the handler does; virtio_net_reset returns, *)
(* though it waits for both threads.  A request of the block device comes  *)
(* back; where the device is removed instead, blockif_close finds its      *)
(* threads at the end of their work.  An AHCI command is done, or the port *)
(* stops: no MSI is missed that is not sent because is has its reason, the *)
(* wait of blockif_cancel ends, and so does that of the driver for CR.     *)
RequestServed == \A i \in 0 .. QSize - 1 : []<>~(NetWaits(i) \/ BlkWaits(i) \/ AhciWaits(i))
=============================================================================
