SPECIFICATION DevicesSpec
CONSTANTS
    QSize = 2
    Wrap = 4
    Msix = TRUE
    StopsBusy = FALSE
    MaxTap = 1
    Workloads = {{"tx"}, {"rx"}}
    NONE = NONE
    Thr = {t1, t2}
    RingMax = 2
    Hasty = FALSE
    BlkWorkloads <- MCBlkWorkloads
    Commands <- MCCommands
    Slots = {0, 1}
    HastyReset = FALSE
INVARIANTS NetInv DiskInv PortInv
PROPERTY RequestServed
