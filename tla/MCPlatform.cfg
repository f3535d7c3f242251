SPECIFICATION PlatformSpec
CONSTANTS
    Others = {t1}
    Guest = vt
    MaxTsc = 4
    MAX_TIMER_ACTIONS = 2
    MinPeriod = 2
    Deadlines = {0, 1, 4}
    TscOffsets = {0, 1, 3}
    TscMod = 8
    Deltas = {1, 2}
    MaxOps = 4
    Remote = TRUE
    HEAD = HEAD
    IDLE = IDLE
    vm1 = vm1
    vm2 = vm2
    vm3 = vm3
    d1 = d1
    d2 = d2
    d3 = d3
    VMs <- MCVMs
    Devices = {d1, d2, d3}
    Passthru <- MCPassthru
    Rtvm = {vm2}
    SystemResets = {vm1}
    MaxVdevs = 2
    SOS = SOS
    NULL = NULL
    c1 = c1
    c2 = c2
    VCPUs = {c1, c2}
    Devs = {e1, e2, vf}
    VFs = {vf}
    Places = {p1, p2}
    MaxRegions = 4
    PioRanges <- MCPioRanges
    Ports = {4}
    Sizes = {2}
    NONE = NONE
    Cpus = {0, 1}
    EleNum = 3
    Shapes <- MCShapes
    MaxSeq = 3
    MaxRaw = 5
    EMPTY = EMPTY
INVARIANTS TimerInv VpciInv IoHandlersInv HvlogInv
PROPERTY Progress
CHECK_DEADLOCK FALSE
