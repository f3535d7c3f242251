CONSTANTS
    Pcpu <- MCPcpu
    Thread <- MCThread
    pcpu_id <- MCpcpu_id
    idle <- MCidle
    vcpu_id <- MCvcpu_id
    BSP = "bsp"
    NULL = NULL
    SOS = SOS
    EventId = {"IOREQ", "VIRTUAL_INTERRUPT"}
    Workloads <- MCAllWorkloads

SPECIFICATION VmSpec

INVARIANTS
    LifeInv
    PausedIsQuiet
    IoInv
    Answered

PROPERTIES
    NoNewIoreqAfterPause
    PolledRequestResumes
    ResetReruns
    PauseReturnsOrSpins

CHECK_DEADLOCK FALSE
