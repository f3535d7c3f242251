CONSTANTS
    Pcpu <- MCPcpu
    Thread <- MCThread
    pcpu_id <- MCpcpu_id
    idle <- MCidle
    vcpu_id <- MCvcpu_id
    BSP = "bsp"
    NULL = NULL
    SOS = SOS
    EventId = {"IOREQ", "VIRTUAL_INTERRUPT"}
    Workloads <- MCStartingAp

SPECIFICATION VmSpec

PROPERTIES
    PauseReturns

CHECK_DEADLOCK FALSE
