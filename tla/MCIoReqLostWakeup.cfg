CONSTANTS
    Pcpu <- MCPcpu
    Thread <- MCThread
    pcpu_id <- MCpcpu_id
    idle <- MCidle
    vcpu_id <- MCvcpu_id
    BSP = "bsp"
    NULL = NULL
    SOS = SOS
    EventId = {"IOREQ", "VIRTUAL_INTERRUPT"}
    Workloads <- MCWaiting

SPECIFICATION IoFairSpec

PROPERTIES
    CompletedRequestResumes

CHECK_DEADLOCK FALSE
