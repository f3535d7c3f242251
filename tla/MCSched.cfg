CONSTANTS
    Pcpu <- MCPcpu
    Thread <- MCThread
    pcpu_id <- MCpcpu_id
    idle <- MCidle
    NULL = NULL
    slice_cycles = 2
    MaxElapsed = 2
    MaxOverrun = 3
    mcu = 2
    BVT_CSA_MCU = 1
    UINT64_MAX = 5
    MaxVt = 2
    P = {0, 1, 2}
    BSP = 0
    LapicPt = {2}
    MaxKicks = 2
    Races = {}

SPECIFICATION PolicySpec

INVARIANTS
    PolicyInv
    PreemptsInTime
    PcpuInv

PROPERTIES
    PoliciesImplementSchedule
    NoStarvation

