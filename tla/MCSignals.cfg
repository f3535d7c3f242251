CONSTANTS
    Pcpu <- MCPcpu
    Thread <- MCThread
    pcpu_id <- MCpcpu_id
    idle <- MCidle
    NULL = NULL
    EventId = {"IOREQ", "VIRTUAL_INTERRUPT"}
    Senders <- MCSenders
    m1 = m1
    m2 = m2
    Events = {m1, m2}
    MEVENT_MAX = 2
    Teardown = {m1}
    PIPE = PIPE
    NONE = NONE
    MaxAdds = 3
    LoopRaces = {{}, {"free", "signal", "force"}}
    TRY_SEND_CNT = 2
    MaxLost = 2
    MaxRequests = 2
    Cap = 2
    LifeFaults = {{}, {"late", "noise"}, {"window", "both", "fail"}}

SPECIFICATION SignalsSpec

INVARIANTS
    EventInv
    VirtualIntrInv
    MeventInv
    LifeMngrInv

PROPERTIES
    RepeatedSignalsWake
    KeepsWaking
    SignalsAnswered

