SPECIFICATION PcpuSpec
CONSTANTS
    P = {0, 1, 2}
    BSP = 0
    LapicPt = {2}
    MaxKicks = 2
    Races = {"kick"}
INVARIANT CallComplete
