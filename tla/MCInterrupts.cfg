SPECIFICATION InterruptsSpec
CONSTANTS
    NONE = NONE
    N = 3
    Cascade = 2
    Emulated <- MCEmulated
    Passthru <- MCPassthru
    Level <- MCLevel
    Workloads = {{"mask"}, {"smm", "sfn"}, {"aeoi", "rotate"}, {"poll"}, {"wires"}, {"init"}, {"elc"}}
    NULL = NULL
    SOS = SOS
    UOS = UOS
    MaxOps = 3
    Quiesced = TRUE
INVARIANTS VpicInv PtIntxInv
PROPERTY ReachesGuest
CHECK_DEADLOCK FALSE
