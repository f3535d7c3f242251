SPECIFICATION NetSpec
CONSTANTS
    QSize = 2
    Wrap = 4
    Msix = TRUE
    StopsBusy = TRUE
    MaxTap = 1
    Workloads = {{"tx"}}
    NONE = NONE
PROPERTY StopReturns
CHECK_DEADLOCK FALSE
