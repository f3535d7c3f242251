SPECIFICATION InjectionSpec
CONSTANTS
    Vector = {48, 49, 64}
    TprValue = {0, 48, 64}
    Workloads <- MCWorkloads
    NR_IRQS = 4
    Ioapic = {1, 2}
    Dynamic = {32}
    Static <- MCStatic
    Devices = {"legacy", "intx", "msi1", "msi2"}
    pin <- MCpin
    Threads = {1, 2}
    Cpus = {1}
    Races = {{}, {"inflight"}}
    MaxRequests = 4
    NULL = NULL
    INVALID = INVALID
INVARIANTS VirqInv NotForgotten InServiceReaches IrqInv
