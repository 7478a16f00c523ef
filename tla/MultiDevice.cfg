SPECIFICATION FairSpec
CONSTANTS
    cpu = cpu
    gpu = gpu
    w1 = w1
    w2 = w2
    Requests = {r1, r2, r3}
    Workers = {w1, w2}
    Devices = {cpu, gpu}
    DeviceOf <- MCDeviceOf
    Cpu = cpu
    Selections <- AllSelections
    NoDevice = NoDevice
    None = none
    Throws = TRUE
    Overtakes = TRUE
    LoadsFail = TRUE
    MaxStarts = 3
    MaxConfigs = 1
INVARIANTS
    TypeOK
    WorkerHasOnePlace
    TaskHasOnePlace
    RunsWherePreferred
    OnlyLoadedDevices
    NetworkToAsk
    QuietWhenGone
PROPERTY DestructorReturns
CHECK_DEADLOCK FALSE
