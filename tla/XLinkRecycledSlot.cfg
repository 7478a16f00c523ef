SPECIFICATION Spec
CONSTANTS
    Host = Host
    Device = Device
    w1 = w1
    w2 = w2
    d1 = d1
    HostThreads <- MCHostThreads
    DeviceThreads <- MCDeviceThreads
    FaultModels = {FALSE}
    Ops <- RoundOps
    Budget <- RoundBudget
    Recycles = TRUE
    MaxEvents = 4
    MaxPackets = 2
    Capacity = 2
INVARIANT SendsWhatItServed
CHECK_DEADLOCK FALSE
