SPECIFICATION Spec
CONSTANTS
    Host = Host
    Device = Device
    w1 = w1
    w2 = w2
    d1 = d1
    HostThreads <- MCHostThreads
    DeviceThreads <- MCDeviceThreads
    FaultModels = {TRUE, FALSE}
    Ops <- MCOps
    Budget <- MCBudget
    Recycles = FALSE
    MaxEvents = 4
    MaxPackets = 2
    Capacity = 2
INVARIANTS
    TypeOK
    CreditsAccountedFor
    NoLostWakeup
    CallerWaitsForItsEvent
PROPERTIES
    CallsReturn
    ImplementsChannel
CHECK_DEADLOCK FALSE
