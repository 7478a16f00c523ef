SPECIFICATION Spec
CONSTANTS
    cpu = cpu
    gpu = gpu
    w1 = w1
    w2 = w2
    Requests = {r1, r2}
    Workers = {w1, w2}
    Devices = {cpu, gpu}
    DeviceOf <- MCDeviceOf
    Cpu = cpu
    Selections = {{}}
    NoDevice = NoDevice
    None = none
    Throws = FALSE
    Overtakes = FALSE
    LoadsFail = FALSE
    MaxStarts = 4
    MaxConfigs = 0
INVARIANT NoTaskIsStranded
CHECK_DEADLOCK FALSE
