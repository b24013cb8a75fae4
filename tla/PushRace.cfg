SPECIFICATION Spec
CONSTANTS
    t1 = t1
    Deliveries = {d1}
    Devices = {t1}
    DeviceOf <- OneDevice
    Workers = {w1, w2}
    MaxAttempts = 2
    BatchSize = 1
    MaxFaults = 1

PROPERTY TerminalIsFinal
CHECK_DEADLOCK FALSE
