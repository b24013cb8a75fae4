SPECIFICATION OutboxSpec
CONSTANTS
    t1 = t1
    u1 = u1
    u2 = u2
    opened = opened
    upcoming = upcoming
    NoUser = NoUser
    NoPlan = NoPlan
    Users = {u1, u2}
    Devices = {t1}
    Events = {opened, upcoming}
    Reminder = upcoming
    Types <- TypesOf
    Offers <- OptIn
    Audiences <- Both
    Schedulers = {r1, r2}
    Deliveries <- EventUserDevice
    DeviceOf <- ToItsDevice
    Workers = {w1}
    MaxAttempts = 1
    BatchSize = 1
    MaxFaults = 0
INVARIANTS ToldOnce
PROPERTIES QueueContract Reminded
CHECK_DEADLOCK FALSE
