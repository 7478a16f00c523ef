SPECIFICATION Spec
CONSTANTS
    Workers = {}
    Clients = {c1, c2}
    Tasks = {t1, t2, t3, t4}
    NoTask = NoTask
    Throwing = {t4}
INVARIANTS
    StreamDrained
    StartedOnce
CHECK_DEADLOCK FALSE
