SPECIFICATION FairSpec
CONSTANTS
    Workers = {w1, w2}
    Clients = {c1, c2}
    Tasks = {t1, t2, t3}
    NoTask = NoTask
    Throwing = {}
INVARIANTS
    TypeOK
    NoLostWakeup
PROPERTIES
    ImplementsContract
    TasksEnd
    DestructorReturns
CHECK_DEADLOCK FALSE
