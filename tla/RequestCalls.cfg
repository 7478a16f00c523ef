SPECIFICATION FairSpec
CONSTANTS
    c1 = c1
    c2 = c2
    Clients = {c1, c2}
    Runs = {r1, r2}
    NoRun = NoRun
    NumStages = 2
    ClientOps <- CallsOps
    Disciplines = {TRUE, FALSE}
INVARIANTS
    CallbackExactlyWhenDue
    CallbackKept
PROPERTIES
    InferReportsOwnRun
    MethodsReturn
CHECK_DEADLOCK FALSE
