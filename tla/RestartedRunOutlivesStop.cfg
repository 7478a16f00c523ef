SPECIFICATION Spec
CONSTANTS
    c1 = c1
    c2 = c2
    Clients = {c1}
    Runs = {r1, r2, r3}
    NoRun = NoRun
    NumStages = 1
    ClientOps <- RestartOps
    Disciplines = {FALSE}
INVARIANT StopAndWaitStopsAll
CHECK_DEADLOCK FALSE
