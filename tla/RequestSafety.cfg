SPECIFICATION Spec
CONSTANTS
    c1 = c1
    c2 = c2
    Clients = {c1, c2}
    Runs = {r1, r2, r3}
    NoRun = NoRun
    NumStages = 1
    ClientOps <- SafetyOps
    Disciplines = {FALSE}
SYMMETRY Symmetry
INVARIANTS
    TypeOK
    PipelineExclusive
    PromiseIsOwn
    PendingIsTracked
    CancelHitsItsRun
    QuietAfterStop
PROPERTIES
    ImplementsContract
CHECK_DEADLOCK FALSE
