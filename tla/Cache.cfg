SPECIFICATION FairCacheSpec
CONSTANTS
    Threads = {t1, t2}
    Versions = {v1, v2}
    Hashes = {v1, p}
    NoHash = none
    PathKey = p
    NoPath = nopath
    Dirs = {d1}
    None = none
    Items = {i1, i2}
    NoItem = none
    EditsWhileCompiling = FALSE
    MaxCalls = 3
    MaxConfigs = 1
    MaxCrashes = 1
INVARIANTS
    TypeOK
    MutualExclusion
    TableClean
    GuardInv
PROPERTIES
    CompiledOnce
    ImportedIsFresh
    NobodyWritesUnderAReader
    LoadsReturn
CHECK_DEADLOCK FALSE
