SPECIFICATION CacheSpec
CONSTANTS
    Threads = {t1}
    Versions = {v1, v2}
    Hashes = {v1, p}
    NoHash = none
    PathKey = p
    NoPath = nopath
    Dirs = {d1}
    None = none
    Items = {i1, i2}
    NoItem = none
    EditsWhileCompiling = TRUE
    MaxCalls = 3
    MaxConfigs = 1
    MaxCrashes = 0
PROPERTY ImportedIsFresh
CHECK_DEADLOCK FALSE
