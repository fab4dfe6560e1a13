CONSTANTS
    Threads = {t1, t2}
    Objects = {o1, o2}
    Modes = {read}
    Mappings = {m1, m2, m3}
    Handles = {h1, h2}
    Capacity = 1
    Views = TRUE
SYMMETRY SameThreads
SPECIFICATION Spec
INVARIANTS LeaseSafety LeaseCount CacheAgrees NoOrphan
PROPERTIES LifetimeSpec
CHECK_DEADLOCK FALSE
