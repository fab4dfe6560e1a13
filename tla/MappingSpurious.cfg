CONSTANTS
    Threads = {t1, t2}
    Objects = {o1, o2}
    Modes = {read}
    Mappings = {m1, m2, m3}
    Handles = {h1, h2}
    Capacity = 1
    Views = FALSE
SPECIFICATION Spec
INVARIANTS NoSpuriousFailure
CHECK_DEADLOCK FALSE
