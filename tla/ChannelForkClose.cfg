CONSTANTS
    Threads = {t1}
    ChildThreads = {c1}
    MaxRequests = 2
    MaxLinks = 2
SPECIFICATION Spec
INVARIANTS ParentUndisturbed
CHECK_DEADLOCK FALSE
