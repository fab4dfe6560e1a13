CONSTANTS
    Threads = {t1}
    ChildThreads = {}
    MaxRequests = 2
    MaxLinks = 1
SPECIFICATION Spec
INVARIANTS StrictStream
CHECK_DEADLOCK FALSE
