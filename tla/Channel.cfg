CONSTANTS
    Threads = {t1, t2}
    ChildThreads = {c1}
    MaxRequests = 2
    MaxLinks = 2
SPECIFICATION FairSpec
INVARIANTS OwnAnswer ExecutedOnce StreamsApart
PROPERTIES CallReturns WorkersEnd
CHECK_DEADLOCK FALSE
