CONSTANTS
    Workers = {w1, w2}
    Objects = {o1, o2}
    Tokens = {k1, k2, k3}
    MaxFd = 3
    MaxTime = 1
    Requests <- MCRequests
SPECIFICATION FairSpec
INVARIANTS DelegationBounded TokensHaveObjects OwnDescriptor NoDescriptorLeak AnswersOwnMemory
PROPERTIES MemoryReleased
CHECK_DEADLOCK FALSE
