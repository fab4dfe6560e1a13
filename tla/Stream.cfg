CONSTANTS
    Chunks = {c1, c2, c3}
    NoChunk = NoChunk
    Warmup = 1
    Iterations = 4
    Expected = 3
SPECIFICATION FairSpec
INVARIANTS SampleStable NeverRefused MeasuredInOrder
PROPERTIES SubscriberEnds
CHECK_DEADLOCK FALSE
