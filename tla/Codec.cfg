CONSTANTS
    FRAME_SIZE = 4
    ARRAY_ALIGNMENT = 2
    HEADER_SIZE = 2
    U32 = 5
    Models <- CodecModels
    Thresholds <- CodecThresholds
    OutSizes = {12, 17}
    MaxCalls = 2
    OwnDecodes = 1
    Containers <- MCContainers
    Given <- Entries
SPECIFICATION PairSpec
INVARIANTS RoundTrip NoStaleByte ArraysDisjoint SlackUntouched FailureNeverMixes ViewsInside StoreAskedRightly 
CHECK_DEADLOCK FALSE
