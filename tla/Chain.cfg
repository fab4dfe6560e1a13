CONSTANTS
    p = p
    q = q
    Producers = {p, q}
    N = 2
    Count <- MCCount
    Loop = 3
    MinHwm = 1
    Modulus = 3
    MaxCrashes = 2
SPECIFICATION FairSpec
INVARIANTS SlotHoldsItsStages OneCopy SendNeverWaits
PROPERTIES AllArrive
CHECK_DEADLOCK FALSE
