CONSTANTS
    Daemons = {d1, d2}
    Conns = {c1}
    Nobody = Nobody
SPECIFICATION FairSpec
INVARIANTS ReachableAlone NoConnectionLeft
PROPERTIES NoRequestAfterClose StartServes NoClientForgotten StopEnds
CHECK_DEADLOCK FALSE
