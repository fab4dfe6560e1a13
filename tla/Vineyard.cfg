CONSTANTS
    Stages = {p1, p2}
    Ids = {o1, o2}
    Addrs = {a1, a2}
    Data = {x, y}
    Shapes = {"scalar", "one", "square"}
SYMMETRY SameStages
SPECIFICATION Spec
INVARIANTS SameArray SentAsItself
CHECK_DEADLOCK FALSE
