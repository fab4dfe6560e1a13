CONSTANTS
    Stages = {p1, p2}
    Ids = {o1, o2}
    Addrs = {a1, a2}
    Data = {x, y}
    Shapes = {"one", "square"}
SPECIFICATION Spec
INVARIANTS ExactViews
CHECK_DEADLOCK FALSE
