\* No faults: two dispatchers take the events of one branch in the other order.
CONSTANTS
    b1 = b1
    b2 = b2
    h1 = h1
    h2 = h2
    p1 = p1
    p2 = p2
    None = None
    Branch = {b1, b2}
    Handler = {h1, h2}
    Publisher = {p1}
    Limit = 1
    MaxVersion <- Versions
    MaxFaults = 0
SPECIFICATION Spec
CHECK_DEADLOCK FALSE
INVARIANT EnvironmentsFollowBranches
