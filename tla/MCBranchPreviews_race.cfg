\* A branch with a history and one that is opened once compete for one
\* environment; two dispatchers, two publishers, two of them at a time, one fault.
CONSTANTS
    b1 = b1
    b2 = b2
    h1 = h1
    h2 = h2
    p1 = p1
    p2 = p2
    None = None
    Branch = {b1, b2}
    Handler = {h1, h2}
    Publisher = {p1, p2}
    Limit = 1
    MaxVersion <- Versions
    MaxFaults = 1
SPECIFICATION Spec
SYMMETRY Symmetric
CONSTRAINT TwoAtOnce
CHECK_DEADLOCK FALSE
INVARIANTS LimitHolds PublishedOnce NoPushForgotten
