\* Two jobs of a message under a cap of one, two workers, one of which stops or
\* is held up, and a reviewer; j1 is asked for twice, or j2 is retried.
CONSTANTS
    j1 = j1
    j2 = j2
    w1 = w1
    w2 = w2
    ann = ann
    None = None
    Job = {j1, j2}
    RevOf <- TwoRevisions
    Worker = {w1, w2}
    Reviewer = {ann}
    Cap = 1
    MaxAttempts <- OneRetries
    MaxRequests <- OneAgain
    MaxFaults = 1
SPECIFICATION Spec
SYMMETRY Workers
CONSTRAINT OneConcern
CHECK_DEADLOCK FALSE
INVARIANTS CapHolds CallsAreBounded
PROPERTIES SettledByItsClaim DecisionsStand
