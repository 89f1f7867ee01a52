\* One release, forced or not, complete or not, moves between two environments by
\* publishes, promotes and two requests; production asks for completeness and
\* comes to require approvals.  Or else two releases are rolled out in production,
\* beside a preview whose check policy changes.
CONSTANTS
    None = None
    production = production
    development = development
    preview = preview
    k1 = k1
    k2 = k2
    k3 = k3
    ann = ann
    bob = bob
    cyd = cyd
    q1 = q1
    q2 = q2
    s1 = s1
    s2 = s2
    Env = {production, development, preview}
    Branch = {preview}
    DefaultPolicy <- Defaults
    Key = {k1, k2, k3}
    Owner <- AnnPublishes
    User = {ann, bob}
    Request = {q1, q2}
    Session = {s1}
    Percent = {10, 50}
    Text = {TRUE, FALSE}
    Forcing = {TRUE, FALSE}
    Policies = {}
    Requirements = {0, 1}
    Strict = {production}
    Tunable = {preview}
SPECIFICATION Spec
INVARIANTS TypeOK OnlyEligible GateHolds OnePending
PROPERTIES ApprovedUnlessRollout ClosedStaysClosed
CONSTRAINT OneConcern
SYMMETRY Requests
