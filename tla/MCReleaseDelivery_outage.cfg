\* One write fails, or one process dies before it.
CONSTANTS
    None = None
    production = production
    development = development
    preview = preview
    k1 = k1
    k2 = k2
    k3 = k3
    ann = ann
    bob = bob
    cyd = cyd
    q1 = q1
    q2 = q2
    s1 = s1
    s2 = s2
    Env = {production}
    Branch = {}
    DefaultPolicy <- Defaults
    Key = {k1, k2}
    Owner <- AnnPublishes
    User = {ann}
    Request = {}
    Session = {s1}
    Percent = {10}
    Text = {TRUE}
    Forcing = {FALSE}
    Policies = {}
    Requirements = {}
    Strict = {}
    Tunable = {}
    Dispatcher = dispatcher
    Sweeper = sweeper
    MaxFaults = 1
SPECIFICATION FairSpec
PROPERTIES RolloutsReachStorage
