\* One event, two dispatchers: every interleaving of a claim, a lost lease and
\* the takeover; liveness with a batch subscriber whose redeliveries find time.
CONSTANTS
    e1 = e1
    e2 = e2
    audit = audit
    mail = mail
    d1 = d1
    d2 = d2
    t1 = t1
    t2 = t2
    Event = {e1}
    Subscriber = {audit, mail}
    BatchSub = {audit}
    SubsOf <- MixedSubs
    Tenant = {t1}
    TenantOf <- OneTenant
    Dispatcher = {d1, d2}
    NoToken = NoToken
    BatchSize = 1
    MaxAttempts = 2
    MaxFaults = 1
SPECIFICATION RoomyFairSpec
CHECK_DEADLOCK FALSE
INVARIANTS TypeOK DeliveredIsApplied RepeatsOnlyAfterLoss AttemptsAreCharges DeadIsEarned
PROPERTIES ProgressKept StartsOnlyWhileHeld ContractSpec EventuallySettled
