\* Two jobs run in order by each of two replicas, under the shortest lease that
\* is ample: a slow release outlasts it.
CONSTANTS
    r1 = r1
    r2 = r2
    Replica = {r1, r2}
    Nobody = Nobody
    NumJobs = 2
    Interval = 3
    Timeout = 1
    Lease = 3
    Grace = 0
    AcquireDelay = 1
    ReleaseDelay = 1
    Offset <- Synchronised
    Skew = 0
    MaxFaults = 2
SPECIFICATION FairSpec
INVARIANTS TypeOK MutualExclusion
PROPERTIES NoEarlyRun LostOnlyByExpiry JobsKeepRunning
