----------------------------- MODULE Scheduler -----------------------------
(***************************************************************************)
(* The periodic jobs of platform/internal/kernel/scheduler: every          *)
(* glossa-server replica polls, takes a job's lease (a row of              *)
(* system_leases) when the job is due and nothing live holds it, runs the  *)
(* job and gives the lease back with the time it finished.                 *)
(*                                                                         *)
(* Time is discrete and relative: every timer says how long ago, or in how *)
(* long, and Tick moves all of them.  The lease is judged by the replicas' *)
(* own clocks (Acquire and Release send time.Now()), which run ahead of    *)
(* the slowest one by Offset.  A timer stops where no comparison can tell  *)
(* the difference any more (Floor, Cap).                                   *)
(***************************************************************************)
EXTENDS Integers

CONSTANTS
    Replica,       \* glossa-server processes
    Nobody,        \* holder = ''
    NumJobs,       \* jobs registered with Add, run in order by RunOnce
    Interval,      \* Config.Interval
    Timeout,       \* Config.Timeout
    Lease,         \* Config.Lease
    Grace,         \* how long a job takes to return once its context ended
    AcquireDelay,  \* bound: from Acquire's reading of the clock to its return
    ReleaseDelay,  \* releaseTimeout
    Offset,        \* Offset[r]: how far r's clock is ahead of the slowest
    Skew,          \* bound on Offset
    MaxFaults      \* bound: crashes, and failed Acquires and Releases

ASSUME ReplicaAssumption == Nobody \notin Replica
\* Config.validate.
ASSUME ConfigAssumption ==
    /\ NumJobs \in Nat \ {0}
    /\ Interval \in Nat \ {0} /\ Timeout \in Nat \ {0} /\ Lease \in Nat
    /\ Timeout < Lease /\ Timeout <= Interval
ASSUME BoundAssumption ==
    /\ Grace \in Nat /\ AcquireDelay \in Nat /\ ReleaseDelay \in Nat
    /\ Skew \in Nat /\ Offset \in [Replica -> 0 .. Skew]
    /\ MaxFaults \in Nat

Job == 1 .. NumJobs

\* An expiry this long past, and a run this long ago, are the same to every
\* reading of every clock; NULL is recorded as if it were that long ago.
Floor == -AcquireDelay
Cap   == Interval + AcquireDelay

VARIABLES
    \* system_leases.
    holder,     \* holder[j]
    expiresIn,  \* expiresIn[j]: expires_at - now
    ranAgo,     \* ranAgo[j]: now - last_run_at
    \* A replica's memory.
    pc,         \* where it is in runJob
    at,         \* at[r]: the job RunOnce is at
    since,      \* since[r]: time in this phase; Acquire's is from its reading
    \* What happened, for the properties only.
    doneAgo,    \* doneAgo[j]: time since j last finished or was cut short
    unrecorded, \* unrecorded[j]: that end is not recorded, by a fault or an overrun release
    faults

lease == <<holder, expiresIn, ranAgo>>
local == <<pc, at, since>>
vars  == <<lease, local, doneAgo, unrecorded, faults>>

Phase == {"asleep", "asking", "granted", "running", "releasing", "down"}

\* How long a phase may last.
Limit(r) ==
    IF pc[r] \in {"asking", "granted"} THEN AcquireDelay
    ELSE IF pc[r] = "running" THEN Timeout + Grace
    ELSE IF pc[r] = "releasing" THEN ReleaseDelay ELSE 0

Init ==
    /\ holder = [j \in Job |-> Nobody]
    /\ expiresIn = [j \in Job |-> Floor]
    /\ ranAgo = [j \in Job |-> Cap]
    /\ pc = [r \in Replica |-> "asleep"]
    /\ at = [r \in Replica |-> 1]
    /\ since = [r \in Replica |-> 0]
    /\ doneAgo = [j \in Job |-> Cap]
    /\ unrecorded = [j \in Job |-> FALSE]
    /\ faults = 0

-----------------------------------------------------------------------------
(* One replica.                                                            *)

Enter(r, phase) ==
    /\ pc' = [pc EXCEPT ![r] = phase]
    /\ since' = [since EXCEPT ![r] = 0]

\* RunOnce goes on to the next job, or Run waits for the next poll.
NextJobPastTheEnd(r) == at[r] + 1
NextJob(r) == IF at[r] < NumJobs THEN at[r] + 1 ELSE 1
MoveOn(r) ==
    /\ Enter(r, IF at[r] < NumJobs THEN "asking" ELSE "asleep")
    /\ at' = [at EXCEPT ![r] = NextJob(r)]

Fault == faults < MaxFaults /\ faults' = faults + 1

\* The poll is over.
Wake(r) ==
    /\ pc[r] = "asleep"
    /\ Enter(r, "asking")
    /\ UNCHANGED <<lease, at, doneAgo, unrecorded, faults>>

\* The time Acquire read, relative to the true time when the row is updated.
Reading(r) == Offset[r] - since[r]

\* The WHERE of AcquireLease.
FreeOnlyIfReleased(j, now) == holder[j] = Nobody
Free(j, now) == expiresIn[j] <= now
Due(j, now) == ranAgo[j] >= Interval - now

\* Acquire takes the lease: expires_at is its own reading plus the ttl.  The end
\* of a run whose release outlasted its lease will not be recorded any more.
ExpiryWithTimeout(r) == Reading(r) + Timeout
Expiry(r) == Reading(r) + Lease
Overrun(j) == \E q \in Replica : pc[q] = "releasing" /\ at[q] = j
Grant(r) ==
    /\ pc[r] = "asking"
    /\ Free(at[r], Reading(r)) /\ Due(at[r], Reading(r))
    /\ holder' = [holder EXCEPT ![at[r]] = r]
    /\ expiresIn' = [expiresIn EXCEPT ![at[r]] = Expiry(r)]
    /\ pc' = [pc EXCEPT ![r] = "granted"]
    /\ unrecorded' = [unrecorded EXCEPT ![at[r]] = @ \/ Overrun(at[r])]
    /\ UNCHANGED <<ranAgo, at, since, doneAgo, faults>>

\* Acquire updates no row: another holder has it, or the job is not due.
Skip(r) ==
    /\ pc[r] = "asking"
    /\ ~(Free(at[r], Reading(r)) /\ Due(at[r], Reading(r)))
    /\ MoveOn(r)
    /\ UNCHANGED <<lease, doneAgo, unrecorded, faults>>

\* Acquire returns an error, before or after its transaction committed: the
\* job is not run, and a lease that was taken is left to expire.
AcquireFails(r) ==
    /\ pc[r] \in {"asking", "granted"}
    /\ Fault
    /\ MoveOn(r)
    /\ UNCHANGED <<lease, doneAgo, unrecorded>>

\* Acquire returned true: invoke.
Start(r) ==
    /\ pc[r] = "granted"
    /\ Enter(r, "running")
    /\ UNCHANGED <<lease, at, doneAgo, unrecorded, faults>>

\* The job returns, fails, panics or times out: the lease is released all
\* the same.
RunEnds(r) ==
    /\ pc[r] = "running"
    /\ Enter(r, "releasing")
    /\ doneAgo' = [doneAgo EXCEPT ![at[r]] = 0]
    /\ unrecorded' = [unrecorded EXCEPT ![at[r]] = FALSE]
    /\ UNCHANGED <<lease, at, faults>>

\* The WHERE of ReleaseLease, and the last_run_at it sets.
Unfenced(r, j) == TRUE
Fenced(r, j) == holder[j] = r
NotRecorded(r, j) == ranAgo[j]
RanAgoOf(r, j) == -Offset[r]

Release(r) ==
    /\ pc[r] = "releasing"
    /\ LET j == at[r] IN
       IF Fenced(r, j)
       THEN /\ holder' = [holder EXCEPT ![j] = Nobody]
            /\ expiresIn' = [expiresIn EXCEPT ![j] = Floor]
            /\ ranAgo' = [ranAgo EXCEPT ![j] = RanAgoOf(r, j)]
       ELSE UNCHANGED lease
    /\ MoveOn(r)
    /\ UNCHANGED <<doneAgo, unrecorded, faults>>

\* The release has no effect: the lease is left to expire.
ReleaseFails(r) ==
    /\ pc[r] = "releasing"
    /\ Fault
    /\ MoveOn(r)
    /\ unrecorded' = [unrecorded EXCEPT ![at[r]] = TRUE]
    /\ UNCHANGED <<lease, doneAgo>>

-----------------------------------------------------------------------------
(* Processes and time.                                                     *)

\* The process dies.  A shutdown ends a replica that is asleep or asking the
\* same way, and lets a run and its release finish first.
Crash(r) ==
    /\ pc[r] # "down"
    /\ Fault
    /\ Enter(r, "down")
    /\ at' = [at EXCEPT ![r] = 1]
    /\ IF pc[r] \in {"running", "releasing"}
       THEN unrecorded' = [unrecorded EXCEPT ![at[r]] = TRUE]
       ELSE UNCHANGED unrecorded
    /\ IF pc[r] = "running"
       THEN doneAgo' = [doneAgo EXCEPT ![at[r]] = 0]
       ELSE UNCHANGED doneAgo
    /\ UNCHANGED lease

Restart(r) ==
    /\ pc[r] = "down"
    /\ Enter(r, "asleep")
    /\ UNCHANGED <<lease, at, doneAgo, unrecorded, faults>>

Later(t) == IF t < Cap THEN t + 1 ELSE t
Sooner(t) == IF t > Floor THEN t - 1 ELSE t
Timed(r) == pc[r] \in {"asking", "granted", "running", "releasing"}

\* Time passes, within the limits of the phases.
Tick ==
    /\ \A r \in Replica : Timed(r) => since[r] < Limit(r)
    /\ since' = [r \in Replica |-> IF Timed(r) THEN since[r] + 1 ELSE since[r]]
    /\ expiresIn' = [j \in Job |-> Sooner(expiresIn[j])]
    /\ ranAgo' = [j \in Job |-> Later(ranAgo[j])]
    /\ doneAgo' = [j \in Job |-> Later(doneAgo[j])]
    /\ UNCHANGED <<holder, pc, at, unrecorded, faults>>

\* What a replica does by itself.
Step(r) ==
    \/ Wake(r) \/ Grant(r) \/ Skip(r) \/ Start(r) \/ RunEnds(r) \/ Release(r)

Next ==
    \/ \E r \in Replica :
        Step(r) \/ AcquireFails(r) \/ ReleaseFails(r) \/ Crash(r) \/ Restart(r)
    \/ Tick

Spec == Init /\ [][Next]_vars

-----------------------------------------------------------------------------
(* Properties.                                                             *)

\* Type correctness, with the range of every timer: RunOnce stays within its
\* jobs, and no clock leaves the window in which comparisons tell it apart.
TypeOK ==
    /\ holder \in [Job -> Replica \cup {Nobody}]
    /\ expiresIn \in [Job -> Floor .. Lease + Skew]
    /\ ranAgo \in [Job -> -Skew .. Cap]
    /\ pc \in [Replica -> Phase]
    /\ at \in [Replica -> Job]
    /\ since \in [Replica -> Nat]
    /\ \A r \in Replica : since[r] <= Limit(r)
    /\ doneAgo \in [Job -> 0 .. Cap]
    /\ unrecorded \in [Job -> BOOLEAN]
    /\ faults \in 0 .. MaxFaults

\* The lease a run reserves is long enough for it to start, to run and to
\* give up, whatever clock another replica judges it by.
AmpleLease == AcquireDelay + Timeout + Grace + Skew < Lease

\* The same for the release as well.  Under a lease that is ample but not roomy,
\* a slow release comes after its lease has expired and gone to another replica.
RoomyLease == AcquireDelay + Timeout + Grace + ReleaseDelay + Skew < Lease

\* One deployment-wide run at a time per job, crashes, takeovers and skewed
\* clocks included.  It needs AmpleLease.
MutualExclusion ==
    \A r, q \in Replica :
        /\ pc[r] = "running" /\ pc[q] = "running"
        /\ at[r] = at[q]
        => r = q

\* A job that finished is not started again before its interval is over
\* (give or take the clocks), by any replica, a restarted one included,
\* unless the end of that run was not recorded: a fault lost it, or its release
\* outlasted the lease.  It needs AmpleLease.
NoEarlyRun ==
    [][\A r \in Replica :
        pc[r] = "granted" /\ pc'[r] = "running" =>
            \/ unrecorded[at[r]]
            \/ doneAgo[at[r]] >= Interval - Skew]_vars

\* A lease is lost by its holder's own release, or after it expired by some clock:
\* a release that comes late, when a successor has the lease, takes it from
\* nobody (leases.sql:22).
LostOnlyByExpiry ==
    [][\A j \in Job :
        holder[j] # Nobody /\ holder'[j] # holder[j] =>
            \/ expiresIn[j] <= Skew
            \/ pc[holder[j]] = "releasing" /\ at[holder[j]] = j]_vars

\* A replica that is up keeps polling and finishes what it started, and time
\* passes.  Nothing is assumed of restarts.
Fairness == WF_vars(Tick) /\ \A r \in Replica : WF_vars(Step(r))

FairSpec == Spec /\ Fairness

\* While a replica is up, every job runs again and again: a lease left behind
\* by a crash or a failed release does not stop it.
JobsKeepRunning ==
    \A j \in Job :
        []<>(\/ \A r \in Replica : pc[r] = "down"
             \/ \E r \in Replica : pc[r] = "running" /\ at[r] = j)
=============================================================================
