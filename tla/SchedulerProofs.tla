--------------------------- MODULE SchedulerProofs ---------------------------
(***************************************************************************)
(* Theorems about Scheduler, for every number of replicas and jobs, every  *)
(* interval, lease and delay, every skew and every number of faults.       *)
(***************************************************************************)
EXTENDS Scheduler, TLAPS

\* The constants the arithmetic needs, as numbers.
LEMMA Numbers ==
    /\ NumJobs \in Nat /\ NumJobs >= 1 /\ 1 \in Job /\ Job \subseteq Int
    /\ Interval \in Nat /\ Timeout \in Nat /\ Lease \in Nat /\ Grace \in Nat
    /\ AcquireDelay \in Nat /\ ReleaseDelay \in Nat /\ Skew \in Nat /\ MaxFaults \in Nat
    /\ Timeout < Lease
    /\ Floor \in Int /\ Floor <= 0 /\ Cap \in Nat
    /\ \A r \in Replica : Offset[r] \in Int /\ 0 <= Offset[r] /\ Offset[r] <= Skew
BY ConfigAssumption, BoundAssumption DEF Job, Floor, Cap

-----------------------------------------------------------------------------
(* Types.                                                                  *)

LocalOK ==
    /\ pc \in [Replica -> Phase]
    /\ at \in [Replica -> Job]
    /\ since \in [Replica -> Nat]
    /\ \A r \in Replica : since[r] <= Limit(r)

\* The limits of the phases are numbers, and a phase begins within its limit.
LEMMA LimitType ==
    ASSUME NEW r \in Replica
    PROVE  Limit(r) \in Nat
BY Numbers DEF Limit

\* A replica that enters a phase keeps the local types.
LEMMA EnterType ==
    ASSUME LocalOK, NEW r \in Replica, NEW p \in Phase, Enter(r, p),
           at' \in [Replica -> Job]
    PROVE  LocalOK'
<1>1. pc' \in [Replica -> Phase] /\ since' \in [Replica -> Nat]
  BY DEF LocalOK, Enter
<1>2. ASSUME NEW q \in Replica PROVE since'[q] <= Limit(q)'
  <2>1. CASE q = r
    <3>1. since'[q] = 0
      BY <2>1 DEF LocalOK, Enter
    <3>2. Limit(q)' \in Nat
      BY Numbers DEF Limit
    <3> QED BY <3>1, <3>2
  <2>2. CASE q # r
    <3>1. since'[q] = since[q] /\ pc'[q] = pc[q]
      BY <2>2 DEF LocalOK, Enter
    <3>2. Limit(q)' = Limit(q)
      BY <3>1 DEF Limit
    <3> QED BY <3>1, <3>2 DEF LocalOK
  <2> QED BY <2>1, <2>2
<1> QED BY <1>1, <1>2 DEF LocalOK

\* RunOnce stays within its jobs.
LEMMA MoveOnType ==
    ASSUME LocalOK, NEW r \in Replica, MoveOn(r)
    PROVE  LocalOK'
<1>1. at[r] \in Job /\ NextJob(r) \in Job
  BY Numbers DEF LocalOK, Job, NextJob
<1>2. at' \in [Replica -> Job]
  BY <1>1 DEF MoveOn, LocalOK
<1>3. CASE at[r] < NumJobs
  BY <1>2, <1>3, EnterType, "asking" \in Phase DEF MoveOn, Phase
<1>4. CASE ~(at[r] < NumJobs)
  BY <1>2, <1>4, EnterType, "asleep" \in Phase DEF MoveOn, Phase
<1> QED BY <1>3, <1>4

\* Every step keeps the local types.
LEMMA LocalStep ==
    ASSUME TypeOK, [Next]_vars
    PROVE  LocalOK'
<1> USE DEF TypeOK
<1>0. LocalOK
  BY DEF LocalOK
<1>1. ASSUME NEW r \in Replica, Wake(r) PROVE LocalOK'
  BY <1>0, <1>1, EnterType, "asking" \in Phase DEF Wake, Phase
<1>2. ASSUME NEW r \in Replica, Grant(r) PROVE LocalOK'
  <2>1. pc' \in [Replica -> Phase] /\ at' = at /\ since' = since
    BY <1>2 DEF Grant, Phase
  <2>2. ASSUME NEW q \in Replica PROVE since'[q] <= Limit(q)'
    <3>1. CASE q = r
      <4>1. pc'[q] = "granted" /\ pc[q] = "asking"
        BY <1>2, <3>1 DEF Grant
      <4>2. Limit(q)' = AcquireDelay /\ Limit(q) = AcquireDelay
        BY <4>1 DEF Limit
      <4> QED BY <2>1, <4>2
    <3>2. CASE q # r
      <4>1. pc'[q] = pc[q]
        BY <1>2, <3>2 DEF Grant
      <4>2. Limit(q)' = Limit(q)
        BY <4>1 DEF Limit
      <4> QED BY <2>1, <4>2
    <3> QED BY <3>1, <3>2
  <2> QED BY <2>1, <2>2 DEF LocalOK
<1>3. ASSUME NEW r \in Replica, Skip(r) \/ AcquireFails(r) \/ Release(r) \/ ReleaseFails(r)
      PROVE LocalOK'
  BY <1>0, <1>3, MoveOnType DEF Skip, AcquireFails, Release, ReleaseFails
<1>4. ASSUME NEW r \in Replica, Start(r) PROVE LocalOK'
  BY <1>0, <1>4, EnterType, "running" \in Phase DEF Start, Phase
<1>5. ASSUME NEW r \in Replica, RunEnds(r) PROVE LocalOK'
  BY <1>0, <1>5, EnterType, "releasing" \in Phase DEF RunEnds, Phase
<1>6. ASSUME NEW r \in Replica, Crash(r) PROVE LocalOK'
  <2>1. at' \in [Replica -> Job]
    BY <1>6, Numbers DEF Crash
  <2> QED BY <1>0, <1>6, <2>1, EnterType, "down" \in Phase DEF Crash, Phase
<1>7. ASSUME NEW r \in Replica, Restart(r) PROVE LocalOK'
  BY <1>0, <1>7, EnterType, "asleep" \in Phase DEF Restart, Phase
<1>8. CASE Tick
  <2>1. pc' = pc /\ at' = at /\ since' \in [Replica -> Nat]
    BY <1>8 DEF Tick
  <2>2. ASSUME NEW q \in Replica PROVE since'[q] <= Limit(q)'
    <3>1. Limit(q)' = Limit(q) /\ Limit(q) \in Nat
      BY <2>1, LimitType DEF Limit
    <3>2. since[q] \in Nat /\ since[q] <= Limit(q)
      OBVIOUS
    <3>3. since'[q] = IF Timed(q) THEN since[q] + 1 ELSE since[q]
      BY <1>8 DEF Tick
    <3>4. Timed(q) => since[q] < Limit(q)
      BY <1>8 DEF Tick
    <3> QED BY <3>1, <3>2, <3>3, <3>4
  <2> QED BY <2>1, <2>2 DEF LocalOK
<1>9. CASE UNCHANGED vars
  BY <1>0, <1>9 DEF LocalOK, vars, local, Limit
<1> QED BY <1>1, <1>2, <1>3, <1>4, <1>5, <1>6, <1>7, <1>8, <1>9 DEF Next, Step

\* An expiry a replica asks for is in the range of the timer.
LEMMA ExpiryType ==
    ASSUME TypeOK, NEW r \in Replica, pc[r] = "asking"
    PROVE  /\ Reading(r) \in Int /\ Reading(r) <= Skew /\ Reading(r) >= Floor
           /\ Expiry(r) \in Floor .. Lease + Skew
<1>1. since[r] \in Nat /\ since[r] <= AcquireDelay
  BY DEF TypeOK, Limit
<1> QED BY <1>1, Numbers DEF Reading, Expiry, Floor

\* The timers and the history keep their ranges.
LEMMA TimerStep ==
    ASSUME TypeOK, [Next]_vars
    PROVE  /\ holder' \in [Job -> Replica \cup {Nobody}]
           /\ expiresIn' \in [Job -> Floor .. Lease + Skew]
           /\ ranAgo' \in [Job -> -Skew .. Cap]
           /\ doneAgo' \in [Job -> 0 .. Cap]
           /\ unrecorded' \in [Job -> BOOLEAN]
           /\ faults' \in 0 .. MaxFaults
<1> DEFINE Goal == /\ holder' \in [Job -> Replica \cup {Nobody}]
                   /\ expiresIn' \in [Job -> Floor .. Lease + Skew]
                   /\ ranAgo' \in [Job -> -Skew .. Cap]
                   /\ doneAgo' \in [Job -> 0 .. Cap]
                   /\ unrecorded' \in [Job -> BOOLEAN]
                   /\ faults' \in 0 .. MaxFaults
<1> USE DEF TypeOK
<1>1. ASSUME NEW r \in Replica,
             Wake(r) \/ Skip(r) \/ Start(r) \/ Restart(r)
      PROVE  Goal
  BY <1>1 DEF Wake, Skip, Start, Restart, lease
<1>2. ASSUME NEW r \in Replica, Grant(r) PROVE Goal
  <2>1. Expiry(r) \in Floor .. Lease + Skew
    BY <1>2, ExpiryType DEF Grant
  <2> QED BY <1>2, <2>1 DEF Grant
<1>3. ASSUME NEW r \in Replica, AcquireFails(r) \/ ReleaseFails(r) PROVE Goal
  <2>1. faults' \in 0 .. MaxFaults
    BY <1>3, Numbers DEF AcquireFails, ReleaseFails, Fault
  <2> QED BY <1>3, <2>1 DEF AcquireFails, ReleaseFails, lease
<1>4. ASSUME NEW r \in Replica, RunEnds(r) PROVE Goal
  <2>1. 0 \in 0 .. Cap
    BY Numbers
  <2> QED BY <1>4, <2>1 DEF RunEnds, lease
<1>5. ASSUME NEW r \in Replica, Release(r) PROVE Goal
  <2>1. Floor \in Floor .. Lease + Skew /\ RanAgoOf(r, at[r]) \in -Skew .. Cap
    BY Numbers DEF RanAgoOf
  <2> QED BY <1>5, <2>1 DEF Release, lease
<1>6. ASSUME NEW r \in Replica, Crash(r) PROVE Goal
  <2>1. faults' \in 0 .. MaxFaults /\ 0 \in 0 .. Cap
    BY <1>6, Numbers DEF Crash, Fault
  <2> QED BY <1>6, <2>1 DEF Crash, lease
<1>7. CASE Tick
  <2>1. \A t \in 0 .. Cap : Later(t) \in 0 .. Cap
    BY Numbers DEF Later
  <2>2. \A t \in -Skew .. Cap : Later(t) \in -Skew .. Cap
    BY Numbers DEF Later
  <2>3. \A t \in Floor .. Lease + Skew : Sooner(t) \in Floor .. Lease + Skew
    BY Numbers DEF Sooner
  <2> QED BY <1>7, <2>1, <2>2, <2>3 DEF Tick
<1>8. CASE UNCHANGED vars
  BY <1>8 DEF vars, lease
<1> QED BY <1>1, <1>2, <1>3, <1>4, <1>5, <1>6, <1>7, <1>8 DEF Next, Step

\* The types hold in every reachable state: every timer stays in the window
\* in which the comparisons of AcquireLease tell its values apart.
THEOREM TypeCorrect == Spec => []TypeOK
<1>1. Init => TypeOK
  BY Numbers DEF Init, TypeOK, Phase, Limit
<1>2. TypeOK /\ [Next]_vars => TypeOK'
  BY LocalStep, TimerStep DEF TypeOK, LocalOK
<1> QED BY <1>1, <1>2, PTL DEF Spec

-----------------------------------------------------------------------------
(* The lease outlasts the run.                                             *)

\* The phases a replica is sure to hold the lease in.
Busy == IF RoomyLease THEN {"granted", "running", "releasing"} ELSE {"granted", "running"}

\* What is left of the lease at least, given the time the phases took.
Remaining(r) ==
    IF pc[r] = "granted" THEN Lease + Offset[r] - since[r]
    ELSE IF pc[r] = "running" THEN Lease - AcquireDelay + Offset[r] - since[r]
    ELSE Lease - AcquireDelay - (Timeout + Grace) + Offset[r] - since[r]

HeldBy(r) ==
    pc[r] \in Busy => holder[at[r]] = r /\ expiresIn[at[r]] >= Remaining(r)

Held == \A r \in Replica : HeldBy(r)

\* A replica is at a job, and the timers of a job are numbers.
LEMMA RowType ==
    ASSUME TypeOK, NEW r \in Replica
    PROVE  /\ at[r] \in Job
           /\ expiresIn[at[r]] \in Int /\ Floor <= expiresIn[at[r]]
           /\ ranAgo[at[r]] \in Int /\ ranAgo[at[r]] <= Cap
           /\ doneAgo[at[r]] \in Int /\ 0 <= doneAgo[at[r]] /\ doneAgo[at[r]] <= Cap
<1>1. at[r] \in Job
  BY DEF TypeOK
<1>2. expiresIn[at[r]] \in Floor .. Lease + Skew
  BY <1>1 DEF TypeOK
<1>3. ranAgo[at[r]] \in -Skew .. Cap /\ doneAgo[at[r]] \in 0 .. Cap
  BY <1>1 DEF TypeOK
<1> QED BY <1>1, <1>2, <1>3, Numbers

\* It is more than any clock is ahead by.
LEMMA RemainingIsAmple ==
    ASSUME AmpleLease, TypeOK, NEW r \in Replica, pc[r] \in Busy
    PROVE  Remaining(r) \in Int /\ Remaining(r) > Skew
<1>1. since[r] \in Nat /\ since[r] <= Limit(r)
  BY DEF TypeOK
<1>2. CASE pc[r] = "granted"
  BY <1>1, <1>2, Numbers DEF Remaining, Limit, AmpleLease
<1>3. CASE pc[r] = "running"
  BY <1>1, <1>3, Numbers DEF Remaining, Limit, AmpleLease
<1>4. CASE pc[r] = "releasing"
  <2>1. RoomyLease
    BY <1>4 DEF Busy
  <2> QED BY <1>1, <1>4, <2>1, Numbers DEF Remaining, Limit, RoomyLease
<1> QED BY <1>2, <1>3, <1>4 DEF Busy

\* A replica whose phase and row a step leaves alone holds its lease still.
LEMMA Undisturbed ==
    ASSUME NEW q \in Replica, HeldBy(q),
           pc'[q] = pc[q], at'[q] = at[q], since'[q] = since[q],
           pc[q] \in Busy => /\ holder'[at[q]] = holder[at[q]]
                             /\ expiresIn'[at[q]] = expiresIn[at[q]]
    PROVE  HeldBy(q)'
BY DEF HeldBy, Remaining

\* A replica that goes on or dies is not busy any more, and disturbs nobody.
LEMMA EnterHeld ==
    ASSUME TypeOK, Held, NEW r \in Replica, NEW p \in Phase, Enter(r, p), p \notin Busy,
           \A q \in Replica \ {r} : at'[q] = at[q],
           \A q \in Replica \ {r} : pc[q] \in Busy =>
                /\ holder'[at[q]] = holder[at[q]]
                /\ expiresIn'[at[q]] = expiresIn[at[q]]
    PROVE  Held'
<1> SUFFICES ASSUME NEW q \in Replica PROVE HeldBy(q)'
  BY DEF Held
<1>1. CASE q = r
  BY <1>1 DEF HeldBy, Enter, TypeOK
<1>2. CASE q # r
  <2>1. HeldBy(q) /\ pc'[q] = pc[q] /\ since'[q] = since[q]
    BY <1>2 DEF Held, Enter, TypeOK
  <2> QED BY <1>2, <2>1, Undisturbed
<1> QED BY <1>1, <1>2

\* MoveOn is such a step.
LEMMA MoveOnHeld ==
    ASSUME TypeOK, Held, NEW r \in Replica, MoveOn(r),
           \A q \in Replica \ {r} : pc[q] \in Busy =>
                /\ holder'[at[q]] = holder[at[q]]
                /\ expiresIn'[at[q]] = expiresIn[at[q]]
    PROVE  Held'
<1>1. "asking" \in Phase \ Busy /\ "asleep" \in Phase \ Busy
  BY DEF Phase, Busy
<1>2. \A q \in Replica \ {r} : at'[q] = at[q]
  BY DEF MoveOn, TypeOK
<1>3. CASE at[r] < NumJobs
  BY <1>1, <1>2, <1>3, EnterHeld DEF MoveOn
<1>4. CASE ~(at[r] < NumJobs)
  BY <1>1, <1>2, <1>4, EnterHeld DEF MoveOn
<1> QED BY <1>3, <1>4

\* No replica is granted a lease that a busy one holds.
LEMMA GrantElsewhere ==
    ASSUME AmpleLease, TypeOK, Held, NEW r \in Replica, Grant(r),
           NEW q \in Replica, pc[q] \in Busy
    PROVE  at[q] # at[r]
<1>1. expiresIn[at[r]] <= Reading(r) /\ Reading(r) \in Int /\ Reading(r) <= Skew
  BY ExpiryType DEF Grant, Free
<1>2. expiresIn[at[q]] >= Remaining(q) /\ Remaining(q) \in Int /\ Remaining(q) > Skew
  BY RemainingIsAmple DEF Held, HeldBy
<1>3. expiresIn[at[q]] \in Int /\ expiresIn[at[r]] \in Int
  BY RowType
<1> QED BY <1>1, <1>2, <1>3, Numbers

\* Every step keeps the leases of the busy replicas.
LEMMA HeldStep ==
    ASSUME AmpleLease, TypeOK, Held, [Next]_vars
    PROVE  Held'
<1>1. ASSUME NEW r \in Replica, Wake(r) PROVE Held'
  BY <1>1, EnterHeld, "asking" \in Phase \ Busy DEF Wake, lease, Phase, Busy
<1>2. ASSUME NEW r \in Replica, Grant(r) PROVE Held'
  <2> SUFFICES ASSUME NEW q \in Replica PROVE HeldBy(q)'
    BY DEF Held
  <2>1. CASE q = r
    <3>1. holder'[at[r]] = r /\ expiresIn'[at[r]] = Expiry(r) /\ at' = at /\ since' = since
      BY <1>2 DEF Grant, TypeOK
    <3>2. pc'[r] = "granted" /\ since[r] \in Nat
      BY <1>2 DEF Grant, TypeOK
    <3>3. Remaining(r)' = Lease + Offset[r] - since[r]
      BY <3>1, <3>2 DEF Remaining
    <3> QED BY <2>1, <3>1, <3>2, <3>3, Numbers DEF HeldBy, Expiry, Reading
  <2>2. CASE q # r
    <3>1. pc'[q] = pc[q] /\ at'[q] = at[q] /\ since'[q] = since[q]
      BY <1>2, <2>2 DEF Grant, TypeOK
    <3>2. pc[q] \in Busy => holder'[at[q]] = holder[at[q]] /\ expiresIn'[at[q]] = expiresIn[at[q]]
      BY <1>2, GrantElsewhere DEF Grant, TypeOK
    <3> QED BY <3>1, <3>2, Undisturbed DEF Held
  <2> QED BY <2>1, <2>2
<1>3. ASSUME NEW r \in Replica, Skip(r) \/ AcquireFails(r) \/ ReleaseFails(r) PROVE Held'
  BY <1>3, MoveOnHeld DEF Skip, AcquireFails, ReleaseFails, lease
<1>4. ASSUME NEW r \in Replica, Start(r) \/ RunEnds(r) PROVE Held'
  <2> SUFFICES ASSUME NEW q \in Replica PROVE HeldBy(q)'
    BY DEF Held
  <2>0. holder' = holder /\ expiresIn' = expiresIn /\ at' = at /\ HeldBy(q)
    BY <1>4 DEF Start, RunEnds, lease, Held
  <2>1. CASE q = r /\ Start(r)
    <3>1. pc[r] = "granted" /\ pc'[r] = "running" /\ since'[r] = 0
      BY <2>1 DEF Start, Enter, TypeOK
    <3>2. since[r] \in Nat /\ since[r] <= AcquireDelay
      BY <3>1 DEF TypeOK, Limit
    <3>3. Remaining(r) = Lease + Offset[r] - since[r] /\ Remaining(r)' = Lease - AcquireDelay + Offset[r] - 0
      BY <3>1 DEF Remaining
    <3>4. holder[at[r]] = r /\ expiresIn[at[r]] >= Remaining(r) /\ expiresIn[at[r]] \in Int
      BY <2>0, <2>1, <3>1, RowType DEF HeldBy, Busy
    <3>5. expiresIn[at[r]] >= Remaining(r)'
      BY <3>2, <3>3, <3>4, Numbers
    <3> QED BY <2>0, <2>1, <3>4, <3>5 DEF HeldBy
  <2>2. CASE q = r /\ RunEnds(r)
    <3>1. pc[r] = "running" /\ pc'[r] = "releasing" /\ since'[r] = 0
      BY <2>2 DEF RunEnds, Enter, TypeOK
    <3>2. since[r] \in Nat /\ since[r] <= Timeout + Grace
      BY <3>1 DEF TypeOK, Limit
    <3>3. /\ Remaining(r) = Lease - AcquireDelay + Offset[r] - since[r]
          /\ Remaining(r)' = Lease - AcquireDelay - (Timeout + Grace) + Offset[r] - 0
      BY <3>1 DEF Remaining
    <3>4. holder[at[r]] = r /\ expiresIn[at[r]] >= Remaining(r) /\ expiresIn[at[r]] \in Int
      BY <2>0, <2>2, <3>1, RowType DEF HeldBy, Busy
    <3>5. expiresIn[at[r]] >= Remaining(r)'
      BY <3>2, <3>3, <3>4, Numbers
    <3> QED BY <2>0, <2>2, <3>4, <3>5 DEF HeldBy
  <2>3. CASE q # r
    BY <1>4, <2>0, <2>3, Undisturbed DEF Start, RunEnds, Enter, TypeOK
  <2> QED BY <1>4, <2>1, <2>2, <2>3
<1>5. ASSUME NEW r \in Replica, Release(r) PROVE Held'
  <2>1. ASSUME NEW q \in Replica \ {r}, pc[q] \in Busy
        PROVE  holder'[at[q]] = holder[at[q]] /\ expiresIn'[at[q]] = expiresIn[at[q]]
    <3>1. holder[at[q]] = q
      BY <2>1 DEF Held, HeldBy
    <3>2. CASE Fenced(r, at[r])
      BY <1>5, <3>1, <3>2 DEF Release, Fenced, TypeOK
    <3>3. CASE ~Fenced(r, at[r])
      BY <1>5, <3>3 DEF Release, lease
    <3> QED BY <3>2, <3>3
  <2> QED BY <1>5, <2>1, MoveOnHeld DEF Release
<1>6. ASSUME NEW r \in Replica, Crash(r) PROVE Held'
  <2>1. \A q \in Replica \ {r} : at'[q] = at[q]
    BY <1>6 DEF Crash, TypeOK
  <2> QED BY <1>6, <2>1, EnterHeld, "down" \in Phase \ Busy DEF Crash, lease, Phase, Busy
<1>7. ASSUME NEW r \in Replica, Restart(r) PROVE Held'
  BY <1>7, EnterHeld, "asleep" \in Phase \ Busy DEF Restart, lease, Phase, Busy
<1>8. CASE Tick
  <2> SUFFICES ASSUME NEW q \in Replica, pc'[q] \in Busy
               PROVE  holder'[at'[q]] = q /\ expiresIn'[at'[q]] >= Remaining(q)'
    BY DEF Held, HeldBy
  <2>1. pc' = pc /\ at' = at /\ holder' = holder
    BY <1>8 DEF Tick
  <2>2. holder[at[q]] = q /\ expiresIn[at[q]] >= Remaining(q)
    BY <2>1 DEF Held, HeldBy
  <2>3. since[q] \in Nat /\ since'[q] = since[q] + 1
    BY <1>8, <2>1 DEF Tick, Timed, Busy, TypeOK
  <2>4. Remaining(q)' = Remaining(q) - 1 /\ Remaining(q) \in Int
    BY <2>1, <2>3, Numbers DEF Remaining
  <2>5. expiresIn[at[q]] \in Int /\ expiresIn'[at[q]] >= expiresIn[at[q]] - 1 /\ expiresIn'[at[q]] \in Int
    <3>1. at[q] \in Job /\ expiresIn[at[q]] \in Int
      BY RowType
    <3>2. expiresIn'[at[q]] = Sooner(expiresIn[at[q]])
      BY <1>8, <3>1 DEF Tick
    <3> QED BY <3>1, <3>2 DEF Sooner
  <2> QED BY <2>1, <2>2, <2>4, <2>5
<1>9. CASE UNCHANGED vars
  BY <1>9 DEF vars, lease, local, Held, HeldBy, Remaining
<1> QED BY <1>1, <1>2, <1>3, <1>4, <1>5, <1>6, <1>7, <1>8, <1>9 DEF Next, Step

\* No two replicas run a job at once when the lease is ample.  A row has one
\* holder, and a running replica's row is still its own: its lease, counted
\* from a reading at most AcquireDelay old, outlasts the run by every clock.
THEOREM OneRunAtATime ==
    ASSUME AmpleLease
    PROVE  Spec => []MutualExclusion
<1>1. Init => Held
  BY DEF Init, Held, HeldBy, Busy
<1>2. TypeOK /\ Held /\ [Next]_vars => Held'
  BY HeldStep
<1>3. Held => MutualExclusion
  BY DEF Held, HeldBy, Busy, MutualExclusion
<1> QED BY <1>1, <1>2, <1>3, TypeCorrect, PTL DEF Spec

-----------------------------------------------------------------------------
(* The interval is kept.                                                   *)

\* last_run_at is no older than the last end of the job, but while its holder
\* records that end, or after a fault or an overrun kept it from being recorded.
Records(r, j) == pc[r] = "releasing" /\ at[r] = j /\ holder[j] = r
RunRecorded(j) ==
    \/ unrecorded[j]
    \/ doneAgo[j] >= ranAgo[j]
    \/ \E r \in Replica : Records(r, j)

\* A job whose lease was granted is due by its history.
DueWhenGranted(r) ==
    pc[r] = "granted" => unrecorded[at[r]] \/ doneAgo[at[r]] >= Interval - Skew

History ==
    /\ \A j \in Job : RunRecorded(j)
    /\ \A r \in Replica : DueWhenGranted(r)

\* The lease and the history of a job stay as they are while another one's
\* release is under way.
LEMMA RecordedStill ==
    ASSUME NEW j \in Job, RunRecorded(j),
           unrecorded[j] => unrecorded'[j],
           ~unrecorded'[j] => doneAgo'[j] = doneAgo[j] /\ ranAgo'[j] = ranAgo[j],
           \A r \in Replica : Records(r, j) => unrecorded'[j] \/ Records(r, j)'
    PROVE  RunRecorded(j)'
BY DEF RunRecorded

\* Every step keeps the records.
LEMMA RecordedStep ==
    ASSUME AmpleLease, TypeOK, Held, History, [Next]_vars, NEW j \in Job
    PROVE  RunRecorded(j)'
<1>0. RunRecorded(j)
  BY DEF History
<1>1. ASSUME NEW r \in Replica, Wake(r) \/ Start(r) \/ Restart(r) PROVE RunRecorded(j)'
  <2>1. pc[r] # "releasing" /\ UNCHANGED <<lease, at, doneAgo, unrecorded>>
    BY <1>1 DEF Wake, Start, Restart
  <2>2. \A q \in Replica \ {r} : pc'[q] = pc[q]
    BY <1>1 DEF Wake, Start, Restart, Enter, TypeOK
  <2>3. \A q \in Replica : Records(q, j) => Records(q, j)'
    BY <2>1, <2>2 DEF Records, lease
  <2> QED BY <1>0, <2>1, <2>3, RecordedStill DEF lease
<1>2. ASSUME NEW r \in Replica, Skip(r) \/ AcquireFails(r) PROVE RunRecorded(j)'
  <2>1. pc[r] # "releasing" /\ UNCHANGED <<holder, ranAgo, doneAgo, unrecorded>>
    BY <1>2 DEF Skip, AcquireFails, lease
  <2>2. \A q \in Replica \ {r} : pc'[q] = pc[q] /\ at'[q] = at[q]
    BY <1>2 DEF Skip, AcquireFails, MoveOn, Enter, TypeOK
  <2>3. \A q \in Replica : Records(q, j) => Records(q, j)'
    BY <2>1, <2>2 DEF Records
  <2> QED BY <1>0, <2>1, <2>3, RecordedStill
<1>3. ASSUME NEW r \in Replica, Grant(r) PROVE RunRecorded(j)'
  <2>1. /\ UNCHANGED <<ranAgo, doneAgo, at>> /\ pc[r] = "asking"
        /\ \A q \in Replica \ {r} : pc'[q] = pc[q]
        /\ \A i \in Job : i # at[r] => holder'[i] = holder[i]
    BY <1>3 DEF Grant, TypeOK
  <2>2. unrecorded'[j] <=> (unrecorded[j] \/ (j = at[r] /\ Overrun(j)))
    BY <1>3 DEF Grant, TypeOK
  <2>3. ASSUME NEW q \in Replica, Records(q, j)
        PROVE  unrecorded'[j] \/ Records(q, j)'
    <3>1. pc[q] = "releasing" /\ at[q] = j /\ q # r
      BY <2>1, <2>3 DEF Records
    <3>2. CASE j = at[r]
      BY <2>2, <3>1, <3>2 DEF Overrun
    <3>3. CASE j # at[r]
      BY <2>1, <2>3, <3>1, <3>3 DEF Records
    <3> QED BY <3>2, <3>3
  <2> QED BY <1>0, <2>1, <2>2, <2>3, RecordedStill
<1>4. ASSUME NEW r \in Replica, RunEnds(r) PROVE RunRecorded(j)'
  <2>1. CASE j = at[r]
    <3>1. pc'[r] = "releasing" /\ at'[r] = j /\ holder' = holder
      BY <1>4, <2>1 DEF RunEnds, Enter, lease, TypeOK
    <3>2. holder[j] = r
      BY <1>4, <2>1 DEF RunEnds, Held, HeldBy, Busy
    <3> QED BY <3>1, <3>2 DEF RunRecorded, Records
  <2>2. CASE j # at[r]
    <3>1. /\ UNCHANGED <<lease, at>> /\ pc[r] = "running"
          /\ \A q \in Replica \ {r} : pc'[q] = pc[q]
      BY <1>4 DEF RunEnds, Enter, TypeOK
    <3>2. \A q \in Replica : Records(q, j) => Records(q, j)'
      BY <3>1 DEF Records, lease
    <3>3. unrecorded'[j] = unrecorded[j] /\ doneAgo'[j] = doneAgo[j] /\ ranAgo'[j] = ranAgo[j]
      BY <1>4, <2>2 DEF RunEnds, lease, TypeOK
    <3> QED BY <1>0, <3>2, <3>3, RecordedStill
  <2> QED BY <2>1, <2>2
<1>5. ASSUME NEW r \in Replica, Release(r) PROVE RunRecorded(j)'
  <2>1. CASE j = at[r] /\ Fenced(r, j)
    <3>2. ranAgo'[j] = -Offset[r] /\ doneAgo'[j] = doneAgo[j]
      BY <1>5, <2>1 DEF Release, RanAgoOf, TypeOK
    <3>3. doneAgo[j] \in Int /\ 0 <= doneAgo[j]
      BY <2>1, RowType
    <3> QED BY <3>2, <3>3, Numbers DEF RunRecorded
  <2>2. CASE ~(j = at[r] /\ Fenced(r, j))
    <3>1. \A q \in Replica \ {r} : pc'[q] = pc[q] /\ at'[q] = at[q]
      BY <1>5 DEF Release, MoveOn, Enter, TypeOK
    <3>2. /\ ranAgo'[j] = ranAgo[j] /\ holder'[j] = holder[j]
          /\ UNCHANGED <<doneAgo, unrecorded>>
      BY <1>5, <2>2 DEF Release, lease, TypeOK
    <3>3. \A q \in Replica : Records(q, j) => Records(q, j)'
      BY <2>2, <3>1, <3>2 DEF Records, Fenced
    <3> QED BY <1>0, <3>2, <3>3, RecordedStill
  <2> QED BY <2>1, <2>2
<1>6. ASSUME NEW r \in Replica, ReleaseFails(r) PROVE RunRecorded(j)'
  <2>1. \A q \in Replica \ {r} : pc'[q] = pc[q] /\ at'[q] = at[q]
    BY <1>6 DEF ReleaseFails, MoveOn, Enter, TypeOK
  <2>2. UNCHANGED <<holder, ranAgo, doneAgo>> /\ (unrecorded[j] => unrecorded'[j])
    BY <1>6 DEF ReleaseFails, lease, TypeOK
  <2>3. at[r] = j => unrecorded'[j]
    BY <1>6 DEF ReleaseFails, TypeOK
  <2>4. \A q \in Replica : Records(q, j) => unrecorded'[j] \/ Records(q, j)'
    BY <2>1, <2>2, <2>3 DEF Records
  <2> QED BY <1>0, <2>2, <2>4, RecordedStill
<1>7. ASSUME NEW r \in Replica, Crash(r) PROVE RunRecorded(j)'
  <2>1. \A q \in Replica \ {r} : pc'[q] = pc[q] /\ at'[q] = at[q]
    BY <1>7 DEF Crash, Enter, TypeOK
  <2>2. UNCHANGED <<holder, ranAgo>> /\ (unrecorded[j] => unrecorded'[j])
    BY <1>7 DEF Crash, lease, TypeOK
  <2>3. at[r] = j /\ pc[r] \in {"running", "releasing"} => unrecorded'[j]
    BY <1>7 DEF Crash, TypeOK
  <2>4. ~(at[r] = j /\ pc[r] = "running") => doneAgo'[j] = doneAgo[j]
    BY <1>7 DEF Crash, TypeOK
  <2>5. \A q \in Replica : Records(q, j) => unrecorded'[j] \/ Records(q, j)'
    BY <2>1, <2>2, <2>3 DEF Records
  <2> QED BY <1>0, <2>2, <2>3, <2>4, <2>5, RecordedStill
<1>8. CASE Tick
  <2>1. doneAgo[j] \in 0 .. Cap /\ ranAgo[j] \in -Skew .. Cap
    BY DEF TypeOK
  <2>2. doneAgo'[j] = Later(doneAgo[j]) /\ ranAgo'[j] = Later(ranAgo[j])
    BY <1>8 DEF Tick
  <2>3. doneAgo[j] >= ranAgo[j] => doneAgo'[j] >= ranAgo'[j]
    BY <2>1, <2>2, Numbers DEF Later
  <2> QED BY <1>0, <1>8, <2>3 DEF Tick, RunRecorded, Records
<1>9. CASE UNCHANGED vars
  BY <1>0, <1>9 DEF vars, lease, local, RunRecorded, Records
<1> QED BY <1>1, <1>2, <1>3, <1>4, <1>5, <1>6, <1>7, <1>8, <1>9 DEF Next, Step

\* A roomy lease is ample.
LEMMA RoomyIsAmple == RoomyLease => AmpleLease
BY Numbers DEF RoomyLease, AmpleLease

\* What is due stays due while nothing ends the job.
LEMMA DueStill ==
    ASSUME NEW q \in Replica, DueWhenGranted(q),
           pc'[q] = "granted" => /\ pc[q] = "granted" /\ at'[q] = at[q]
                                 /\ unrecorded[at[q]] => unrecorded'[at[q]]
                                 /\ ~unrecorded'[at[q]] => doneAgo'[at[q]] = doneAgo[at[q]]
    PROVE  DueWhenGranted(q)'
BY DEF DueWhenGranted

\* Every step grants a lease only for a job that is due by its history.
LEMMA DueStep ==
    ASSUME AmpleLease, TypeOK, Held, History, [Next]_vars, NEW q \in Replica
    PROVE  DueWhenGranted(q)'
<1>0. DueWhenGranted(q) /\ at[q] \in Job
  BY DEF History, TypeOK
<1>1. ASSUME NEW r \in Replica, Wake(r) \/ Start(r) \/ Restart(r) PROVE DueWhenGranted(q)'
  BY <1>0, <1>1, DueStill DEF Wake, Start, Restart, Enter, TypeOK
<1>2. ASSUME NEW r \in Replica, Skip(r) \/ AcquireFails(r) \/ Release(r) \/ ReleaseFails(r)
      PROVE DueWhenGranted(q)'
  <2>1. MoveOn(r) /\ doneAgo' = doneAgo /\ (unrecorded[at[q]] => unrecorded'[at[q]])
    BY <1>2 DEF Skip, AcquireFails, Release, ReleaseFails, TypeOK
  <2>2. pc'[q] = "granted" => pc[q] = "granted" /\ at'[q] = at[q]
    BY <2>1 DEF MoveOn, Enter, TypeOK
  <2> QED BY <1>0, <2>1, <2>2, DueStill
<1>3. ASSUME NEW r \in Replica, Grant(r) PROVE DueWhenGranted(q)'
  <2>1. CASE q = r
    <3>1. RunRecorded(at[r])
      BY <1>0, <2>1 DEF History
    <3>2. unrecorded'[at[r]] \/ ~\E p \in Replica : Records(p, at[r])
      BY <1>0, <1>3, <2>1 DEF Grant, Overrun, Records, TypeOK
    <3>5. (unrecorded[at[r]] => unrecorded'[at[r]]) /\ UNCHANGED <<at, doneAgo>>
      BY <1>0, <1>3, <2>1 DEF Grant, TypeOK
    <3>3. ranAgo[at[r]] >= Interval - Reading(r) /\ Reading(r) \in Int /\ Reading(r) <= Skew
      BY <1>3, ExpiryType DEF Grant, Due
    <3>4. unrecorded'[at[r]] \/ doneAgo[at[r]] >= Interval - Skew
      BY <3>1, <3>2, <3>3, <3>5, RowType, Numbers DEF RunRecorded
    <3> QED BY <2>1, <3>4, <3>5 DEF DueWhenGranted
  <2>2. CASE q # r
    BY <1>0, <1>3, <2>2, DueStill DEF Grant, TypeOK
  <2> QED BY <2>1, <2>2
<1>4. ASSUME NEW r \in Replica, RunEnds(r) PROVE DueWhenGranted(q)'
  <2>1. pc'[q] = "granted" => pc[q] = "granted" /\ at'[q] = at[q]
    BY <1>4 DEF RunEnds, Enter, TypeOK
  <2>2. pc[q] = "granted" => at[q] # at[r]
    BY <1>4 DEF RunEnds, Held, HeldBy, Busy
  <2> QED BY <1>0, <1>4, <2>1, <2>2, DueStill DEF RunEnds, TypeOK
<1>5. ASSUME NEW r \in Replica, Crash(r) PROVE DueWhenGranted(q)'
  <2>1. pc'[q] = "granted" => pc[q] = "granted" /\ at'[q] = at[q]
    BY <1>5 DEF Crash, Enter, TypeOK
  <2>2. unrecorded[at[q]] => unrecorded'[at[q]]
    BY <1>0, <1>5 DEF Crash, TypeOK
  <2>3. ~unrecorded'[at[q]] => doneAgo'[at[q]] = doneAgo[at[q]]
    BY <1>0, <1>5 DEF Crash, TypeOK
  <2> QED BY <1>0, <2>1, <2>2, <2>3, DueStill
<1>6. CASE Tick
  <2>1. doneAgo[at[q]] \in 0 .. Cap /\ doneAgo'[at[q]] = Later(doneAgo[at[q]])
    BY <1>0, <1>6 DEF Tick, TypeOK
  <2>2. doneAgo[at[q]] >= Interval - Skew => doneAgo'[at[q]] >= Interval - Skew
    BY <2>1, Numbers DEF Later
  <2> QED BY <1>0, <1>6, <2>2 DEF Tick, DueWhenGranted
<1>7. CASE UNCHANGED vars
  BY <1>0, <1>7 DEF vars, local, DueWhenGranted
<1> QED BY <1>1, <1>2, <1>3, <1>4, <1>5, <1>6, <1>7 DEF Next, Step

\* A job starts within its interval of its last end only when the record of that
\* end was lost, to a fault or because the release outlasted its lease: whoever
\* is granted the job finds a last_run_at as recent as its last end otherwise.
THEOREM NeverEarly ==
    ASSUME AmpleLease
    PROVE  Spec => NoEarlyRun
<1>1. Init => Held /\ History
  <2>1. Init => Held
    BY DEF Init, Held, HeldBy, Busy
  <2>2. Init => History
    BY Numbers DEF Init, History, RunRecorded, DueWhenGranted
  <2> QED BY <2>1, <2>2
<1>2. TypeOK /\ Held /\ History /\ [Next]_vars => Held' /\ History'
  BY HeldStep, RecordedStep, DueStep DEF History
<1>3. History => [\A r \in Replica :
        pc[r] = "granted" /\ pc'[r] = "running" =>
            \/ unrecorded[at[r]]
            \/ doneAgo[at[r]] >= Interval - Skew]_vars
  BY DEF History, DueWhenGranted
<1> QED BY <1>1, <1>2, <1>3, TypeCorrect, PTL DEF Spec, NoEarlyRun

\* Under a roomy lease no release is overrun: nobody is granted a job whose last
\* run another replica has still to record, so only a fault loses the record.
THEOREM ReleasesInTime ==
    ASSUME RoomyLease
    PROVE  Spec => [][\A r \in Replica : Grant(r) => ~Overrun(at[r])]_vars
<1> DEFINE InTime == \A r \in Replica : Grant(r) => ~Overrun(at[r])
<1>1. AmpleLease
  BY RoomyIsAmple
<1>2. Init => Held
  BY DEF Init, Held, HeldBy, Busy
<1>3. TypeOK /\ Held /\ [Next]_vars => Held'
  BY <1>1, HeldStep
<1>4. TypeOK /\ Held /\ [Next]_vars => InTime
  <2> SUFFICES ASSUME TypeOK, Held, [Next]_vars, NEW r \in Replica, Grant(r),
                      NEW q \in Replica, pc[q] = "releasing"
               PROVE  at[q] # at[r]
    BY DEF Overrun
  <2> QED BY <1>1, GrantElsewhere DEF Busy
<1> HIDE DEF InTime
<1>5. Spec => [][InTime]_vars
  BY <1>2, <1>3, <1>4, TypeCorrect, PTL DEF Spec
<1> QED BY <1>5 DEF InTime

\* A lease is only ever taken from its holder after it expired by some clock,
\* with no assumption on the lease: the two WHERE clauses are enough.
THEOREM LeasesExpire == Spec => LostOnlyByExpiry
<1> DEFINE Lost == \A j \in Job :
        holder[j] # Nobody /\ holder'[j] # holder[j] =>
            \/ expiresIn[j] <= Skew
            \/ pc[holder[j]] = "releasing" /\ at[holder[j]] = j
<1>1. TypeOK /\ [Next]_vars => [Lost]_vars
  <2> SUFFICES ASSUME TypeOK, Next, NEW j \in Job, holder[j] # Nobody, holder'[j] # holder[j]
               PROVE  \/ expiresIn[j] <= Skew
                      \/ pc[holder[j]] = "releasing" /\ at[holder[j]] = j
    OBVIOUS
  <2>1. ASSUME NEW r \in Replica, Grant(r) PROVE expiresIn[j] <= Skew
    <3>1. j = at[r]
      BY <2>1 DEF Grant, TypeOK
    <3>2. expiresIn[j] <= Reading(r) /\ Reading(r) \in Int /\ Reading(r) <= Skew
      BY <2>1, <3>1, ExpiryType DEF Grant, Free
    <3> QED BY <3>1, <3>2, RowType, Numbers
  <2>2. ASSUME NEW r \in Replica, Release(r)
        PROVE  pc[holder[j]] = "releasing" /\ at[holder[j]] = j
    BY <2>2 DEF Release, Fenced, lease, TypeOK
  <2>3. \E r \in Replica : Grant(r) \/ Release(r)
    BY DEF Next, Step, Wake, Skip, Start, RunEnds, AcquireFails, ReleaseFails, Crash, Restart,
           Tick, lease
  <2> QED BY <2>1, <2>2, <2>3
<1> QED BY <1>1, TypeCorrect, PTL DEF Spec, LostOnlyByExpiry
=============================================================================
