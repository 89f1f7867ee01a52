# Verification of the Glossa platform

TLA+ models of the concurrent core of `src/platform`, the TLC configurations
that check them on small instances, and theorems about them that TLAPS checks
for every value of the constants. `PROJECT.json` is the machine-readable index:
components, runs, the source lines behind every definition, a mutant of the
code for every property, the hazards, and the theorems.

1. [The system](#1-the-system)
2. [Inventory](#2-inventory)
3. [The modules](#3-the-modules)
4. [What the runs check](#4-what-the-runs-check)
5. [Fairness](#5-fairness)
6. [What is proved](#6-what-is-proved)
7. [Disagreements found](#7-disagreements-found)
8. [Left out](#8-left-out)
9. [Plan](#9-plan)

To run: `tlc -config MCOutbox_takeover.cfg MCOutbox.tla`, `tlapm OutboxProofs.tla`.

## 1. The system

Glossa manages localized messages: developers push messages from code, people
and machine jobs translate them, reviewers approve them, and a *release*, an
immutable set of signed artifacts, is served to applications by an edge.
`platform/` is a modular monolith, `glossa-server`, deployed as several
replicas over one PostgreSQL, and `glossa-edge`, which reads object storage
only. Its bounded contexts (`platform/internal/<context>`) each have domain,
app and adapter layers and talk to one another in three ways:

- **events**: a use case publishes an event in the transaction that makes the
  change; the **outbox** delivers it to the subscribers of its type, at least
  once, in no order that may be relied upon;
- **ports**: one context calls another's use case in-process (Release asks
  Catalog for the check policy, Workflow for the approvals of a request);
- **time**: the **scheduler** of each replica runs periodic jobs (sweeps,
  timers, retention) under a database lease, and each job queue
  (intelligence, integration, audit exports) has leased workers of its own.

All shared state is in PostgreSQL. A use case is one transaction, which locks
the row of its aggregate (`SELECT ... FOR UPDATE`) before it decides; what it
reads before the transaction may be stale. Only object storage, the memory of
a dispatcher or worker, and the caches of the edge live outside.

## 2. Inventory

State, operations, what is hard and what makes it correct. The status of each
is in section 3 (modelled), 8 or 9 (not, or not yet); `PROJECT.json` lists the files.

| Component | State | Operations | Hard | Correct when |
|---|---|---|---|---|
| **Outbox** (kernel/outbox) | `outbox_events`: status, attempts, available_at, claim_token, delivered_to; a dispatcher's batch | publish, claim, deliver in batches and singly, settle four ways | leases that run out under a slow handler, crashes, shutdown in mid-batch, partial success | at least once per subscriber; late settlements change nothing; every event is settled |
| **Scheduler** (kernel/scheduler) | `system_leases`: holder, expires_at, last_run_at | acquire, run with a timeout, release | the replicas' clocks judge the lease; a release that fails or is late | one run of a job at a time; not again within its interval; never stuck |
| **Release** | environments, deployments, releases, rollouts, release requests | publish, promote, rollback, start/advance/complete/abort/expire a rollout, request/approve/deploy/deny/withdraw, open and destroy a branch environment | gates and approvals read before the transaction; moves under an active rollout; two publishes under one key | no draft or branch text in production; an approval for every gated move; a rollout's stable side is what is served |
| **Release: manifests** | one object per environment | SyncEnvironment after a commit and from the outbox | write against write, failed write, crash after commit | storage catches up with the database; a closed preview goes away |
| **Release: automatic publishing** | branch environments, publish requests with a due time | open, refresh and destroy an environment from a branch's events, debounced PublishDue | events late, twice or reversed; a push during a publish; two publishers | no push is forgotten, nothing is released twice, the limit holds |
| **Release: delivery keys** | keys and their index objects | create, change scope, revoke | same as manifests | once all is delivered, the index object says what the row says |
| **Edge** (edge) | LRU caches of manifests, key indexes, artifacts with a TTL | read through, singleflight, serve stale on error | requests that wait for a shared flight, a slow waiter, an outage | bounded staleness, in an outage as well; no older manifest after a newer |
| **Audit** | per-tenant hash chain | append from events, backfill, export | live delivery beside backfill, duplicates | one entry per event, an unbroken chain |
| **Intelligence** | jobs, fills, suggestions, per-tenant cap | enqueue, cancel, claim, run, settle, auto-apply, accept, reject | lost leases in provider calls; the cap across replicas; a reviewer against auto-apply | one result per request; cap kept; bounded provider calls; decisions stand |
| **Integration** | import/export jobs with checkpoints; check runs | run, checkpoint, cancel, resume | cancel or lease loss between checkpoints | a resumed job repeats nothing that matters, a cancelled one stops |
| **Workflow** | instances, timers, assignments, approvals | one transition per event, raise due timers, approve | replicas race to start and to step; duplicate and late events; a timer of a state that was left; actions that commit elsewhere | the log is a walk through the chart; work is asked for once; deadlines are heard |
| **Catalog** | messages, branch proposals | push, merge, close, reopen, expire a branch | several branches propose one key; pushes race merges | no proposal is lost or merged twice |
| **Localization** | translations with revision and state | edit, submit, approve, outdate on source change | an approval of a text whose source moved | approved means approved for the source shown |
| **Identity** | users, sessions, tokens, device codes | sign-in, device grant, tokens | two polls redeem one code | one session per code |
| **Runtimes** (go, js, dart) | active and fallback release on a device | refresh, verify, activate, cohort of a rollout | a refresh that fails half-way; older answers | never an unverified or mixed release |
| Knowledge, Context, Quality | projections and uploads | upserts, lookups, retention | little of their own | — |
| MCP, preview, CLI, Studio, site, message format, kernel libraries, retired v0.3 | stateless or sequential | — | — | — |

The hazards of `PROJECT.json` name the line where each of these bites and
the property that covers it, or why none does yet.

## 3. The modules

| Module | Models | Extends / instantiates |
|---|---|---|
| `OutboxContract` | the promise of the outbox: absent, pending, delivered after every handler, or dead | — |
| `Outbox` | `kernel/outbox` with `outbox.sql` | refines `OutboxContract`: `Contract == INSTANCE OutboxContract WITH ...` |
| `OutboxProofs` | theorems about `Outbox` | `Outbox`, TLAPS |
| `Scheduler` | `kernel/scheduler` with `leases.sql` | — |
| `SchedulerProofs` | theorems about `Scheduler` | `Scheduler`, TLAPS |
| `Release` | `release/app` in the database | — |
| `ReleaseProofs` | theorems about `Release` | `Release`, TLAPS |
| `ReleaseDelivery` | `SyncEnvironment` and who calls it, over `Release` | `Release` |
| `ReleaseDeliveryProofs` | theorems about `ReleaseDelivery` | `ReleaseDelivery`, `ReleaseProofs` |
| `BranchPreviews` | branches of `catalog`, the `release.branch_environments` subscriber and the publishers | — |
| `BranchPreviewsProofs` | theorems about `BranchPreviews` | `BranchPreviews`, TLAPS |
| `DeliveryKeys` | `release/app/keys.go`: a delivery key and who writes its index object | — |
| `EdgeDelivery` | `edge/edge.go`: one path of an edge process, over `DeliveryKeys` | `DeliveryKeys` |
| `EdgeDeliveryProofs` | theorems about `DeliveryKeys` alone and about both | `EdgeDelivery`, TLAPS |
| `TranslationJobs` | `intelligence/app`: jobs, workers, suggestions, reviewers | — |
| `TranslationJobsProofs` | theorems about `TranslationJobs` | `TranslationJobs`, TLAPS |
| `WorkflowRunner` | `workflow/app/runner.go`, `actions.go`, `timers.go` for one subject | — |
| `WorkflowRunnerProofs` | theorems about `WorkflowRunner` | `WorkflowRunner`, TLAPS |
| `MC*` | the instances for TLC | the module of the same name |

Some definitions come with a sibling that a plausible bug would have put in
their place (`Unfenced` before `Fenced`, `NeverBlocked` before `Blocked`, ...).
They are used by no action: the `mutants` of `PROJECT.json` substitute them,
one per property and run, to show that the property notices. Every module has a
type invariant, and a theorem for it.

### Outbox

State: the columns of `outbox_events` (`status`, `attempts`, `due`, `token`,
`deliveredTo`) and, per dispatcher, the batch in memory: `run` is the
`claimRun` of each claim; `todo`, `again`, `each` and `invoking` are how far
`ProcessBatch` got.

Actions: `Publish`; `Claim` (ClaimOutboxEvents and the set-up of
`ProcessBatch`); `DeliverBatch`, `Redeliver` and `Invoke` (`deliverBatches`
and `deliverEach`), each with a `Defer...` twin for a delivery that
`canStart` no longer allows; `MarkDelivered`, `Reschedule`, `DeadLetter`,
`Release` (the four UPDATEs, fenced by the claim token), `LeaseLost` (the
UPDATE matched no row) and `SettleFails`; and the environment: `MarginEnds`,
`LeaseEnds`, `BackoffEnds`, `Shutdown`, `Restart`, `Crash`.

Abstractions. Time is two questions, "is the row due" and "is my margin of
the lease used up"; the margin is nine tenths of the lease, so it ends first,
and a lease that ends while its batch is still worked on is an overrun, which
is counted as a fault. A token is a fresh UUID; a dispatcher holds one batch
at a time, so the holder stands for it. A handler's call is atomic with what
it reports: `applied` is *reported success*, and a handler that commits and
then fails to report is the same as one that failed, as far as the outbox can
know. Settling is one UPDATE per event; `SettleAll`'s single transaction is
the special case in which no other step comes between. Inline retries within
`invoke` are folded into its result.

### Scheduler

State: `system_leases` (`holder`, `expiresIn`, `ranAgo`) and each replica's
place in `runJob` (`pc`, `at`, `since`). Actions: `Wake`, `Grant` and `Skip`
(the WHERE of AcquireLease, satisfied or not), `Start`, `RunEnds`, `Release`,
their failures `AcquireFails` and `ReleaseFails`, `Crash`, `Restart`, `Tick`.

Time is discrete and every timer relative, saturating where no comparison can
tell values apart (`Floor`, `Cap`), so the state space is finite without a
bound on time. `Acquire` sends the replica's own `time.Now()`, read *before*
its transaction: the model judges and grants the lease by that reading
(`Reading`), old by up to `AcquireDelay` and off by the clock's `Offset`.
Graceful shutdown is not an action: a replica that stops while asleep or
asking does what `Crash` does, and otherwise it finishes as usual.

`Config.validate` asks only for `Timeout < Lease` and `Timeout <= Interval`.
That is not enough for mutual exclusion: the lease must also cover the time
from the clock's reading to the start of the job, the job's time to notice
its context ended (`Grace`) and the clock skew: `AmpleLease`. For a job not
to start within its interval the release must fit too: `RoomyLease`. Both are
hypotheses of the theorems; what `RoomyLease` adds is `ReleasesInTime`. A release
may take longer than the lease lasts (`Overrun`); a successor may then have the job,
and the WHERE of ReleaseLease (`Fenced`) keeps the late release from touching its row.
The record of that run is lost with it. The sweeps configured in `cmd/glossa-server` leave
slack for the first one: rollouts.go runs two minutes under a lease of three,
workflow.go 45 seconds under one of 55, which leaves ten seconds for the
clocks, the grant and the job's return.

### Release

State: environments (`live`, `policy`, `approval`, `current`), their
deployments (`served`, `overridden`, `via`), releases, the active rollout of
each environment, release requests with their `grants`, the check policy
(`strict`), and `call[s]`, where a concurrent call is between its steps.

A transaction is one action, because it holds the environment's row lock from
its first read to its commit. What a call reads before that is a step of its
own and kept in `call[s]`: `Prepare` (the policy a build uses), `Build` (the
catalog and the check policy), `BeginPromote`, `BeginStart`, `BeginDeploy`
(the check policy; the grants). Between the two, other calls, administrators
(`Configure`), approvers (`Grant`, `Deny`, `Withdraw`), the catalog
(`ChangeCheckPolicy`) and the sweeper (`Expire`) act, and a call may die
(`Crash`).

| Action | Code |
|---|---|
| `Prepare`, `Build`, `RecordMoves`/`Held`/`Nothing` | `Publish`, publish.go |
| `BeginPromote`, `PromoteMoves`/`Held`/`Nothing`; `Rollback` | pointers.go |
| `BeginStart`, `StartRollout`, `StartRefused`, `AdvanceRollout`, `CompleteRollout`, `AbortRollout` | rollouts.go |
| `Overdue`, `Expire` | `max_duration`; rollout_sweeper.go |
| `Hold` | `holdMove`, release_requests.go |
| `BeginDeploy`, `DeployMoves`/`Closes`/`Fails` | `DeployRequest`, release_requests.go |
| `Deny`, `Withdraw`, `Grant` | release_requests.go; approvals of Workflow |
| `Configure`, `OpenBranch`, `DestroyBranch` | environments, branches.go |

Abstractions. Text is one bit (complete or not, chosen by the build) and one
policy (drafts or approved). Row versions are left out, because updates
happen under the row's lock, where the compare-and-set cannot fail, and a
failed If-Match changes nothing. A rollback goes to any release the
environment served: the code's default target is one of those. `Grant` lets
anybody approve a pending request, a superset of those Workflow lets.

### ReleaseDelivery

Every action of `Release` that commits is followed by what the code does next:
`AfterCommit` records whether an outbox event was published (`owed`) and puts
the caller in `SyncEnvironment` where the code calls `syncNow`. A write has
two ends, `BeginSync` (lock the row, read it) and `Write`, with the row
locked in between, so transactions on the row wait (`RowsUnlocked`); a row
that does not exist cannot be locked. `WriteFails` and `SyncFails` are
storage errors, with the object written or not, and crashes. Of the outbox
only its contract is used: `Deliver` takes an owed event; a failed delivery is
owed again (`Retry`), or it was the last that the event's attempts allow and the
event is a dead letter (`DeadLetter`, dispatcher.go:437-439), which is remembered
in `dead` until the next event of the environment. Attempts are not counted here:
any failure may be the last.

### BranchPreviews

State: Catalog's branches (`state`, `version`, `content`), the `events` the
outbox has to deliver, Release's branch environments (`opened`), the pending
publish `request` of each, the content its release has (`shown`), and where each handler
(`handling`) and publisher (`publishing`) is. Events are a set from which any
may be taken at any time, and a handler that fails or does not settle leaves its
event in it: at least once, in no order.

| Action | Code |
|---|---|
| `Push`, `Upsert`, `Close`, `Merge`, `Reopen` | catalog/app/branches.go; `Revise` is Localization's event |
| `BeginLive`, `BeginRevised`, `IgnoreRevised` | handleBranchLive, handleTranslationRevised |
| `LockAndCount`, `Insert` | OpenBranchEnvironment: several statements, and a lock only from the count on |
| `Request` | RequestBranchPublish: renews a pending request |
| `DestroyGone` | DestroyBranchEnvironment |
| `Debounced`, `Take`, `Build`, `BuildRefused`, `NothingToPublish`, `Record`, `Clear`, `Outage` | PublishDue and Publish, from taking a due request to deleting it if its id is still the same |

### DeliveryKeys and EdgeDelivery

A key is a row (`scope`, `active`, `indexed`) and an index object. A change
commits with an event (`owed`) and its caller writes the object afterwards; the
event's subscriber and the maintenance task (`StaleKeyIndexes`) write it too,
each holding the row from its read to its put. `Fails` is a storage error or a
crash, with the object written or not.

`EdgeDelivery` puts an edge process on top: `cache`, `flight` (the shared read)
and the requests between their look into the cache (`Hit`, `Miss`), the flight they
join or start (`Join`), its end (`Land`) and their own waking up (`Wake`,
`WakeInOutage`). Between `Miss` and `Join` any time may pass: the flight a request
missed may have landed and filled the cache, and the one it then starts has the
request's earlier `now`. That is what the second look into the cache, at the start of
a manifest's flight, is for (`Fly`, edge.go:271-276). The two kinds of path
differ in who caches (a manifest inside the flight, a resolution by every waiter)
and in what is cached (a missing key, not a missing manifest); `kind` chooses one,
because paths share no state but the LRU's room, which is `Evict`. `lastHeld`
records when storage last held what it no longer holds; it exists for
`AnswersAreRecent` only. A request takes at most `MaxLoad`: the object store's
client has a deadline (s3store.go, ten seconds), the server has read and write
timeouts (httpserver/server.go).

### TranslationJobs

State: the columns of `intelligence_jobs` that matter (`state`, `attempts`,
`forced`, `due`, `token`), the `suggestion`s of each job, the advisory lock of the
claims (`claiming`), and what each worker and reviewer is doing. A claim is two
steps, `LockAndPick` (count, choose) and `Take` (update), under the lock; the
settlement is two as well, `InsertSuggestion` and `CommitSuggestion`, under the
job's row lock (`Unlocked`), which every settlement waits for before it looks for
its claim token (`Locks`). A token is a fresh UUID per claim; a worker runs one job
at a time, so it stands for its claim's. `Execute` is the whole run with its provider calls,
with every outcome the code distinguishes; `Stop` is a worker that dies at any
point, or is held up until its lease has ended (`ComesDue`). `Apply` writes the
translation and `RecordApply` marks the suggestion, two transactions, with
`BeginAccept`, `AcceptWrites`, `AcceptDecides` and `Reject` of reviewers in
between.

### WorkflowRunner

The chart is a constant, any definition that passes validation: states, edges with
their events, guards and actions. State: the subject (`facts`), its `instances`,
their `log`, the `work` they asked for, every event `sent` and those still `todo`,
the row `lock` and each replica's `job`. `Take` is a delivery; `HandleInstance`,
`HandleSubject`, `StartIfNeeded`, `StepWinners` are the ways into `Step`, which
computes the transition under the lock; then `AskForWork` (in the step's
transaction) and `ActOutside` (committed at once, in another context) run the
actions one by one until `Commit`, `Refuse` or `Abort`. `RaiseDueTimers` is the
sweep. An event's `visit` is not in the code: it numbers the stay that set the
timer, for the two properties about deadlines.

## 4. What the runs check

| Run | Instance | Shows |
|---|---|---|
| `outbox_takeover` | 2 dispatchers, 1 event with a batch and a per-event subscriber, 2 attempts, 1 fault, fairness | at least once, nothing repeated without a lost claim, no progress forgotten, exact attempt counts, no unearned death, no late start, every step one that `OutboxContract` allows, every event settled |
| `scheduler_ample` | 2 replicas, 2 jobs, the shortest ample lease, which a release may outlast, 2 faults, fairness | one run of a job at a time, none within its interval unless the record was lost; a late release takes nothing from a successor; both jobs go on |
| `release_moves` | 1 call, 2 users; either approvals: development and production, 1 key complete or not, forced or not, 2 requests, requirements 0 and 1 in production; or rollouts: production and a preview that comes and goes, 2 releases and a third that is refused, 2 shares | no draft in production, nothing incomplete where completeness is asked for unless forced there; approved by enough others now, decided once, never two waiting |
| `delivery_writes` | production, 2 releases, 1 call, rollouts of two shares, the outbox, the sweeper, 2 faults, fairness | the pointer stays on the stable release under a rollout; a write describes the moment it happens at; a wrong release in storage is owed a delivery, and is put right, unless the event became a dead letter |
| `delivery_branches` | a preview that comes and goes, 2 calls, 2 keys, the outbox, 1 fault, fairness | once a branch stays closed its manifest goes, with the same exception; a key makes one release |
| `delivery_outage` | production, 1 fault | section 7 |
| `previews_race` | 2 branches under a limit of 1, 2 dispatchers, 2 publishers, 1 fault | the limit holds, no request is released twice, no push of an open branch with an environment is forgotten |
| `previews_late` | the same, 1 publisher, no fault | section 7 |
| `jobs_queue` | 2 jobs of two revisions under a cap of 1, 2 workers, 1 reviewer, 1 fault | the cap, only the current claim of a job settles it, bounded provider calls, decisions stand |
| `workflow_steps` | 2 replicas, the chart of the system tests (vendor, then two reviewers) with a deadline, 1 fault, fairness | the log is a walk, work is asked for once, deadlines are heard |
| `workflow_timers` | 1 replica, no fault | section 7 |
| `edge_serve` | 2 requests, 2 writers of the key's index, one change of the key or of the manifest, 4 ticks | the index follows the key; answers are recent; manifests never go back |

Why the bounds are enough to be interesting:

- *Two actors* (dispatchers, replicas, calls, workers, publishers, requests) are
  what a race here takes: the state they fight over is one row, one object or one
  cache entry, and a third would take the place of one of the two. In
  `outbox_takeover` the second dispatcher takes over what the first lost; the
  theorems of section 6 lift the number.
- *Faults* (`MaxFaults`) are crashes, lost leases, failed statements and failed
  writes. One brings a stale holder and its successor together; where two are
  allowed, "the recovery fails as well" is reached. For the outbox's safety the
  theorems do without the bound.
- *Two attempts* distinguish the first and the last failure; in `jobs_queue` one
  job has one attempt and the other two, and only the first is asked for again.
- *Two releases* are a stable one and a candidate. One key is enough for
  the approvals of `release_moves`, where what matters is which environment it may
  enter.
- *State constraints* keep six runs within reach; each is the last definition of
  its MC module, and the theorems of section 6 hold without any of them.
  `OneConcern` of `MCRelease`: no behaviour has both approvals and rollouts, and
  development never asks for approvals. `OneConcern` of `MCTranslationJobs`: the
  second job is retried only where the first is asked for once. `TwoAtOnce` of
  `MCBranchPreviews`, in `previews_race`: two of the dispatchers and publishers are
  at work at a time, which leaves every pair of them to race. `OneAtOnce` of
  `MCEdgeDelivery`: no request is about to answer while a writer holds the key's row,
  and while one is on its way at most one more write of the index object is to come
  besides the one at work; the edge reads the object, and never the row.
  `OneKeyVaries` of `MCReleaseDelivery`, in `delivery_branches`: only the builds of one
  of the two keys may be incomplete. `RacesBeforeTheLast` of
  `MCWorkflowRunner`, in `workflow_steps`: when every report, answer and fault has
  happened, one replica finishes the rest; any two of the three meet two replicas.
- *Branches*: one with a history of two changes and one that is opened once, for
  one place, is the smallest instance in which a place is lost and won.
- *The lease* is the shortest that satisfies `AmpleLease`, so that a run ends with
  nothing to spare and a release may come after a successor's grant; the clocks agree
  there, and the theorems are for any skew.
- *The edge's numbers*: TTLs of one tick, a stale limit of two and loads of up to
  one make every comparison of `edge.go` go both ways; the oldest permitted answer
  is two ticks old (`Oldest`), and the clock runs to three, so that one that is
  too old would be seen.

What the instances leave to the theorems: rollouts under a changing approval
requirement, and branches beside production (`ApprovedUnlessRollout`,
`OnlyEligible`), any clock skew (`MutualExclusion`), and larger numbers of
everything.

`CHECK_DEADLOCK FALSE` is set where the bounds let the system come to rest: for
the outbox when every event is settled, for the previews, the jobs, the workflow and
the edge when the changes, requests and ticks they are allowed are used up. The
scheduler and Release never stop. Symmetry is used in `previews_race`,
`edge_serve`, `jobs_queue` and `release_moves`, whose properties are about safety
only.

## 5. Fairness

- **Outbox** (`Fairness`). Weak fairness for everything that ends by itself: a
  handler's answer, a settlement, a lease or back-off running out, a restart.
  Strong fairness for two choices. A claim orders the due rows by
  `available_at`, so a row that is due again and again is claimed. A dispatcher
  that has just claimed starts delivering at once: with a whole lease ahead, the
  end of the margin cannot come first every time. `RoomyFairSpec` adds that a batch call which leaves a
  delivery open leaves time to redeliver it, again and again. Without that a
  batch call that always uses the whole margin has the event released, with
  its attempt given back, for ever: nothing in the code bounds releases.
- **Scheduler** (`Fairness`). Time passes, and a replica that is up finishes
  its phase and polls. Restarts are not assumed, nor any order between
  replicas. The time limits of a phase are in the model's `Tick`, because the
  code enforces them (`context.WithTimeout` for the run and for the release);
  the two that it does not enforce are parameters, `AcquireDelay` and `Grace`.
- **Delivery** (`Fairness`). A write ends, or fails within `MaxFaults`; a row
  lock is granted in turn; the outbox delivers what it owes
  (`EventuallySettled`), until a delivery succeeds or the event is a dead letter,
  which the two liveness properties except; the sweeper is a
  scheduler job (`JobsKeepRunning`). Nobody has to make a call or change a
  setting, and a call may die before it writes.

- **Workflow** (`Fairness`). The outbox delivers what is due and a replica goes on
  with a step until it ends (`EventuallySettled` and the bounded actions justify
  it), and the sweep runs (`JobsKeepRunning`). Nobody has to answer a request, and
  no subject has to change.

## 6. What is proved

Every safety property the passing runs check is a theorem, for any number of
events, subscribers, dispatchers, replicas, environments, calls, branches, jobs,
requests and faults. The only assumptions are the `ASSUME`s of the modules:

- the types of the constants;
- that the null values are not members of the sets they stand beside
  (`NoneAssumption`, `NoObjectAssumption` and `WordsAssumption`, which name the
  types of the records that share a variable with them);
- the bounds of the configuration: `ConfigAssumption` is `Config.validate`,
  `TimeAssumption` asks for TTLs of at least one tick, `JobBoundAssumption` for a cap
  and attempts of at least one;
- that a branch environment starts with drafts (`NamesAssumption`);
- that the chart is one that passes the validation of workflow/domain, in that its
  first state exists, nothing leaves a final state, and the order of its transitions
  leaves one for each state, event and fact (`ChartAssumption`), and that answers and
  reports lead to facts (`WorldAssumption`).

Three theorems about the scheduler and one about the workflow have a hypothesis
besides, named below.

**Outbox** (`OutboxProofs`).

| Theorem | Statement |
|---|---|
| `TypeCorrect` | `[]TypeOK` |
| `AtLeastOnce` | `[]DeliveredIsApplied` |
| `ProgressIsKept` | `ProgressKept` |
| `ImplementsContract` | `ContractSpec`: the refinement |
| `AttemptsCount`, `DeathIsEarned` | `[]AttemptsAreCharges`, `[]DeadIsEarned` |
| `RepeatsNeedALoss` | `[]RepeatsOnlyAfterLoss` |
| `StartsWhileHeld` | `StartsOnlyWhileHeld` |

`DeliveredIsApplied` is not inductive: it depends on what the dispatcher
remembers of a claim. `SafetyInv` adds that what a run or the row records as
succeeded was applied (`AppliedInv`), that work in memory is of published
events and for subscribers of their types (`WorkInv`), that the holder of a live
claim started from what the row records (`HeldInv`), and, the heart of it, that every subscriber of a
claimed event is still ahead, has succeeded, or leaves a trace (a failure, a
deferral) that keeps the run from settling as delivered (`CoverInv`). The
refinement follows from it step by step: handlers that succeed are the
contract's handling, `MarkDelivered` its delivery, the dead-letter its death,
and everything else stutters. Attempts need one more layer, `AttemptInv`,
which ties a run's permanent failure to the event's history (`DoomedInv`) and
the attempts of a claim to the charges so far (`ChargeInv`).

`RepeatInv` is about an event of which no claim was taken over: only its holder has
it in a batch (`SoleInv`), the holder still means to call only subscribers that are
not among its run's successes (`PendingInv`), and every success is in the row or in
that run (`KeptInv`). The difficult case is a holder that has forgotten: the row has
not the success, and no batch has the event; then the claim is still in the row, and
the next one takes it over, which is the loss. `LeaseInv` says that inside its margin
a dispatcher's claims are its own and not yet due.

**Scheduler** (`SchedulerProofs`).

| Theorem | Statement |
|---|---|
| `TypeCorrect` | `[]TypeOK`, the range of every timer included |
| `OneRunAtATime` | `AmpleLease /\ Spec => []MutualExclusion` |
| `NeverEarly` | `AmpleLease /\ Spec => NoEarlyRun` |
| `ReleasesInTime` | under `RoomyLease` no lease is granted while the release of a run it would follow is still to come |
| `LeasesExpire` | `LostOnlyByExpiry`, for any timing |

The invariant `Held` says that a replica from its grant to the end of its run
(of its release, under `RoomyLease`) is the row's holder and that the lease
lasts at least as long as the rest of its phases can take, plus the skew.
`NeverEarly` adds `History`: the end of a run is recorded, unless a fault or an
overrun release lost the record, and a grant saw that record due.

**Release** (`ReleaseProofs`): every safety property the runs check.

| Theorem | Statement | Invariant |
|---|---|---|
| `TypeCorrect` | `[]TypeOK` | itself |
| `ReleasesStay`, `ClosedForGood` | `ReleasesAreImmutable`, `ClosedStaysClosed` | `TypeOK` |
| `OneWaits` | `[]OnePending` | with `TypeOK` |
| `RolloutsStand` | `[]StableUnderRollout` | no rollout runs on a branch's environment |
| `NothingElseIsServed` | `[]OnlyEligible` | `FitInv` |
| `NothingPassesTheGate` | `[]GateHolds` | `FitInv` |
| `MovesAreApproved` | `ApprovedUnlessRollout` | `ApprovalInv` |

`FitInv` is the reason no chain of moves gets round a gate: not only the
releases an environment served, but the candidate and stable release of its
rollout, the release of every pending request, and what every call in flight
has read must fit it. Two of the moves (completing a rollout, a rollback)
check nothing themselves; they rely on it. `ApprovalInv` says that the grants
a call read before its transaction are a finite subset of those there are:
Workflow's approvals are never taken back, so a stale read errs on the safe
side.

**Delivery** (`ReleaseDeliveryProofs`): every safety property again.

| Theorem | Statement | Invariant |
|---|---|---|
| `ImplementsRelease` | `DeliverySpec => Spec` | none |
| `DeliveryTypeCorrect` | `[]DeliveryTypeOK` | with `Release`'s `TypeOK` |
| `WritesAreCurrent` | `WritesDescribeCurrent` | `WritingInv` |
| `StaleIsOwed` | `[]StalenessIsOwed`, dead letters excepted | `WritingInv` |

`ImplementsRelease` carries every theorem about `Release` over to the
composition. `WritingInv` says that a worker between its read and its write
holds the row and what it is about to write is still true; it survives because
transactions that change the row wait. Both properties are about environments
that stay, `Env \ Branch`: a row that does not exist cannot be locked, so for
a branch's they are false (section 8).

**Branch previews** (`BranchPreviewsProofs`).

| Theorem | Statement |
|---|---|
| `TypeCorrect` | `[]TypeOK` |
| `LimitHoldsAlways` | `[]LimitHolds` |
| `PublishedOnceAlways` | `[]PublishedOnce` |
| `NoPushForgottenAlways` | `[]NoPushForgotten` |

`PreviewInv` has a part for each. `Limited`: between its count and its insert a
handler has the project's lock, and its count is still right. `Ids`: every id that is
pending, being published or released has been given out, so a renewed request is a
new one. `Covered` is the part that took the most: where an open branch's environment
is behind and its request will not help, because there is none or because a
publisher has already read past it (`Spent`), a request is coming (`Coming`): a
handler is about to make it, or an event is still there that will. An event whose
handler means to *open* the environment does not count, because it makes no request
when another has opened it first. `Handled` says that two handlers do not have one
event, so that finishing one cannot remove the event another was to come from.

**Keys and the edge** (`EdgeDeliveryProofs`).

| Theorem | Statement |
|---|---|
| `IndexFollowsKeyAlways` | `KeySpec => []IndexFollowsKey` |
| `TypeCorrect` | `[]TypeOK` |
| `IndexFollowsKeyAtTheEdge` | `[]IndexFollowsKey` |
| `AnswersAreRecentAlways` | `[]AnswersAreRecent` |
| `ManifestsNeverGoBackAlways` | `ManifestsNeverGoBack` |

`KeyInv`: one writer at a time, what it is about to write is still what the row says,
and an index that does not follow has an event to come. `EdgeInv` gives every value a
time at which storage had it: a cache entry, a flight and a request each hold a value
that was stored at their `at` or later (a manifest that a flight took from the cache by its second look,
up to a TTL earlier: `Lag`); a flight's time is that of a request that still waits for
it, and the deadline of a load bounds how far the clock is past that. `AnswersAreRecent` adds the
three up. A manifest in the cache is no newer than storage's, nor than a flight's.

**Translation jobs** (`TranslationJobsProofs`).

| Theorem | Statement |
|---|---|
| `TypeCorrect` | `[]TypeOK` |
| `CapHoldsAlways` | `[]CapHolds` |
| `SettledByItsClaimAlways` | `SettledByItsClaim` |
| `OneResult` | `[]OneResultPerRequest`, which no run checks: it would hold without the token, for the row lock and the job's state |
| `CallsBounded` | `[]CallsAreBounded` |
| `DecisionsStandAlways` | `DecisionsStand` |

`JobInv`: a claim between its count and its update has the lock, and there is room
(`Claiming`); a settlement between its suggestion and its commit has the job
(`Committing`); a claim whose token the job still has ran the job's last attempt
(`LastAttempts`); a job that waits or runs has a result to come that is not among those
it has (`Results`); the calls made, the runs on their way, *those that lost the job
included*, and the attempts left stay within the bound (`Calls`); and a suggestion
that still has its first version is undecided, which is what lets the auto-apply's
compare-and-set stand for a check of the status (`Versions`).

**Workflow** (`WorkflowRunnerProofs`).

| Theorem | Statement |
|---|---|
| `TypeCorrect` | `[]TypeOK` |
| `OneActiveAlways` | `[]OneActive` |
| `LogIsAWalkAlways` | `[]LogIsAWalk` |
| `WorkIsAskedOnceAlways` | `[](AsksOncePerWay => WorkIsAskedOnce)` |

`WalkInv` says that what a step looked up under the lock still holds while its
actions run: it goes on in the active instance, or in a new one while none is active,
and the log has no row yet of its event (`Runs`); every log is a walk
(`Walks`), and what was asked for has its row (`Logged`). `AskInv` adds that
what a step has asked for and what it still has to do name no work twice. That needs
the chart's help, `AsksOncePerWay`: no assignment or approval is named twice among
the actions of an edge and the entry actions of its target, nor, for an edge from the
initial state, among those and the initial state's entry actions. Validation does not
ask for that, and `compute` (runner.go:438-446) runs the initial state's entry actions
and those of a transition that the starting event takes from it in one step. The
runs' chart satisfies it, which `ChartAsksOnce` of `MCWorkflowRunner` checks.

**Only model-checked**: liveness, because the prover does no fairness and no
`ENABLED`. That is `EventuallySettled`, `JobsKeepRunning`, `PointersReachStorage`,
`PreviewsGoAway` and `DeadlinesAreHeard`. No module uses recursion, so nothing is
withheld from the prover for that reason.

## 7. Disagreements found

**A rollout change is not written again** (`delivery_outage`,
`RolloutsReachStorage`). `release.sync_manifest` (subscribers.go:49) is
subscribed to no rollout event, so if the write right after `StartRollout`,
`AdvanceRollout`, `AbortRollout` or the sweeper's expiry fails, or the process
dies before it, nothing tries again: installations stay on an aborted rollout
until the environment's pointer next moves. sync.go:15-16 says "the move's
outbox event makes the subscriber write it again until storage takes it", and
rollouts.go:231-232 "the manifest drops `rollout`, and every installation
returns to the stable release on its next refresh". What does hold is
`PointersReachStorage`.

**A closed branch's environment comes back** (`previews_late`,
`EnvironmentsFollowBranches`). The branch events carry no version
(branch_subscribers.go:20-25) and the outbox promises no order, so a `pushed`
event that is handled, or retried, after `closed` opens the environment again
(branch_subscribers.go:58) and nothing destroys it: it counts against the limit
until the branch's next change. platform/README.md:1937 says "Branch environments
(RFC 0004 §4.2) preview one open branch each".

**An old deadline moves a new stay** (`workflow_timers`,
`TimersOfAStateLeftAreIgnored`). `compute` (runner.go:433) compares the timer
event's state with the instance's, by name; an instance that was sent back to the
same state takes the first stay's deadline for the second's. timers.go:33-34 says
"an instance that has left it ignores the event".

Disagreements without a run of their own:

- `CompleteRollout` (rollouts.go:195) moves the pointer without looking at the
  environment's approval requirement; one can be set while a rollout is active. RFC
  0006 section 5.1 says "Release itself refuses to move the pointer until the
  environment's `approval` is satisfied". `ApprovedUnlessRollout` therefore has the
  completion as its one exception.
- branch_subscribers.go:130-132 and the limit: a branch refused for want of room is
  not retried when another branch closes, only at its own next event.
- actions.go:118-120: work asked for before a refusal in the same step is kept, with
  the refused transition's row, not dropped with it. `Refuse` does as the code does.
- A release request whose requirement is raised after its approval has closed with
  the lower number stays pending: nothing asks for more approvals.

## 8. Left out

Inside the modelled components:

- *Outbox*: the history scan; back-off lengths (a back-off ends some time);
  a handler that kills its process each time. Lost claims are counted as
  attempts, yet only a failed delivery compares the count with the maximum, so
  such an event is claimed for ever (dispatcher.go:437).
- *Scheduler*: two replicas with one holder name; an acquisition slower than
  `AcquireDelay`, which nothing in the code bounds. Under the workflow timers'
  configuration (45 s run, 55 s lease, 10 s release) `RoomyLease` does not
  hold; their sweep is idempotent, so a second run soon after is harmless.
- *Release*: rollout salts and ids, If-Match, the replay of a keyed
  `StartRollout` (read before the lock; it changes answers, not state), the
  artifacts' bytes and signatures.
- *ReleaseDelivery*: a `Put` that reaches storage after its client gave up
  and released the row (sync.go:67), and the removal of a manifest of a branch
  that was reopened and published meanwhile (sync.go:35), whose consequence is
  a preview without a manifest until its next publish.
- *Dead letters*: `ReleaseDelivery` has them as a step. In `BranchPreviews` and
  `DeliveryKeys` an event that failed stays among those to deliver, a dead letter too:
  the properties there speak of what nobody has handled yet, and of a dead letter they
  say that the push is not forgotten, or the index not in step, *because* of it.
  `DeadlinesAreHeard` of `WorkflowRunner` holds below the outbox's limit of attempts.
- *BranchPreviews*: a build is the number it read; an older build may be recorded
  after a newer one (publish.go:253) while the newer push's request is pending.
  Manifests are `ReleaseDelivery`'s.
- *DeliveryKeys*: the retirement of a deleted project revokes its keys in one
  transaction that lists them without a lock (subscribers.go:130); a key created
  meanwhile stays active.
- *EdgeDelivery*: artifacts, which never change; several edges, which share
  nothing; a restart, which is an empty cache.
- *TranslationJobs*: one message and locale; `force` beyond what `upToDate` reads;
  disclosures, budgets and usage; whether an auto-apply that failed is ever applied
  (it stays pending for a reviewer).
- *WorkflowRunner*: several definitions on one subject, project-wide events,
  rebasing to another version, retention, default seeding, notifications, and who
  may decide (an action is refused or not, at will).

Whole components, with the reasons, are in `PROJECT.json`: string processing
and pure I/O (message formats, check layers, HTTP adapters, CLI, Studio), and
those section 9 plans.

## 9. Plan

Most important first; the finished ones are ticked.

- [x] `OutboxContract`, `Outbox`, `OutboxProofs`: everything asynchronous rests on it.
- [x] `Scheduler`, `SchedulerProofs`: every sweep rests on it.
- [x] `Release`, `ReleaseDelivery` and their proofs: the product's core.
- [x] `BranchPreviews`, `DeliveryKeys`, `EdgeDelivery`: the way of a release to its readers.
- [x] `TranslationJobs`, `WorkflowRunner`: the machine's and the people's work.
- [x] Proofs: the type invariant and every safety property the runs check, of every
  module.
- [ ] Abstract specifications for the newer modules, and refinement as in the outbox:
  `TranslationJobs` as a queue in which a request has one outcome, `EdgeDelivery` as a
  register read with bounded staleness.
- [ ] `AuditChain`: live delivery beside backfill. *One entry per event, an
  unbroken chain*; an append-only log as its abstract specification.
- [ ] Checkpoints and cancellation of Integration's jobs, over the fence of
  `TranslationJobs`; project retirement beside `DeliveryKeys`.
- [ ] `CatalogBranches`, `TranslationLifecycle`, `DeviceSignIn`,
  `RuntimeClient`, in this order.

Runs whose question a theorem has settled are merged or retired as components are
added, so that the suite stays small: a run per question.
