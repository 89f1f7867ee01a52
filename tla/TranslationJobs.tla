-------------------------- MODULE TranslationJobs ---------------------------
(***************************************************************************)
(* Intelligence's translation jobs (intelligence/app/worker.go,            *)
(* fills.go, suggestions.go and the queries of jobs.sql) for one message   *)
(* and locale of one tenant: the queue, the workers that claim jobs under  *)
(* a lease and a concurrency cap, the settlement of a job under its claim  *)
(* token, and what workers and reviewers then do with its suggestion.      *)
(*                                                                         *)
(* A job's row is due when available_at <= now(): queued and waiting for a *)
(* backoff, or running under a lease, it is not.  A worker runs one job at *)
(* a time, so it stands for the claim token of its claim.  A transaction   *)
(* is a step, but a claim, which counts before it updates.  What a         *)
(* provider is asked and answers, and the disclosures that are kept of it, *)
(* are left out.                                                           *)
(***************************************************************************)
EXTENDS Integers, Sequences, FiniteSets

CONSTANTS
    Job,          \* jobs of the message and locale, one per knowledge and revision
    RevOf,        \* RevOf[j]: the source revision j translates
    Worker,       \* workers of all glossa-server processes
    Reviewer,     \* people who decide suggestions
    None,         \* NULL, or nothing to do
    Cap,          \* the tenant's max_concurrent_jobs
    MaxAttempts,  \* MaxAttempts[j]: max_attempts of j
    MaxRequests,  \* bound: MaxRequests[j] is how often j is queued anew
    MaxFaults     \* bound: workers that stop, leases that run out under one

ASSUME RevAssumption == RevOf \in [Job -> Nat \ {0}]
ASSUME JobBoundAssumption ==
    /\ Cap \in Nat \ {0} /\ MaxAttempts \in [Job -> Nat \ {0}]
    /\ MaxRequests \in [Job -> Nat] /\ MaxFaults \in Nat

VARIABLES
    source,      \* the message's source revision
    translated,  \* the source revision its translation was made for, 0 for none
    \* intelligence_jobs.
    state,       \* state[j]: "none" until j is inserted
    attempts,    \* attempts[j]
    forced,      \* forced[j]
    due,         \* due[j]: available_at <= now()
    token,       \* token[j]: the worker whose claim it is, or None
    suggestion,  \* suggestion[j]: the suggestions of j's results, in order
    \* What runs.
    claiming,    \* the worker that holds the claims' advisory lock, or None
    work,        \* work[w]: the claim w works on
    review,      \* review[p]: the suggestion p accepts
    \* What happened, for the properties only.
    requests,    \* requests[j]: times j was queued anew
    calls,       \* calls[j]: runs of j that asked a provider
    faults

row == <<state, attempts, forced, due, token>>
translation == <<source, translated>>
vars == <<translation, row, suggestion, claiming, work, review, requests, calls, faults>>

Final == {"succeeded", "skipped", "failed", "dead", "cancelled"}

Init ==
    /\ source = 1 /\ translated = 0
    /\ state = [j \in Job |-> "none"]
    /\ attempts = [j \in Job |-> 0]
    /\ forced = [j \in Job |-> FALSE]
    /\ due = [j \in Job |-> FALSE]
    /\ token = [j \in Job |-> None]
    /\ suggestion = [j \in Job |-> <<>>]
    /\ claiming = None
    /\ work = [w \in Worker |-> None]
    /\ review = [p \in Reviewer |-> None]
    /\ requests = [j \in Job |-> 0]
    /\ calls = [j \in Job |-> 0]
    /\ faults = 0

Fault == faults < MaxFaults /\ faults' = faults + 1

At(w, step) == work[w] # None /\ work[w].step = step
On(w) == work[w].job

\* No settlement holds j's row.
Unlocked(j) == ~\E w \in Worker : At(w, "commit") /\ On(w) = j

-----------------------------------------------------------------------------
(* The message and its translation, changed by people.                     *)

SourceMoves ==
    /\ \E j \in Job : RevOf[j] > source
    /\ source' = source + 1
    /\ UNCHANGED <<translated, row, suggestion, claiming, work, review,
                   requests, calls, faults>>

PersonTranslates ==
    /\ translated # source
    /\ translated' = source
    /\ UNCHANGED <<source, row, suggestion, claiming, work, review, requests,
                   calls, faults>>

-----------------------------------------------------------------------------
(* The queue.                                                              *)

\* EnqueueJob: an event queues a job that does not exist; a fill requeues one
\* that failed, died or was cancelled; a forced one any that is not running.
Requeues(j, fill, force) ==
    \/ state[j] = "none"
    \/ fill /\ state[j] \in {"failed", "dead", "cancelled"}
    \/ force /\ state[j] # "running"
Enqueue(j, fill, force) ==
    /\ RevOf[j] <= source /\ (force => fill)
    /\ requests[j] < MaxRequests[j]
    /\ Requeues(j, fill, force) /\ Unlocked(j)
    /\ state' = [state EXCEPT ![j] = "queued"]
    /\ attempts' = [attempts EXCEPT ![j] = 0]
    /\ forced' = [forced EXCEPT ![j] = force]
    /\ due' = [due EXCEPT ![j] = TRUE]
    /\ token' = [token EXCEPT ![j] = None]
    /\ requests' = [requests EXCEPT ![j] = @ + 1]
    /\ UNCHANGED <<translation, suggestion, claiming, work, review, calls, faults>>

\* CancelJob, CancelFillJobs.
Cancellable(j) == state[j] = "queued"
Cancel(j) ==
    /\ Cancellable(j) /\ Unlocked(j)
    /\ state' = [state EXCEPT ![j] = "cancelled"]
    /\ UNCHANGED <<translation, attempts, forced, due, token, suggestion, claiming, work,
                   review, requests, calls, faults>>

\* A backoff is over, or a lease runs out: under a worker that still runs the
\* job only if its process was held up, as the lease exceeds JobTimeout.
Held(j) == \E w \in Worker :
    (At(w, "run") \/ At(w, "settle") \/ At(w, "commit")) /\ token[j] = w
ComesDue(j) ==
    /\ state[j] \in {"queued", "running"} /\ ~due[j]
    /\ due' = [due EXCEPT ![j] = TRUE]
    /\ IF Held(j) THEN Fault ELSE UNCHANGED faults
    /\ UNCHANGED <<translation, state, attempts, forced, token, suggestion, claiming, work,
                   review, requests, calls>>

\* ClaimJob: what is due, and whether the tenant is under its cap.
Claimable(j) == state[j] \in {"queued", "running"} /\ due[j]
Leased == {j \in Job : state[j] = "running" /\ ~due[j]}
Pick(w, j) ==
    /\ work[w] = None
    /\ Claimable(j) /\ Unlocked(j) /\ Cardinality(Leased) < Cap
    /\ work' = [work EXCEPT ![w] = [job |-> j, step |-> "claim", attempt |-> 0,
                                    outcome |-> "none", seen |-> {}, number |-> 0]]
    /\ UNCHANGED <<translation, row, suggestion, review, requests, calls, faults>>
PickUnlocked(w, j) == Pick(w, j) /\ UNCHANGED claiming
LockAndPick(w, j) == claiming = None /\ claiming' = w /\ Pick(w, j)

Take(w) ==
    /\ At(w, "claim")
    /\ claiming' = None
    /\ IF Claimable(On(w)) /\ Unlocked(On(w))
       THEN /\ state' = [state EXCEPT ![On(w)] = "running"]
            /\ attempts' = [attempts EXCEPT ![On(w)] = @ + 1]
            /\ due' = [due EXCEPT ![On(w)] = FALSE]
            /\ token' = [token EXCEPT ![On(w)] = w]
            /\ work' = [work EXCEPT ![w].step = "run", ![w].attempt = attempts[On(w)] + 1]
       ELSE work' = [work EXCEPT ![w] = None] /\ UNCHANGED <<state, attempts, due, token>>
    /\ UNCHANGED <<translation, forced, suggestion, review, requests, calls, faults>>

-----------------------------------------------------------------------------
(* runJob.                                                                 *)

SpentLate(w) == work[w].attempt > MaxAttempts[On(w)] + 1
Spent(w) == work[w].attempt > MaxAttempts[On(w)]
NothingToDo(j) == source # RevOf[j] \/ (translated >= source /\ ~forced[j])

Ends(w, outcome) == work' = [work EXCEPT ![w].step = "settle", ![w].outcome = outcome]

\* The job was claimed too often, or its message moved on or is translated.
Skip(w) ==
    /\ At(w, "run")
    /\ Spent(w) \/ NothingToDo(On(w))
    /\ Ends(w, IF Spent(w) THEN "dead" ELSE "skipped")
    /\ UNCHANGED <<translation, row, suggestion, claiming, review, requests, calls, faults>>

\* execute asks a provider; "approved" is a suggestion to apply at once.
Execute(w) ==
    /\ At(w, "run")
    /\ ~Spent(w) /\ ~NothingToDo(On(w))
    /\ calls' = [calls EXCEPT ![On(w)] = @ + 1]
    /\ \E o \in {"succeeded", "approved", "failed", "transient"} : Ends(w, o)
    /\ UNCHANGED <<translation, row, suggestion, claiming, review, requests, faults>>

\* LockClaimedJob finds the job under the claim's token, and waits while another
\* settlement holds the row; a row it does not find it does not wait for.
FencedByState(w) == state[On(w)] = "running"
Fenced(w) == state[On(w)] = "running" /\ token[On(w)] = w
Locks(w) == Fenced(w) /\ Unlocked(On(w))

\* ErrLeaseLost: another worker settles it.
SettleLost(w) ==
    /\ At(w, "settle") /\ ~Fenced(w)
    /\ work' = [work EXCEPT ![w] = None]
    /\ UNCHANGED <<translation, row, suggestion, claiming, review, requests, calls, faults>>

\* FinishJob and RetryJob.
Finish(w, s) ==
    /\ state' = [state EXCEPT ![On(w)] = s]
    /\ token' = [token EXCEPT ![On(w)] = None]
    /\ UNCHANGED <<attempts, forced>>

Pending(j, n) == suggestion[j][n].status = "pending"

\* A suggestion is inserted, and supersedes those that are committed and
\* pending: two settlements that overlap do not see each other's.
InsertSuggestion(w) ==
    /\ At(w, "settle") /\ Locks(w) /\ work[w].outcome \in {"succeeded", "approved"}
    /\ work' = [work EXCEPT ![w].step = "commit",
            ![w].seen = UNION {{<<j, n>> : n \in {m \in DOMAIN suggestion[j] : Pending(j, m)}} : j \in Job}]
    /\ UNCHANGED <<translation, row, suggestion, claiming, review, requests, calls, faults>>
CommitSuggestion(w) ==
    /\ At(w, "commit")
    /\ suggestion' = [j \in Job |->
            [n \in DOMAIN suggestion[j] |->
                IF <<j, n>> \in work[w].seen /\ Pending(j, n)
                THEN [status |-> "superseded", version |-> suggestion[j][n].version + 1]
                ELSE suggestion[j][n]]
            \o (IF j = On(w) THEN <<[status |-> "pending", version |-> 1]>> ELSE <<>>)]
    /\ Finish(w, "succeeded")
    /\ work' = [work EXCEPT ![w] = IF @.outcome = "approved"
            THEN [@ EXCEPT !.step = "apply", !.seen = {}, !.number = Len(suggestion[On(w)]) + 1]
            ELSE None]
    /\ UNCHANGED <<translation, due, claiming, review, requests, calls, faults>>

Retries(w) == work[w].outcome = "transient" /\ work[w].attempt < MaxAttempts[On(w)]
SettleRetry(w) ==
    /\ At(w, "settle") /\ Locks(w) /\ Retries(w)
    /\ Finish(w, "queued")
    /\ due' = [due EXCEPT ![On(w)] = FALSE]
    /\ work' = [work EXCEPT ![w] = None]
    /\ UNCHANGED <<translation, suggestion, claiming, review, requests, calls, faults>>

SettleEnd(w) ==
    /\ At(w, "settle") /\ Locks(w)
    /\ work[w].outcome \notin {"succeeded", "approved"} /\ ~Retries(w)
    /\ Finish(w, IF work[w].outcome = "transient" THEN "dead" ELSE work[w].outcome)
    /\ work' = [work EXCEPT ![w] = None]
    /\ UNCHANGED <<translation, due, suggestion, claiming, review, requests, calls, faults>>

\* autoApply: the text is written, unless Localization refuses it, and then
\* the suggestion is decided if nobody did meanwhile.
Written(j) == translated' = RevOf[j] /\ UNCHANGED source
Apply(w) ==
    /\ At(w, "apply")
    /\ \/ Written(On(w)) /\ work' = [work EXCEPT ![w].step = "decide"]
       \/ UNCHANGED translation /\ work' = [work EXCEPT ![w].step = "note"]
    /\ UNCHANGED <<row, suggestion, claiming, review, requests, calls, faults>>

Decide(j, n, status) ==
    suggestion' = [suggestion EXCEPT ![j][n] = [status |-> status, version |-> @.version + 1]]
Mine(w) == suggestion[On(w)][work[w].number]
StillThere(w) == Mine(w).version >= 1
AsInserted(w) == Mine(w).version = 1
RecordApply(w) ==
    /\ At(w, "decide") \/ At(w, "note")
    /\ IF AsInserted(w)
       THEN Decide(On(w), work[w].number, IF At(w, "decide") THEN "auto_applied" ELSE "pending")
       ELSE UNCHANGED suggestion
    /\ work' = [work EXCEPT ![w] = None]
    /\ UNCHANGED <<translation, row, claiming, review, requests, calls, faults>>

\* The process dies, or a transaction of the run fails: the job stays as it
\* is, and a claim's locks are gone.
Stop(w) ==
    /\ work[w] # None
    /\ Fault
    /\ work' = [work EXCEPT ![w] = None]
    /\ claiming' = IF claiming = w THEN None ELSE claiming
    /\ UNCHANGED <<translation, row, suggestion, review, requests, calls>>

-----------------------------------------------------------------------------
(* Reviewers.                                                              *)

\* AcceptSuggestion reads the suggestion and its message, writes the text,
\* and then decides if the suggestion is as it was read.
BeginAccept(p, j, n) ==
    /\ review[p] = None
    /\ Pending(j, n) /\ source = RevOf[j]
    /\ review' = [review EXCEPT ![p] =
            [job |-> j, number |-> n, version |-> suggestion[j][n].version, step |-> "write"]]
    /\ UNCHANGED <<translation, row, suggestion, claiming, work, requests, calls, faults>>
AcceptWrites(p) ==
    /\ review[p] # None /\ review[p].step = "write"
    /\ \/ /\ Written(review[p].job)
          /\ review' = [review EXCEPT ![p].step = "decide"]
       \/ UNCHANGED translation /\ review' = [review EXCEPT ![p] = None]
    /\ UNCHANGED <<row, suggestion, claiming, work, requests, calls, faults>>
AcceptDecides(p) ==
    /\ review[p] # None /\ review[p].step = "decide"
    /\ LET r == review[p] IN
       IF Pending(r.job, r.number) /\ suggestion[r.job][r.number].version = r.version
       THEN Decide(r.job, r.number, "accepted") ELSE UNCHANGED suggestion
    /\ review' = [review EXCEPT ![p] = None]
    /\ UNCHANGED <<translation, row, claiming, work, requests, calls, faults>>

\* RejectSuggestion: the version it read is compared under the row's lock.
Reject(j, n) ==
    /\ Pending(j, n)
    /\ Decide(j, n, "rejected")
    /\ UNCHANGED <<translation, row, claiming, work, review, requests, calls, faults>>

-----------------------------------------------------------------------------
Claims(w) == (\E j \in Job : LockAndPick(w, j)) \/ Take(w)
Runs(w) ==
    \/ Skip(w) \/ Execute(w)
    \/ SettleLost(w) \/ InsertSuggestion(w) \/ CommitSuggestion(w) \/ SettleRetry(w) \/ SettleEnd(w)
    \/ Apply(w) \/ RecordApply(w)

Next ==
    \/ SourceMoves \/ PersonTranslates
    \/ \E j \in Job :
        \/ \E fill, force \in BOOLEAN : Enqueue(j, fill, force)
        \/ Cancel(j) \/ ComesDue(j)
        \/ \E n \in DOMAIN suggestion[j] :
            Reject(j, n) \/ \E p \in Reviewer : BeginAccept(p, j, n)
    \/ \E p \in Reviewer : AcceptWrites(p) \/ AcceptDecides(p)
    \/ \E w \in Worker : Claims(w) \/ Runs(w) \/ Stop(w)

Spec == Init /\ [][Next]_vars

-----------------------------------------------------------------------------
(* Properties.                                                             *)

Status == {"pending", "superseded", "auto_applied", "accepted", "rejected"}
Claim == [job : Job,
          step : {"claim", "run", "settle", "commit", "apply", "decide", "note"},
          attempt : Nat,
          outcome : {"none", "dead", "skipped", "succeeded", "approved", "failed", "transient"},
          seen : SUBSET (Job \X Nat), number : Nat]
Acceptance == [job : Job, number : Nat, version : Nat, step : {"write", "decide"}]

ASSUME NoneAssumption == None \notin Worker \cup Claim \cup Acceptance

\* The variables have their types, a job that runs has a claim, and what a
\* worker applies or a reviewer accepts exists.
TypeOK ==
    /\ source \in Nat /\ translated \in Nat
    /\ state \in [Job -> {"none", "queued", "running"} \cup Final]
    /\ attempts \in [Job -> Nat] /\ forced \in [Job -> BOOLEAN] /\ due \in [Job -> BOOLEAN]
    /\ token \in [Job -> Worker \cup {None}]
    /\ \A j \in Job : state[j] = "running" <=> token[j] # None
    /\ suggestion \in [Job -> Seq([status : Status, version : Nat \ {0}])]
    /\ claiming \in Worker \cup {None}
    /\ work \in [Worker -> Claim \cup {None}]
    /\ \A w \in Worker :
            At(w, "apply") \/ At(w, "decide") \/ At(w, "note") =>
                work[w].number \in DOMAIN suggestion[On(w)]
    /\ review \in [Reviewer -> Acceptance \cup {None}]
    /\ \A p \in Reviewer :
            review[p] # None => review[p].number \in DOMAIN suggestion[review[p].job]
    /\ requests \in [Job -> Nat] /\ calls \in [Job -> Nat] /\ faults \in Nat

\* "the cap holds across replicas": never more jobs of a tenant run under a
\* lease than it may run, however the claims of its workers interleave.
CapHolds == Cardinality(Leased) <= Cap

\* "settlement is fenced, so a worker whose lease expired changes nothing": who
\* ends a job's run, or adds a suggestion to the job, holds its current claim and
\* ran its last attempt, whatever claims came and went since the run began.
SettledByItsClaim ==
    [][\A j \in Job :
        \/ state[j] = "running" /\ state'[j] # "running"
        \/ Len(suggestion'[j]) > Len(suggestion[j])
        => \E w \in Worker :
            /\ At(w, "settle") \/ At(w, "commit")
            /\ work'[w] # work[w] /\ On(w) = j
            /\ token[j] = w /\ work[w].attempt = attempts[j]]_vars

\* A job that is queued once has one result at most, however many workers
\* lost their lease while they ran it: a settlement holds the row to its commit.
OneResultPerRequest == \A j \in Job : Len(suggestion[j]) <= requests[j]

\* A job that is queued once asks a provider MaxAttempts times at most, also
\* when its workers keep dying before they settle.
CallsAreBounded == \A j \in Job : calls[j] <= MaxAttempts[j] * requests[j]

\* A decision about a suggestion stands: neither its auto-apply, nor a
\* reviewer's late answer, nor a newer suggestion replaces it.
DecisionsStand ==
    [][\A j \in Job : \A n \in DOMAIN suggestion[j] :
        ~Pending(j, n) => suggestion'[j][n] = suggestion[j][n]]_vars
=============================================================================
