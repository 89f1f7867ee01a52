------------------------------- MODULE Outbox -------------------------------
(***************************************************************************)
(* The transactional outbox of platform/internal/kernel/outbox: the rows   *)
(* of outbox_events, and the dispatchers (one per glossa-server replica)   *)
(* that claim due rows, hand them to the subscribers of their type and     *)
(* settle them.                                                            *)
(*                                                                         *)
(* Time is abstracted to the two things the code asks of it: whether a row *)
(* is due (available_at <= now()) and whether a dispatcher's own margin of *)
(* the lease is used up (now >= leaseEnd).  The margin ends before the     *)
(* lease it was cut from, which is the only order assumed of the clocks.   *)
(*                                                                         *)
(* A claim token is a fresh UUID per claim.  A dispatcher runs one batch   *)
(* at a time, so a row's holder tells its claims apart and stands for the  *)
(* token; NoToken is SQL NULL.                                             *)
(***************************************************************************)
EXTENDS Integers, FiniteSets

CONSTANTS
    Event,        \* outbox_events rows, by id
    Subscriber,   \* subscriber names
    BatchSub,     \* those registered with SubscribeBatch
    SubsOf,       \* SubsOf[e]: Registry.subscribers of e's type
    Tenant,       \* tenants
    TenantOf,     \* TenantOf[e]: the row's tenant_id
    Dispatcher,   \* glossa-server processes running a dispatcher
    NoToken,      \* claim_token IS NULL
    BatchSize,    \* DispatcherConfig.BatchSize
    MaxAttempts,  \* DispatcherConfig.MaxAttempts
    MaxFaults     \* bound: crashes, shutdowns, failed settlements, overrun leases

ASSUME SubsAssumption ==
    /\ BatchSub \subseteq Subscriber
    /\ SubsOf \in [Event -> SUBSET Subscriber]
    /\ TenantOf \in [Event -> Tenant]
ASSUME TokenAssumption == NoToken \notin Dispatcher
ASSUME BoundAssumption ==
    /\ BatchSize \in Nat \ {0}
    /\ MaxAttempts \in Nat \ {0}
    /\ MaxFaults \in Nat

VARIABLES
    \* The table.
    status,       \* status[e]: "absent" before the publisher commits
    attempts,     \* attempts[e]
    due,          \* due[e]: available_at <= now()
    token,        \* token[e]: the holder of the live claim, or NoToken
    deliveredTo,  \* deliveredTo[e]: subscribers recorded as succeeded
    \* A dispatcher's memory, lost in a crash.
    batch,        \* batch[d]: events of the current batch not settled yet
    run,          \* run[d][e]: the claimRun of e
    todo,         \* todo[d]: <<s, e>> not handed to batch subscriber s yet
    again,        \* again[d]: <<s, e>> the batch call failed, to redeliver
    each,         \* each[d]: claims deliverEach has not reached
    invoking,     \* invoking[d]: <<s, e>> still to invoke for the current claim
    outOfLease,   \* outOfLease[d]: now is past leaseEnd
    stopping,     \* stopping[d]: the process' context is cancelled
    \* What happened, for the properties only.
    applied,      \* <<s, e>> handled with success
    repeated,     \* <<s, e>> handled with success more than once
    lost,         \* lost[e]: a claim of e was taken over unsettled
    charges,      \* charges[e]: claims of e that failed or were taken over
    doomed,       \* doomed[e]: a subscriber failed e permanently
    faults        \* faults so far, bounded by MaxFaults

rows     == <<status, attempts, due, token, deliveredTo>>
work     == <<todo, again, each, invoking>>
memory   == <<batch, run, work, outOfLease, stopping>>
history  == <<applied, repeated, lost, charges, doomed, faults>>
vars     == <<rows, memory, history>>

-----------------------------------------------------------------------------
(* The claimRun of a claim: what its subscribers did so far.               *)

NoRun == [attempt |-> 0, delivered |-> {}, failed |-> FALSE,
          permanent |-> FALSE, deferred |-> FALSE]

RunType == [attempt : Nat, delivered : SUBSET Subscriber, failed : BOOLEAN,
            permanent : BOOLEAN, deferred : BOOLEAN]

NewRun(e) == [attempt |-> attempts[e] + 1, delivered |-> deliveredTo[e], failed |-> FALSE,
              permanent |-> FALSE, deferred |-> FALSE]

\* canStart: is there time left to start a delivery?
CanStartAlways(d) == TRUE
CanStart(d) == ~stopping[d] /\ ~outOfLease[d]

\* The phases of ProcessBatch, in order: batch subscribers, every other
\* subscriber claim by claim, settling.
BatchPhase(d)  == todo[d] # {} \/ again[d] # {}
EachPhase(d)   == ~BatchPhase(d) /\ (each[d] # {} \/ invoking[d] # {})
SettlePhase(d) == ~BatchPhase(d) /\ each[d] = {} /\ invoking[d] = {}

\* One claimRun.record per delivery of s: ok succeeded, bad failed
\* permanently, soft failed otherwise; left waits for its redelivery.
RecordedAsHandled(d, s, ok, bad, soft, left) ==
    [run EXCEPT ![d] = [e \in Event |->
        [run[d][e] EXCEPT
            !.delivered = IF e \in ok \cup left THEN @ \cup {s} ELSE @,
            !.failed    = @ \/ e \in bad \cup soft,
            !.permanent = @ \/ e \in bad]]]
Recorded(d, s, ok, bad, soft, left) ==
    [run EXCEPT ![d] = [e \in Event |->
        [run[d][e] EXCEPT
            !.delivered = IF e \in ok THEN @ \cup {s} ELSE @,
            !.failed    = @ \/ e \in bad \cup soft,
            !.permanent = @ \/ e \in bad]]]

\* The handlers of s reported success for es (the history of effects).
Handled(s, es) ==
    /\ repeated' = repeated \cup {p \in {<<s, e>> : e \in es} : p \in applied}
    /\ applied' = applied \cup {<<s, e>> : e \in es}

-----------------------------------------------------------------------------
Init ==
    /\ status = [e \in Event |-> "absent"]
    /\ attempts = [e \in Event |-> 0]
    /\ due = [e \in Event |-> FALSE]
    /\ token = [e \in Event |-> NoToken]
    /\ deliveredTo = [e \in Event |-> {}]
    /\ batch = [d \in Dispatcher |-> {}]
    /\ run = [d \in Dispatcher |-> [e \in Event |-> NoRun]]
    /\ todo = [d \in Dispatcher |-> {}]
    /\ again = [d \in Dispatcher |-> {}]
    /\ each = [d \in Dispatcher |-> {}]
    /\ invoking = [d \in Dispatcher |-> {}]
    /\ outOfLease = [d \in Dispatcher |-> FALSE]
    /\ stopping = [d \in Dispatcher |-> FALSE]
    /\ applied = {}
    /\ repeated = {}
    /\ lost = [e \in Event |-> FALSE]
    /\ charges = [e \in Event |-> 0]
    /\ doomed = [e \in Event |-> FALSE]
    /\ faults = 0

\* Publish: the publisher's transaction commits with the event in it.
Publish(e) ==
    /\ status[e] = "absent"
    /\ status' = [status EXCEPT ![e] = "pending"]
    /\ due' = [due EXCEPT ![e] = TRUE]
    /\ UNCHANGED <<attempts, token, deliveredTo, memory, history>>

-----------------------------------------------------------------------------
(* Claiming.                                                               *)

\* ClaimOutboxEvents: the WHERE of the claim.
ClaimableIgnoringStatus(e) == due[e] /\ status[e] # "absent"
ClaimableUnheld(e) == status[e] = "pending" /\ due[e] /\ token[e] = NoToken
Claimable(e) == status[e] = "pending" /\ due[e]

\* PostgresStore.Claim and the set-up of ProcessBatch.  SKIP LOCKED and the
\* LIMIT leave a claim any of the due rows, so any subset that fits is taken.
Claim(d, es) ==
    /\ batch[d] = {} /\ ~stopping[d]
    /\ es # {} /\ Cardinality(es) <= BatchSize
    /\ \A e \in es : Claimable(e)
    /\ attempts' = [e \in Event |-> IF e \in es THEN attempts[e] + 1 ELSE attempts[e]]
    /\ due' = [e \in Event |-> due[e] /\ e \notin es]
    /\ token' = [e \in Event |-> IF e \in es THEN d ELSE token[e]]
    /\ batch' = [batch EXCEPT ![d] = es]
    /\ run' = [run EXCEPT ![d] = [e \in Event |-> IF e \in es THEN NewRun(e) ELSE NoRun]]
    /\ todo' = [todo EXCEPT ![d] =
            {p \in BatchSub \X es : p[1] \in SubsOf[p[2]] \ deliveredTo[p[2]]}]
    /\ each' = [each EXCEPT ![d] = es]
    /\ outOfLease' = [outOfLease EXCEPT ![d] = FALSE]
    /\ lost' = [e \in Event |-> lost[e] \/ (e \in es /\ token[e] # NoToken)]
    /\ charges' = [e \in Event |->
            IF e \in es /\ token[e] # NoToken THEN charges[e] + 1 ELSE charges[e]]
    /\ UNCHANGED <<status, deliveredTo, again, invoking, stopping,
                   applied, repeated, doomed, faults>>

-----------------------------------------------------------------------------
(* Batch subscribers (deliverBatches, deliverBatch).                       *)

\* batchGroup: s's pending deliveries for tenant t in d's batch.
Group(d, s, t) == {e \in Event : <<s, e>> \in todo[d] /\ TenantOf[e] = t}

\* HandleBatch answers for each delivery: ok is handled and committed, bad
\* is Permanent, and the rest is delivered again one at a time.
DeliverBatch(d, s, t) ==
    /\ again[d] = {} /\ Group(d, s, t) # {}
    /\ CanStart(d)
    /\ \E ok, bad \in SUBSET Group(d, s, t) :
        /\ ok \cap bad = {}
        /\ LET left == Group(d, s, t) \ (ok \cup bad) IN
           /\ run' = Recorded(d, s, ok, bad, {}, left)
           /\ again' = [again EXCEPT ![d] = {s} \X left]
        /\ Handled(s, ok)
        /\ doomed' = [e \in Event |-> doomed[e] \/ e \in bad]
    /\ todo' = [todo EXCEPT ![d] = @ \ ({s} \X Group(d, s, t))]
    /\ UNCHANGED <<rows, batch, each, invoking, outOfLease, stopping,
                   lost, charges, faults>>

\* A group that may not start any more is deferred as a whole.
DeferBatch(d, s, t) ==
    /\ again[d] = {} /\ Group(d, s, t) # {}
    /\ ~CanStart(d)
    /\ run' = [run EXCEPT ![d] = [e \in Event |->
            IF e \in Group(d, s, t) THEN [run[d][e] EXCEPT !.deferred = TRUE] ELSE run[d][e]]]
    /\ todo' = [todo EXCEPT ![d] = @ \ ({s} \X Group(d, s, t))]
    /\ UNCHANGED <<rows, batch, again, each, invoking, outOfLease, stopping, history>>

\* invoke (inline retries included): success, a permanent error, or an
\* error that is left for the event's next delivery.
Invoked(d, s, e) ==
    /\ \/ /\ run' = Recorded(d, s, {e}, {}, {}, {})
          /\ Handled(s, {e})
          /\ UNCHANGED doomed
       \/ /\ run' = Recorded(d, s, {}, {e}, {}, {})
          /\ doomed' = [doomed EXCEPT ![e] = TRUE]
          /\ UNCHANGED <<applied, repeated>>
       \/ /\ run' = Recorded(d, s, {}, {}, {e}, {})
          /\ UNCHANGED <<applied, repeated, doomed>>
    /\ UNCHANGED <<rows, batch, outOfLease, stopping, lost, charges, faults>>

\* deliverBatch's second half: what the batch did not handle, one at a time.
Redeliver(d, s, e) ==
    /\ <<s, e>> \in again[d]
    /\ CanStart(d)
    /\ Invoked(d, s, e)
    /\ again' = [again EXCEPT ![d] = @ \ {<<s, e>>}]
    /\ UNCHANGED <<todo, each, invoking>>

DeferRedelivery(d, s, e) ==
    /\ <<s, e>> \in again[d]
    /\ ~CanStart(d)
    /\ run' = [run EXCEPT ![d][e].deferred = TRUE]
    /\ again' = [again EXCEPT ![d] = @ \ {<<s, e>>}]
    /\ UNCHANGED <<rows, batch, todo, each, invoking, outOfLease, stopping, history>>

-----------------------------------------------------------------------------
(* Every other subscriber (deliverEach), claim by claim.  The time left is *)
(* asked once per claim, not once per subscriber.                          *)

EverySub(d, e) == SubsOf[e] \ BatchSub
PendingSubs(d, e) == (SubsOf[e] \ BatchSub) \ run[d][e].delivered

ReachEach(d, e) ==
    /\ EachPhase(d) /\ invoking[d] = {} /\ e \in each[d]
    /\ each' = [each EXCEPT ![d] = @ \ {e}]

StartEach(d, e) ==
    /\ ReachEach(d, e)
    /\ PendingSubs(d, e) # {} => CanStart(d)
    /\ invoking' = [invoking EXCEPT ![d] = PendingSubs(d, e) \X {e}]
    /\ UNCHANGED <<rows, batch, run, todo, again, outOfLease, stopping, history>>

DeferEach(d, e) ==
    /\ ReachEach(d, e)
    /\ PendingSubs(d, e) # {} /\ ~CanStart(d)
    /\ run' = [run EXCEPT ![d][e].deferred = TRUE]
    /\ UNCHANGED <<rows, batch, todo, again, invoking, outOfLease, stopping, history>>

Invoke(d, s, e) ==
    /\ <<s, e>> \in invoking[d]
    /\ Invoked(d, s, e)
    /\ invoking' = [invoking EXCEPT ![d] = @ \ {<<s, e>>}]
    /\ UNCHANGED <<todo, again, each>>

-----------------------------------------------------------------------------
(* Settling (settlementOf, decide, settleAll, the four UPDATEs).           *)

\* settlementOf and decide.
OutcomeIgnoringDeferral(d, e) ==
    IF ~run[d][e].failed THEN "delivered"
    ELSE IF run[d][e].permanent \/ run[d][e].attempt >= MaxAttempts THEN "dead" ELSE "retry"
OutcomeOf(d, e) ==
    IF ~run[d][e].failed
    THEN IF run[d][e].deferred THEN "release" ELSE "delivered"
    ELSE IF run[d][e].permanent \/ run[d][e].attempt >= MaxAttempts THEN "dead" ELSE "retry"

\* The WHERE of the four settling UPDATEs.
Unfenced(d, e) == TRUE
Fenced(d, e) == token[e] = d

\* delivered_to = the run's.
KeepNothing(d, e) == deliveredTo[e]
DeliveredToOf(d, e) == run[d][e].delivered

\* ReleaseOutboxEvent: attempts = greatest(attempts - 1, 0).
KeepAttempts(e) == attempts[e]
RefundedTwice(e) == attempts[e] - 2
Refunded(e) == IF attempts[e] > 0 THEN attempts[e] - 1 ELSE 0

\* e leaves d's batch.
Forget(d, e) ==
    /\ batch' = [batch EXCEPT ![d] = @ \ {e}]
    /\ run' = [run EXCEPT ![d][e] = NoRun]
    /\ UNCHANGED <<work, outOfLease, stopping>>

\* The common part of the four UPDATEs: the fence, and the columns each sets.
SettleAs(d, e, outcome) ==
    /\ SettlePhase(d) /\ e \in batch[d]
    /\ OutcomeOf(d, e) = outcome
    /\ Fenced(d, e)
    /\ token' = [token EXCEPT ![e] = NoToken]
    /\ deliveredTo' = [deliveredTo EXCEPT ![e] = DeliveredToOf(d, e)]
    /\ Forget(d, e)
    /\ UNCHANGED <<applied, repeated, lost, doomed, faults>>

Charged(e) == charges' = [charges EXCEPT ![e] = @ + 1]

MarkDelivered(d, e) ==
    /\ SettleAs(d, e, "delivered")
    /\ status' = [status EXCEPT ![e] = "delivered"]
    /\ UNCHANGED <<attempts, due, charges>>

Reschedule(d, e) ==
    /\ SettleAs(d, e, "retry")
    /\ due' = [due EXCEPT ![e] = FALSE]
    /\ Charged(e)
    /\ UNCHANGED <<status, attempts>>

DeadLetter(d, e) ==
    /\ SettleAs(d, e, "dead")
    /\ status' = [status EXCEPT ![e] = "dead"]
    /\ Charged(e)
    /\ UNCHANGED <<attempts, due>>

Release(d, e) ==
    /\ SettleAs(d, e, "release")
    /\ attempts' = [attempts EXCEPT ![e] = Refunded(e)]
    /\ due' = [due EXCEPT ![e] = TRUE]
    /\ UNCHANGED <<status, charges>>

\* ErrLeaseLost: the token no longer matches, the settlement is dropped.
LeaseLost(d, e) ==
    /\ SettlePhase(d) /\ e \in batch[d]
    /\ ~Fenced(d, e)
    /\ Forget(d, e)
    /\ UNCHANGED <<rows, history>>

\* The database refuses the settlement; "the lease will expire and redeliver".
SettleFails(d, e) ==
    /\ SettlePhase(d) /\ e \in batch[d]
    /\ faults < MaxFaults
    /\ faults' = faults + 1
    /\ Forget(d, e)
    /\ UNCHANGED <<rows, applied, repeated, lost, charges, doomed>>

-----------------------------------------------------------------------------
(* Time, shutdown and crashes.                                             *)

\* The margin (nine tenths of the lease) is used up.
MarginEnds(d) ==
    /\ batch[d] # {} /\ ~outOfLease[d]
    /\ outOfLease' = [outOfLease EXCEPT ![d] = TRUE]
    /\ UNCHANGED <<rows, batch, run, work, stopping, history>>

\* A claim's lease ends unsettled.  Its holder either is past its margin
\* (an overrun, counted as a fault) or does not remember the claim.
LeaseEnds(e) ==
    /\ status[e] = "pending" /\ token[e] # NoToken /\ ~due[e]
    /\ IF e \in batch[token[e]]
       THEN outOfLease[token[e]] /\ faults < MaxFaults /\ faults' = faults + 1
       ELSE UNCHANGED faults
    /\ due' = [due EXCEPT ![e] = TRUE]
    /\ UNCHANGED <<status, attempts, token, deliveredTo, memory,
                   applied, repeated, lost, charges, doomed>>

\* retryDelay after a failed delivery has passed.
BackoffEnds(e) ==
    /\ status[e] = "pending" /\ token[e] = NoToken /\ ~due[e]
    /\ due' = [due EXCEPT ![e] = TRUE]
    /\ UNCHANGED <<status, attempts, token, deliveredTo, memory, history>>

\* SIGTERM cancels Run's context: nothing more is started, what is claimed
\* is settled all the same.
Shutdown(d) ==
    /\ ~stopping[d]
    /\ faults < MaxFaults
    /\ faults' = faults + 1
    /\ stopping' = [stopping EXCEPT ![d] = TRUE]
    /\ UNCHANGED <<rows, batch, run, work, outOfLease,
                   applied, repeated, lost, charges, doomed>>

\* Run returns once the batch is settled; a new process takes its place.
Restart(d) ==
    /\ stopping[d] /\ batch[d] = {}
    /\ stopping' = [stopping EXCEPT ![d] = FALSE]
    /\ UNCHANGED <<rows, batch, run, work, outOfLease, history>>

\* The process dies: its memory is gone, its claims stay in the table.
Crash(d) ==
    /\ batch[d] # {}
    /\ faults < MaxFaults
    /\ faults' = faults + 1
    /\ batch' = [batch EXCEPT ![d] = {}]
    /\ run' = [run EXCEPT ![d] = [e \in Event |-> NoRun]]
    /\ todo' = [todo EXCEPT ![d] = {}]
    /\ again' = [again EXCEPT ![d] = {}]
    /\ each' = [each EXCEPT ![d] = {}]
    /\ invoking' = [invoking EXCEPT ![d] = {}]
    /\ outOfLease' = [outOfLease EXCEPT ![d] = FALSE]
    /\ stopping' = [stopping EXCEPT ![d] = FALSE]
    /\ UNCHANGED <<rows, applied, repeated, lost, charges, doomed>>

-----------------------------------------------------------------------------
Settle(d, e) ==
    \/ MarkDelivered(d, e) \/ Reschedule(d, e) \/ DeadLetter(d, e)
    \/ Release(d, e) \/ LeaseLost(d, e)

Deliver(d, s, e) ==
    \/ Redeliver(d, s, e) \/ DeferRedelivery(d, s, e) \/ Invoke(d, s, e)

Next ==
    \/ \E e \in Event : Publish(e) \/ LeaseEnds(e) \/ BackoffEnds(e)
    \/ \E d \in Dispatcher :
        \/ \E es \in SUBSET Event : Claim(d, es)
        \/ \E s \in BatchSub, t \in Tenant : DeliverBatch(d, s, t) \/ DeferBatch(d, s, t)
        \/ \E s \in Subscriber, e \in Event : Deliver(d, s, e)
        \/ \E e \in Event : StartEach(d, e) \/ DeferEach(d, e)
        \/ \E e \in Event : Settle(d, e) \/ SettleFails(d, e)
        \/ MarginEnds(d) \/ Shutdown(d) \/ Restart(d) \/ Crash(d)

Spec == Init /\ [][Next]_vars
-----------------------------------------------------------------------------
(* Properties.                                                             *)

Pairs == Subscriber \X Event

\* Every variable has its type.
TypeOK ==
    /\ status \in [Event -> {"absent", "pending", "delivered", "dead"}]
    /\ attempts \in [Event -> Nat]
    /\ due \in [Event -> BOOLEAN]
    /\ token \in [Event -> Dispatcher \cup {NoToken}]
    /\ deliveredTo \in [Event -> SUBSET Subscriber]
    /\ batch \in [Dispatcher -> SUBSET Event]
    /\ run \in [Dispatcher -> [Event -> RunType]]
    /\ todo \in [Dispatcher -> SUBSET Pairs]
    /\ again \in [Dispatcher -> SUBSET Pairs]
    /\ each \in [Dispatcher -> SUBSET Event]
    /\ invoking \in [Dispatcher -> SUBSET Pairs]
    /\ outOfLease \in [Dispatcher -> BOOLEAN]
    /\ stopping \in [Dispatcher -> BOOLEAN]
    /\ applied \subseteq Pairs
    /\ repeated \subseteq Pairs
    /\ lost \in [Event -> BOOLEAN]
    /\ charges \in [Event -> Nat]
    /\ doomed \in [Event -> BOOLEAN]
    /\ faults \in Nat

\* At least once: an event that counts as delivered was handled by every
\* subscriber of its type, whatever crashes, lost leases, releases and
\* retries its claims went through (package doc, event.go).
DeliveredIsApplied ==
    \A e \in Event : status[e] = "delivered" =>
        \A s \in SubsOf[e] : <<s, e>> \in applied

\* A subscriber that succeeded is called again only if a claim of the event
\* was taken over unsettled: retries and releases do not repeat work
\* (event.go, "Per subscriber"; outbox.sql, ReleaseOutboxEvent).
RepeatsOnlyAfterLoss == \A p \in repeated : lost[p[2]]

\* No settlement, however late, forgets a recorded success or reopens an
\* event that is delivered or dead: the claim token fences out a holder
\* whose lease another took over (store.go, ErrLeaseLost).
ProgressKept ==
    [][\A e \in Event :
        /\ deliveredTo[e] \subseteq deliveredTo'[e]
        /\ status[e] \in {"delivered", "dead"} => status'[e] = status[e]]_vars

\* A dispatcher starts delivering a claim only while no other dispatcher can
\* have claimed the event: what it has not started by the end of its margin
\* it hands back, it does not deliver late (DispatcherConfig.Lease).
Starts(d, e) ==
    /\ e \in batch'[d] /\ ~run'[d][e].deferred
    /\ \E s \in Subscriber :
        \/ <<s, e>> \in todo[d] \ todo'[d]
        \/ <<s, e>> \in again[d] \ again'[d]
        \/ <<s, e>> \in invoking'[d] \ invoking[d]

StartsOnlyWhileHeld ==
    [][\A d \in Dispatcher, e \in Event : Starts(d, e) => token[e] = d]_vars

\* attempts counts the claims that failed or were lost, plus the open one:
\* a release gives its attempt back exactly once, also when a stale holder
\* releases a claim another has taken over.
AttemptsAreCharges ==
    \A e \in Event : status[e] \in {"pending", "dead"} =>
        attempts[e] = charges[e] + (IF token[e] = NoToken THEN 0 ELSE 1)

\* An event is dead only because a subscriber failed it permanently or
\* MaxAttempts of its claims failed or were lost: shutdowns and exhausted
\* leases alone never dead-letter it (decide; OutcomeRelease).
DeadIsEarned ==
    \A e \in Event : status[e] = "dead" => doomed[e] \/ charges[e] >= MaxAttempts

\* Outbox implements OutboxContract.
Contract == INSTANCE OutboxContract WITH
    Event <- Event, Subscriber <- Subscriber, SubsOf <- SubsOf,
    status <- status, applied <- applied
ContractSpec == Contract!Spec

-----------------------------------------------------------------------------
(* Liveness.  A dispatcher polls, and a handler, a settlement and the      *)
(* passing of time end by themselves (weak fairness).  A claim takes the   *)
(* rows that have been due for longest, so a row that is due again and     *)
(* again is claimed; the first thing done with a claim is to start a       *)
(* delivery, long before the margin ends (strong fairness).                *)
Fairness ==
    /\ \A e \in Event : WF_vars(LeaseEnds(e)) /\ WF_vars(BackoffEnds(e))
    /\ \A d \in Dispatcher :
        /\ WF_vars(Restart(d))
        /\ \A e \in Event : WF_vars(Settle(d, e)) /\ WF_vars(DeferEach(d, e))
        /\ \A s \in BatchSub, t \in Tenant : WF_vars(DeferBatch(d, s, t))
        /\ \A s \in Subscriber, e \in Event : WF_vars(Deliver(d, s, e))
        /\ \A e \in Event : SF_vars(StartEach(d, e))
        /\ \A s \in BatchSub, t \in Tenant : SF_vars(DeliverBatch(d, s, t))
    /\ \A e \in Event :
        SF_vars(\E d \in Dispatcher, es \in SUBSET Event : e \in es /\ Claim(d, es))

FairSpec == Spec /\ Fairness

\* The same when a batch call leaves enough of the lease, again and again,
\* for the deliveries it failed to be redelivered.
RoomyFairSpec ==
    /\ FairSpec
    /\ \A d \in Dispatcher, s \in BatchSub, e \in Event : SF_vars(Redeliver(d, s, e))

\* Every published event ends delivered or dead: failed deliveries come to
\* an end, and no claim is left behind by a crash or a lost settlement.
EventuallySettled ==
    \A e \in Event : status[e] = "pending" ~> status[e] \in {"delivered", "dead"}
=============================================================================
