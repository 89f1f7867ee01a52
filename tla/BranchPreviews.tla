--------------------------- MODULE BranchPreviews ---------------------------
(***************************************************************************)
(* Branch environments and automatic publishing: the branches of Catalog,  *)
(* the outbox events of their changes, the release.branch_environments     *)
(* subscriber that opens, refreshes and destroys one environment per       *)
(* branch (release/app/branches.go, branch_subscribers.go), and the        *)
(* publishers that run due publish requests (release/app/background.go).   *)
(*                                                                         *)
(* The outbox delivers an event at least once and in no order, to one      *)
(* dispatcher at a time (an overrun lease is Outbox's subject).  A         *)
(* database transaction is a step, except OpenBranchEnvironment's, whose   *)
(* statements see what others commit in between until it locks the         *)
(* project's environments.                                                 *)
(*                                                                         *)
(* What a branch build reads is abstracted to a number that every push and *)
(* every revision of a proposed message's translation raises.              *)
(***************************************************************************)
EXTENDS Integers, FiniteSets

CONSTANTS
    Branch,      \* branches of one project
    Handler,     \* dispatchers running release.branch_environments
    Publisher,   \* glossa-server processes running the Publisher
    None,        \* no value
    Limit,       \* domain.MaxBranchEnvironments
    MaxVersion,  \* bound: MaxVersion[b] changes of b in Catalog
    MaxFaults    \* bound: failed or unsettled handlers, publisher outages

ASSUME LimitAssumption == Limit \in Nat \ {0}
ASSUME BranchBoundAssumption == MaxVersion \in [Branch -> Nat] /\ MaxFaults \in Nat

VARIABLES
    \* Catalog.
    state,       \* state[b]: the branch's state, "none" before its first push
    version,     \* version[b]: its version, which its events carry
    content,     \* content[b]: what a build of b reads now
    \* The outbox.
    events,      \* events not delivered yet, the outbox's dead letters among them
    \* Release.
    opened,      \* branches that have an environment
    request,     \* request[b]: the pending publish request of b's environment
    asked,       \* asked[b]: request ids used so far
    shown,       \* shown[b]: the content of b's current release, 0 for none
    released,    \* released[b]: request ids that have a release
    locked,      \* the handler holding LockProjectEnvironments, or None
    \* What runs.
    handling,    \* handling[h]: the event h handles and its next step
    publishing,  \* publishing[p]: the request p publishes and its next step
    \* What happened, for the properties only.
    answered,    \* answered[b]: newest content built for b's environment
    repeated,    \* request ids released more than once
    faults       \* faults so far, bounded by MaxFaults

catalog      == <<state, version, content>>
environments == <<opened, request, asked, shown, released>>
history      == <<answered, repeated>>
vars == <<catalog, events, environments, locked, handling, publishing, history, faults>>

LiveKind == {"opened", "pushed", "reopened"}
GoneKind == {"closed", "merged"}
Kind == LiveKind \cup GoneKind \cup {"revised"}

Init ==
    /\ state = [b \in Branch |-> "none"]
    /\ version = [b \in Branch |-> 0]
    /\ content = [b \in Branch |-> 0]
    /\ events = {}
    /\ opened = {}
    /\ request = [b \in Branch |-> None]
    /\ asked = [b \in Branch |-> 0]
    /\ shown = [b \in Branch |-> 0]
    /\ released = [b \in Branch |-> {}]
    /\ locked = None
    /\ handling = [h \in Handler |-> None]
    /\ publishing = [p \in Publisher |-> None]
    /\ answered = [b \in Branch |-> 0]
    /\ repeated = {}
    /\ faults = 0

Fault == faults < MaxFaults /\ faults' = faults + 1

-----------------------------------------------------------------------------
(* Catalog: a change of a branch and its events commit together.           *)

Changed(b, kinds) ==
    /\ version[b] < MaxVersion[b]
    /\ version' = [version EXCEPT ![b] = @ + 1]
    /\ events' = events \cup
            {[branch |-> b, kind |-> k, at |-> version[b] + 1] : k \in kinds}
    /\ UNCHANGED <<environments, locked, handling, publishing, history, faults>>

\* What lockOrCreateBranch and Branch.Push report: opened, reopened or neither.
Arrival(b) ==
    CASE state[b] = "none" -> {"opened"}
      [] state[b] = "closed" -> {"reopened"}
      [] OTHER -> {}

\* PushBranch.
Push(b) ==
    /\ state[b] # "merged"
    /\ state' = [state EXCEPT ![b] = "open"]
    /\ content' = [content EXCEPT ![b] = @ + 1]
    /\ Changed(b, Arrival(b) \cup {"pushed"})

\* UpsertBranch; on an open branch it records what no build reads.
Upsert(b) ==
    /\ state[b] \in {"none", "closed"}
    /\ state' = [state EXCEPT ![b] = "open"]
    /\ UNCHANGED content
    /\ Changed(b, Arrival(b))

\* CloseBranch, MergeBranch and ReopenBranch (changeBranch).
ChangeBranch(b, from, to, kind) ==
    /\ state[b] \in from
    /\ state' = [state EXCEPT ![b] = to]
    /\ UNCHANGED content
    /\ Changed(b, {kind})
Close(b)  == ChangeBranch(b, {"open"}, "closed", "closed")
Merge(b)  == ChangeBranch(b, {"open", "closed"}, "merged", "merged")
Reopen(b) == ChangeBranch(b, {"closed"}, "open", "reopened")

\* A translation of a message b proposes is revised (Localization).
Revise(b) ==
    /\ content[b] > 0
    /\ content' = [content EXCEPT ![b] = @ + 1]
    /\ UNCHANGED state
    /\ Changed(b, {"revised"})

-----------------------------------------------------------------------------
(* The subscriber release.branch_environments.                             *)

At(h, step) == handling[h] # None /\ handling[h].step = step
On(h) == handling[h].event.branch
Goto(h, step) == handling' = [handling EXCEPT ![h].step = step]

\* A success that the outbox did not get to record leaves the event to be
\* delivered again.
Settled(e) ==
    \/ events' = events \ {e} /\ UNCHANGED faults
    \/ UNCHANGED events /\ Fault
Done(h) == handling' = [handling EXCEPT ![h] = None] /\ Settled(handling[h].event)

\* A dispatcher handles one event at a time, and nobody else does meanwhile.
Free(h, e) ==
    /\ handling[h] = None
    /\ \A g \in Handler : handling[g] # None => handling[g].event # e

Begin(h, e, step) ==
    /\ Free(h, e)
    /\ handling' = [handling EXCEPT ![h] = [event |-> e, count |-> 0, step |-> step]]
    /\ UNCHANGED <<catalog, events, environments, locked, publishing, history, faults>>

\* handleBranchLive: OpenBranchEnvironment looks for the environment without
\* a lock.
BeginLive(h, e) ==
    /\ e.kind \in LiveKind
    /\ Begin(h, e, IF e.branch \in opened THEN "request" ELSE "lock")

\* handleTranslationRevised: OpenBranchesProposing lists open branches only.
BeginRevised(h, e) ==
    /\ e.kind = "revised"
    /\ state[e.branch] = "open"
    /\ Begin(h, e, "request")
IgnoreRevised(h, e) ==
    /\ e.kind = "revised" /\ Free(h, e)
    /\ state[e.branch] # "open"
    /\ Settled(e)
    /\ UNCHANGED <<catalog, environments, locked, handling, publishing, history>>

\* handleBranchGone, DestroyBranchEnvironment: the request goes with its
\* environment (ON DELETE CASCADE).
WithoutRequest(b) == [request EXCEPT ![b] = None]
DestroyGone(h, e) ==
    /\ e.kind \in GoneKind /\ Free(h, e)
    /\ e.branch \in opened => locked = None
    /\ opened' = opened \ {e.branch}
    /\ request' = WithoutRequest(e.branch)
    /\ Settled(e)
    /\ UNCHANGED <<catalog, asked, shown, released, locked, handling, publishing, history>>

\* A handler fails or its process dies: its transaction is rolled back and
\* the event stays, for the outbox or, as a dead letter, for an operator.
Fail(h) ==
    /\ handling[h] # None
    /\ Fault
    /\ handling' = [handling EXCEPT ![h] = None]
    /\ locked' = IF locked = h THEN None ELSE locked
    /\ UNCHANGED <<catalog, events, environments, publishing, history>>

\* LockProjectEnvironments, then CountBranchEnvironments.
Counts(h) == handling' = [handling EXCEPT ![h].step = "insert", ![h].count = Cardinality(opened)]
CountUnlocked(h) ==
    /\ At(h, "lock")
    /\ Counts(h)
    /\ UNCHANGED <<catalog, events, environments, locked, publishing, history, faults>>
LockAndCount(h) ==
    /\ At(h, "lock") /\ locked = None
    /\ locked' = h
    /\ Counts(h)
    /\ UNCHANGED <<catalog, events, environments, publishing, history, faults>>

\* InsertEnvironment, unless the limit is reached or a concurrent open of
\* the branch came first; both errors are dropped (branchLifecycleError).
Insert(h) ==
    /\ At(h, "insert")
    /\ locked' = IF locked = h THEN None ELSE locked
    /\ IF handling[h].count < Limit /\ On(h) \notin opened
       THEN /\ opened' = opened \cup {On(h)}
            /\ shown' = [shown EXCEPT ![On(h)] = 0]
            /\ answered' = [answered EXCEPT ![On(h)] = 0]
            /\ Goto(h, "request")
            /\ UNCHANGED <<events, faults>>
       ELSE Done(h) /\ UNCHANGED <<opened, shown, answered>>
    /\ UNCHANGED <<catalog, request, asked, released, publishing, repeated>>

\* RequestBranchPublish under the environment's lock: NewPublishRequest, or
\* Renew, whose debounced time may be past already (MaxPublishDelay).
FreshId(b) == asked[b] + 1
Request(h) ==
    /\ At(h, "request")
    /\ On(h) \in opened => locked = None
    /\ IF On(h) \in opened
       THEN /\ \E d \in {FALSE, request[On(h)] # None} :
                 request' = [request EXCEPT ![On(h)] = [id |-> FreshId(On(h)), due |-> d]]
            /\ asked' = [asked EXCEPT ![On(h)] = @ + 1]
       ELSE UNCHANGED <<request, asked>>   \* ErrNotFound is dropped
    /\ Done(h)
    /\ UNCHANGED <<catalog, opened, shown, released, locked, publishing, history>>

-----------------------------------------------------------------------------
(* The publishers (Publisher.RunOnce, PublishDue).                         *)

Debounced(b) ==
    /\ request[b] # None /\ ~request[b].due
    /\ request' = [request EXCEPT ![b].due = TRUE]
    /\ UNCHANGED <<catalog, events, opened, asked, shown, released, locked, handling,
                   publishing, history, faults>>

Doing(p, step) == publishing[p] # None /\ publishing[p].step = step
Of(p) == publishing[p].branch
Then(p, step) == publishing' = [publishing EXCEPT ![p].step = step]

\* DuePublishRequests, then the request is read and its lock given back.
Take(p, b) ==
    /\ publishing[p] = None
    /\ request[b] # None /\ request[b].due
    /\ publishing' = [publishing EXCEPT ![p] =
            [branch |-> b, id |-> request[b].id, step |-> "build", content |-> 0]]
    /\ UNCHANGED <<catalog, events, environments, locked, handling, history, faults>>

\* The request's id is the publish's idempotency key.
NeverReleased(p) == FALSE
Released(p) == publishing[p].id \in released[Of(p)]
\* prepare answers a replay and refuses an environment that is gone.
Answered(p) == Released(p) \/ Of(p) \notin opened

\* Publish up to the transaction that records: the build reads the branch.
Build(p) ==
    /\ Doing(p, "build") /\ ~Answered(p)
    /\ publishing' = [publishing EXCEPT ![p].step = "record", ![p].content = content[Of(p)]]
    /\ UNCHANGED <<catalog, events, environments, locked, handling, history, faults>>

\* ErrNotReleasable: no retry can fix it.
BuildRefused(p) ==
    /\ Doing(p, "build") /\ ~Answered(p)
    /\ answered' = [answered EXCEPT ![Of(p)] = content[Of(p)]]
    /\ Then(p, "clear")
    /\ UNCHANGED <<catalog, events, environments, locked, handling, repeated, faults>>

NothingToPublish(p) ==
    /\ Doing(p, "build") \/ (Doing(p, "record") /\ locked = None)
    /\ Answered(p)
    /\ Then(p, "clear")
    /\ UNCHANGED <<catalog, events, environments, locked, handling, history, faults>>

\* record: the release is inserted under its key and the pointer moves.
Newest(a, b) == IF a > b THEN a ELSE b
Record(p) ==
    /\ Doing(p, "record") /\ locked = None
    /\ ~Answered(p)
    /\ LET r == publishing[p] IN
       /\ released' = [released EXCEPT ![r.branch] = @ \cup {r.id}]
       /\ shown' = [shown EXCEPT ![r.branch] = r.content]
       /\ answered' = [answered EXCEPT ![r.branch] = Newest(@, r.content)]
       /\ repeated' = IF r.id \in released[r.branch]
                      THEN repeated \cup {<<r.branch, r.id>>} ELSE repeated
    /\ Then(p, "clear")
    /\ UNCHANGED <<catalog, events, opened, request, asked, locked, handling, faults>>

\* DeletePublishRequest: only the request that was published.
ClearsAny(p) == request[Of(p)] # None
Clears(p) == request[Of(p)] # None /\ request[Of(p)].id = publishing[p].id
Clear(p) ==
    /\ Doing(p, "clear")
    /\ request' = IF Clears(p) THEN [request EXCEPT ![Of(p)] = None] ELSE request
    /\ publishing' = [publishing EXCEPT ![p] = None]
    /\ UNCHANGED <<catalog, events, opened, asked, shown, released, locked, handling,
                   history, faults>>

\* Storage is down or the process dies: the request stays and is taken again.
Outage(p) ==
    /\ publishing[p] # None
    /\ Fault
    /\ publishing' = [publishing EXCEPT ![p] = None]
    /\ UNCHANGED <<catalog, events, environments, locked, handling, history>>

-----------------------------------------------------------------------------
Handle(h) ==
    \/ \E e \in events :
        BeginLive(h, e) \/ BeginRevised(h, e) \/ IgnoreRevised(h, e) \/ DestroyGone(h, e)
    \/ LockAndCount(h) \/ Insert(h) \/ Request(h)

Publish(p) ==
    \/ Build(p) \/ BuildRefused(p) \/ NothingToPublish(p) \/ Record(p) \/ Clear(p)

Next ==
    \/ \E b \in Branch :
        \/ Push(b) \/ Upsert(b) \/ Close(b) \/ Merge(b) \/ Reopen(b) \/ Revise(b)
        \/ Debounced(b)
        \/ \E p \in Publisher : Take(p, b)
    \/ \E h \in Handler : Handle(h) \/ Fail(h)
    \/ \E p \in Publisher : Publish(p) \/ Outage(p)

Spec == Init /\ [][Next]_vars
-----------------------------------------------------------------------------
(* Properties.                                                             *)

Event == [branch : Branch, kind : Kind, at : Nat]
Job == [event : Event, count : Nat,
        step : {"lock", "insert", "request"}]
Run == [branch : Branch, id : Nat, step : {"build", "record", "clear"}, content : Nat]
PublishRequest == [id : Nat, due : BOOLEAN]

ASSUME NoneAssumption == None \notin Handler \cup Job \cup Run \cup PublishRequest

\* Every variable has its type, and only an environment has a request.
TypeOK ==
    /\ state \in [Branch -> {"none", "open", "closed", "merged"}]
    /\ version \in [Branch -> Nat] /\ content \in [Branch -> Nat]
    /\ events \subseteq Event
    /\ opened \subseteq Branch
    /\ request \in [Branch -> PublishRequest \cup {None}]
    /\ \A b \in Branch : request[b] # None => b \in opened
    /\ asked \in [Branch -> Nat] /\ shown \in [Branch -> Nat]
    /\ released \in [Branch -> SUBSET Nat]
    /\ locked \in Handler \cup {None}
    /\ handling \in [Handler -> Job \cup {None}]
    /\ publishing \in [Publisher -> Run \cup {None}]
    /\ answered \in [Branch -> Nat]
    /\ repeated \subseteq Branch \X Nat
    /\ faults \in Nat

\* "the limit holds under concurrency": opens of different branches that ran
\* side by side never take a project past its limit (OpenBranchEnvironment).
LimitHolds == Cardinality(opened) <= Limit

\* A request is released once, whatever publishers overlap, crash before the
\* request is cleared, and try again (PublishDue's idempotency key).
PublishedOnce == repeated = {}

\* No push and no revision of an open branch is forgotten: as long as its
\* environment was not built from it, a request is there, or an event that asks
\* for one and is not delivered (a dead letter waits for an operator).  In
\* particular a publish that ends deletes no request made while it ran, and a
\* lost race to open an environment loses no push.
NoPushForgotten ==
    \A b \in opened :
        state[b] = "open" /\ answered[b] < content[b] =>
            \/ request[b] # None
            \/ \E e \in events : e.branch = b /\ e.kind \notin GoneKind
            \/ \E h \in Handler : At(h, "request") /\ On(h) = b

Quiet == events = {} /\ \A h \in Handler : handling[h] = None

\* An environment previews an open branch: once its events are handled, a
\* closed or merged branch has none.
EnvironmentsFollowBranches ==
    Quiet => \A b \in opened : state[b] = "open"
=============================================================================
