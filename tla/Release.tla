------------------------------ MODULE Release ------------------------------
(***************************************************************************)
(* Deployments of one project, platform/internal/release: publish,         *)
(* promote, rollback, staged rollouts, release requests (approvals) and    *)
(* branch environments, as they are in the database.  ReleaseDelivery adds *)
(* the manifests that reach object storage.                                *)
(*                                                                         *)
(* A database transaction is one action: it holds the environment's row    *)
(* (a publish, every row of the project) from its first read to its        *)
(* commit.  What a call reads before its transaction (the environment's    *)
(* policy, the check policy, the approvals) is a step of its own.          *)
(*                                                                         *)
(* An environment's and a request's version columns are left out: every    *)
(* update happens under the row's lock, so the compare-and-set never       *)
(* fails, and an If-Match that fails changes nothing.                      *)
(***************************************************************************)
EXTENDS Integers, FiniteSets

CONSTANTS
    None,
    Env,            \* environment names of the project
    Branch,         \* those that preview a branch: they come and go
    DefaultPolicy,  \* DefaultPolicy[e]: the eligibility policy e starts with
    Key,            \* releases; an Idempotency-Key gives its release's id
    Owner,          \* Owner[k]: who publishes under k
    User,
    Request,        \* release requests
    Session,        \* concurrent calls of the service
    Percent,        \* shares of a rollout
    Text,           \* may a build be complete, incomplete
    Forcing,        \* may a call be forced
    Policies,       \* eligibility policies an administrator sets
    Requirements,   \* numbers of approvals an administrator sets, 0 is none
    Strict,         \* where the project's check policy asks for completeness
    Tunable         \* where the check policy changes while the system runs

\* States of the translations that ship: approved ones, or drafts as well.
Policy == {"approved", "drafts"}

ASSUME NamesAssumption ==
    /\ Branch \subseteq Env
    /\ None \notin Env \cup Key \cup User \cup Request
    /\ DefaultPolicy \in [Env -> Policy]
    /\ \A e \in Branch : DefaultPolicy[e] = "drafts"
    /\ Owner \in [Key -> User]
ASSUME ChoiceAssumption ==
    /\ Text \subseteq BOOLEAN /\ Forcing \subseteq BOOLEAN
    /\ Policies \subseteq Policy /\ Requirements \subseteq Nat
    /\ Strict \subseteq Env /\ Tunable \subseteq Env
    /\ None \notin Percent

VARIABLES
    \* release_environments, and their deployments.
    live, policy, approval, current,
    served,      \* served[e]: the releases of e's deployments
    overridden,  \* overridden[e]: those of forced deployments
    via,         \* via[e]: the action of e's last deployment
    release,     \* release_releases
    rollout,     \* rollout[e]: e's active rollout
    request,     \* release_requests
    grants,      \* grants[q]: who granted q's approval, in Workflow
    strict,      \* where the check policy asks for completeness now
    call         \* call[s]: what s is doing

environments == <<live, policy, approval, current, served, overridden, via>>
requests == <<request, grants>>
vars == <<environments, release, rollout, requests, strict, call>>

Idle == [op |-> "idle"]

Init ==
    /\ live = Env \ Branch
    /\ policy = DefaultPolicy
    /\ approval = [e \in Env |-> 0]
    /\ current = [e \in Env |-> None]
    /\ served = [e \in Env |-> {}]
    /\ overridden = [e \in Env |-> {}]
    /\ via = [e \in Env |-> None]
    /\ release = [k \in Key |-> None]
    /\ rollout = [e \in Env |-> None]
    /\ request = [q \in Request |-> None]
    /\ grants = [q \in Request |-> {}]
    /\ strict = Strict
    /\ call = [s \in Session |-> Idle]

-----------------------------------------------------------------------------
(* What the transactions have in common.                                   *)

Become(s, c) == call' = [call EXCEPT ![s] = c]
Busy(s, op) == call[s].op = op

\* Policy.Covers.
Covers(p, q) == p = "drafts" \/ q = "approved"
\* PolicyGate.Check, for the check policy that was read.
Meets(gated, complete) == gated => complete

\* A branch's release is never promoted.
Promotable(k) == release[k].env \notin Branch
\* A release that exists may move into e: it is eligible there and meets the
\* check policy that was read, or is forced past it.
AdmitsUncovered(e, k, gated, forced) ==
    Promotable(k) /\ (Meets(gated, release[k].complete) \/ forced)
AdmitsUngated(e, k, gated, forced) ==
    Promotable(k) /\ Covers(policy[e], release[k].policy)
Admits(e, k, gated, forced) ==
    /\ Promotable(k)
    /\ Covers(policy[e], release[k].policy)
    /\ Meets(gated, release[k].complete) \/ forced

\* PolicyGate.Enforce: a force is recorded only where the gate refused.
Enforced(gated, k, forced) == forced /\ ~Meets(gated, release[k].complete)
Overrides(c) == Enforced(c.gated, c.key, c.forced)

\* An active rollout refuses a publish and a promote.
NeverBlocked(e) == FALSE
Blocked(e) == rollout[e] # None

\* move: e serves k from now on.
Move(e, k, action, forced) ==
    /\ current' = [current EXCEPT ![e] = k]
    /\ served' = [served EXCEPT ![e] = @ \cup {k}]
    /\ overridden' = IF forced THEN [overridden EXCEPT ![e] = @ \cup {k}]
                     ELSE overridden
    /\ via' = [via EXCEPT ![e] = action]
    /\ UNCHANGED <<live, policy, approval>>

\* Bound: there is no further request to make.
Spent == \A q \in Request : request[q] # None

\* A new request withdraws the one that is pending in its environment.
Pending(q) == request[q] # None /\ request[q].state = "pending"
Closed(q, state) == [request[q] EXCEPT !.state = state]
KeepsTheOld(e, q) == request[q]
Replaced(e, q) ==
    IF Pending(q) /\ request[q].env = e THEN Closed(q, "withdrawn")
    ELSE request[q]
Hold(e, k, action, by, forced) ==
    \E q \in Request :
        /\ request[q] = None
        /\ request' = [r \in Request |->
             IF r = q
             THEN [env |-> e, release |-> k, action |-> action,
                   requester |-> by, need |-> approval[e],
                   forced |-> forced, state |-> "pending"]
             ELSE Replaced(e, r)]

-----------------------------------------------------------------------------
(* Publish.                                                                *)

\* The environment is read without a lock; a key that has a release already
\* answers with it.
Prepare(s) ==
    \E e \in live, k \in Key, f \in Forcing :
        /\ Busy(s, "idle")
        /\ release[k] = None
        /\ Become(s, [op |-> "prepared", env |-> e, key |-> k,
                      policy |-> policy[e], forced |-> f])
        /\ UNCHANGED <<environments, release, rollout, requests, strict>>

\* The catalog and the check policy are read; the artifacts of a build that
\* passes the gate are uploaded.
Build(s) ==
    /\ Busy(s, "prepared")
    /\ \E complete \in Text :
         LET c == call[s]
             met == Meets(c.env \in strict, complete)
         IN Become(s, IF met \/ c.forced
                      THEN [op |-> "built", env |-> c.env, key |-> c.key,
                            policy |-> c.policy, forced |-> c.forced,
                            complete |-> complete, met |-> met]
                      ELSE Idle)
    /\ UNCHANGED <<environments, release, rollout, requests, strict>>

InsertsAgain(k) == TRUE
Inserts(k) == release[k] = None
Insert(c) ==
    release' = [release EXCEPT ![c.key] =
        [env |-> c.env, policy |-> c.policy, complete |-> c.complete]]

\* The release is recorded and the pointer moves.
RecordMoves(s) ==
    /\ Busy(s, "built")
    /\ LET c == call[s] IN
       /\ c.env \in live /\ Inserts(c.key)
       /\ approval[c.env] = 0 /\ ~Blocked(c.env)
       /\ Insert(c)
       /\ Move(c.env, c.key, "publish", ~c.met)
       /\ Become(s, Idle)
    /\ UNCHANGED <<rollout, requests, strict>>

\* The approval requirement read under the lock holds it.
HoldsAnyway(s) ==
    /\ Busy(s, "built")
    /\ LET c == call[s] IN
       /\ c.env \in live /\ Inserts(c.key)
       /\ Insert(c)
       /\ Hold(c.env, c.key, "publish", Owner[c.key], c.forced)
    /\ Become(s, Idle)
    /\ UNCHANGED <<environments, rollout, grants, strict>>
RecordHeld(s) ==
    /\ Busy(s, "built")
    /\ LET c == call[s] IN
       /\ c.env \in live /\ Inserts(c.key)
       /\ approval[c.env] > 0
       /\ Insert(c)
       /\ Hold(c.env, c.key, "publish", Owner[c.key], c.forced)
    /\ Become(s, Idle)
    /\ UNCHANGED <<environments, rollout, grants, strict>>

\* The environment is gone, the key's release was committed meanwhile, or an
\* active rollout refuses the move and with it the whole transaction.
RecordNothing(s) ==
    /\ Busy(s, "built")
    /\ LET c == call[s] IN
       \/ c.env \notin live
       \/ ~Inserts(c.key)
       \/ IF approval[c.env] = 0 THEN Blocked(c.env) ELSE Spent
    /\ Become(s, Idle)
    /\ UNCHANGED <<environments, release, rollout, requests, strict>>

-----------------------------------------------------------------------------
(* Promote and Rollback.                                                   *)

\* The check policy is read before the transaction.
BeginPromote(s) ==
    \E e \in live, k \in Key, f \in Forcing, u \in User :
        /\ Busy(s, "idle")
        /\ release[k] # None
        /\ Become(s, [op |-> "promoting", env |-> e, key |-> k, by |-> u,
                      forced |-> f, gated |-> e \in strict])
        /\ UNCHANGED <<environments, release, rollout, requests, strict>>

MayPromote(c) ==
    c.env \in live /\ Admits(c.env, c.key, c.gated, c.forced)

PromoteMoves(s) ==
    /\ Busy(s, "promoting")
    /\ LET c == call[s] IN
       /\ MayPromote(c) /\ current[c.env] # c.key
       /\ approval[c.env] = 0 /\ ~Blocked(c.env)
       /\ Move(c.env, c.key, "promote", Overrides(c))
       /\ Become(s, Idle)
    /\ UNCHANGED <<release, rollout, requests, strict>>

PromoteHeld(s) ==
    /\ Busy(s, "promoting")
    /\ LET c == call[s] IN
       /\ MayPromote(c) /\ current[c.env] # c.key
       /\ approval[c.env] > 0
       /\ Hold(c.env, c.key, "promote", c.by, c.forced)
    /\ Become(s, Idle)
    /\ UNCHANGED <<environments, release, rollout, grants, strict>>

\* Refused, or e serves the release already.
PromoteNothing(s) ==
    /\ Busy(s, "promoting")
    /\ LET c == call[s] IN
       /\ \/ ~MayPromote(c)
          \/ current[c.env] = c.key
          \/ IF approval[c.env] = 0 THEN Blocked(c.env) ELSE Spent
    /\ Become(s, Idle)
    /\ UNCHANGED <<environments, release, rollout, requests, strict>>

\* Back to a release e served: the one that was asked for, or by default the
\* newest that is older than the current one.  No gate, no approval, and an
\* active rollout is aborted with the move.
AnyRelease(e) == {k \in Key : release[k] # None}
RollbackTargets(e) == served[e]
Rollback(s) ==
    \E e \in live :
        /\ Busy(s, "idle")
        /\ current[e] # None
        /\ \E k \in RollbackTargets(e) \ {current[e]} :
             Move(e, k, "rollback", FALSE)
        /\ rollout' = [rollout EXCEPT ![e] = None]
        /\ Become(s, Idle)
        /\ UNCHANGED <<release, requests, strict>>

-----------------------------------------------------------------------------
(* Staged rollouts.                                                        *)

BeginStart(s) ==
    \E e \in live, k \in Key, f \in Forcing, p \in Percent :
        /\ Busy(s, "idle")
        /\ release[k] # None
        /\ Become(s, [op |-> "starting", env |-> e, key |-> k, percent |-> p,
                      forced |-> f, gated |-> e \in strict])
        /\ UNCHANGED <<environments, release, rollout, requests, strict>>

MayStart(c) ==
    /\ c.env \in live \ Branch
    /\ approval[c.env] = 0 /\ ~Blocked(c.env)
    /\ current[c.env] \notin {None, c.key}
    /\ Admits(c.env, c.key, c.gated, c.forced)

StartRollout(s) ==
    /\ Busy(s, "starting")
    /\ LET c == call[s] IN
       /\ MayStart(c)
       /\ rollout' = [rollout EXCEPT ![c.env] =
            [candidate |-> c.key, stable |-> current[c.env],
             percent |-> c.percent, forced |-> Overrides(c), due |-> FALSE]]
       /\ Become(s, Idle)
    /\ UNCHANGED <<environments, release, requests, strict>>

StartRefused(s) ==
    /\ Busy(s, "starting")
    /\ LET c == call[s] IN
       /\ ~MayStart(c)
    /\ Become(s, Idle)
    /\ UNCHANGED <<environments, release, rollout, requests, strict>>

AdvanceRollout(s) ==
    \E e \in live, p \in Percent :
        /\ Busy(s, "idle")
        /\ rollout[e] # None /\ rollout[e].percent # p
        /\ rollout' = [rollout EXCEPT ![e].percent = p]
        /\ Become(s, Idle)
        /\ UNCHANGED <<environments, release, requests, strict>>

\* The rollout is over before the pointer moves to its candidate.
CompleteRollout(s) ==
    \E e \in live :
        /\ Busy(s, "idle")
        /\ rollout[e] # None
        /\ Move(e, rollout[e].candidate, "promote", rollout[e].forced)
        /\ rollout' = [rollout EXCEPT ![e] = None]
        /\ Become(s, Idle)
        /\ UNCHANGED <<release, requests, strict>>

AbortRollout(s) ==
    \E e \in live :
        /\ Busy(s, "idle")
        /\ rollout[e] # None
        /\ rollout' = [rollout EXCEPT ![e] = None]
        /\ Become(s, Idle)
        /\ UNCHANGED <<environments, release, requests, strict>>

\* max_duration is over.
Overdue(e) ==
    /\ rollout[e] # None /\ ~rollout[e].due
    /\ rollout' = [rollout EXCEPT ![e].due = TRUE]
    /\ UNCHANGED <<environments, release, requests, strict, call>>

\* The sweep checks again under the lock that the rollout it found is active
\* and expired.
Expire(e) ==
    /\ rollout[e] # None /\ rollout[e].due
    /\ rollout' = [rollout EXCEPT ![e] = None]
    /\ UNCHANGED <<environments, release, requests, strict, call>>

-----------------------------------------------------------------------------
(* Release requests.                                                       *)

\* Workflow: somebody approves q.
Grant(q, u) ==
    /\ Pending(q)
    /\ grants' = [grants EXCEPT ![q] = @ \cup {u}]
    /\ UNCHANGED <<environments, release, rollout, request, strict, call>>

\* The grants and the check policy are read before the transaction.
BeginDeploy(s) ==
    \E q \in Request, u \in User :
        /\ Busy(s, "idle")
        /\ Pending(q)
        /\ Become(s, [op |-> "deploying", request |-> q, by |-> u,
                      grants |-> grants[q],
                      gated |-> request[q].env \in strict])
        /\ UNCHANGED <<environments, release, rollout, requests, strict>>

CountsRequester(granted, q) == granted
Approvers(granted, q) == granted \ {request[q].requester}
NeedThen(q) == request[q].need
Need(q) == LET now == approval[request[q].env] IN
           IF now > request[q].need THEN now ELSE request[q].need
StaleOpen(q) == request[q] # None
Open(q) == Pending(q)
\* approvalMet.
ApprovalMet(c) ==
    LET q == c.request IN
    /\ Open(q)
    /\ c.by \in Approvers(c.grants, q)
    /\ Cardinality(Approvers(c.grants, q)) >= Need(q)

\* redeployGate: the policy covers the release, and the check policy is met
\* or was forced when the request was made.
Redeploys(c) ==
    LET r == request[c.request] IN
    /\ Covers(policy[r.env], release[r.release].policy)
    /\ Meets(c.gated, release[r.release].complete) \/ r.forced

DeployMoves(s) ==
    /\ Busy(s, "deploying")
    /\ LET c == call[s]
           q == c.request
           r == request[q]
       IN
       /\ ApprovalMet(c) /\ Redeploys(c)
       /\ current[r.env] # r.release /\ ~Blocked(r.env)
       /\ request' = [request EXCEPT ![q] = Closed(q, "deployed")]
       /\ Move(r.env, r.release, r.action,
               Enforced(c.gated, r.release, r.forced))
       /\ Become(s, Idle)
    /\ UNCHANGED <<release, rollout, grants, strict>>

\* The request closes and no pointer moves: e serves the release already, or
\* the gate refuses it now.
DeployCloses(s) ==
    /\ Busy(s, "deploying")
    /\ LET c == call[s]
           q == c.request
           r == request[q]
       IN
       /\ ApprovalMet(c)
       /\ \/ /\ Redeploys(c) /\ current[r.env] = r.release
             /\ request' = [request EXCEPT ![q] = Closed(q, "deployed")]
          \/ /\ ~Redeploys(c)
             /\ request' = [request EXCEPT ![q] = Closed(q, "refused")]
    /\ Become(s, Idle)
    /\ UNCHANGED <<environments, release, rollout, grants, strict>>

\* The requirement is not met, the request is closed, or a rollout is active.
DeployFails(s) ==
    /\ Busy(s, "deploying")
    /\ LET c == call[s]
           r == request[c.request]
       IN
       /\ \/ ~ApprovalMet(c)
          \/ Redeploys(c) /\ current[r.env] # r.release /\ Blocked(r.env)
    /\ Become(s, Idle)
    /\ UNCHANGED <<environments, release, rollout, requests, strict>>

Deny(q) ==
    /\ Pending(q)
    /\ request' = [request EXCEPT ![q] = Closed(q, "denied")]
    /\ UNCHANGED <<environments, release, rollout, grants, strict, call>>

Withdraw(q) ==
    /\ Pending(q)
    /\ request' = [request EXCEPT ![q] = Closed(q, "withdrawn")]
    /\ UNCHANGED <<environments, release, rollout, grants, strict, call>>

-----------------------------------------------------------------------------
(* Settings and branches.                                                  *)

\* An administrator changes e's policy, its approval requirement, or both; a
\* branch environment's are fixed.
Configure(e) ==
    /\ e \in live \ Branch
    /\ \E p \in Policies \cup {policy[e]}, n \in Requirements \cup {approval[e]} :
         /\ <<p, n>> # <<policy[e], approval[e]>>
         /\ policy' = [policy EXCEPT ![e] = p]
         /\ approval' = [approval EXCEPT ![e] = n]
    /\ UNCHANGED <<live, current, served, overridden, via, release, rollout,
                   requests, strict, call>>

\* Catalog: the project's check policy changes.
ChangeCheckPolicy(e) ==
    /\ e \in Tunable
    /\ strict' = IF e \in strict THEN strict \ {e} ELSE strict \cup {e}
    /\ UNCHANGED <<environments, release, rollout, requests, call>>

OpenBranch(e) ==
    /\ e \in Branch \ live
    /\ live' = live \cup {e}
    /\ UNCHANGED <<policy, approval, current, served, overridden, via, release,
                   rollout, requests, strict, call>>

\* The row goes, its deployments stay.
EveryEnv == live
BranchEnv == Branch \cap live
DestroyBranch(s) ==
    \E e \in BranchEnv :
        /\ Busy(s, "idle")
        /\ live' = live \ {e}
        /\ current' = [current EXCEPT ![e] = None]
        /\ Become(s, Idle)
        /\ UNCHANGED <<policy, approval, served, overridden, via, release,
                       rollout, requests, strict>>

\* The process dies between two of a call's steps.
Crash(s) ==
    /\ ~Busy(s, "idle")
    /\ Become(s, Idle)
    /\ UNCHANGED <<environments, release, rollout, requests, strict>>

-----------------------------------------------------------------------------
Publish(s) ==
    Prepare(s) \/ Build(s) \/ RecordMoves(s) \/ RecordHeld(s) \/ RecordNothing(s)
Promote(s) ==
    BeginPromote(s) \/ PromoteMoves(s) \/ PromoteHeld(s) \/ PromoteNothing(s)
Rollout(s) ==
    \/ BeginStart(s) \/ StartRollout(s) \/ StartRefused(s)
    \/ AdvanceRollout(s) \/ CompleteRollout(s) \/ AbortRollout(s)
Deploy(s) ==
    BeginDeploy(s) \/ DeployMoves(s) \/ DeployCloses(s) \/ DeployFails(s)
SessionStep(s) ==
    \/ Publish(s) \/ Promote(s) \/ Rollback(s) \/ Rollout(s) \/ Deploy(s)
    \/ DestroyBranch(s) \/ Crash(s)

\* What nobody's manifest is written after.
Elsewhere ==
    \/ \E e \in Env :
        Overdue(e) \/ Configure(e) \/ ChangeCheckPolicy(e) \/ OpenBranch(e)
    \/ \E q \in Request :
        Deny(q) \/ Withdraw(q) \/ \E u \in User : Grant(q, u)

Next ==
    \/ \E s \in Session : SessionStep(s)
    \/ \E e \in Env : Expire(e)
    \/ Elsewhere

Spec == Init /\ [][Next]_vars

-----------------------------------------------------------------------------
(* Properties.                                                             *)

ReleaseRow == [env : Env, policy : Policy, complete : BOOLEAN]
RolloutRow == [candidate : Key, stable : Key, percent : Percent,
               forced : BOOLEAN, due : BOOLEAN]
RequestRow ==
    [env : Env, release : Key, action : {"publish", "promote"},
     requester : User, need : Nat \ {0}, forced : BOOLEAN,
     state : {"pending", "deployed", "denied", "withdrawn", "refused"}]
ASSUME RowAssumption == None \notin ReleaseRow \cup RolloutRow \cup RequestRow

CallState ==
    {Idle}
    \cup [op : {"prepared"}, env : Env, key : Key, policy : Policy, forced : BOOLEAN]
    \cup [op : {"built"}, env : Env, key : Key, policy : Policy,
          forced : BOOLEAN, complete : BOOLEAN, met : BOOLEAN]
    \cup [op : {"promoting"}, env : Env, key : Key, by : User,
          forced : BOOLEAN, gated : BOOLEAN]
    \cup [op : {"starting"}, env : Env, key : Key, percent : Percent,
          forced : BOOLEAN, gated : BOOLEAN]
    \cup [op : {"deploying"}, request : Request, by : User,
          grants : SUBSET User, gated : BOOLEAN]

\* Type correctness.
TypeOK ==
    /\ live \in SUBSET Env /\ Env \ Branch \subseteq live
    /\ policy \in [Env -> Policy]
    /\ approval \in [Env -> Nat]
    /\ current \in [Env -> Key \cup {None}]
    /\ served \in [Env -> SUBSET Key]
    /\ overridden \in [Env -> SUBSET Key]
    /\ via \in [Env -> {None, "publish", "promote", "rollback"}]
    /\ release \in [Key -> {None} \cup ReleaseRow]
    /\ rollout \in [Env -> {None} \cup RolloutRow]
    /\ request \in [Request -> {None} \cup RequestRow]
    /\ grants \in [Request -> SUBSET User]
    /\ strict \in SUBSET Env
    /\ call \in [Session -> CallState]

\* A rollout compares its candidate with what its environment serves: while
\* it is active the pointer stays on its stable release, whoever publishes,
\* promotes, deploys a request or rolls back, and in whatever order.
StableUnderRollout ==
    \A e \in Env : rollout[e] # None =>
        /\ rollout[e].stable = current[e]
        /\ rollout[e].candidate # current[e]

\* An environment serves no release of a branch but its own, and one that
\* may hold drafts only if its policy allows them, or did when the release
\* was built for it: by no chain of publishes, promotes, rollouts, requests
\* and rollbacks does a preview's text reach it.
OnlyEligible ==
    \A e \in Env : \A k \in served[e] :
        /\ release[k] # None
        /\ release[k].env \in Branch => release[k].env = e
        /\ DefaultPolicy[e] = "approved" /\ "drafts" \notin Policies =>
             release[k].policy = "approved"

\* Where the check policy has always asked for completeness, every release
\* served was complete, or a deployment records that it was forced there.
GateHolds ==
    \A e \in Strict \ Tunable : \A k \in served[e] :
        release[k] # None /\ (release[k].complete \/ k \in overridden[e])

\* A request of e that this step deploys has approvals of as many people
\* other than its requester as it asked for and as e asks for now.
Deploys(q, e) ==
    /\ Pending(q) /\ request[q].env = e
    /\ request'[q].state = "deployed" /\ request[q].release = current'[e]
    /\ Cardinality(grants[q] \ {request[q].requester}) >= request[q].need
    /\ Cardinality(grants[q] \ {request[q].requester}) >= approval[e]
Moves(e) == current'[e] # current[e] /\ current'[e] # None

\* Where approvals are required, a pointer moves by a rollback, by a request
\* that has them, whatever a call read before the requirement was set or
\* raised, or by the completion of a rollout, which may have been started when
\* no approval was required.
ApprovedUnlessRollout ==
    [][\A e \in Env : Moves(e) /\ approval[e] > 0 =>
        \/ via'[e] = "rollback"
        \/ rollout[e] # None /\ rollout[e].candidate = current'[e]
        \/ \E q \in Request : Deploys(q, e)]_vars

\* Two requests never both wait to deploy into one environment.
OnePending ==
    \A p, q \in Request :
        Pending(p) /\ Pending(q) /\ request[p].env = request[q].env => p = q

\* What was denied, withdrawn, refused or deployed stays so: a deploy that
\* read the request before it was closed does not deploy it.
ClosedStaysClosed ==
    [][\A q \in Request :
        request[q] # None /\ ~Pending(q) => request'[q] = request[q]]_vars

\* A key's release is made once, however many calls publish under the key at
\* the same time, and is never changed.
ReleasesAreImmutable ==
    [][\A k \in Key : release[k] # None => release'[k] = release[k]]_vars
=============================================================================
