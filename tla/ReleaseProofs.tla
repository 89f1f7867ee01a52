---------------------------- MODULE ReleaseProofs ----------------------------
(***************************************************************************)
(* Theorems about Release, for every set of environments, releases,        *)
(* requests, users and concurrent calls.                                   *)
(***************************************************************************)
EXTENDS Release, FiniteSetTheorems, TLAPS

-----------------------------------------------------------------------------
(* Types.                                                                  *)

EnvironmentsOK ==
    /\ live \in SUBSET Env /\ Env \ Branch \subseteq live
    /\ policy \in [Env -> Policy]
    /\ approval \in [Env -> Nat]
    /\ current \in [Env -> Key \cup {None}]
    /\ served \in [Env -> SUBSET Key]
    /\ overridden \in [Env -> SUBSET Key]
    /\ via \in [Env -> {None, "publish", "promote", "rollback"}]

\* What a call remembers, by what it is doing.
LEMMA CallTypes ==
    ASSUME TypeOK, NEW s \in Session
    PROVE  /\ Busy(s, "prepared") =>
                call[s] \in [op : {"prepared"}, env : Env, key : Key, policy : Policy,
                             forced : BOOLEAN]
           /\ Busy(s, "built") =>
                call[s] \in [op : {"built"}, env : Env, key : Key, policy : Policy,
                             forced : BOOLEAN, complete : BOOLEAN, met : BOOLEAN]
           /\ Busy(s, "promoting") =>
                call[s] \in [op : {"promoting"}, env : Env, key : Key, by : User,
                             forced : BOOLEAN, gated : BOOLEAN]
           /\ Busy(s, "starting") =>
                call[s] \in [op : {"starting"}, env : Env, key : Key, percent : Percent,
                             forced : BOOLEAN, gated : BOOLEAN]
           /\ Busy(s, "deploying") =>
                call[s] \in [op : {"deploying"}, request : Request, by : User,
                             grants : SUBSET User, gated : BOOLEAN]
<1>1. call[s] \in CallState
  BY DEF TypeOK
<1> QED BY <1>1 DEF CallState, Busy, Idle

\* A row is None or a row.
LEMMA RowTypes ==
    ASSUME TypeOK
    PROVE  /\ \A k \in Key : release[k] # None => release[k] \in ReleaseRow
           /\ \A e \in Env : rollout[e] # None => rollout[e] \in RolloutRow
           /\ \A q \in Request : request[q] # None => request[q] \in RequestRow
BY DEF TypeOK

\* A session's next call is one.
LEMMA BecomeType ==
    ASSUME TypeOK, NEW s \in Session, NEW c \in CallState, Become(s, c)
    PROVE  call' \in [Session -> CallState]
BY DEF TypeOK, Become

\* A move leaves environments that are ones.
LEMMA MoveType ==
    ASSUME TypeOK, NEW e \in Env, NEW k \in Key, NEW forced,
           NEW action \in {"publish", "promote", "rollback"}, Move(e, k, action, forced)
    PROVE  EnvironmentsOK'
BY DEF TypeOK, EnvironmentsOK, Move

\* Closing a release request leaves it one.
LEMMA ClosedType ==
    ASSUME TypeOK, NEW q \in Request, Pending(q),
           NEW state \in {"deployed", "denied", "withdrawn", "refused"}
    PROVE  Closed(q, state) \in RequestRow
<1>1. request[q] \in RequestRow
  BY RowTypes DEF Pending
<1> QED BY <1>1 DEF Closed, RequestRow

\* Holding a move writes a release request.
LEMMA HoldType ==
    ASSUME TypeOK, NEW e \in Env, NEW k \in Key, NEW by \in User, NEW forced \in BOOLEAN,
           NEW action \in {"publish", "promote"}, approval[e] > 0,
           Hold(e, k, action, by, forced)
    PROVE  request' \in [Request -> {None} \cup RequestRow]
<1>1. PICK q \in Request : request' = [r \in Request |->
             IF r = q
             THEN [env |-> e, release |-> k, action |-> action,
                   requester |-> by, need |-> approval[e],
                   forced |-> forced, state |-> "pending"]
             ELSE Replaced(e, r)]
  BY DEF Hold
<1>2. approval[e] \in Nat \ {0}
  BY DEF TypeOK
<1>3. ASSUME NEW r \in Request PROVE Replaced(e, r) \in {None} \cup RequestRow
  BY ClosedType DEF Replaced, TypeOK
<1> QED BY <1>1, <1>2, <1>3 DEF RequestRow

\* Every action keeps the types.
LEMMA TypeStep ==
    ASSUME TypeOK, [Next]_vars
    PROVE  TypeOK'
<1> USE NamesAssumption, ChoiceAssumption DEF environments, requests
<1>0. Idle \in CallState
  BY DEF CallState
<1>1. ASSUME NEW s \in Session, Publish(s) PROVE TypeOK'
  <2>1. CASE Prepare(s)
    <3>1. \E e \in Env, k \in Key, p \in Policy, f \in BOOLEAN :
            Become(s, [op |-> "prepared", env |-> e, key |-> k, policy |-> p, forced |-> f])
      BY <2>1 DEF Prepare, TypeOK
    <3>2. call' \in [Session -> CallState]
      BY <3>1, BecomeType DEF CallState
    <3> QED BY <2>1, <3>2 DEF Prepare, TypeOK
  <2>2. CASE Build(s)
    <3>1. call[s] \in [op : {"prepared"}, env : Env, key : Key, policy : Policy,
                       forced : BOOLEAN]
      BY <2>2, CallTypes DEF Build
    <3>2. PICK complete \in Text :
            Become(s, IF Meets(call[s].env \in strict, complete) \/ call[s].forced
                      THEN [op |-> "built", env |-> call[s].env, key |-> call[s].key,
                            policy |-> call[s].policy, forced |-> call[s].forced,
                            complete |-> complete,
                            met |-> Meets(call[s].env \in strict, complete)]
                      ELSE Idle)
      BY <2>2 DEF Build
    <3>3. Meets(call[s].env \in strict, complete) \in BOOLEAN
      BY DEF Meets
    <3>4. call' \in [Session -> CallState]
      BY <1>0, <3>1, <3>2, <3>3, BecomeType DEF CallState
    <3> QED BY <2>2, <3>4 DEF Build, TypeOK
  <2>3. ASSUME Busy(s, "built")
        PROVE  /\ call[s].env \in Env /\ call[s].key \in Key
               /\ call[s].policy \in Policy /\ call[s].complete \in BOOLEAN
               /\ call[s].forced \in BOOLEAN /\ call[s].met \in BOOLEAN
    BY <2>3, CallTypes
  <2>4. ASSUME Busy(s, "built"), Insert(call[s])
        PROVE  release' \in [Key -> {None} \cup ReleaseRow]
    BY <2>3, <2>4 DEF Insert, ReleaseRow, TypeOK
  <2>5. CASE RecordMoves(s)
    <3>1. EnvironmentsOK'
      BY <2>3, <2>5, MoveType DEF RecordMoves
    <3>2. call' \in [Session -> CallState]
      BY <1>0, <2>5, BecomeType DEF RecordMoves
    <3> QED BY <2>4, <2>5, <3>1, <3>2 DEF RecordMoves, TypeOK, EnvironmentsOK
  <2>6. CASE RecordHeld(s)
    <3>1. request' \in [Request -> {None} \cup RequestRow]
      BY <2>3, <2>6, HoldType DEF RecordHeld
    <3>2. call' \in [Session -> CallState]
      BY <1>0, <2>6, BecomeType DEF RecordHeld
    <3> QED BY <2>4, <2>6, <3>1, <3>2 DEF RecordHeld, TypeOK
  <2>7. CASE RecordNothing(s)
    BY <1>0, <2>7, BecomeType DEF RecordNothing, TypeOK
  <2> QED BY <1>1, <2>1, <2>2, <2>5, <2>6, <2>7 DEF Publish
<1>2. ASSUME NEW s \in Session, Promote(s) PROVE TypeOK'
  <2>1. CASE BeginPromote(s)
    <3>1. ASSUME NEW e \in Env, NEW k \in Key, NEW f \in BOOLEAN, NEW u \in User
          PROVE  [op |-> "promoting", env |-> e, key |-> k, by |-> u,
                  forced |-> f, gated |-> e \in strict] \in CallState
      BY DEF CallState
    <3>2. call' \in [Session -> CallState]
      BY <2>1, <3>1 DEF BeginPromote, Become, TypeOK
    <3> QED BY <2>1, <3>2 DEF BeginPromote, TypeOK
  <2>2. ASSUME Busy(s, "promoting")
        PROVE  /\ call[s].env \in Env /\ call[s].key \in Key /\ call[s].by \in User
               /\ call[s].forced \in BOOLEAN /\ Overrides(call[s]) \in BOOLEAN
    BY <2>2, CallTypes DEF Overrides, Enforced, Meets
  <2>3. CASE PromoteMoves(s)
    <3>1. EnvironmentsOK'
      BY <2>2, <2>3, MoveType DEF PromoteMoves
    <3>2. call' \in [Session -> CallState]
      BY <1>0, <2>3, BecomeType DEF PromoteMoves
    <3> QED BY <2>3, <3>1, <3>2 DEF PromoteMoves, TypeOK, EnvironmentsOK
  <2>4. CASE PromoteHeld(s)
    <3>1. request' \in [Request -> {None} \cup RequestRow]
      BY <2>2, <2>4, HoldType DEF PromoteHeld
    <3>2. call' \in [Session -> CallState]
      BY <1>0, <2>4, BecomeType DEF PromoteHeld
    <3> QED BY <2>4, <3>1, <3>2 DEF PromoteHeld, TypeOK
  <2>5. CASE PromoteNothing(s)
    BY <1>0, <2>5, BecomeType DEF PromoteNothing, TypeOK
  <2> QED BY <1>2, <2>1, <2>3, <2>4, <2>5 DEF Promote
<1>3. ASSUME NEW s \in Session, Rollback(s) PROVE TypeOK'
  <2>1. PICK e \in live : \E k \in RollbackTargets(e) \ {current[e]} :
            Move(e, k, "rollback", FALSE) /\ rollout' = [rollout EXCEPT ![e] = None]
    BY <1>3 DEF Rollback
  <2>2. PICK k \in Key : Move(e, k, "rollback", FALSE)
    BY <2>1 DEF RollbackTargets, TypeOK
  <2>3. EnvironmentsOK'
    BY <2>2, MoveType DEF TypeOK
  <2>4. call' \in [Session -> CallState]
    BY <1>0, <1>3, BecomeType DEF Rollback
  <2>5. rollout' \in [Env -> {None} \cup RolloutRow]
    BY <2>1 DEF TypeOK
  <2>6. UNCHANGED <<release, requests, strict>>
    BY <1>3 DEF Rollback
  <2> QED BY <2>3, <2>4, <2>5, <2>6 DEF TypeOK, EnvironmentsOK
<1>4. ASSUME NEW s \in Session, Rollout(s) PROVE TypeOK'
  <2>1. CASE BeginStart(s)
    <3>1. ASSUME NEW e \in Env, NEW k \in Key, NEW f \in BOOLEAN, NEW p \in Percent
          PROVE  [op |-> "starting", env |-> e, key |-> k, percent |-> p,
                  forced |-> f, gated |-> e \in strict] \in CallState
      BY DEF CallState
    <3>2. call' \in [Session -> CallState]
      BY <2>1, <3>1 DEF BeginStart, Become, TypeOK
    <3> QED BY <2>1, <3>2 DEF BeginStart, TypeOK
  <2>2. CASE StartRollout(s)
    <3>1. /\ call[s].env \in Env /\ call[s].key \in Key /\ call[s].percent \in Percent
          /\ Overrides(call[s]) \in BOOLEAN
      BY <2>2, CallTypes DEF StartRollout, Overrides, Enforced, Meets
    <3>2. current[call[s].env] \in Key
      BY <2>2, <3>1 DEF StartRollout, MayStart, TypeOK
    <3>3. rollout' \in [Env -> {None} \cup RolloutRow]
      BY <2>2, <3>1, <3>2 DEF StartRollout, RolloutRow, TypeOK
    <3>4. call' \in [Session -> CallState]
      BY <1>0, <2>2, BecomeType DEF StartRollout
    <3> QED BY <2>2, <3>3, <3>4 DEF StartRollout, TypeOK
  <2>3. CASE StartRefused(s)
    BY <1>0, <2>3, BecomeType DEF StartRefused, TypeOK
  <2>4. CASE AdvanceRollout(s)
    <3>1. PICK e \in live, p \in Percent :
            /\ rollout[e] # None
            /\ rollout' = [rollout EXCEPT ![e].percent = p]
      BY <2>4 DEF AdvanceRollout
    <3>2. rollout[e] \in RolloutRow
      BY <3>1, RowTypes DEF TypeOK
    <3>3. rollout' \in [Env -> {None} \cup RolloutRow]
      BY <3>1, <3>2 DEF RolloutRow, TypeOK
    <3>4. call' \in [Session -> CallState]
      BY <1>0, <2>4, BecomeType DEF AdvanceRollout
    <3> QED BY <2>4, <3>3, <3>4 DEF AdvanceRollout, TypeOK
  <2>5. CASE CompleteRollout(s)
    <3>1. PICK e \in live :
            /\ rollout[e] # None
            /\ Move(e, rollout[e].candidate, "promote", rollout[e].forced)
            /\ rollout' = [rollout EXCEPT ![e] = None]
      BY <2>5 DEF CompleteRollout
    <3>2. rollout[e].candidate \in Key /\ rollout[e].forced \in BOOLEAN
      BY <3>1, RowTypes DEF RolloutRow, TypeOK
    <3>3. EnvironmentsOK'
      BY <3>1, <3>2, MoveType DEF TypeOK
    <3>4. call' \in [Session -> CallState]
      BY <1>0, <2>5, BecomeType DEF CompleteRollout
    <3> QED BY <2>5, <3>1, <3>3, <3>4 DEF CompleteRollout, TypeOK, EnvironmentsOK
  <2>6. CASE AbortRollout(s)
    <3>1. call' \in [Session -> CallState]
      BY <1>0, <2>6, BecomeType DEF AbortRollout
    <3> QED BY <2>6, <3>1 DEF AbortRollout, TypeOK
  <2> QED BY <1>4, <2>1, <2>2, <2>3, <2>4, <2>5, <2>6 DEF Rollout
<1>5. ASSUME NEW s \in Session, Deploy(s) PROVE TypeOK'
  <2>1. CASE BeginDeploy(s)
    <3>1. ASSUME NEW q \in Request, NEW u \in User
          PROVE  [op |-> "deploying", request |-> q, by |-> u, grants |-> grants[q],
                  gated |-> request[q].env \in strict] \in CallState
      BY DEF CallState, TypeOK
    <3>2. call' \in [Session -> CallState]
      BY <2>1, <3>1 DEF BeginDeploy, Become, TypeOK
    <3> QED BY <2>1, <3>2 DEF BeginDeploy, TypeOK
  <2>2. ASSUME Busy(s, "deploying"), ApprovalMet(call[s])
        PROVE  /\ call[s].request \in Request /\ Pending(call[s].request)
               /\ request[call[s].request] \in RequestRow
    BY <2>2, CallTypes, RowTypes DEF ApprovalMet, Open, Pending
  <2>3. CASE DeployMoves(s)
    <3> DEFINE q == call[s].request
    <3>1. q \in Request /\ Pending(q) /\ request[q] \in RequestRow
      BY <2>2, <2>3 DEF DeployMoves
    <3>2. /\ request' = [request EXCEPT ![q] = Closed(q, "deployed")]
          /\ Move(request[q].env, request[q].release, request[q].action,
                  Enforced(call[s].gated, request[q].release, request[q].forced))
      BY <2>3 DEF DeployMoves
    <3>3. request' \in [Request -> {None} \cup RequestRow]
      BY <3>1, <3>2, ClosedType DEF TypeOK
    <3>4. /\ request[q].env \in Env /\ request[q].release \in Key
          /\ request[q].action \in {"publish", "promote", "rollback"}
      BY <3>1 DEF RequestRow
    <3>5. EnvironmentsOK'
      BY <3>2, <3>4, MoveType
    <3>6. call' \in [Session -> CallState]
      BY <1>0, <2>3, BecomeType DEF DeployMoves
    <3> QED BY <2>3, <3>3, <3>5, <3>6 DEF DeployMoves, TypeOK, EnvironmentsOK
  <2>4. CASE DeployCloses(s)
    <3>1. request' \in [Request -> {None} \cup RequestRow]
      BY <2>2, <2>4, ClosedType DEF DeployCloses, TypeOK
    <3>2. call' \in [Session -> CallState]
      BY <1>0, <2>4, BecomeType DEF DeployCloses
    <3> QED BY <2>4, <3>1, <3>2 DEF DeployCloses, TypeOK
  <2>5. CASE DeployFails(s)
    BY <1>0, <2>5, BecomeType DEF DeployFails, TypeOK
  <2> QED BY <1>5, <2>1, <2>3, <2>4, <2>5 DEF Deploy
<1>6. ASSUME NEW s \in Session, DestroyBranch(s) \/ Crash(s) PROVE TypeOK'
  <2>1. call' \in [Session -> CallState]
    BY <1>0, <1>6, BecomeType DEF DestroyBranch, Crash
  <2> QED BY <1>6, <2>1 DEF DestroyBranch, Crash, BranchEnv, TypeOK
<1>7. ASSUME NEW e \in Env, Overdue(e) \/ Expire(e) PROVE TypeOK'
  <2>1. CASE Overdue(e)
    <3>1. rollout[e] \in RolloutRow
      BY <2>1, RowTypes DEF Overdue
    <3>2. [rollout[e] EXCEPT !.due = TRUE] \in RolloutRow
      BY <3>1 DEF RolloutRow
    <3>3. rollout' = [rollout EXCEPT ![e] = [rollout[e] EXCEPT !.due = TRUE]]
      BY <2>1 DEF Overdue
    <3>4. rollout' \in [Env -> {None} \cup RolloutRow]
      BY <3>2, <3>3 DEF TypeOK
    <3> QED BY <2>1, <3>4 DEF Overdue, TypeOK
  <2>2. CASE Expire(e)
    BY <2>2 DEF Expire, TypeOK
  <2> QED BY <1>7, <2>1, <2>2
<1>8. ASSUME NEW e \in Env, Configure(e) \/ ChangeCheckPolicy(e) \/ OpenBranch(e)
      PROVE  TypeOK'
  BY <1>8 DEF Configure, ChangeCheckPolicy, OpenBranch, TypeOK
<1>9. ASSUME NEW q \in Request, \/ Deny(q) \/ Withdraw(q) \/ \E u \in User : Grant(q, u)
      PROVE  TypeOK'
  BY <1>9, ClosedType DEF Deny, Withdraw, Grant, TypeOK
<1>10. CASE UNCHANGED vars
  BY <1>10 DEF vars, TypeOK
<1> QED BY <1>1, <1>2, <1>3, <1>4, <1>5, <1>6, <1>7, <1>8, <1>9, <1>10
        DEF Next, SessionStep, Elsewhere

\* The initial values have their types.
LEMMA TypeCorrectInit == Init => TypeOK
BY NamesAssumption, ChoiceAssumption DEF Init, TypeOK, CallState, Idle, Policy

\* Every variable has its type: a rollout, a request or a call remembers only
\* what exists, whatever the order of the calls.
THEOREM TypeCorrect == Spec => []TypeOK
BY TypeCorrectInit, TypeStep, PTL DEF Spec

-----------------------------------------------------------------------------
(* Releases and requests are history.                                      *)

\* Only a publish under a key without a release writes one.
LEMMA ReleaseStep ==
    ASSUME TypeOK, [Next]_vars, NEW k \in Key, release[k] # None
    PROVE  release'[k] = release[k]
<1>1. ASSUME NEW s \in Session, RecordMoves(s) \/ RecordHeld(s)
      PROVE  release'[k] = release[k]
  BY <1>1 DEF RecordMoves, RecordHeld, Insert, Inserts, TypeOK
<1>2. ASSUME NEW s \in Session, SessionStep(s), ~RecordMoves(s), ~RecordHeld(s)
      PROVE  UNCHANGED release
  BY <1>2 DEF SessionStep, Publish, Promote, Rollback, Rollout, Deploy, DestroyBranch, Crash,
              Prepare, Build, RecordNothing, BeginPromote, PromoteMoves, PromoteHeld,
              PromoteNothing, BeginStart, StartRollout, StartRefused, AdvanceRollout,
              CompleteRollout, AbortRollout, BeginDeploy, DeployMoves, DeployCloses, DeployFails
<1>3. Elsewhere \/ (\E e \in Env : Expire(e)) \/ UNCHANGED vars => UNCHANGED release
  BY DEF Elsewhere, Overdue, Configure, ChangeCheckPolicy, OpenBranch, Deny, Withdraw, Grant,
         Expire, vars
<1> QED BY <1>1, <1>2, <1>3 DEF Next

\* A key's release is made once and never changed.
THEOREM ReleasesStay == Spec => ReleasesAreImmutable
<1>1. TypeOK /\ [Next]_vars => [\A k \in Key : release[k] # None => release'[k] = release[k]]_vars
  BY ReleaseStep
<1> QED BY <1>1, TypeCorrect, PTL DEF Spec, ReleasesAreImmutable

\* A request is made where none was, and what was pending there withdrawn, or
\* a pending one is closed, or they stay as they are.
Asks ==
    \E e \in Env, k \in Key, action \in {"publish", "promote"}, by \in User, forced \in BOOLEAN :
        approval[e] > 0 /\ Hold(e, k, action, by, forced)
Closes ==
    \E q \in Request, state \in {"deployed", "denied", "withdrawn", "refused"} :
        Pending(q) /\ request' = [request EXCEPT ![q] = Closed(q, state)]

\* The steps that touch release requests hold a move or close one.
LEMMA RequestCases ==
    ASSUME TypeOK, [Next]_vars
    PROVE  \/ \E s \in Session : RecordHeld(s) \/ PromoteHeld(s)
           \/ Closes
           \/ UNCHANGED request
<1>1. ASSUME NEW s \in Session, DeployMoves(s) \/ DeployCloses(s) PROVE Closes
  <2>1. call[s].request \in Request /\ Pending(call[s].request)
    BY <1>1, CallTypes DEF DeployMoves, DeployCloses, ApprovalMet, Open
  <2> QED BY <1>1, <2>1 DEF DeployMoves, DeployCloses, Closes
<1>2. ASSUME NEW q \in Request, Deny(q) \/ Withdraw(q) PROVE Closes
  BY <1>2 DEF Deny, Withdraw, Closes
<1>3. ASSUME NEW s \in Session, SessionStep(s), ~RecordHeld(s), ~PromoteHeld(s),
             ~DeployMoves(s), ~DeployCloses(s)
      PROVE  UNCHANGED request
  BY <1>3 DEF SessionStep, Publish, Promote, Rollback, Rollout, Deploy, DestroyBranch, Crash,
              Prepare, Build, RecordMoves, RecordNothing, BeginPromote, PromoteMoves,
              PromoteNothing, BeginStart, StartRollout, StartRefused, AdvanceRollout,
              CompleteRollout, AbortRollout, BeginDeploy, DeployFails, requests
<1>4. ASSUME Elsewhere \/ (\E e \in Env : Expire(e)) \/ UNCHANGED vars,
             ~\E q \in Request : Deny(q) \/ Withdraw(q)
      PROVE  UNCHANGED request
  BY <1>4 DEF Elsewhere, Overdue, Configure, ChangeCheckPolicy, OpenBranch, Grant, Expire, vars,
              requests
<1> QED BY <1>1, <1>2, <1>3, <1>4 DEF Next, Elsewhere

\* A release request is asked for, closed, or left alone.
LEMMA RequestStep ==
    ASSUME TypeOK, [Next]_vars
    PROVE  Asks \/ Closes \/ UNCHANGED request
<1>1. ASSUME NEW s \in Session, RecordHeld(s) PROVE Asks
  <2>1. /\ Busy(s, "built") /\ approval[call[s].env] > 0
        /\ Hold(call[s].env, call[s].key, "publish", Owner[call[s].key], call[s].forced)
    BY <1>1 DEF RecordHeld
  <2>2. /\ call[s].env \in Env /\ call[s].key \in Key /\ call[s].forced \in BOOLEAN
        /\ Owner[call[s].key] \in User
    BY <2>1, CallTypes, NamesAssumption
  <2> QED BY <2>1, <2>2 DEF Asks
<1>2. ASSUME NEW s \in Session, PromoteHeld(s) PROVE Asks
  <2>1. /\ Busy(s, "promoting") /\ approval[call[s].env] > 0
        /\ Hold(call[s].env, call[s].key, "promote", call[s].by, call[s].forced)
    BY <1>2 DEF PromoteHeld
  <2>2. /\ call[s].env \in Env /\ call[s].key \in Key /\ call[s].forced \in BOOLEAN
        /\ call[s].by \in User
    BY <2>1, CallTypes
  <2> QED BY <2>1, <2>2 DEF Asks
<1> QED BY <1>1, <1>2, RequestCases

\* What Hold leaves of the other requests.
LEMMA HeldIs ==
    ASSUME TypeOK, NEW e \in Env, NEW k \in Key, NEW by \in User, NEW forced \in BOOLEAN,
           NEW action \in {"publish", "promote"}, approval[e] > 0,
           Hold(e, k, action, by, forced)
    PROVE  \E q \in Request :
                /\ request[q] = None /\ request'[q] \in RequestRow
                /\ request'[q].env = e /\ request'[q].release = k
                /\ \A r \in Request \ {q} : request'[r] = Replaced(e, r)
<1> DEFINE new == [env |-> e, release |-> k, action |-> action, requester |-> by,
                   need |-> approval[e], forced |-> forced, state |-> "pending"]
<1>1. PICK q \in Request :
        /\ request[q] = None
        /\ request' = [r \in Request |-> IF r = q THEN new ELSE Replaced(e, r)]
  BY DEF Hold
<1>2. new \in RequestRow /\ new.env = e /\ new.release = k
  BY DEF RequestRow, TypeOK
<1> QED BY <1>1, <1>2

\* A request that waits in e is withdrawn by a new one.
LEMMA ReplacedIs ==
    ASSUME TypeOK, NEW e \in Env, NEW r \in Request
    PROVE  Replaced(e, r) = request[r] \/ Replaced(e, r).state = "withdrawn"
<1>1. CASE Pending(r) /\ request[r].env = e
  <2>1. request[r] \in RequestRow
    BY <1>1, RowTypes DEF Pending
  <2> QED BY <1>1, <2>1 DEF Replaced, Closed, RequestRow
<1> QED BY <1>1 DEF Replaced

\* A request that was closed stays as it is, and one that was made stays made.
LEMMA ClosedStep ==
    ASSUME TypeOK, [Next]_vars, NEW q \in Request, request[q] # None
    PROVE  /\ request'[q] # None /\ request'[q].env = request[q].env
           /\ request'[q].release = request[q].release
           /\ ~Pending(q) => request'[q] = request[q]
           /\ request'[q] = request[q] \/ ~Pending(q)'
<1>0. request[q] \in RequestRow
  BY RowTypes
<1>1. ASSUME NEW state \in {"deployed", "denied", "withdrawn", "refused"}, Pending(q)
      PROVE  /\ Closed(q, state) # None /\ Closed(q, state).env = request[q].env
             /\ Closed(q, state).release = request[q].release
             /\ Closed(q, state).state # "pending"
  BY <1>0, <1>1, ClosedType, RowAssumption DEF Closed, RequestRow
<1>2. CASE Asks
  BY <1>1, <1>2, HeldIs DEF Asks, Replaced, Pending
<1>3. CASE Closes
  BY <1>1, <1>3 DEF Closes, Pending, TypeOK
<1>4. CASE UNCHANGED request
  BY <1>4 DEF Pending
<1> QED BY <1>2, <1>3, <1>4, RequestStep

\* What was denied, withdrawn, refused or deployed stays so.
THEOREM ClosedForGood == Spec => ClosedStaysClosed
<1>1. TypeOK /\ [Next]_vars => [\A q \in Request :
        request[q] # None /\ ~Pending(q) => request'[q] = request[q]]_vars
  BY ClosedStep
<1> QED BY <1>1, TypeCorrect, PTL DEF Spec, ClosedStaysClosed

\* A new request withdraws the one that waited in its environment: two never
\* wait there.
THEOREM OneWaits == Spec => []OnePending
<1>1. Init => OnePending
  BY DEF Init, OnePending, Pending
<1>2. TypeOK /\ OnePending /\ [Next]_vars => OnePending'
  <2> SUFFICES ASSUME TypeOK, OnePending, [Next]_vars PROVE OnePending'
    OBVIOUS
  <2>1. CASE Asks
    <3>1. PICK e \in Env, q \in Request :
            /\ request[q] = None /\ request'[q].env = e
            /\ \A r \in Request \ {q} : request'[r] = Replaced(e, r)
      BY <2>1, HeldIs DEF Asks
    <3>2. ASSUME NEW r \in Request \ {q}, Pending(r)'
          PROVE  Pending(r) /\ request'[r].env = request[r].env /\ request[r].env # e
      <4>1. request'[r] = Replaced(e, r) /\ request'[r] # None /\ request'[r].state = "pending"
        BY <3>1, <3>2 DEF Pending
      <4>2. Replaced(e, r) = request[r]
        BY <4>1, ReplacedIs
      <4>3. Pending(r)
        BY <4>1, <4>2 DEF Pending
      <4>4. request[r].env # e
        <5>1. SUFFICES ASSUME request[r].env = e PROVE FALSE
          OBVIOUS
        <5>2. Replaced(e, r) = Closed(r, "withdrawn") /\ request[r] \in RequestRow
          BY <4>3, <5>1, RowTypes DEF Replaced, Pending
        <5> QED BY <4>1, <5>2 DEF Closed, RequestRow
      <4> QED BY <4>1, <4>2, <4>3, <4>4
    <3> QED BY <3>1, <3>2 DEF OnePending
  <2>2. ASSUME Closes \/ UNCHANGED request, NEW r \in Request, Pending(r)'
        PROVE  Pending(r) /\ request'[r].env = request[r].env
    BY <2>2, ClosedStep DEF Closes, Pending, TypeOK
  <2> QED BY <2>1, <2>2, RequestStep DEF OnePending
<1> QED BY <1>1, <1>2, TypeCorrect, PTL DEF Spec

-----------------------------------------------------------------------------
(* The stable side of a rollout.                                           *)

\* A branch environment, which can go while its pointer is set, has no
\* rollouts.
NoBranchRollout == \A e \in Branch : rollout[e] = None

RolloutsInv == TypeOK /\ StableUnderRollout /\ NoBranchRollout

\* A move leaves every other environment's pointer alone.
LEMMA MovePointer ==
    ASSUME TypeOK, NEW e \in Env, NEW k, NEW action, NEW forced, Move(e, k, action, forced)
    PROVE  /\ current'[e] = k /\ via'[e] = action
           /\ \A x \in Env \ {e} : current'[x] = current[x] /\ via'[x] = via[x]
BY DEF Move, TypeOK

\* A pointer that moves where no rollout is, or ends it, is no matter.
LEMMA MoveKeepsStable ==
    ASSUME RolloutsInv, NEW e \in Env, NEW k, NEW action, NEW forced,
           Move(e, k, action, forced),
           \/ rollout[e] = None /\ UNCHANGED rollout
           \/ rollout' = [rollout EXCEPT ![e] = None]
    PROVE  StableUnderRollout' /\ NoBranchRollout'
<1>1. /\ rollout'[e] = None
      /\ \A x \in Env \ {e} : rollout'[x] = rollout[x]
  BY DEF RolloutsInv, TypeOK
<1>2. \A x \in Env \ {e} : current'[x] = current[x]
  BY MovePointer DEF RolloutsInv
<1> QED BY <1>1, <1>2, NamesAssumption DEF RolloutsInv, StableUnderRollout, NoBranchRollout

\* Every step keeps a rollout stable and off branch environments.
LEMMA RolloutsStep ==
    ASSUME RolloutsInv, [Next]_vars
    PROVE  StableUnderRollout' /\ NoBranchRollout'
<1> USE NamesAssumption DEF RolloutsInv
<1>1. ASSUME NEW s \in Session, RecordMoves(s) PROVE StableUnderRollout' /\ NoBranchRollout'
  <2>1. call[s].env \in Env
    BY <1>1, CallTypes DEF RecordMoves
  <2> QED BY <1>1, <2>1, MoveKeepsStable DEF RecordMoves, Blocked
<1>2. ASSUME NEW s \in Session, PromoteMoves(s) PROVE StableUnderRollout' /\ NoBranchRollout'
  <2>1. call[s].env \in Env
    BY <1>2, CallTypes DEF PromoteMoves
  <2> QED BY <1>2, <2>1, MoveKeepsStable DEF PromoteMoves, Blocked
<1>3. ASSUME NEW s \in Session, DeployMoves(s) PROVE StableUnderRollout' /\ NoBranchRollout'
  <2>1. call[s].request \in Request /\ Pending(call[s].request)
    BY <1>3, CallTypes DEF DeployMoves, ApprovalMet, Open
  <2>2. request[call[s].request].env \in Env
    BY <2>1, RowTypes DEF Pending, RequestRow
  <2> QED BY <1>3, <2>2, MoveKeepsStable DEF DeployMoves, Blocked
<1>4. ASSUME NEW s \in Session, Rollback(s) \/ CompleteRollout(s)
      PROVE  StableUnderRollout' /\ NoBranchRollout'
  <2>1. \E e \in Env : \E k, action, forced :
            Move(e, k, action, forced) /\ rollout' = [rollout EXCEPT ![e] = None]
    BY <1>4 DEF Rollback, CompleteRollout, TypeOK
  <2> QED BY <2>1, MoveKeepsStable
<1>5. ASSUME NEW s \in Session, StartRollout(s) PROVE StableUnderRollout' /\ NoBranchRollout'
  <2> DEFINE e == call[s].env
  <2>1. e \in Env /\ call[s].key \in Key
    BY <1>5, CallTypes DEF StartRollout
  <2>2. e \notin Branch /\ current[e] # call[s].key
    BY <1>5 DEF StartRollout, MayStart
  <2>3. /\ rollout'[e].candidate = call[s].key /\ rollout'[e].stable = current[e]
        /\ \A x \in Env \ {e} : rollout'[x] = rollout[x]
    BY <1>5, <2>1 DEF StartRollout, TypeOK
  <2>4. UNCHANGED current
    BY <1>5 DEF StartRollout, environments
  <2> HIDE DEF e
  <2> QED BY <2>1, <2>2, <2>3, <2>4 DEF StableUnderRollout, NoBranchRollout
<1>6. ASSUME NEW e \in Env, rollout[e] # None, UNCHANGED current,
             \/ \E p \in Percent : rollout' = [rollout EXCEPT ![e].percent = p]
             \/ rollout' = [rollout EXCEPT ![e].due = TRUE]
             \/ rollout' = [rollout EXCEPT ![e] = None]
      PROVE  StableUnderRollout' /\ NoBranchRollout'
  <2>1. rollout[e] \in RolloutRow
    BY <1>6, RowTypes
  <2>2. /\ rollout'[e] # None => /\ rollout'[e].stable = rollout[e].stable
                                /\ rollout'[e].candidate = rollout[e].candidate
        /\ \A x \in Env \ {e} : rollout'[x] = rollout[x]
    BY <1>6, <2>1 DEF TypeOK, RolloutRow
  <2> QED BY <1>6, <2>2 DEF StableUnderRollout, NoBranchRollout
<1>7. ASSUME NEW s \in Session, AdvanceRollout(s) \/ AbortRollout(s)
      PROVE  StableUnderRollout' /\ NoBranchRollout'
  BY <1>6, <1>7 DEF AdvanceRollout, AbortRollout, environments, TypeOK
<1>8. ASSUME NEW e \in Env, Overdue(e) \/ Expire(e)
      PROVE  StableUnderRollout' /\ NoBranchRollout'
  BY <1>6, <1>8 DEF Overdue, Expire, environments
<1>9. ASSUME NEW s \in Session, DestroyBranch(s) PROVE StableUnderRollout' /\ NoBranchRollout'
  <2>1. /\ UNCHANGED rollout
        /\ \A x \in Env \ Branch : current'[x] = current[x]
    BY <1>9 DEF DestroyBranch, BranchEnv, TypeOK
  <2> QED BY <2>1 DEF StableUnderRollout, NoBranchRollout
<1>10. ASSUME UNCHANGED <<current, rollout>> PROVE StableUnderRollout' /\ NoBranchRollout'
  BY <1>10 DEF StableUnderRollout, NoBranchRollout
<1>11. ASSUME NEW s \in Session,
              \/ Prepare(s) \/ Build(s) \/ RecordHeld(s) \/ RecordNothing(s)
              \/ BeginPromote(s) \/ PromoteHeld(s) \/ PromoteNothing(s)
              \/ BeginStart(s) \/ StartRefused(s)
              \/ BeginDeploy(s) \/ DeployCloses(s) \/ DeployFails(s) \/ Crash(s)
       PROVE  UNCHANGED <<current, rollout>>
  BY <1>11 DEF Prepare, Build, RecordHeld, RecordNothing, BeginPromote, PromoteHeld,
               PromoteNothing, BeginStart, StartRefused, BeginDeploy, DeployCloses, DeployFails,
               Crash, environments
<1>12. ASSUME \/ UNCHANGED vars
              \/ \E e \in Env : Configure(e) \/ ChangeCheckPolicy(e) \/ OpenBranch(e)
              \/ \E q \in Request : Deny(q) \/ Withdraw(q) \/ \E u \in User : Grant(q, u)
       PROVE  UNCHANGED <<current, rollout>>
  BY <1>12 DEF Configure, ChangeCheckPolicy, OpenBranch, Deny, Withdraw, Grant, environments, vars
<1> QED BY <1>1, <1>2, <1>3, <1>4, <1>5, <1>7, <1>8, <1>9, <1>10, <1>11, <1>12
        DEF Next, SessionStep, Publish, Promote, Rollout, Deploy, Elsewhere

\* While a rollout is active the pointer stays on its stable release.
THEOREM RolloutsStand == Spec => []StableUnderRollout
<1>1. Init => RolloutsInv
  BY TypeCorrectInit, NamesAssumption DEF Init, RolloutsInv, StableUnderRollout, NoBranchRollout
<1>2. RolloutsInv /\ [Next]_vars => RolloutsInv'
  BY TypeStep, RolloutsStep DEF RolloutsInv
<1>3. RolloutsInv => StableUnderRollout
  BY DEF RolloutsInv
<1> QED BY <1>1, <1>2, <1>3, PTL DEF Spec

-----------------------------------------------------------------------------
(* What reaches an environment: OnlyEligible and GateHolds.                *)

\* The environments whose policy and whose check policy never change.
ApprovedOnly == {e \in Env : DefaultPolicy[e] = "approved" /\ "drafts" \notin Policies}
AlwaysStrict == Strict \ Tunable

\* k exists, and is no other branch's.
Own(e, k) == release[k] # None /\ (release[k].env \in Branch => release[k].env = e)

\* k may be served in e, if forced is what its deployment would record.
Fits(e, k, forced) ==
    /\ Own(e, k)
    /\ e \in ApprovedOnly => release[k].policy = "approved"
    /\ e \in AlwaysStrict => release[k].complete \/ forced

ServedFits == \A e \in Env : \A k \in served[e] : Fits(e, k, k \in overridden[e])
\* A rollout completes without another gate.
RolloutsFit ==
    \A e \in Env : rollout[e] # None => Fits(e, rollout[e].candidate, rollout[e].forced)
\* A request passes the gate again when it is deployed.
RequestsFit ==
    \A q \in Request : request[q] # None => Own(request[q].env, request[q].release)

\* What a call read before its transaction is still so where it never changes.
CallFits(c) ==
    /\ c.op \in {"prepared", "built"} /\ c.env \in ApprovedOnly => c.policy = "approved"
    /\ c.op = "built" /\ c.env \in AlwaysStrict => c.complete \/ ~c.met
    /\ c.op \in {"promoting", "starting"} => release[c.key] # None
    /\ c.op \in {"promoting", "starting"} /\ c.env \in AlwaysStrict => c.gated
    /\ c.op = "deploying" => request[c.request] # None
    /\ c.op = "deploying" /\ request[c.request].env \in AlwaysStrict => c.gated
CallsFit == \A s \in Session : CallFits(call[s])

Settings ==
    /\ \A e \in ApprovedOnly : policy[e] = "approved"
    /\ AlwaysStrict \subseteq strict

FitInv == TypeOK /\ ServedFits /\ RolloutsFit /\ RequestsFit /\ CallsFit /\ Settings

\* What fits once fits for ever.
LEMMA FitsStays ==
    ASSUME TypeOK, [Next]_vars, NEW e, NEW k \in Key, NEW forced, Own(e, k)
    PROVE  Own(e, k)' /\ (Fits(e, k, forced) => Fits(e, k, forced)')
BY ReleaseStep DEF Own, Fits

\* A move to a release that fits.
LEMMA ServedStep ==
    ASSUME FitInv, [Next]_vars, NEW e \in Env, NEW k \in Key, NEW action, NEW forced \in BOOLEAN,
           Move(e, k, action, forced), Fits(e, k, forced \/ k \in overridden[e])'
    PROVE  ServedFits'
<1> SUFFICES ASSUME NEW x \in Env, NEW y \in served'[x]
             PROVE  Fits(x, y, y \in overridden[x])'
  BY DEF ServedFits
<1> USE DEF FitInv
<1>1. /\ served'[e] = served[e] \cup {k}
      /\ \A z \in Env \ {e} : served'[z] = served[z]
      /\ overridden[x] \subseteq overridden'[x]
      /\ forced => k \in overridden'[e]
  BY DEF Move, TypeOK
<1>2. CASE y \in served[x]
  <2>1. y \in Key /\ Fits(x, y, y \in overridden[x])
    BY <1>2 DEF ServedFits, TypeOK
  <2>3. Own(x, y)' /\ release'[y] = release[y]
    BY <2>1, FitsStays, ReleaseStep DEF Fits, Own
  <2> QED BY <1>1, <2>1, <2>3 DEF Fits
<1>3. CASE x = e /\ y = k
  BY <1>1, <1>3 DEF Fits
<1> QED BY <1>1, <1>2, <1>3

\* The settings that never change.
LEMMA SettingsStep ==
    ASSUME FitInv, [Next]_vars
    PROVE  Settings'
<1> USE DEF FitInv
<1>1. ASSUME NEW e \in Env, Configure(e) PROVE Settings'
  <2>1. PICK p \in Policies \cup {policy[e]} : policy' = [policy EXCEPT ![e] = p]
    BY <1>1 DEF Configure
  <2>2. UNCHANGED strict
    BY <1>1 DEF Configure
  <2>3. ASSUME e \in ApprovedOnly PROVE p = "approved"
    BY <2>1, <2>3, ChoiceAssumption DEF Settings, ApprovedOnly, Policy
  <2> QED BY <2>1, <2>2, <2>3 DEF Settings, TypeOK, ApprovedOnly
<1>2. ASSUME NEW e \in Env, ChangeCheckPolicy(e) PROVE Settings'
  BY <1>2 DEF ChangeCheckPolicy, Settings, AlwaysStrict, environments
<1>3. ASSUME UNCHANGED <<policy, strict>> PROVE Settings'
  BY <1>3 DEF Settings
<1>4. ASSUME NEW s \in Session, SessionStep(s) PROVE UNCHANGED <<policy, strict>>
  BY <1>4 DEF SessionStep, Publish, Promote, Rollback, Rollout, Deploy, DestroyBranch, Crash,
              Prepare, Build, RecordMoves, RecordHeld, RecordNothing, BeginPromote, PromoteMoves,
              PromoteHeld, PromoteNothing, BeginStart, StartRollout, StartRefused, AdvanceRollout,
              CompleteRollout, AbortRollout, BeginDeploy, DeployMoves, DeployCloses, DeployFails,
              Move, environments
<1>5. ASSUME NEW e \in Env, Overdue(e) \/ Expire(e) \/ OpenBranch(e)
      PROVE  UNCHANGED <<policy, strict>>
  BY <1>5 DEF Overdue, Expire, OpenBranch, environments
<1>6. ASSUME NEW q \in Request, \/ Deny(q) \/ Withdraw(q) \/ \E u \in User : Grant(q, u)
      PROVE  UNCHANGED <<policy, strict>>
  BY <1>6 DEF Deny, Withdraw, Grant, environments
<1>7. UNCHANGED vars => UNCHANGED <<policy, strict>>
  BY DEF vars, environments
<1> QED BY <1>1, <1>2, <1>3, <1>4, <1>5, <1>6, <1>7 DEF Next, Elsewhere

\* Releases and requests stay, so what a call read of them does.
LEMMA CallStays ==
    ASSUME TypeOK, [Next]_vars, NEW c \in CallState, CallFits(c)
    PROVE  CallFits(c)'
<1>1. c.op \in {"promoting", "starting"} => c.key \in Key
  BY DEF CallState, Idle
<1>2. c.op = "deploying" => c.request \in Request
  BY DEF CallState, Idle
<1>3. ASSUME c.op \in {"promoting", "starting"} PROVE release'[c.key] # None
  BY <1>1, <1>3, ReleaseStep DEF CallFits
<1>4. ASSUME c.op = "deploying"
      PROVE  request'[c.request] # None /\ request'[c.request].env = request[c.request].env
  BY <1>2, <1>4, ClosedStep DEF CallFits
<1> QED BY <1>3, <1>4 DEF CallFits

\* Every step keeps what the calls in progress may publish or move.
LEMMA CallsStep ==
    ASSUME FitInv, [Next]_vars
    PROVE  CallsFit'
<1> USE DEF FitInv
<1>0. CallFits(Idle)'
  BY DEF CallFits, Idle
<1>1. ASSUME NEW s \in Session, NEW c, CallFits(c)', Become(s, c) PROVE CallsFit'
  <2>1. ASSUME NEW x \in Session, x # s PROVE CallFits(call[x])'
    <3>1. call'[x] = call[x] /\ call[x] \in CallState /\ CallFits(call[x])
      BY <1>1, <2>1 DEF Become, TypeOK, CallsFit
    <3>2. PICK k : k = call[x]
      OBVIOUS
    <3>3. CallFits(k)'
      BY <3>1, <3>2, CallStays
    <3> QED BY <3>1, <3>2, <3>3 DEF CallFits
  <2>2. call'[s] = c
    BY <1>1 DEF Become, TypeOK
  <2> QED BY <1>1, <2>1, <2>2 DEF CallsFit, CallFits
<1>2. ASSUME UNCHANGED call PROVE CallsFit'
  <2>1. ASSUME NEW x \in Session PROVE CallFits(call[x])'
    <3>1. call[x] \in CallState /\ CallFits(call[x])
      BY DEF TypeOK, CallsFit
    <3>2. PICK k : k = call[x]
      OBVIOUS
    <3>3. CallFits(k)'
      BY <3>1, <3>2, CallStays
    <3> QED BY <1>2, <3>2, <3>3 DEF CallFits
  <2> QED BY <2>1 DEF CallsFit
<1>3. ASSUME NEW s \in Session, Prepare(s) PROVE CallsFit'
  <2>1. PICK e \in Env, k \in Key, p \in Policy, f \in BOOLEAN :
          /\ e \in ApprovedOnly => p = "approved"
          /\ Become(s, [op |-> "prepared", env |-> e, key |-> k, policy |-> p, forced |-> f])
    BY <1>3, ChoiceAssumption DEF Prepare, TypeOK, Settings
  <2>2. CallFits([op |-> "prepared", env |-> e, key |-> k, policy |-> p, forced |-> f])'
    BY <2>1 DEF CallFits
  <2> QED BY <1>1, <2>1, <2>2
<1>4. ASSUME NEW s \in Session, Build(s) PROVE CallsFit'
  <2>1. /\ call[s] \in [op : {"prepared"}, env : Env, key : Key, policy : Policy,
                         forced : BOOLEAN]
        /\ CallFits(call[s])
    BY <1>4, CallTypes DEF Build, CallsFit
  <2> DEFINE met(b) == Meets(call[s].env \in strict, b)
             built(b) == [op |-> "built", env |-> call[s].env, key |-> call[s].key,
                          policy |-> call[s].policy, forced |-> call[s].forced,
                          complete |-> b, met |-> met(b)]
  <2>2. PICK b \in Text : Become(s, IF met(b) \/ call[s].forced THEN built(b) ELSE Idle)
    BY <1>4 DEF Build
  <2>3. PICK c : c = built(b)
    OBVIOUS
  <2>4. call[s].env \in AlwaysStrict => (met(b) <=> b)
    BY ChoiceAssumption DEF Meets, Settings
  <2>5. CallFits(c)'
    BY <2>1, <2>3, <2>4 DEF CallFits
  <2> QED BY <1>0, <1>1, <2>2, <2>3, <2>5
<1>5. ASSUME NEW s \in Session, BeginPromote(s) \/ BeginStart(s) \/ BeginDeploy(s)
      PROVE  /\ Become(s, call'[s]) /\ UNCHANGED <<release, request>>
             /\ call'[s].op \in {"promoting", "starting", "deploying"}
             /\ call'[s].op \in {"promoting", "starting"} => release[call'[s].key] # None
             /\ call'[s].op = "deploying" => request[call'[s].request] # None
  <2>1. CASE BeginPromote(s)
    BY <2>1 DEF BeginPromote, Become, TypeOK, requests
  <2>2. CASE BeginStart(s)
    BY <2>2 DEF BeginStart, Become, TypeOK, requests
  <2>3. CASE BeginDeploy(s)
    BY <2>3 DEF BeginDeploy, Become, TypeOK, Pending, requests
  <2> QED BY <1>5, <2>1, <2>2, <2>3
<1>6. ASSUME NEW s \in Session, BeginPromote(s) \/ BeginStart(s) \/ BeginDeploy(s)
      PROVE  CallsFit'
  <2>1. ASSUME NEW e \in Env, NEW k, NEW f, NEW u,
               Become(s, [op |-> "promoting", env |-> e, key |-> k, by |-> u,
                          forced |-> f, gated |-> e \in strict])
        PROVE  call'[s].op = "promoting" /\ (call'[s].env \in strict => call'[s].gated)
    BY <2>1 DEF Become, TypeOK
  <2>2. ASSUME NEW e \in Env, NEW k, NEW f, NEW p,
               Become(s, [op |-> "starting", env |-> e, key |-> k, percent |-> p,
                          forced |-> f, gated |-> e \in strict])
        PROVE  call'[s].op = "starting" /\ (call'[s].env \in strict => call'[s].gated)
    BY <2>2 DEF Become, TypeOK
  <2>3. ASSUME NEW q \in Request, NEW u,
               Become(s, [op |-> "deploying", request |-> q, by |-> u, grants |-> grants[q],
                          gated |-> request[q].env \in strict])
        PROVE  /\ call'[s].op = "deploying"
               /\ request[call'[s].request].env \in strict => call'[s].gated
    BY <2>3 DEF Become, TypeOK
  <2>4. /\ call'[s].op \in {"promoting", "starting"} /\ call'[s].env \in strict => call'[s].gated
        /\ call'[s].op = "deploying" /\ request[call'[s].request].env \in strict
              => call'[s].gated
    BY <1>6, <2>1, <2>2, <2>3 DEF BeginPromote, BeginStart, BeginDeploy, TypeOK
  <2>5. PICK c : c = call'[s]
    OBVIOUS
  <2>6. CallFits(c)'
    BY <1>5, <1>6, <2>4, <2>5 DEF CallFits, Settings
  <2> QED BY <1>1, <1>5, <1>6, <2>5, <2>6
<1>7. ASSUME NEW s \in Session,
             \/ RecordMoves(s) \/ RecordHeld(s) \/ RecordNothing(s)
             \/ PromoteMoves(s) \/ PromoteHeld(s) \/ PromoteNothing(s) \/ Rollback(s)
             \/ StartRollout(s) \/ StartRefused(s) \/ AdvanceRollout(s) \/ CompleteRollout(s)
             \/ AbortRollout(s) \/ DeployMoves(s) \/ DeployCloses(s) \/ DeployFails(s)
             \/ DestroyBranch(s) \/ Crash(s)
      PROVE  Become(s, Idle)
  BY <1>7 DEF RecordMoves, RecordHeld, RecordNothing, PromoteMoves, PromoteHeld, PromoteNothing,
              Rollback, StartRollout, StartRefused, AdvanceRollout, CompleteRollout, AbortRollout,
              DeployMoves, DeployCloses, DeployFails, DestroyBranch, Crash
<1>8. Elsewhere \/ (\E e \in Env : Expire(e)) \/ UNCHANGED vars => UNCHANGED call
  BY DEF Elsewhere, Overdue, Configure, ChangeCheckPolicy, OpenBranch, Deny, Withdraw, Grant,
         Expire, vars
<1> QED BY <1>0, <1>1, <1>2, <1>3, <1>4, <1>5, <1>6, <1>7, <1>8
        DEF Next, SessionStep, Publish, Promote, Rollout, Deploy

\* A release that passes the gate of e fits there.
LEMMA AdmittedFits ==
    ASSUME FitInv, NEW e \in Env, NEW k \in Key, release[k] # None, Promotable(k),
           Covers(policy[e], release[k].policy), NEW gated, e \in AlwaysStrict => gated
    PROVE  Fits(e, k, ~Meets(gated, release[k].complete))
BY DEF FitInv, Settings, Fits, Own, Promotable, Covers, Meets

\* A publish records a release that fits where it was built for.
LEMMA InsertedFits ==
    ASSUME FitInv, NEW s \in Session, Busy(s, "built"), Insert(call[s])
    PROVE  /\ call[s].env \in Env /\ call[s].key \in Key
           /\ call[s].forced \in BOOLEAN /\ Owner[call[s].key] \in User
           /\ release'[call[s].key] # None
           /\ release'[call[s].key].env = call[s].env
           /\ call[s].env \in ApprovedOnly => release'[call[s].key].policy = "approved"
           /\ call[s].env \in AlwaysStrict => release'[call[s].key].complete \/ ~call[s].met
<1> DEFINE row == [env |-> call[s].env, policy |-> call[s].policy, complete |-> call[s].complete]
<1>1. call[s] \in [op : {"built"}, env : Env, key : Key, policy : Policy,
                   forced : BOOLEAN, complete : BOOLEAN, met : BOOLEAN]
  BY CallTypes DEF FitInv
<1>2. CallFits(call[s])
  BY DEF FitInv, CallsFit
<1>3. release'[call[s].key] = row
  BY <1>1 DEF Insert, FitInv, TypeOK
<1>4. row \in ReleaseRow
  BY <1>1 DEF ReleaseRow
<1>5. row # None
  BY <1>4, RowAssumption
<1> QED BY <1>1, <1>2, <1>3, <1>5, NamesAssumption DEF CallFits

\* A request names a release its environment may have.
LEMMA RequestsFitStep ==
    ASSUME FitInv, [Next]_vars
    PROVE  RequestsFit'
<1> USE DEF FitInv
<1>1. ASSUME NEW q \in Request, request[q] # None
      PROVE  Own(request[q].env, request[q].release)'
  <2>1. PICK e, k : e = request[q].env /\ k = request[q].release
    OBVIOUS
  <2>2. k \in Key /\ Own(e, k)
    BY <1>1, <2>1, RowTypes DEF RequestRow, RequestsFit
  <2>3. Own(e, k)'
    BY <2>2, FitsStays
  <2> QED BY <1>1, <2>1, <2>3, ClosedStep DEF Own
<1>2. ASSUME NEW e \in Env, NEW k \in Key, NEW by \in User, NEW forced \in BOOLEAN,
             NEW action \in {"publish", "promote"}, approval[e] > 0,
             Hold(e, k, action, by, forced), Own(e, k)'
      PROVE  RequestsFit'
  <2>1. PICK q \in Request :
          /\ request'[q].env = e /\ request'[q].release = k
          /\ \A r \in Request \ {q} : request'[r] = Replaced(e, r)
    BY <1>2, HeldIs
  <2>2. ASSUME NEW r \in Request, r # q, request'[r] # None PROVE request[r] # None
    BY <2>1, <2>2 DEF Replaced, Pending
  <2> QED BY <1>1, <1>2, <2>1, <2>2 DEF RequestsFit, Own
<1>3. ASSUME NEW s \in Session, RecordHeld(s) PROVE RequestsFit'
  <2>1. PICK e, k, f, u : /\ e = call[s].env /\ k = call[s].key /\ f = call[s].forced
                          /\ u = Owner[call[s].key]
    OBVIOUS
  <2>2. /\ e \in Env /\ k \in Key /\ f \in BOOLEAN /\ u \in User
        /\ approval[e] > 0 /\ Hold(e, k, "publish", u, f)
        /\ release'[k] # None /\ release'[k].env = e
    BY <1>3, <2>1, InsertedFits DEF RecordHeld
  <2> QED BY <1>2, <2>2 DEF Own
<1>4. ASSUME NEW s \in Session, PromoteHeld(s) PROVE RequestsFit'
  <2>1. PICK e, k, f, u : /\ e = call[s].env /\ k = call[s].key /\ f = call[s].forced
                          /\ u = call[s].by
    OBVIOUS
  <2>2. e \in Env /\ k \in Key /\ f \in BOOLEAN /\ u \in User
    BY <1>4, <2>1, CallTypes DEF PromoteHeld
  <2>3. /\ approval[e] > 0 /\ Hold(e, k, "promote", u, f) /\ Promotable(k)
        /\ release[k] # None
    BY <1>4, <2>1 DEF PromoteHeld, MayPromote, Admits, CallsFit, CallFits, Busy
  <2>4. Own(e, k)'
    BY <2>2, <2>3, FitsStays DEF Own, Promotable
  <2> QED BY <1>2, <2>2, <2>3, <2>4
<1>5. ASSUME Closes \/ UNCHANGED request PROVE RequestsFit'
  <2>1. \A q \in Request : request'[q] # None => request[q] # None
    BY <1>5 DEF Closes, Pending, TypeOK
  <2> QED BY <1>1, <2>1 DEF RequestsFit
<1> QED BY <1>3, <1>4, <1>5, RequestCases

\* Only a start makes a rollout; its candidate stays the same while it lasts.
LEMMA RolloutCases ==
    ASSUME TypeOK, [Next]_vars
    PROVE  \/ \E s \in Session : StartRollout(s)
           \/ \A e \in Env : rollout'[e] # None =>
                /\ rollout[e] # None
                /\ rollout'[e].candidate = rollout[e].candidate
                /\ rollout'[e].forced = rollout[e].forced
<1> DEFINE Same(e) == rollout'[e] # None =>
                /\ rollout[e] # None
                /\ rollout'[e].candidate = rollout[e].candidate
                /\ rollout'[e].forced = rollout[e].forced
<1>1. ASSUME NEW e \in Env, rollout[e] # None,
             \/ \E p \in Percent : rollout' = [rollout EXCEPT ![e].percent = p]
             \/ rollout' = [rollout EXCEPT ![e].due = TRUE]
      PROVE  \A x \in Env : Same(x)
  <2>1. rollout[e] \in RolloutRow
    BY <1>1, RowTypes
  <2> QED BY <1>1, <2>1 DEF TypeOK, RolloutRow
<1>2. ASSUME NEW e \in Env, rollout' = [rollout EXCEPT ![e] = None]
      PROVE  \A x \in Env : Same(x)
  BY <1>2 DEF TypeOK
<1>3. ASSUME UNCHANGED rollout PROVE \A x \in Env : Same(x)
  BY <1>3
<1>4. ASSUME NEW s \in Session,
             Rollback(s) \/ AdvanceRollout(s) \/ CompleteRollout(s) \/ AbortRollout(s)
      PROVE  \A x \in Env : Same(x)
  <2>1. CASE AdvanceRollout(s)
    BY <1>1, <2>1 DEF AdvanceRollout, TypeOK
  <2>2. CASE Rollback(s) \/ CompleteRollout(s) \/ AbortRollout(s)
    BY <1>2, <2>2 DEF Rollback, CompleteRollout, AbortRollout, TypeOK
  <2> QED BY <1>4, <2>1, <2>2
<1>5. ASSUME NEW e \in Env, Overdue(e) \/ Expire(e) PROVE \A x \in Env : Same(x)
  BY <1>1, <1>2, <1>5 DEF Overdue, Expire
<1>6. ASSUME NEW s \in Session,
             \/ Publish(s) \/ Promote(s) \/ BeginStart(s) \/ StartRefused(s)
             \/ Deploy(s) \/ DestroyBranch(s) \/ Crash(s)
      PROVE  UNCHANGED rollout
  BY <1>6 DEF Publish, Prepare, Build, RecordMoves, RecordHeld, RecordNothing,
              Promote, BeginPromote, PromoteMoves, PromoteHeld, PromoteNothing,
              BeginStart, StartRefused,
              Deploy, BeginDeploy, DeployMoves, DeployCloses, DeployFails, DestroyBranch, Crash
<1>7. ASSUME \/ UNCHANGED vars
             \/ \E e \in Env : Configure(e) \/ ChangeCheckPolicy(e) \/ OpenBranch(e)
             \/ \E q \in Request : Deny(q) \/ Withdraw(q) \/ \E u \in User : Grant(q, u)
      PROVE  UNCHANGED rollout
  BY <1>7 DEF Configure, ChangeCheckPolicy, OpenBranch, Deny, Withdraw, Grant, vars
<1> QED BY <1>3, <1>4, <1>5, <1>6, <1>7 DEF Next, SessionStep, Rollout, Elsewhere

\* A rollout's candidate passed the gate, or records that it was forced.
LEMMA RolloutsFitStep ==
    ASSUME FitInv, [Next]_vars
    PROVE  RolloutsFit'
<1> USE DEF FitInv
<1>1. ASSUME NEW e \in Env, rollout[e] # None, rollout'[e].candidate = rollout[e].candidate,
             rollout'[e].forced = rollout[e].forced
      PROVE  Fits(e, rollout[e].candidate, rollout[e].forced)'
  <2>1. PICK k, f : k = rollout[e].candidate /\ f = rollout[e].forced
    OBVIOUS
  <2>2. k \in Key /\ Fits(e, k, f)
    BY <1>1, <2>1, RowTypes DEF RolloutRow, RolloutsFit
  <2>3. Fits(e, k, f)'
    BY <2>2, FitsStays DEF Fits
  <2> QED BY <1>1, <2>1, <2>3
<1>2. ASSUME NEW s \in Session, StartRollout(s) PROVE RolloutsFit'
  <2>1. PICK e, k, f : e = call[s].env /\ k = call[s].key /\ f = Overrides(call[s])
    OBVIOUS
  <2>2. e \in Env /\ k \in Key
    BY <1>2, <2>1, CallTypes DEF StartRollout
  <2>3. CallFits(call[s]) /\ call[s].op = "starting"
    BY <1>2 DEF StartRollout, CallsFit, Busy
  <2>4. /\ release[k] # None /\ Promotable(k) /\ Covers(policy[e], release[k].policy)
        /\ e \in AlwaysStrict => call[s].gated
        /\ f = ~Meets(call[s].gated, release[k].complete)
    BY <1>2, <2>1, <2>3 DEF StartRollout, MayStart, Admits, CallFits, Overrides, Enforced
  <2>5. Fits(e, k, f)
    BY <2>2, <2>4, AdmittedFits
  <2>6. Fits(e, k, f)'
    BY <2>2, <2>5, FitsStays DEF Fits
  <2>7. /\ rollout'[e].candidate = k /\ rollout'[e].forced = f
        /\ \A x \in Env \ {e} : rollout'[x] = rollout[x]
    BY <1>2, <2>1, <2>2 DEF StartRollout, TypeOK
  <2> QED BY <1>1, <2>6, <2>7 DEF RolloutsFit
<1>3. ASSUME \A e \in Env : rollout'[e] # None =>
                /\ rollout[e] # None
                /\ rollout'[e].candidate = rollout[e].candidate
                /\ rollout'[e].forced = rollout[e].forced
      PROVE  RolloutsFit'
  BY <1>1, <1>3 DEF RolloutsFit
<1> QED BY <1>2, <1>3, RolloutCases

\* The actions that move a pointer to a release.
LEMMA MoveCases ==
    ASSUME [Next]_vars
    PROVE  \/ \E s \in Session :
                \/ RecordMoves(s) \/ PromoteMoves(s) \/ Rollback(s)
                \/ CompleteRollout(s) \/ DeployMoves(s)
           \/ UNCHANGED <<served, overridden>>
<1>1. ASSUME NEW s \in Session, SessionStep(s), ~RecordMoves(s), ~PromoteMoves(s),
             ~Rollback(s), ~CompleteRollout(s), ~DeployMoves(s)
      PROVE  UNCHANGED <<served, overridden>>
  BY <1>1 DEF SessionStep, Publish, Promote, Rollout, Deploy, DestroyBranch, Crash, Prepare, Build,
              RecordHeld, RecordNothing, BeginPromote, PromoteHeld, PromoteNothing, BeginStart,
              StartRollout, StartRefused, AdvanceRollout, AbortRollout, BeginDeploy, DeployCloses,
              DeployFails, environments
<1>2. Elsewhere \/ (\E e \in Env : Expire(e)) \/ UNCHANGED vars
        => UNCHANGED <<served, overridden>>
  BY DEF Elsewhere, Overdue, Configure, ChangeCheckPolicy, OpenBranch, Deny, Withdraw, Grant,
         Expire, environments, vars
<1> QED BY <1>1, <1>2 DEF Next

\* Every pointer move is to a release that fits.
LEMMA ServedFitStep ==
    ASSUME FitInv, [Next]_vars
    PROVE  ServedFits'
<1> USE DEF FitInv
<1>0. ASSUME NEW e \in Env, NEW k \in Key, NEW action, NEW forced \in BOOLEAN,
             Move(e, k, action, forced), Fits(e, k, forced)
      PROVE  ServedFits'
  BY <1>0, FitsStays, ServedStep DEF Fits, Own
<1>1. ASSUME NEW s \in Session, RecordMoves(s) PROVE ServedFits'
  <2>1. PICK e, k, f : e = call[s].env /\ k = call[s].key /\ f = ~call[s].met
    OBVIOUS
  <2>2. /\ e \in Env /\ k \in Key /\ f \in BOOLEAN
        /\ Move(e, k, "publish", f)
        /\ release'[k] # None /\ release'[k].env = e
        /\ e \in ApprovedOnly => release'[k].policy = "approved"
        /\ e \in AlwaysStrict => release'[k].complete \/ f
    BY <1>1, <2>1, InsertedFits DEF RecordMoves
  <2> QED BY <2>2, ServedStep DEF Fits, Own
<1>2. ASSUME NEW s \in Session, PromoteMoves(s) PROVE ServedFits'
  <2>1. PICK e, k, f : e = call[s].env /\ k = call[s].key /\ f = Overrides(call[s])
    OBVIOUS
  <2>2. e \in Env /\ k \in Key /\ f \in BOOLEAN
    BY <1>2, <2>1, CallTypes DEF PromoteMoves, Overrides, Enforced, Meets
  <2>3. CallFits(call[s]) /\ call[s].op = "promoting"
    BY <1>2 DEF PromoteMoves, CallsFit, Busy
  <2>4. /\ release[k] # None /\ Promotable(k) /\ Covers(policy[e], release[k].policy)
        /\ e \in AlwaysStrict => call[s].gated
        /\ f = ~Meets(call[s].gated, release[k].complete)
        /\ Move(e, k, "promote", f)
    BY <1>2, <2>1, <2>3 DEF PromoteMoves, MayPromote, Admits, CallFits, Overrides, Enforced
  <2> QED BY <1>0, <2>2, <2>4, AdmittedFits
<1>3. ASSUME NEW s \in Session, Rollback(s) PROVE ServedFits'
  <2>1. PICK e \in Env, k \in Key : k \in served[e] /\ Move(e, k, "rollback", FALSE)
    BY <1>3 DEF Rollback, RollbackTargets, TypeOK
  <2>2. k \in Key /\ Fits(e, k, k \in overridden[e])
    BY <2>1 DEF ServedFits, TypeOK
  <2>3. release'[k] = release[k]
    BY <2>2, ReleaseStep DEF Fits, Own
  <2>4. overridden'[e] = overridden[e]
    BY <2>1 DEF Move
  <2> QED BY <2>1, <2>2, <2>3, <2>4, ServedStep DEF Fits, Own
<1>4. ASSUME NEW s \in Session, CompleteRollout(s) PROVE ServedFits'
  <2>1. PICK e \in Env : /\ rollout[e] # None
                         /\ Move(e, rollout[e].candidate, "promote", rollout[e].forced)
    BY <1>4 DEF CompleteRollout, TypeOK
  <2>2. PICK k, f : k = rollout[e].candidate /\ f = rollout[e].forced
    OBVIOUS
  <2>3. k \in Key /\ f \in BOOLEAN /\ Fits(e, k, f)
    BY <2>1, <2>2, RowTypes DEF RolloutRow, RolloutsFit
  <2> QED BY <1>0, <2>1, <2>2, <2>3
<1>5. ASSUME NEW s \in Session, DeployMoves(s) PROVE ServedFits'
  <2> DEFINE r == request[call[s].request]
  <2>1. call[s].request \in Request /\ Pending(call[s].request)
    BY <1>5, CallTypes DEF DeployMoves, ApprovalMet, Open
  <2>2. PICK e, k, a, f : /\ e = r.env /\ k = r.release /\ a = r.action
                          /\ f = ~Meets(call[s].gated, release[k].complete)
    OBVIOUS
  <2>3. e \in Env /\ k \in Key
    BY <2>1, <2>2, RowTypes DEF Pending, RequestRow
  <2>4. Own(e, k)
    BY <2>1, <2>2 DEF RequestsFit, Pending
  <2>5. e \in AlwaysStrict => call[s].gated
    BY <1>5, <2>2 DEF DeployMoves, CallsFit, CallFits, Busy
  <2>6. Covers(policy[e], release[k].policy) /\ Move(e, k, a, f)
    BY <1>5, <2>2 DEF DeployMoves, Redeploys, Enforced
  <2>7. f \in BOOLEAN
    BY <2>2
  <2>8. Fits(e, k, f)
    BY <2>2, <2>3, <2>4, <2>5, <2>6 DEF Fits, Covers, Meets, Settings
  <2> QED BY <1>0, <2>3, <2>6, <2>7, <2>8
<1>6. ASSUME UNCHANGED <<served, overridden>> PROVE ServedFits'
  <2>1. ASSUME NEW e \in Env, NEW k \in served[e]
        PROVE  k \in Key /\ Fits(e, k, k \in overridden[e]) /\ release'[k] = release[k]
    BY ReleaseStep DEF ServedFits, Fits, Own, TypeOK
  <2> QED BY <1>6, <2>1 DEF ServedFits, Fits, Own
<1> QED BY <1>1, <1>2, <1>3, <1>4, <1>5, <1>6, MoveCases

\* FitInv is inductive.
LEMMA FitStep ==
    ASSUME FitInv, [Next]_vars
    PROVE  FitInv'
BY TypeStep, ServedFitStep, RolloutsFitStep, RequestsFitStep, CallsStep, SettingsStep DEF FitInv

\* FitInv holds at the start.
LEMMA FitInit == Init => FitInv
BY TypeCorrectInit, ChoiceAssumption
   DEF Init, FitInv, ServedFits, RolloutsFit, RequestsFit, CallsFit, CallFits, Idle, Settings,
       ApprovedOnly, AlwaysStrict

\* By no chain of publishes, promotes, rollouts, requests and rollbacks does a
\* preview's or a draft's text reach an environment that only takes approved
\* text.
THEOREM NothingElseIsServed == Spec => []OnlyEligible
<1>1. FitInv => OnlyEligible
  BY DEF FitInv, ServedFits, Fits, Own, ApprovedOnly, OnlyEligible
<1> QED BY <1>1, FitInit, FitStep, PTL DEF Spec

\* Where the check policy always asks for completeness, what is served is
\* complete or was forced there.
THEOREM NothingPassesTheGate == Spec => []GateHolds
<1>1. FitInv => GateHolds
  BY ChoiceAssumption DEF FitInv, ServedFits, Fits, Own, AlwaysStrict, GateHolds
<1> QED BY <1>1, FitInit, FitStep, PTL DEF Spec

-----------------------------------------------------------------------------
(* Approvals.                                                              *)

\* What a deploy read of the grants is still granted, and they are finite.
GrantsFinite == \A q \in Request : IsFiniteSet(grants[q])
ReadGrants(c) == c.op = "deploying" => c.grants \subseteq grants[c.request]
GrantsRead == \A s \in Session : ReadGrants(call[s])

ApprovalInv == TypeOK /\ GrantsFinite /\ GrantsRead

\* A grant is never taken back.
LEMMA GrantsStep ==
    ASSUME TypeOK, GrantsFinite, [Next]_vars, NEW q \in Request
    PROVE  grants[q] \subseteq grants'[q] /\ IsFiniteSet(grants'[q])
<1>1. ASSUME NEW p \in Request, NEW u \in User, Grant(p, u)
      PROVE  grants[q] \subseteq grants'[q] /\ IsFiniteSet(grants'[q])
  <2>1. grants'[q] = grants[q] \/ grants'[q] = grants[q] \cup {u}
    BY <1>1 DEF Grant, TypeOK
  <2> QED BY <2>1, FS_AddElement DEF GrantsFinite
<1>2. ASSUME NEW s \in Session, SessionStep(s) PROVE UNCHANGED grants
  BY <1>2 DEF SessionStep, Publish, Promote, Rollback, Rollout, Deploy, DestroyBranch, Crash,
              Prepare, Build, RecordMoves, RecordHeld, RecordNothing, BeginPromote, PromoteMoves,
              PromoteHeld, PromoteNothing, BeginStart, StartRollout, StartRefused, AdvanceRollout,
              CompleteRollout, AbortRollout, BeginDeploy, DeployMoves, DeployCloses, DeployFails,
              requests
<1>3. ASSUME NEW p \in Request, Deny(p) \/ Withdraw(p) PROVE UNCHANGED grants
  BY <1>3 DEF Deny, Withdraw
<1>4. ASSUME \/ UNCHANGED vars
             \/ \E e \in Env : \/ Overdue(e) \/ Expire(e) \/ Configure(e)
                               \/ ChangeCheckPolicy(e) \/ OpenBranch(e)
      PROVE  UNCHANGED grants
  BY <1>4 DEF Overdue, Expire, Configure, ChangeCheckPolicy, OpenBranch, requests, vars
<1> QED BY <1>1, <1>2, <1>3, <1>4 DEF Next, Elsewhere, GrantsFinite

\* A call reads the grants when its deploy begins, and never otherwise.
LEMMA DeployingCases ==
    ASSUME TypeOK, [Next]_vars, NEW x \in Session, call'[x].op = "deploying"
    PROVE  call'[x] = call[x] \/ BeginDeploy(x)
<1>1. ASSUME NEW s \in Session, s # x, NEW c, Become(s, c) PROVE call'[x] = call[x]
  BY <1>1 DEF Become, TypeOK
<1>2. ASSUME NEW c, Become(x, c) PROVE c.op = "deploying"
  BY <1>2 DEF Become, TypeOK
<1>3. ASSUME NEW s \in Session, SessionStep(s) PROVE \E c : Become(s, c)
  BY <1>3 DEF SessionStep, Publish, Promote, Rollback, Rollout, Deploy, DestroyBranch, Crash,
              Prepare, Build, RecordMoves, RecordHeld, RecordNothing, BeginPromote, PromoteMoves,
              PromoteHeld, PromoteNothing, BeginStart, StartRollout, StartRefused, AdvanceRollout,
              CompleteRollout, AbortRollout, BeginDeploy, DeployMoves, DeployCloses, DeployFails
<1>4. ASSUME Become(x, Idle) PROVE FALSE
  BY <1>2, <1>4 DEF Idle
<1>5. ASSUME Prepare(x) \/ Build(x) \/ BeginPromote(x) \/ BeginStart(x) PROVE FALSE
  <2>1. call'[x].op # "deploying"
    BY <1>5 DEF Prepare, Build, BeginPromote, BeginStart, Become, Idle, TypeOK
  <2> QED BY <2>1
<1>6. ASSUME SessionStep(x) PROVE BeginDeploy(x)
  BY <1>4, <1>5, <1>6
     DEF SessionStep, Publish, Promote, Rollback, Rollout, Deploy, DestroyBranch, Crash,
         RecordMoves, RecordHeld, RecordNothing, PromoteMoves, PromoteHeld, PromoteNothing,
         StartRollout, StartRefused, AdvanceRollout, CompleteRollout, AbortRollout, DeployMoves,
         DeployCloses, DeployFails
<1>7. Elsewhere \/ (\E e \in Env : Expire(e)) \/ UNCHANGED vars => UNCHANGED call
  BY DEF Elsewhere, Overdue, Configure, ChangeCheckPolicy, OpenBranch, Deny, Withdraw, Grant,
         Expire, vars
<1> QED BY <1>1, <1>3, <1>6, <1>7 DEF Next

\* ApprovalInv is inductive.
LEMMA ApprovalStep ==
    ASSUME ApprovalInv, [Next]_vars
    PROVE  ApprovalInv'
<1> USE DEF ApprovalInv
<1>1. GrantsFinite'
  BY GrantsStep DEF GrantsFinite
<1>2. ASSUME NEW x \in Session, call'[x].op = "deploying"
      PROVE  call'[x].grants \subseteq grants'[call'[x].request]
  <2>1. CASE call'[x] = call[x]
    <3>1. call[x].request \in Request
      BY <1>2, <2>1, CallTypes DEF Busy
    <3> QED BY <1>2, <2>1, <3>1, GrantsStep DEF GrantsRead, ReadGrants
  <2>2. CASE BeginDeploy(x)
    <3>1. UNCHANGED grants
      BY <2>2 DEF BeginDeploy, requests
    <3>2. call'[x].grants = grants[call'[x].request]
      BY <2>2 DEF BeginDeploy, Become, TypeOK
    <3> QED BY <3>1, <3>2
  <2> QED BY <1>2, <2>1, <2>2, DeployingCases
<1>3. GrantsRead'
  BY <1>2 DEF GrantsRead, ReadGrants
<1> QED BY <1>1, <1>3, TypeStep

\* The actions that move a pointer, or take it away.
LEMMA PointerCases ==
    ASSUME [Next]_vars
    PROVE  \/ \E s \in Session :
                \/ RecordMoves(s) \/ PromoteMoves(s) \/ Rollback(s)
                \/ CompleteRollout(s) \/ DeployMoves(s) \/ DestroyBranch(s)
           \/ UNCHANGED current
<1>1. ASSUME NEW s \in Session, SessionStep(s), ~RecordMoves(s), ~PromoteMoves(s),
             ~Rollback(s), ~CompleteRollout(s), ~DeployMoves(s), ~DestroyBranch(s)
      PROVE  UNCHANGED current
  BY <1>1 DEF SessionStep, Publish, Promote, Rollout, Deploy, Crash, Prepare, Build,
              RecordHeld, RecordNothing, BeginPromote, PromoteHeld, PromoteNothing, BeginStart,
              StartRollout, StartRefused, AdvanceRollout, AbortRollout, BeginDeploy, DeployCloses,
              DeployFails, environments
<1>2. Elsewhere \/ (\E e \in Env : Expire(e)) \/ UNCHANGED vars => UNCHANGED current
  BY DEF Elsewhere, Overdue, Configure, ChangeCheckPolicy, OpenBranch, Deny, Withdraw, Grant,
         Expire, environments, vars
<1> QED BY <1>1, <1>2 DEF Next

\* A deploy has the approvals the request asked for and those its environment
\* asks for now: what was read is still granted.
LEMMA DeployApproved ==
    ASSUME ApprovalInv, NEW s \in Session, DeployMoves(s), NEW e \in Env, Moves(e)
    PROVE  \E q \in Request : Deploys(q, e)
<1> USE DEF ApprovalInv
<1> DEFINE q == call[s].request
           others == grants[q] \ {request[q].requester}
<1>1. q \in Request /\ Pending(q) /\ call[s].grants \subseteq grants[q]
  BY CallTypes DEF DeployMoves, ApprovalMet, Open, GrantsRead, ReadGrants, Busy
<1>2. request[q] \in RequestRow
  BY <1>1, RowTypes DEF Pending
<1>3. /\ request' = [request EXCEPT ![q] = Closed(q, "deployed")]
      /\ Move(request[q].env, request[q].release, request[q].action,
              Enforced(call[s].gated, request[q].release, request[q].forced))
  BY DEF DeployMoves
<1>4. request[q].env = e /\ current'[e] = request[q].release
  BY <1>2, <1>3, MovePointer DEF RequestRow, Moves
<1>5. /\ request'[q].state = "deployed" /\ request'[q].release = request[q].release
  BY <1>1, <1>2, <1>3 DEF Closed, RequestRow, TypeOK
<1>6. /\ Cardinality(Approvers(call[s].grants, q)) >= request[q].need
      /\ Cardinality(Approvers(call[s].grants, q)) >= approval[e]
      /\ Cardinality(Approvers(call[s].grants, q)) \in Nat
      /\ Cardinality(Approvers(call[s].grants, q)) <= Cardinality(others)
      /\ Cardinality(others) \in Nat
  <2>1. IsFiniteSet(others) /\ Approvers(call[s].grants, q) \subseteq others
    <3>1. others \subseteq grants[q] /\ IsFiniteSet(grants[q])
      BY <1>1 DEF GrantsFinite
    <3> QED BY <1>1, <3>1, FS_Subset DEF Approvers
  <2>2. /\ IsFiniteSet(Approvers(call[s].grants, q))
        /\ Cardinality(Approvers(call[s].grants, q)) <= Cardinality(others)
    BY <2>1, FS_Subset
  <2>3. Cardinality(Approvers(call[s].grants, q)) \in Nat /\ Cardinality(others) \in Nat
    BY <2>1, <2>2, FS_CardinalityType
  <2>4. request[q].need \in Nat /\ approval[e] \in Nat
    BY <1>2 DEF RequestRow, TypeOK
  <2>5. Cardinality(Approvers(call[s].grants, q)) >= Need(q)
    BY DEF DeployMoves, ApprovalMet
  <2> HIDE DEF others, q
  <2> QED BY <1>4, <2>2, <2>3, <2>4, <2>5 DEF Need
<1>7. request[q].need \in Nat /\ approval[e] \in Nat
  BY <1>2 DEF RequestRow, TypeOK
<1>8. Cardinality(others) >= request[q].need /\ Cardinality(others) >= approval[e]
  BY <1>6, <1>7
<1> QED BY <1>1, <1>4, <1>5, <1>8 DEF Deploys

\* Where approvals are required, only a rollback, an approved request and the
\* completion of a rollout that was started before move the pointer.
THEOREM MovesAreApproved == Spec => ApprovedUnlessRollout
<1>1. Init => ApprovalInv
  BY TypeCorrectInit, FS_EmptySet
     DEF Init, ApprovalInv, GrantsFinite, GrantsRead, ReadGrants, Idle
<1>2. ASSUME ApprovalInv, [Next]_vars, NEW e \in Env, Moves(e), approval[e] > 0
      PROVE  \/ via'[e] = "rollback"
             \/ rollout[e] # None /\ rollout[e].candidate = current'[e]
             \/ \E q \in Request : Deploys(q, e)
  <2> USE <1>2 DEF ApprovalInv
  <2>1. ASSUME NEW x \in Env, NEW k, NEW a, NEW f, Move(x, k, a, f)
        PROVE  x = e /\ current'[e] = k /\ via'[e] = a
    BY <2>1, MovePointer DEF Moves
  <2>2. ASSUME NEW s \in Session, RecordMoves(s) PROVE FALSE
    <3>1. call[s].env \in Env
      BY <2>2, CallTypes DEF RecordMoves
    <3> QED BY <2>1, <2>2, <3>1 DEF RecordMoves
  <2>3. ASSUME NEW s \in Session, PromoteMoves(s) PROVE FALSE
    <3>1. call[s].env \in Env
      BY <2>3, CallTypes DEF PromoteMoves
    <3> QED BY <2>1, <2>3, <3>1 DEF PromoteMoves
  <2>4. ASSUME NEW s \in Session, Rollback(s) PROVE via'[e] = "rollback"
    BY <2>1, <2>4 DEF Rollback, TypeOK
  <2>5. ASSUME NEW s \in Session, CompleteRollout(s)
        PROVE  rollout[e] # None /\ rollout[e].candidate = current'[e]
    BY <2>1, <2>5 DEF CompleteRollout, TypeOK
  <2>6. ASSUME NEW s \in Session, DestroyBranch(s) PROVE FALSE
    BY <2>6 DEF DestroyBranch, BranchEnv, Moves, TypeOK
  <2> QED BY <2>2, <2>3, <2>4, <2>5, <2>6, DeployApproved, PointerCases DEF Moves
<1>3. ApprovalInv /\ [Next]_vars => [\A e \in Env : Moves(e) /\ approval[e] > 0 =>
        \/ via'[e] = "rollback"
        \/ rollout[e] # None /\ rollout[e].candidate = current'[e]
        \/ \E q \in Request : Deploys(q, e)]_vars
  BY <1>2
<1> QED BY <1>1, <1>3, ApprovalStep, PTL DEF Spec, ApprovedUnlessRollout
=============================================================================
