---------------------------- MODULE OutboxProofs ----------------------------
(***************************************************************************)
(* Theorems about Outbox, for every number of events, subscribers and      *)
(* dispatchers, every batch size and every number of faults.               *)
(***************************************************************************)
EXTENDS Outbox, TLAPS

\* The claimRun of no claim is one.
LEMMA NoRunType == NoRun \in RunType
BY DEF NoRun, RunType

\* A deferral leaves a claimRun a claimRun.
LEMMA DeferredType ==
    ASSUME TypeOK, NEW d \in Dispatcher, NEW e \in Event
    PROVE  /\ [run[d][e] EXCEPT !.deferred = TRUE] \in RunType
           /\ [run EXCEPT ![d][e].deferred = TRUE] \in [Dispatcher -> [Event -> RunType]]
<1>1. run[d] \in [Event -> RunType] /\ run[d][e] \in RunType
  BY DEF TypeOK
<1>2. [run[d][e] EXCEPT !.deferred = TRUE] \in RunType
  BY <1>1 DEF RunType
<1>3. [run[d] EXCEPT ![e] = [run[d][e] EXCEPT !.deferred = TRUE]] \in [Event -> RunType]
  BY <1>1, <1>2
<1>4. [run EXCEPT ![d][e].deferred = TRUE] =
        [run EXCEPT ![d] = [run[d] EXCEPT ![e] = [run[d][e] EXCEPT !.deferred = TRUE]]]
  BY DEF TypeOK
<1> QED BY <1>2, <1>3, <1>4 DEF TypeOK

\* What a delivery records keeps every claimRun one.
LEMMA RecordedType ==
    ASSUME TypeOK, NEW d \in Dispatcher, NEW s \in Subscriber,
           NEW ok, NEW bad, NEW soft, NEW left
    PROVE  Recorded(d, s, ok, bad, soft, left) \in [Dispatcher -> [Event -> RunType]]
<1>1. \A e \in Event : run[d][e] \in RunType
  BY DEF TypeOK
<1> DEFINE R(e) == [run[d][e] EXCEPT
            !.delivered = IF e \in ok THEN @ \cup {s} ELSE @,
            !.failed    = @ \/ e \in bad \cup soft,
            !.permanent = @ \/ e \in bad]
<1>2. \A e \in Event : R(e) \in RunType
  BY <1>1 DEF RunType
<1>3. [e \in Event |-> R(e)] \in [Event -> RunType]
  BY <1>2
<1>4. Recorded(d, s, ok, bad, soft, left) = [run EXCEPT ![d] = [e \in Event |-> R(e)]]
  BY DEF Recorded
<1> QED BY <1>3, <1>4 DEF TypeOK

\* The types of what Invoked changes.
LEMMA InvokedType ==
    ASSUME TypeOK, NEW d \in Dispatcher, NEW s \in Subscriber, NEW e \in Event,
           Invoked(d, s, e)
    PROVE  /\ run' \in [Dispatcher -> [Event -> RunType]]
           /\ applied' \subseteq Pairs
           /\ repeated' \subseteq Pairs
           /\ doomed' \in [Event -> BOOLEAN]
<1>1. run' \in [Dispatcher -> [Event -> RunType]]
  BY RecordedType DEF Invoked
<1>2. applied' \subseteq Pairs /\ repeated' \subseteq Pairs
  BY DEF Invoked, Handled, TypeOK, Pairs
<1>3. doomed' \in [Event -> BOOLEAN]
  BY DEF Invoked, TypeOK
<1> QED BY <1>1, <1>2, <1>3

\* Every step keeps the types.
LEMMA TypeStep ==
    ASSUME TypeOK, [Next]_vars
    PROVE  TypeOK'
<1> USE SubsAssumption, TokenAssumption, BoundAssumption DEF rows, work, memory, history
<1>1. ASSUME NEW e \in Event, Publish(e) PROVE TypeOK'
  BY <1>1 DEF Publish, TypeOK
<1>2. ASSUME NEW d \in Dispatcher, NEW es \in SUBSET Event, Claim(d, es) PROVE TypeOK'
  <2>1. \A e \in Event : NewRun(e) \in RunType
    <3> SUFFICES ASSUME NEW e \in Event PROVE NewRun(e) \in RunType
      OBVIOUS
    <3>1. attempts[e] \in Nat /\ deliveredTo[e] \in SUBSET Subscriber
      BY DEF TypeOK
    <3> QED BY <3>1 DEF NewRun, RunType
  <2>2. run' \in [Dispatcher -> [Event -> RunType]]
    <3> DEFINE R == [e \in Event |-> IF e \in es THEN NewRun(e) ELSE NoRun]
    <3>1. R \in [Event -> RunType]
      BY <2>1, NoRunType
    <3>2. run' = [run EXCEPT ![d] = R]
      BY <1>2 DEF Claim
    <3> HIDE DEF R
    <3> QED BY <3>1, <3>2 DEF TypeOK
  <2>3. /\ attempts' \in [Event -> Nat] /\ charges' \in [Event -> Nat]
        /\ due' \in [Event -> BOOLEAN] /\ lost' \in [Event -> BOOLEAN]
    BY <1>2 DEF Claim, TypeOK
  <2>4. /\ token' \in [Event -> Dispatcher \cup {NoToken}]
        /\ batch' \in [Dispatcher -> SUBSET Event] /\ each' \in [Dispatcher -> SUBSET Event]
        /\ outOfLease' \in [Dispatcher -> BOOLEAN]
    BY <1>2 DEF Claim, TypeOK
  <2>5. todo' \in [Dispatcher -> SUBSET Pairs]
    <3>1. {p \in BatchSub \X es : p[1] \in SubsOf[p[2]] \ deliveredTo[p[2]]} \subseteq Pairs
      BY DEF Pairs
    <3> QED BY <1>2, <3>1 DEF Claim, TypeOK
  <2> QED BY <1>2, <2>2, <2>3, <2>4, <2>5 DEF Claim, TypeOK
<1>3. ASSUME NEW d \in Dispatcher, NEW s \in BatchSub, NEW t \in Tenant, DeliverBatch(d, s, t)
      PROVE TypeOK'
  <2>1. run' \in [Dispatcher -> [Event -> RunType]]
    BY <1>3, RecordedType DEF DeliverBatch
  <2>2. again' \in [Dispatcher -> SUBSET Pairs]
    BY <1>3 DEF DeliverBatch, TypeOK, Pairs, Group
  <2>3. applied' \subseteq Pairs /\ repeated' \subseteq Pairs
    BY <1>3 DEF DeliverBatch, Handled, TypeOK, Pairs, Group
  <2>4. doomed' \in [Event -> BOOLEAN]
    BY <1>3 DEF DeliverBatch, TypeOK
  <2>5. todo' \in [Dispatcher -> SUBSET Pairs]
    BY <1>3 DEF DeliverBatch, TypeOK
  <2> QED BY <1>3, <2>1, <2>2, <2>3, <2>4, <2>5 DEF DeliverBatch, TypeOK
<1>4. ASSUME NEW d \in Dispatcher, NEW s \in BatchSub, NEW t \in Tenant, DeferBatch(d, s, t)
      PROVE TypeOK'
  <2> DEFINE R == [e \in Event |->
            IF e \in Group(d, s, t) THEN [run[d][e] EXCEPT !.deferred = TRUE] ELSE run[d][e]]
  <2>1. R \in [Event -> RunType]
    <3>1. \A e \in Event : run[d][e] \in RunType
      BY DEF TypeOK
    <3> QED BY <3>1, DeferredType
  <2>2. run' \in [Dispatcher -> [Event -> RunType]]
    <3>1. run' = [run EXCEPT ![d] = R]
      BY <1>4 DEF DeferBatch
    <3> QED BY <2>1, <3>1 DEF TypeOK
  <2> QED BY <1>4, <2>2 DEF DeferBatch, TypeOK
<1>5. ASSUME NEW d \in Dispatcher, NEW s \in Subscriber, NEW e \in Event, Redeliver(d, s, e)
      PROVE TypeOK'
  BY <1>5, InvokedType DEF Redeliver, Invoked, TypeOK
<1>6. ASSUME NEW d \in Dispatcher, NEW s \in Subscriber, NEW e \in Event, DeferRedelivery(d, s, e)
      PROVE TypeOK'
  <2>1. run' \in [Dispatcher -> [Event -> RunType]]
    BY <1>6, DeferredType DEF DeferRedelivery
  <2> QED BY <1>6, <2>1 DEF DeferRedelivery, TypeOK
<1>7. ASSUME NEW d \in Dispatcher, NEW s \in Subscriber, NEW e \in Event, Invoke(d, s, e)
      PROVE TypeOK'
  BY <1>7, InvokedType DEF Invoke, Invoked, TypeOK
<1>8. ASSUME NEW d \in Dispatcher, NEW e \in Event, StartEach(d, e) PROVE TypeOK'
  <2>1. PendingSubs(d, e) \X {e} \subseteq Pairs
    BY DEF PendingSubs, Pairs
  <2> QED BY <1>8, <2>1 DEF StartEach, ReachEach, TypeOK
<1>9. ASSUME NEW d \in Dispatcher, NEW e \in Event, DeferEach(d, e) PROVE TypeOK'
  <2>1. run' \in [Dispatcher -> [Event -> RunType]]
    BY <1>9, DeferredType DEF DeferEach
  <2> QED BY <1>9, <2>1 DEF DeferEach, ReachEach, TypeOK
<1>10. ASSUME NEW d \in Dispatcher, NEW e \in Event, Forget(d, e)
       PROVE /\ batch' \in [Dispatcher -> SUBSET Event]
             /\ run' \in [Dispatcher -> [Event -> RunType]]
  <2>1. run[d] \in [Event -> RunType]
    BY DEF TypeOK
  <2>2. [run[d] EXCEPT ![e] = NoRun] \in [Event -> RunType]
    BY <2>1, NoRunType
  <2>3. run' = [run EXCEPT ![d] = [run[d] EXCEPT ![e] = NoRun]]
    BY <1>10 DEF Forget, TypeOK
  <2>4. run' \in [Dispatcher -> [Event -> RunType]]
    BY <2>2, <2>3 DEF TypeOK
  <2>5. batch' \in [Dispatcher -> SUBSET Event]
    BY <1>10 DEF Forget, TypeOK
  <2> QED BY <2>4, <2>5
<1>11. ASSUME NEW d \in Dispatcher, NEW e \in Event, NEW o, SettleAs(d, e, o)
       PROVE /\ token' \in [Event -> Dispatcher \cup {NoToken}]
             /\ deliveredTo' \in [Event -> SUBSET Subscriber]
             /\ batch' \in [Dispatcher -> SUBSET Event]
             /\ run' \in [Dispatcher -> [Event -> RunType]]
  <2>1. run[d][e].delivered \in SUBSET Subscriber
    BY DEF TypeOK, RunType
  <2> QED BY <1>10, <1>11, <2>1 DEF SettleAs, DeliveredToOf, TypeOK
<1>12. ASSUME NEW d \in Dispatcher, NEW e \in Event, Settle(d, e) PROVE TypeOK'
  <2>0. charges[e] + 1 \in Nat /\ Refunded(e) \in Nat
    BY DEF Refunded, TypeOK
  <2>1. CASE MarkDelivered(d, e)
    <3>1. SettleAs(d, e, "delivered")
      BY <2>1 DEF MarkDelivered
    <3> QED BY <1>11, <2>1, <3>1 DEF MarkDelivered, SettleAs, Forget, TypeOK
  <2>2. CASE Reschedule(d, e)
    <3>1. SettleAs(d, e, "retry")
      BY <2>2 DEF Reschedule
    <3> QED BY <1>11, <2>0, <2>2, <3>1 DEF Reschedule, Charged, SettleAs, Forget, TypeOK
  <2>3. CASE DeadLetter(d, e)
    <3>1. SettleAs(d, e, "dead")
      BY <2>3 DEF DeadLetter
    <3> QED BY <1>11, <2>0, <2>3, <3>1 DEF DeadLetter, Charged, SettleAs, Forget, TypeOK
  <2>4. CASE Release(d, e)
    <3>1. SettleAs(d, e, "release")
      BY <2>4 DEF Release
    <3> QED BY <1>11, <2>0, <2>4, <3>1 DEF Release, SettleAs, Forget, TypeOK
  <2>5. CASE LeaseLost(d, e)
    BY <1>10, <2>5 DEF LeaseLost, Forget, TypeOK
  <2> QED BY <1>12, <2>1, <2>2, <2>3, <2>4, <2>5 DEF Settle
<1>13. ASSUME NEW d \in Dispatcher, NEW e \in Event, SettleFails(d, e) PROVE TypeOK'
  <2>1. Forget(d, e)
    BY <1>13 DEF SettleFails
  <2>2. faults' \in Nat
    BY <1>13 DEF SettleFails, TypeOK
  <2> QED BY <1>10, <1>13, <2>1, <2>2 DEF SettleFails, Forget, TypeOK
<1>14. ASSUME NEW d \in Dispatcher, MarginEnds(d) PROVE TypeOK'
  BY <1>14 DEF MarginEnds, TypeOK
<1>15. ASSUME NEW e \in Event, LeaseEnds(e) PROVE TypeOK'
  BY <1>15 DEF LeaseEnds, TypeOK
<1>16. ASSUME NEW e \in Event, BackoffEnds(e) PROVE TypeOK'
  BY <1>16 DEF BackoffEnds, TypeOK
<1>17. ASSUME NEW d \in Dispatcher, Shutdown(d) \/ Restart(d) PROVE TypeOK'
  <2>1. CASE Shutdown(d)
    BY <2>1 DEF Shutdown, TypeOK
  <2>2. CASE Restart(d)
    BY <2>2 DEF Restart, TypeOK
  <2> QED BY <1>17, <2>1, <2>2
<1>18. ASSUME NEW d \in Dispatcher, Crash(d) PROVE TypeOK'
  <2>1. [e \in Event |-> NoRun] \in [Event -> RunType]
    BY DEF NoRun, RunType
  <2> QED BY <1>18, <2>1 DEF Crash, TypeOK
<1>19. CASE UNCHANGED vars
  BY <1>19 DEF vars, TypeOK
<1> QED
  BY <1>1, <1>2, <1>3, <1>4, <1>5, <1>6, <1>7, <1>8, <1>9, <1>12, <1>13, <1>14, <1>15, <1>16,
     <1>17, <1>18, <1>19 DEF Next, Deliver

\* Spec keeps the type invariant, for every instance of the constants.
THEOREM TypeCorrect == Spec => []TypeOK
<1>1. Init => TypeOK
  BY SubsAssumption DEF Init, TypeOK, NoRun, RunType, Pairs
<1> QED BY <1>1, TypeStep, PTL DEF Spec

-----------------------------------------------------------------------------
(* The inductive invariant behind the safety theorems.                     *)

\* What is recorded as delivered was handled, in the table and in memory.
AppliedInv ==
    /\ \A e \in Event : \A s \in deliveredTo[e] : <<s, e>> \in applied
    /\ \A d \in Dispatcher, e \in Event : \A s \in run[d][e].delivered : <<s, e>> \in applied

\* What a dispatcher has to do was published, for a subscriber of the type.
WorkInv ==
    \A d \in Dispatcher :
        /\ \A e \in batch[d] \cup each[d] : status[e] # "absent"
        /\ \A s \in Subscriber, e \in Event :
            <<s, e>> \in todo[d] \cup again[d] \cup invoking[d] =>
                s \in SubsOf[e] /\ status[e] # "absent"

\* A live token is on a pending row; its holder's run started from the row.
HeldInv ==
    /\ \A e \in Event : token[e] # NoToken => status[e] = "pending"
    /\ \A d \in Dispatcher : \A e \in batch[d] : token[e] = d =>
        deliveredTo[e] \subseteq run[d][e].delivered /\ run[d][e].attempt = attempts[e]

\* A claim with no failure and no deferral has every subscriber delivered or
\* still ahead.
Ahead(d, s, e) ==
    <<s, e>> \in todo[d] \cup again[d] \cup invoking[d] \/ (s \notin BatchSub /\ e \in each[d])

CoverInv ==
    \A d \in Dispatcher : \A e \in batch[d] :
        ~run[d][e].failed /\ ~run[d][e].deferred =>
            \A s \in SubsOf[e] : s \in run[d][e].delivered \/ Ahead(d, s, e)

SafetyInv ==
    TypeOK /\ AppliedInv /\ WorkInv /\ HeldInv /\ CoverInv /\ DeliveredIsApplied

-----------------------------------------------------------------------------
(* What the actions do to a dispatcher's memory.                           *)

\* A run only grows while it is delivered, and only by what was handled.
Grows(d, e) ==
    /\ run'[d][e].attempt = run[d][e].attempt
    /\ run[d][e].delivered \subseteq run'[d][e].delivered
    /\ \A s \in run'[d][e].delivered \ run[d][e].delivered : <<s, e>> \in applied'
    /\ run[d][e].failed => run'[d][e].failed
    /\ run[d][e].deferred => run'[d][e].deferred

Delivering(d) ==
    \/ \E s \in BatchSub, t \in Tenant : DeliverBatch(d, s, t) \/ DeferBatch(d, s, t)
    \/ \E s \in Subscriber, e \in Event : Deliver(d, s, e)
    \/ \E e \in Event : StartEach(d, e) \/ DeferEach(d, e)

\* What Recorded changes in every claimRun.
LEMMA RecordedIs ==
    ASSUME TypeOK, NEW d \in Dispatcher, NEW s, NEW ok, NEW bad, NEW soft, NEW left,
           run' = Recorded(d, s, ok, bad, soft, left)
    PROVE  /\ \A x \in Dispatcher : x # d => run'[x] = run[x]
           /\ \A e \in Event :
                /\ run'[d][e].attempt = run[d][e].attempt
                /\ run'[d][e].delivered = IF e \in ok THEN run[d][e].delivered \cup {s}
                                                      ELSE run[d][e].delivered
                /\ run'[d][e].failed <=> (run[d][e].failed \/ e \in bad \cup soft)
                /\ run'[d][e].permanent <=> (run[d][e].permanent \/ e \in bad)
                /\ run'[d][e].deferred <=> run[d][e].deferred
<1> DEFINE R(e) == [run[d][e] EXCEPT
            !.delivered = IF e \in ok THEN @ \cup {s} ELSE @,
            !.failed    = @ \/ e \in bad \cup soft,
            !.permanent = @ \/ e \in bad]
<1>1. \A e \in Event : run[d][e] \in RunType
  BY DEF TypeOK
<1>2. run' = [run EXCEPT ![d] = [e \in Event |-> R(e)]]
  BY DEF Recorded
<1>3. ASSUME NEW e \in Event
      PROVE  /\ R(e).attempt = run[d][e].attempt
             /\ R(e).delivered = IF e \in ok THEN run[d][e].delivered \cup {s}
                                            ELSE run[d][e].delivered
             /\ R(e).failed <=> (run[d][e].failed \/ e \in bad \cup soft)
             /\ R(e).permanent <=> (run[d][e].permanent \/ e \in bad)
             /\ R(e).deferred <=> run[d][e].deferred
  <2>1. run[d][e] \in RunType
    BY <1>1
  <2> QED BY <2>1 DEF RunType
<1> HIDE DEF R
<1>4. /\ \A x \in Dispatcher : x # d => run'[x] = run[x]
      /\ \A e \in Event : run'[d][e] = R(e)
  BY <1>2 DEF TypeOK
<1> QED BY <1>3, <1>4, Zenon

\* A deferral changes nothing else of a claimRun.
LEMMA DeferredIs ==
    ASSUME NEW r \in RunType, NEW q, q = [r EXCEPT !.deferred = TRUE]
    PROVE  /\ q.attempt = r.attempt /\ q.delivered = r.delivered /\ q.deferred
           /\ q.failed <=> r.failed
           /\ q.permanent <=> r.permanent
BY DEF RunType

\* Invoked ends in a success that was handled, or in a failure.
LEMMA InvokedEffect ==
    ASSUME TypeOK, NEW d \in Dispatcher, NEW s \in Subscriber, NEW e \in Event,
           Invoked(d, s, e)
    PROVE  /\ \A x \in Dispatcher, y \in Event : Grows(x, y)
           /\ \A x \in Dispatcher, y \in Event : run'[x][y].deferred <=> run[x][y].deferred
           /\ s \in run'[d][e].delivered \/ run'[d][e].failed
           /\ applied' \in {applied, applied \cup {<<s, e>>}}
<1>1. \E ok, bad, soft :
        /\ run' = Recorded(d, s, ok, bad, soft, {})
        /\ applied' = applied \cup {<<s, y>> : y \in ok}
        /\ ok \in {{}, {e}} /\ e \in ok \cup bad \cup soft
  <2>1. CASE run' = Recorded(d, s, {e}, {}, {}, {}) /\ Handled(s, {e})
    <3>1. e \in {e} \cup {} \cup {}
      OBVIOUS
    <3> QED BY <2>1, <3>1 DEF Handled
  <2>2. CASE run' = Recorded(d, s, {}, {e}, {}, {}) /\ UNCHANGED applied
    <3>1. applied' = applied \cup {<<s, y>> : y \in {}} /\ e \in {} \cup {e} \cup {}
      BY <2>2
    <3> QED BY <2>2, <3>1
  <2>3. CASE run' = Recorded(d, s, {}, {}, {e}, {}) /\ UNCHANGED applied
    <3>1. applied' = applied \cup {<<s, y>> : y \in {}} /\ e \in {} \cup {} \cup {e}
      BY <2>3
    <3> QED BY <2>3, <3>1
  <2> QED BY <2>1, <2>2, <2>3 DEF Invoked
<1> PICK ok, bad, soft :
        /\ run' = Recorded(d, s, ok, bad, soft, {})
        /\ applied' = applied \cup {<<s, y>> : y \in ok}
        /\ ok \in {{}, {e}} /\ e \in ok \cup bad \cup soft
  BY <1>1
<1>2. \A x \in Dispatcher, y \in Event : x = d \/ run'[x] = run[x]
  BY RecordedIs
<1>3. \A y \in Event :
        /\ run'[d][y].attempt = run[d][y].attempt
        /\ run'[d][y].delivered = IF y \in ok THEN run[d][y].delivered \cup {s}
                                               ELSE run[d][y].delivered
        /\ run'[d][y].failed <=> (run[d][y].failed \/ y \in bad \cup soft)
        /\ run'[d][y].deferred <=> run[d][y].deferred
  <2>1. run' = Recorded(d, s, ok, bad, soft, {})
    OBVIOUS
  <2> QED BY ONLY TypeOK, <2>1, RecordedIs
<1>6. ASSUME NEW y \in Event PROVE Grows(d, y)
  <2>1. \A x \in run'[d][y].delivered \ run[d][y].delivered : <<x, y>> \in applied'
    <3>1. CASE y \notin ok
      BY <1>3, <3>1
    <3>2. CASE y \in ok
      <4>1. <<s, y>> \in applied'
        BY <3>2
      <4>2. run'[d][y].delivered \ run[d][y].delivered \subseteq {s}
        BY <1>3, <3>2
      <4> QED BY <4>1, <4>2
    <3> QED BY <3>1, <3>2
  <2>2. run[d][y].delivered \subseteq run'[d][y].delivered
    BY <1>3
  <2> QED BY <1>3, <2>1, <2>2 DEF Grows
<1>7. s \in run'[d][e].delivered \/ run'[d][e].failed
  BY <1>3
<1>4. ASSUME NEW x \in Dispatcher, NEW y \in Event, run'[x] = run[x]
      PROVE  Grows(x, y) /\ (run'[x][y].deferred <=> run[x][y].deferred)
  BY <1>4 DEF Grows
<1>5. applied' \in {applied, applied \cup {<<s, e>>}}
  OBVIOUS
<1> QED BY <1>2, <1>3, <1>4, <1>5, <1>6, <1>7

\* Every step of a delivery grows the runs and keeps the table.
LEMMA DeliveringEffect ==
    ASSUME TypeOK, NEW d \in Dispatcher, Delivering(d)
    PROVE  /\ \A x \in Dispatcher, y \in Event : Grows(x, y)
           /\ applied \subseteq applied'
           /\ UNCHANGED <<rows, batch>>
<1>1. ASSUME NEW s \in BatchSub, NEW t \in Tenant, DeliverBatch(d, s, t)
      PROVE  \A x \in Dispatcher, y \in Event : Grows(x, y)
  <2>1. PICK ok, bad, left :
          /\ run' = Recorded(d, s, ok, bad, {}, left)
          /\ applied' = applied \cup {<<s, e>> : e \in ok}
    BY <1>1 DEF DeliverBatch, Handled
  <2>2. \A x \in Dispatcher, y \in Event : x = d \/ run'[x] = run[x]
    BY <2>1, RecordedIs
  <2>3. ASSUME NEW y \in Event PROVE Grows(d, y)
    <3>1. /\ run'[d][y].attempt = run[d][y].attempt
          /\ run'[d][y].delivered = IF y \in ok THEN run[d][y].delivered \cup {s}
                                                 ELSE run[d][y].delivered
          /\ run[d][y].failed => run'[d][y].failed
          /\ run[d][y].deferred => run'[d][y].deferred
      BY <2>1, RecordedIs
    <3> QED BY <2>1, <3>1 DEF Grows
  <2>4. ASSUME NEW x \in Dispatcher, NEW y \in Event, run'[x] = run[x] PROVE Grows(x, y)
    BY <2>4 DEF Grows
  <2> QED BY <2>2, <2>3, <2>4
<1>2. ASSUME NEW s \in BatchSub, NEW t \in Tenant, DeferBatch(d, s, t)
      PROVE  \A x \in Dispatcher, y \in Event : Grows(x, y)
  <2>1. \A x \in Dispatcher, y \in Event :
          run'[x][y] = run[x][y] \/ run'[x][y] = [run[x][y] EXCEPT !.deferred = TRUE]
    BY <1>2 DEF DeferBatch, TypeOK
  <2>2. \A x \in Dispatcher, y \in Event : run[x][y] \in RunType
    BY DEF TypeOK
  <2> SUFFICES ASSUME NEW x \in Dispatcher, NEW y \in Event PROVE Grows(x, y)
    OBVIOUS
  <2>3. CASE run'[x][y] = run[x][y]
    BY <2>3 DEF Grows
  <2>4. CASE run'[x][y] = [run[x][y] EXCEPT !.deferred = TRUE]
    BY <2>2, <2>4, DeferredIs DEF Grows
  <2> QED BY <2>1, <2>3, <2>4
<1>3. ASSUME NEW e \in Event, run' = [run EXCEPT ![d][e].deferred = TRUE]
      PROVE  \A x \in Dispatcher, y \in Event : Grows(x, y)
  <2>1. \A x \in Dispatcher, y \in Event :
          run'[x][y] = run[x][y] \/ run'[x][y] = [run[x][y] EXCEPT !.deferred = TRUE]
    BY <1>3 DEF TypeOK
  <2>2. \A x \in Dispatcher, y \in Event : run[x][y] \in RunType
    BY DEF TypeOK
  <2> SUFFICES ASSUME NEW x \in Dispatcher, NEW y \in Event PROVE Grows(x, y)
    OBVIOUS
  <2>3. CASE run'[x][y] = run[x][y]
    BY <2>3 DEF Grows
  <2>4. CASE run'[x][y] = [run[x][y] EXCEPT !.deferred = TRUE]
    BY <2>2, <2>4, DeferredIs DEF Grows
  <2> QED BY <2>1, <2>3, <2>4
<1>4. ASSUME NEW s \in Subscriber, NEW e \in Event, Deliver(d, s, e)
      PROVE  \A x \in Dispatcher, y \in Event : Grows(x, y)
  BY <1>3, <1>4, InvokedEffect DEF Deliver, Redeliver, DeferRedelivery, Invoke
<1>5. ASSUME NEW e \in Event, StartEach(d, e) \/ DeferEach(d, e)
      PROVE  \A x \in Dispatcher, y \in Event : Grows(x, y)
  <2>1. CASE StartEach(d, e)
    BY <2>1 DEF StartEach, Grows
  <2>2. CASE DeferEach(d, e)
    BY <1>3, <2>2 DEF DeferEach
  <2> QED BY <1>5, <2>1, <2>2
<1>6. \A x \in Dispatcher, y \in Event : Grows(x, y)
  BY <1>1, <1>2, <1>4, <1>5 DEF Delivering
<1>7. applied \subseteq applied' /\ UNCHANGED <<rows, batch>>
  <2>1. CASE \E s \in BatchSub, t \in Tenant : DeliverBatch(d, s, t) \/ DeferBatch(d, s, t)
    <3>1. ASSUME NEW s \in BatchSub, NEW t \in Tenant, DeliverBatch(d, s, t)
          PROVE  applied \subseteq applied' /\ UNCHANGED <<rows, batch>>
      BY <3>1 DEF DeliverBatch, Handled, rows
    <3>2. ASSUME NEW s \in BatchSub, NEW t \in Tenant, DeferBatch(d, s, t)
          PROVE  applied \subseteq applied' /\ UNCHANGED <<rows, batch>>
      BY <3>2 DEF DeferBatch, history, rows
    <3> QED BY <2>1, <3>1, <3>2
  <2>2. ASSUME NEW s \in Subscriber, NEW e \in Event, Invoked(d, s, e)
        PROVE  applied \subseteq applied' /\ UNCHANGED <<rows, batch>>
    BY <2>2 DEF Invoked, Handled, rows
  <2>3. CASE \E s \in Subscriber, e \in Event : Deliver(d, s, e)
    BY <2>2, <2>3 DEF Deliver, Redeliver, DeferRedelivery, Invoke, history, rows
  <2>4. CASE \E e \in Event : StartEach(d, e) \/ DeferEach(d, e)
    BY <2>4 DEF StartEach, DeferEach, history, rows
  <2> QED BY <2>1, <2>3, <2>4 DEF Delivering
<1> QED BY <1>6, <1>7

Ending(d) ==
    \/ \E e \in Event : Settle(d, e) \/ SettleFails(d, e)
    \/ Crash(d)

\* A settlement or a crash only forgets.
LEMMA EndingEffect ==
    ASSUME TypeOK, NEW d \in Dispatcher, Ending(d)
    PROVE  /\ \A x \in Dispatcher :
                /\ batch'[x] \subseteq batch[x] /\ todo'[x] \subseteq todo[x]
                /\ again'[x] \subseteq again[x] /\ each'[x] \subseteq each[x]
                /\ invoking'[x] \subseteq invoking[x]
           /\ \A x \in Dispatcher : \A e \in batch'[x] :
                /\ run'[x][e] = run[x][e]
                /\ todo'[x] = todo[x] /\ again'[x] = again[x]
                /\ each'[x] = each[x] /\ invoking'[x] = invoking[x]
           /\ \A x \in Dispatcher, e \in Event : run'[x][e].delivered \subseteq run[x][e].delivered
           /\ applied' = applied
<1>1. \A x \in Dispatcher, e \in Event : run[x][e] \in RunType
  BY DEF TypeOK
<1>2. NoRun.delivered = {}
  BY DEF NoRun
<1>3. ASSUME NEW e \in Event, Forget(d, e)
      PROVE  /\ \A x \in Dispatcher : batch'[x] \subseteq batch[x]
             /\ \A x \in Dispatcher : \A y \in batch'[x] : run'[x][y] = run[x][y]
             /\ \A x \in Dispatcher, y \in Event : run'[x][y].delivered \subseteq run[x][y].delivered
             /\ UNCHANGED work
  <2>1. /\ batch' = [batch EXCEPT ![d] = @ \ {e}]
        /\ UNCHANGED work
    BY <1>3 DEF Forget
  <2>2. \A x \in Dispatcher, y \in Event : run'[x][y] = IF x = d /\ y = e THEN NoRun ELSE run[x][y]
    BY <1>3 DEF Forget, TypeOK
  <2> QED BY <1>2, <2>1, <2>2 DEF TypeOK
<1>4. ASSUME NEW e \in Event, Settle(d, e) \/ SettleFails(d, e)
      PROVE  Forget(d, e) /\ applied' = applied
  BY <1>4 DEF Settle, MarkDelivered, Reschedule, DeadLetter, Release, SettleAs, LeaseLost,
              SettleFails, history
<1>5. CASE \E e \in Event : Settle(d, e) \/ SettleFails(d, e)
  <2>1. PICK e \in Event : Forget(d, e) /\ applied' = applied
    BY <1>4, <1>5
  <2> QED BY <1>3, <2>1 DEF work
<1>6. CASE Crash(d)
  <2>1. \A x \in Dispatcher, y \in Event : run'[x][y] = IF x = d THEN NoRun ELSE run[x][y]
    BY <1>6 DEF Crash, TypeOK
  <2> QED BY <1>2, <1>6, <2>1 DEF Crash, TypeOK
<1> QED BY <1>5, <1>6 DEF Ending

-----------------------------------------------------------------------------
(* The steps of the inductive invariant, one lemma per conjunct.           *)

\* The steps that deliver and end no claim.
Quiet ==
    \/ \E e \in Event : Publish(e) \/ LeaseEnds(e) \/ BackoffEnds(e)
    \/ \E d \in Dispatcher : MarginEnds(d) \/ Shutdown(d) \/ Restart(d)
    \/ UNCHANGED vars

\* Quiet steps touch no claim's progress.
LEMMA QuietEffect ==
    ASSUME Quiet
    PROVE  UNCHANGED <<attempts, token, deliveredTo, batch, run, work, applied, charges, doomed>>
BY DEF Quiet, Publish, LeaseEnds, BackoffEnds, MarginEnds, Shutdown, Restart, vars, rows, memory,
       history

\* Every step is a quiet one, a claim, part of a delivery or an ending.
LEMMA StepCases ==
    ASSUME [Next]_vars
    PROVE  \/ Quiet
           \/ \E d \in Dispatcher, es \in SUBSET Event : Claim(d, es)
           \/ \E d \in Dispatcher : Delivering(d) \/ Ending(d)
BY DEF Next, Quiet, Delivering, Ending

\* A settlement writes the run's successes, or nothing.
LEMMA DeliveredToStep ==
    ASSUME TypeOK, NEW d \in Dispatcher, Ending(d), NEW e \in Event
    PROVE  \/ deliveredTo'[e] = deliveredTo[e]
           \/ /\ token[e] = d /\ token'[e] = NoToken /\ e \in batch[d]
              /\ deliveredTo'[e] = run[d][e].delivered
<1>1. ASSUME NEW x \in Event, NEW o, SettleAs(d, x, o)
      PROVE  \/ deliveredTo'[e] = deliveredTo[e]
             \/ /\ token[e] = d /\ token'[e] = NoToken /\ e \in batch[d]
                /\ deliveredTo'[e] = run[d][e].delivered
  BY <1>1 DEF SettleAs, Fenced, DeliveredToOf, TypeOK
<1>2. ASSUME NEW x \in Event, LeaseLost(d, x) \/ SettleFails(d, x) \/ Crash(d)
      PROVE  deliveredTo'[e] = deliveredTo[e]
  BY <1>2 DEF LeaseLost, SettleFails, Crash, rows
<1> QED BY <1>1, <1>2 DEF Ending, Settle, MarkDelivered, Reschedule, DeadLetter, Release

\* Every step keeps AppliedInv.
LEMMA AppliedStep ==
    ASSUME TypeOK, AppliedInv, [Next]_vars
    PROVE  AppliedInv'
<1>1. CASE Quiet
  BY <1>1, QuietEffect DEF AppliedInv
<1>2. ASSUME NEW d \in Dispatcher, NEW es \in SUBSET Event, Claim(d, es) PROVE AppliedInv'
  <2>1. \A x \in Dispatcher, e \in Event :
          run'[x][e] = run[x][e] \/ run'[x][e].delivered \in {deliveredTo[e], {}}
    BY <1>2 DEF Claim, NewRun, NoRun, TypeOK
  <2>2. UNCHANGED <<deliveredTo, applied>>
    BY <1>2 DEF Claim
  <2> QED BY <2>1, <2>2 DEF AppliedInv
<1>3. ASSUME NEW d \in Dispatcher, Delivering(d) PROVE AppliedInv'
  <2>1. /\ \A x \in Dispatcher, e \in Event : Grows(x, e)
        /\ applied \subseteq applied' /\ deliveredTo' = deliveredTo
    BY <1>3, DeliveringEffect DEF rows
  <2> QED BY <2>1 DEF AppliedInv, Grows
<1>4. ASSUME NEW d \in Dispatcher, Ending(d) PROVE AppliedInv'
  <2>1. /\ \A x \in Dispatcher, e \in Event : run'[x][e].delivered \subseteq run[x][e].delivered
        /\ applied' = applied
    BY <1>4, EndingEffect
  <2>2. \A e \in Event : deliveredTo'[e] = deliveredTo[e] \/ deliveredTo'[e] = run[d][e].delivered
    BY <1>4, DeliveredToStep
  <2> QED BY <2>1, <2>2 DEF AppliedInv
<1> QED BY <1>1, <1>2, <1>3, <1>4, StepCases

\* Every step keeps HeldInv.
LEMMA HeldStep ==
    ASSUME TypeOK, HeldInv, [Next]_vars
    PROVE  HeldInv'
<1> USE TokenAssumption
<1>1. CASE Quiet
  <2>1. \A e \in Event : status[e] = "pending" => status'[e] = "pending"
    BY <1>1 DEF Quiet, Publish, LeaseEnds, BackoffEnds, MarginEnds, Shutdown, Restart, vars,
                rows, TypeOK
  <2> QED BY <1>1, <2>1, QuietEffect DEF HeldInv
<1>2. ASSUME NEW d \in Dispatcher, NEW es \in SUBSET Event, Claim(d, es) PROVE HeldInv'
  <2>1. \A e \in Event : token'[e] = IF e \in es THEN d ELSE token[e]
    BY <1>2 DEF Claim
  <2>2. \A e \in es : status'[e] = "pending"
    BY <1>2 DEF Claim, Claimable
  <2>3. ASSUME NEW x \in Dispatcher, NEW e \in batch'[x], token'[e] = x
        PROVE  deliveredTo'[e] \subseteq run'[x][e].delivered /\ run'[x][e].attempt = attempts'[e]
    <3>1. e \in Event /\ deliveredTo' = deliveredTo
      BY <1>2 DEF Claim, TypeOK
    <3>2. CASE x = d
      BY <1>2, <3>1, <3>2 DEF Claim, NewRun, TypeOK
    <3>3. CASE x # d
      <4>1. e \notin es /\ token[e] = x
        BY <2>1, <2>3, <3>1, <3>3
      <4>2. e \in batch[x] /\ run'[x] = run[x] /\ attempts'[e] = attempts[e]
        BY <1>2, <3>1, <3>3, <4>1 DEF Claim, TypeOK
      <4> QED BY <3>1, <4>1, <4>2 DEF HeldInv
    <3> QED BY <3>2, <3>3
  <2> QED BY <1>2, <2>1, <2>2, <2>3 DEF HeldInv, Claim
<1>3. ASSUME NEW d \in Dispatcher, Delivering(d) PROVE HeldInv'
  <2>1. /\ \A x \in Dispatcher, e \in Event : Grows(x, e)
        /\ UNCHANGED <<rows, batch>>
    BY <1>3, DeliveringEffect
  <2>2. \A x \in Dispatcher : batch[x] \subseteq Event
    BY DEF TypeOK
  <2> QED BY <2>1, <2>2 DEF HeldInv, Grows, rows
<1>4. ASSUME NEW d \in Dispatcher, Ending(d) PROVE HeldInv'
  <2>1. ASSUME NEW e \in Event
        PROVE  \/ token'[e] = NoToken
               \/ /\ token'[e] = token[e] /\ status'[e] = status[e]
                  /\ attempts'[e] = attempts[e] /\ deliveredTo'[e] = deliveredTo[e]
    <3>1. ASSUME NEW x \in Event, Settle(d, x) \/ SettleFails(d, x)
          PROVE  \/ token'[e] = NoToken
                 \/ /\ token'[e] = token[e] /\ status'[e] = status[e]
                    /\ attempts'[e] = attempts[e] /\ deliveredTo'[e] = deliveredTo[e]
      BY <3>1 DEF Settle, MarkDelivered, Reschedule, DeadLetter, Release, SettleAs, LeaseLost,
                  SettleFails, rows, TypeOK
    <3> QED BY <1>4, <3>1 DEF Ending, Crash, rows
  <2>2. \A x \in Dispatcher : \A e \in batch'[x] : e \in batch[x] /\ run'[x][e] = run[x][e]
    BY <1>4, EndingEffect
  <2>3. \A x \in Dispatcher : batch[x] \subseteq Event
    BY DEF TypeOK
  <2> QED BY <2>1, <2>2, <2>3 DEF HeldInv
<1> QED BY <1>1, <1>2, <1>3, <1>4, StepCases

\* A published event stays published.
LEMMA PublishedStays ==
    ASSUME TypeOK, [Next]_vars, NEW e \in Event, status[e] # "absent"
    PROVE  status'[e] # "absent"
<1>1. ASSUME NEW d \in Dispatcher, NEW x \in Event, Settle(d, x) \/ SettleFails(d, x)
      PROVE  status'[e] # "absent"
  BY <1>1 DEF Settle, MarkDelivered, Reschedule, DeadLetter, Release, LeaseLost, SettleFails, rows,
              TypeOK
<1>2. CASE Quiet
  BY <1>2 DEF Quiet, Publish, LeaseEnds, BackoffEnds, MarginEnds, Shutdown, Restart, vars, rows,
              TypeOK
<1>3. ASSUME NEW d \in Dispatcher, NEW es \in SUBSET Event, Claim(d, es) PROVE status' = status
  BY <1>3 DEF Claim
<1>4. ASSUME NEW d \in Dispatcher, Delivering(d) PROVE status' = status
  BY <1>4, DeliveringEffect DEF rows
<1>5. ASSUME NEW d \in Dispatcher, Crash(d) PROVE status' = status
  BY <1>5 DEF Crash, rows
<1> QED BY <1>1, <1>2, <1>3, <1>4, <1>5, StepCases DEF Ending

\* Every step keeps WorkInv.
LEMMA WorkStep ==
    ASSUME TypeOK, WorkInv, [Next]_vars
    PROVE  WorkInv'
<1> USE SubsAssumption
<1> DEFINE Unchanged(x) == UNCHANGED <<batch[x], todo[x], again[x], each[x], invoking[x]>>
<1>0. ASSUME NEW x \in Dispatcher,
             batch'[x] \subseteq batch[x], each'[x] \subseteq each[x],
             todo'[x] \cup again'[x] \cup invoking'[x] \subseteq todo[x] \cup again[x] \cup invoking[x]
      PROVE  /\ \A e \in batch'[x] \cup each'[x] : status'[e] # "absent"
             /\ \A s \in Subscriber, e \in Event :
                  <<s, e>> \in todo'[x] \cup again'[x] \cup invoking'[x] =>
                    s \in SubsOf[e] /\ status'[e] # "absent"
  <2>1. batch[x] \cup each[x] \subseteq Event
    BY DEF TypeOK
  <2> QED BY <1>0, <2>1, PublishedStays DEF WorkInv
<1>1. CASE Quiet
  BY <1>0, <1>1, QuietEffect DEF WorkInv, work
<1>2. ASSUME NEW d \in Dispatcher, NEW es \in SUBSET Event, Claim(d, es) PROVE WorkInv'
  <2>1. \A e \in es : status'[e] # "absent"
    BY <1>2 DEF Claim, Claimable
  <2>2. \A x \in Dispatcher : x # d =>
          /\ batch'[x] = batch[x] /\ each'[x] = each[x] /\ todo'[x] = todo[x]
          /\ again'[x] = again[x] /\ invoking'[x] = invoking[x]
    BY <1>2 DEF Claim, TypeOK
  <2>3. \A x \in Dispatcher : x # d =>
          /\ \A e \in batch'[x] \cup each'[x] : status'[e] # "absent"
          /\ \A s \in Subscriber, e \in Event :
              <<s, e>> \in todo'[x] \cup again'[x] \cup invoking'[x] =>
                s \in SubsOf[e] /\ status'[e] # "absent"
    BY <1>0, <2>2
  <2>4. /\ batch'[d] = es /\ each'[d] = es
        /\ again'[d] = again[d] /\ invoking'[d] = invoking[d]
        /\ \A s \in Subscriber, e \in Event : <<s, e>> \in todo'[d] => s \in SubsOf[e] /\ e \in es
    BY <1>2 DEF Claim, TypeOK
  <2>5. \A e \in Event : status[e] # "absent" => status'[e] # "absent"
    BY PublishedStays
  <2>6. /\ \A e \in batch'[d] \cup each'[d] : status'[e] # "absent"
        /\ \A s \in Subscriber, e \in Event :
              <<s, e>> \in todo'[d] \cup again'[d] \cup invoking'[d] =>
                s \in SubsOf[e] /\ status'[e] # "absent"
    BY <2>1, <2>4, <2>5 DEF WorkInv
  <2> QED BY <2>3, <2>6 DEF WorkInv
<1>3. ASSUME NEW d \in Dispatcher, Delivering(d) PROVE WorkInv'
  <2>0. status' = status /\ batch' = batch
    BY <1>3, DeliveringEffect DEF rows
  <2>1. ASSUME NEW s \in BatchSub, NEW t \in Tenant, DeliverBatch(d, s, t) PROVE WorkInv'
    <3>1. /\ UNCHANGED <<each, invoking>>
          /\ \A x \in Dispatcher : todo'[x] \subseteq todo[x]
          /\ \A x \in Dispatcher : x # d => again'[x] = again[x]
          /\ again'[d] \subseteq todo[d]
      BY <2>1 DEF DeliverBatch, Group, TypeOK
    <3> QED BY <1>0, <2>0, <3>1 DEF WorkInv
  <2>2. ASSUME NEW s \in BatchSub, NEW t \in Tenant, DeferBatch(d, s, t) PROVE WorkInv'
    <3>1. /\ UNCHANGED <<again, each, invoking>>
          /\ \A x \in Dispatcher : todo'[x] \subseteq todo[x]
      BY <2>2 DEF DeferBatch, TypeOK
    <3> QED BY <1>0, <2>0, <3>1 DEF WorkInv
  <2>3. ASSUME NEW s \in Subscriber, NEW e \in Event, Deliver(d, s, e) PROVE WorkInv'
    <3>1. /\ UNCHANGED <<each, todo>>
          /\ \A x \in Dispatcher : again'[x] \subseteq again[x] /\ invoking'[x] \subseteq invoking[x]
      BY <2>3 DEF Deliver, Redeliver, DeferRedelivery, Invoke, TypeOK
    <3> QED BY <1>0, <2>0, <3>1 DEF WorkInv
  <2>4. ASSUME NEW e \in Event, StartEach(d, e) PROVE WorkInv'
    <3>1. /\ UNCHANGED <<todo, again>>
          /\ \A x \in Dispatcher : each'[x] \subseteq each[x]
          /\ \A x \in Dispatcher : x # d => invoking'[x] = invoking[x]
          /\ invoking'[d] = PendingSubs(d, e) \X {e}
          /\ e \in each[d]
      BY <2>4 DEF StartEach, ReachEach, TypeOK
    <3>2. \A s \in Subscriber, y \in Event : <<s, y>> \in invoking'[d] =>
            s \in SubsOf[y] /\ status'[y] # "absent"
      BY <2>0, <3>1 DEF PendingSubs, WorkInv
    <3>3. \A x \in Dispatcher : x # d =>
            todo'[x] \cup again'[x] \cup invoking'[x] \subseteq todo[x] \cup again[x] \cup invoking[x]
      BY <3>1
    <3> QED BY <2>0, <3>1, <3>2, <3>3 DEF WorkInv
  <2>5. ASSUME NEW e \in Event, DeferEach(d, e) PROVE WorkInv'
    <3>1. /\ UNCHANGED <<todo, again, invoking>>
          /\ \A x \in Dispatcher : each'[x] \subseteq each[x]
      BY <2>5 DEF DeferEach, ReachEach, TypeOK
    <3> QED BY <1>0, <2>0, <3>1 DEF WorkInv
  <2> QED BY <1>3, <2>1, <2>2, <2>3, <2>4, <2>5 DEF Delivering
<1>4. ASSUME NEW d \in Dispatcher, Ending(d) PROVE WorkInv'
  <2>1. \A x \in Dispatcher :
          /\ batch'[x] \subseteq batch[x] /\ todo'[x] \subseteq todo[x]
          /\ again'[x] \subseteq again[x] /\ each'[x] \subseteq each[x]
          /\ invoking'[x] \subseteq invoking[x]
    BY <1>4, EndingEffect
  <2> QED BY <1>0, <2>1 DEF WorkInv
<1> QED BY <1>1, <1>2, <1>3, <1>4, StepCases

\* What is ahead stays ahead until it is delivered, failed or deferred.
LEMMA AheadStep ==
    ASSUME TypeOK, NEW d \in Dispatcher, Delivering(d),
           NEW e \in Event, NEW s \in SubsOf[e], Ahead(d, s, e)
    PROVE  \/ Ahead(d, s, e)' \/ s \in run'[d][e].delivered
           \/ run'[d][e].failed \/ run'[d][e].deferred
<1> USE SubsAssumption
<1>0. s \in Subscriber
  OBVIOUS
<1>1. ASSUME NEW x \in BatchSub, NEW t \in Tenant, DeliverBatch(d, x, t)
      PROVE  \/ Ahead(d, s, e)' \/ s \in run'[d][e].delivered \/ run'[d][e].failed
  <2>1. PICK ok, bad, left :
          /\ run' = Recorded(d, x, ok, bad, {}, left)
          /\ left = Group(d, x, t) \ (ok \cup bad)
          /\ again' = [again EXCEPT ![d] = {x} \X left]
    BY <1>1 DEF DeliverBatch
  <2>2. /\ again[d] = {} /\ UNCHANGED <<each, invoking>>
        /\ todo'[d] = todo[d] \ ({x} \X Group(d, x, t))
    BY <1>1 DEF DeliverBatch, TypeOK
  <2>3. CASE <<s, e>> \in todo[d] /\ x = s /\ e \in Group(d, x, t)
    <3>0. /\ e \in ok => x \in run'[d][e].delivered
          /\ e \in bad => run'[d][e].failed
      <4>1. run' = Recorded(d, x, ok, bad, {}, left)
        BY <2>1
      <4>2. \A y \in Event :
              /\ run'[d][y].delivered = IF y \in ok THEN run[d][y].delivered \cup {x}
                                                     ELSE run[d][y].delivered
              /\ run'[d][y].failed <=> (run[d][y].failed \/ y \in bad \cup {})
        BY <4>1, RecordedIs
      <4> QED BY <4>2
    <3>1. CASE e \in left
      BY <2>1, <2>3, <3>1 DEF Ahead, TypeOK
    <3>2. CASE e \in ok
      BY <2>3, <3>0, <3>2
    <3>3. CASE e \in bad
      BY <3>0, <3>3
    <3> QED BY <2>1, <2>3, <3>1, <3>2, <3>3
  <2> QED BY <2>2, <2>3 DEF Ahead
<1>2. ASSUME NEW x \in BatchSub, NEW t \in Tenant, DeferBatch(d, x, t)
      PROVE  Ahead(d, s, e)' \/ run'[d][e].deferred
  <2>1. CASE x = s /\ e \in Group(d, x, t)
    <3>1. run'[d][e] = [run[d][e] EXCEPT !.deferred = TRUE] /\ run[d][e] \in RunType
      BY <1>2, <2>1 DEF DeferBatch, TypeOK
    <3> QED BY <3>1, DeferredIs
  <2>2. CASE ~(x = s /\ e \in Group(d, x, t))
    <3>1. /\ UNCHANGED <<again, each, invoking>>
          /\ todo'[d] = todo[d] \ ({x} \X Group(d, x, t))
      BY <1>2 DEF DeferBatch, TypeOK
    <3> QED BY <2>2, <3>1 DEF Ahead
  <2> QED BY <2>1, <2>2
<1>3. ASSUME NEW x \in Subscriber, NEW y \in Event, Deliver(d, x, y)
      PROVE  \/ Ahead(d, s, e)' \/ s \in run'[d][e].delivered
             \/ run'[d][e].failed \/ run'[d][e].deferred
  <2>1. CASE x = s /\ y = e
    <3>1. CASE DeferRedelivery(d, x, y)
      <4>1. run'[d][e] = [run[d][e] EXCEPT !.deferred = TRUE] /\ run[d][e] \in RunType
        BY <2>1, <3>1 DEF DeferRedelivery, TypeOK
      <4> QED BY <4>1, DeferredIs
    <3>2. CASE Invoked(d, x, y)
      BY <2>1, <3>2, InvokedEffect
    <3> QED BY <1>3, <3>1, <3>2 DEF Deliver, Redeliver, Invoke
  <2>2. CASE ~(x = s /\ y = e)
    <3>1. /\ UNCHANGED <<todo, each>>
          /\ again[d] \ {<<x, y>>} \subseteq again'[d]
          /\ invoking[d] \ {<<x, y>>} \subseteq invoking'[d]
      BY <1>3 DEF Deliver, Redeliver, DeferRedelivery, Invoke, TypeOK
    <3> QED BY <2>2, <3>1 DEF Ahead
  <2> QED BY <2>1, <2>2
<1>4. ASSUME NEW y \in Event, StartEach(d, y)
      PROVE  Ahead(d, s, e)' \/ s \in run'[d][e].delivered
  <2>1. /\ UNCHANGED <<todo, again, run>> /\ invoking[d] = {}
        /\ invoking'[d] = PendingSubs(d, y) \X {y}
        /\ each'[d] = each[d] \ {y}
    BY <1>4 DEF StartEach, ReachEach, TypeOK
  <2> QED BY <2>1 DEF Ahead, PendingSubs
<1>5. ASSUME NEW y \in Event, DeferEach(d, y)
      PROVE  Ahead(d, s, e)' \/ run'[d][e].deferred
  <2>1. CASE y = e
    <3>1. run'[d][e] = [run[d][e] EXCEPT !.deferred = TRUE] /\ run[d][e] \in RunType
      BY <1>5, <2>1 DEF DeferEach, TypeOK
    <3> QED BY <3>1, DeferredIs
  <2>2. CASE y # e
    BY <1>5, <2>2 DEF DeferEach, ReachEach, Ahead, TypeOK
  <2> QED BY <2>1, <2>2
<1> QED BY <1>1, <1>2, <1>3, <1>4, <1>5 DEF Delivering

\* The work of a dispatcher is its own.
LEMMA OthersKeepWork ==
    ASSUME TypeOK, NEW d \in Dispatcher, Delivering(d), NEW x \in Dispatcher, x # d
    PROVE  /\ todo'[x] = todo[x] /\ again'[x] = again[x]
           /\ each'[x] = each[x] /\ invoking'[x] = invoking[x]
<1>1. CASE \E s \in BatchSub, t \in Tenant : DeliverBatch(d, s, t) \/ DeferBatch(d, s, t)
  <2>1. ASSUME NEW s \in BatchSub, NEW t \in Tenant, DeliverBatch(d, s, t)
        PROVE  /\ todo'[x] = todo[x] /\ again'[x] = again[x]
               /\ each'[x] = each[x] /\ invoking'[x] = invoking[x]
    BY <2>1 DEF DeliverBatch, TypeOK
  <2>2. ASSUME NEW s \in BatchSub, NEW t \in Tenant, DeferBatch(d, s, t)
        PROVE  /\ todo'[x] = todo[x] /\ again'[x] = again[x]
               /\ each'[x] = each[x] /\ invoking'[x] = invoking[x]
    BY <2>2 DEF DeferBatch, TypeOK
  <2> QED BY <1>1, <2>1, <2>2
<1>2. CASE \E s \in Subscriber, e \in Event : Deliver(d, s, e)
  BY <1>2 DEF Deliver, Redeliver, DeferRedelivery, Invoke, TypeOK
<1>3. CASE \E e \in Event : StartEach(d, e) \/ DeferEach(d, e)
  BY <1>3 DEF StartEach, DeferEach, ReachEach, TypeOK
<1> QED BY <1>1, <1>2, <1>3 DEF Delivering

\* Every step keeps CoverInv.
LEMMA CoverStep ==
    ASSUME TypeOK, CoverInv, [Next]_vars
    PROVE  CoverInv'
<1> USE SubsAssumption
<1>1. CASE Quiet
  BY <1>1, QuietEffect DEF CoverInv, Ahead, work
<1>2. ASSUME NEW d \in Dispatcher, NEW es \in SUBSET Event, Claim(d, es) PROVE CoverInv'
  <2> SUFFICES ASSUME NEW x \in Dispatcher, NEW e \in batch'[x], NEW s \in SubsOf[e],
                      ~run'[x][e].failed, ~run'[x][e].deferred
               PROVE  s \in run'[x][e].delivered \/ Ahead(x, s, e)'
    BY DEF CoverInv
  <2>1. CASE x = d
    <3>1. /\ e \in es /\ each'[d] = es
          /\ todo'[d] = {p \in BatchSub \X es : p[1] \in SubsOf[p[2]] \ deliveredTo[p[2]]}
          /\ run'[d][e] = NewRun(e)
      BY <1>2, <2>1 DEF Claim, TypeOK
    <3>2. run'[d][e].delivered = deliveredTo[e]
      BY <3>1 DEF NewRun
    <3>3. s \in BatchSub /\ s \notin deliveredTo[e] => <<s, e>> \in todo'[d]
      BY <3>1
    <3> QED BY <2>1, <3>1, <3>2, <3>3 DEF Ahead
  <2>2. CASE x # d
    <3>1. /\ batch'[x] = batch[x] /\ run'[x] = run[x] /\ todo'[x] = todo[x]
          /\ again'[x] = again[x] /\ each'[x] = each[x] /\ invoking'[x] = invoking[x]
      BY <1>2, <2>2 DEF Claim, TypeOK
    <3> QED BY <3>1 DEF CoverInv, Ahead
  <2> QED BY <2>1, <2>2
<1>3. ASSUME NEW d \in Dispatcher, Delivering(d) PROVE CoverInv'
  <2> SUFFICES ASSUME NEW x \in Dispatcher, NEW e \in batch'[x], NEW s \in SubsOf[e],
                      ~run'[x][e].failed, ~run'[x][e].deferred
               PROVE  s \in run'[x][e].delivered \/ Ahead(x, s, e)'
    BY DEF CoverInv
  <2>1. e \in batch[x] /\ e \in Event /\ Grows(x, e)
    BY <1>3, DeliveringEffect DEF TypeOK
  <2>2. s \in run[x][e].delivered \/ Ahead(x, s, e)
    BY <2>1 DEF CoverInv, Grows
  <2>3. CASE s \in run[x][e].delivered
    BY <2>1, <2>3 DEF Grows
  <2>4. CASE x = d /\ Ahead(x, s, e)
    BY <1>3, <2>1, <2>4, AheadStep
  <2>5. CASE x # d /\ Ahead(x, s, e)
    BY <1>3, <2>5, OthersKeepWork DEF Ahead
  <2> QED BY <2>2, <2>3, <2>4, <2>5
<1>4. ASSUME NEW d \in Dispatcher, Ending(d) PROVE CoverInv'
  <2>1. \A x \in Dispatcher :
          /\ batch'[x] \subseteq batch[x]
          /\ \A e \in batch'[x] :
              /\ run'[x][e] = run[x][e]
              /\ todo'[x] = todo[x] /\ again'[x] = again[x]
              /\ each'[x] = each[x] /\ invoking'[x] = invoking[x]
    BY <1>4, EndingEffect
  <2> QED BY <2>1 DEF CoverInv, Ahead
<1> QED BY <1>1, <1>2, <1>3, <1>4, StepCases

\* A claim that settles as delivered was handled by every subscriber.
LEMMA SettledIsApplied ==
    ASSUME SafetyInv, NEW d \in Dispatcher, NEW e \in Event, MarkDelivered(d, e)
    PROVE  /\ status[e] = "pending"
           /\ \A s \in SubsOf[e] : <<s, e>> \in applied
<1> USE SubsAssumption, TokenAssumption
<1>1. /\ SettlePhase(d) /\ e \in batch[d] /\ token[e] = d
      /\ OutcomeOf(d, e) = "delivered"
  BY DEF MarkDelivered, SettleAs, Fenced
<1>2. ~run[d][e].failed /\ ~run[d][e].deferred
  BY <1>1 DEF OutcomeOf
<1>3. \A s \in SubsOf[e] : s \in run[d][e].delivered \/ Ahead(d, s, e)
  BY <1>1, <1>2 DEF SafetyInv, CoverInv
<1>4. \A s \in SubsOf[e] : ~Ahead(d, s, e)
  BY <1>1 DEF SettlePhase, BatchPhase, Ahead
<1>5. \A s \in SubsOf[e] : <<s, e>> \in applied
  BY <1>3, <1>4 DEF SafetyInv, AppliedInv
<1>6. status[e] = "pending"
  BY <1>1 DEF SafetyInv, HeldInv
<1> QED BY <1>5, <1>6

\* What was handled stays handled.
LEMMA AppliedStays ==
    ASSUME TypeOK, [Next]_vars
    PROVE  applied \subseteq applied'
<1>1. ASSUME NEW d \in Dispatcher, NEW es \in SUBSET Event, Claim(d, es) PROVE applied' = applied
  BY <1>1 DEF Claim
<1> QED BY <1>1, StepCases, QuietEffect, DeliveringEffect, EndingEffect

\* Which steps change a status, and to what.
LEMMA StatusStep ==
    ASSUME TypeOK, [Next]_vars, NEW e \in Event, status'[e] # status[e]
    PROVE  \/ Publish(e)
           \/ \E d \in Dispatcher : MarkDelivered(d, e) \/ DeadLetter(d, e)
<1>1. ASSUME NEW d \in Dispatcher, Ending(d)
      PROVE  MarkDelivered(d, e) \/ DeadLetter(d, e)
  BY <1>1 DEF Ending, Settle, MarkDelivered, Reschedule, DeadLetter, Release, LeaseLost,
              SettleFails, Crash, rows, TypeOK
<1>2. CASE Quiet
  BY <1>2 DEF Quiet, Publish, LeaseEnds, BackoffEnds, MarginEnds, Shutdown, Restart, vars, rows,
              TypeOK
<1>3. ASSUME NEW d \in Dispatcher, NEW es \in SUBSET Event, Claim(d, es) PROVE FALSE
  BY <1>3 DEF Claim
<1>4. ASSUME NEW d \in Dispatcher, Delivering(d) PROVE FALSE
  BY <1>4, DeliveringEffect DEF rows
<1> QED BY <1>1, <1>2, <1>3, <1>4, StepCases

\* SafetyInv is inductive.
LEMMA SafetyStep ==
    ASSUME SafetyInv, [Next]_vars
    PROVE  SafetyInv'
<1>1. TypeOK' /\ AppliedInv' /\ WorkInv' /\ HeldInv' /\ CoverInv'
  BY TypeStep, AppliedStep, WorkStep, HeldStep, CoverStep DEF SafetyInv
<1>2. ASSUME NEW e \in Event, status'[e] = "delivered", NEW s \in SubsOf[e]
      PROVE  <<s, e>> \in applied'
  <2>1. applied \subseteq applied'
    BY AppliedStays DEF SafetyInv
  <2>2. CASE status[e] = "delivered"
    BY <1>2, <2>1, <2>2 DEF SafetyInv, DeliveredIsApplied
  <2>3. CASE status[e] # "delivered"
    <3>1. \E d \in Dispatcher : MarkDelivered(d, e)
      BY <1>2, <2>3, StatusStep DEF SafetyInv, Publish, DeadLetter, TypeOK
    <3> QED BY <1>2, <2>1, <3>1, SettledIsApplied
  <2> QED BY <2>2, <2>3
<1> QED BY <1>1, <1>2 DEF SafetyInv, DeliveredIsApplied

\* SafetyInv holds at the start.
LEMMA SafetyInit == Init => SafetyInv
<1> SUFFICES ASSUME Init PROVE SafetyInv
  OBVIOUS
<1>1. TypeOK
  BY SubsAssumption DEF Init, TypeOK, NoRun, RunType, Pairs
<1>2. AppliedInv
  BY DEF Init, AppliedInv, NoRun
<1>3. WorkInv /\ HeldInv /\ CoverInv /\ DeliveredIsApplied
  BY DEF Init, WorkInv, HeldInv, CoverInv, DeliveredIsApplied
<1> QED BY <1>1, <1>2, <1>3 DEF SafetyInv

\* The inductive invariant holds of Spec.
THEOREM Safety == Spec => []SafetyInv
BY SafetyInit, SafetyStep, PTL DEF Spec

\* At least once, for every instance: an event that counts as delivered was
\* handled by every subscriber of its type.
THEOREM AtLeastOnce == Spec => []DeliveredIsApplied
<1>1. SafetyInv => DeliveredIsApplied
  BY DEF SafetyInv
<1> QED BY <1>1, Safety, PTL

\* No settlement forgets a recorded success or reopens a settled event.
THEOREM ProgressIsKept == Spec => ProgressKept
<1>1. ASSUME SafetyInv, [Next]_vars, NEW e \in Event
      PROVE  /\ deliveredTo[e] \subseteq deliveredTo'[e]
             /\ status[e] \in {"delivered", "dead"} => status'[e] = status[e]
  <2>0. TypeOK
    BY <1>1 DEF SafetyInv
  <2>1. deliveredTo[e] \subseteq deliveredTo'[e]
    <3>1. ASSUME NEW d \in Dispatcher, Ending(d) PROVE deliveredTo[e] \subseteq deliveredTo'[e]
      <4>1. CASE deliveredTo'[e] = deliveredTo[e]
        BY <4>1
      <4>2. CASE token[e] = d /\ e \in batch[d] /\ deliveredTo'[e] = run[d][e].delivered
        BY <1>1, <4>2 DEF SafetyInv, HeldInv
      <4> QED BY <2>0, <3>1, <4>1, <4>2, DeliveredToStep
    <3>2. ASSUME NEW d \in Dispatcher, NEW es \in SUBSET Event, Claim(d, es)
          PROVE  deliveredTo' = deliveredTo
      BY <3>2 DEF Claim
    <3>3. ASSUME NEW d \in Dispatcher, Delivering(d) PROVE deliveredTo' = deliveredTo
      BY <2>0, <3>3, DeliveringEffect DEF rows
    <3> QED BY <1>1, <3>1, <3>2, <3>3, StepCases, QuietEffect
  <2>2. ASSUME status[e] \in {"delivered", "dead"}, status'[e] # status[e] PROVE FALSE
    <3>1. ASSUME NEW d \in Dispatcher, NEW o, SettleAs(d, e, o) PROVE status[e] = "pending"
      BY <1>1, <3>1, TokenAssumption DEF SettleAs, Fenced, SafetyInv, HeldInv
    <3> QED BY <1>1, <2>0, <2>2, <3>1, StatusStep DEF Publish, MarkDelivered, DeadLetter
  <2> QED BY <2>1, <2>2
<1>2. ASSUME SafetyInv, [Next]_vars
      PROVE  [\A e \in Event :
                /\ deliveredTo[e] \subseteq deliveredTo'[e]
                /\ status[e] \in {"delivered", "dead"} => status'[e] = status[e]]_vars
  BY <1>1, <1>2
<1> QED BY <1>2, Safety, PTL DEF Spec, ProgressKept

-----------------------------------------------------------------------------
(* Outbox implements OutboxContract.                                       *)

\* What a dispatcher is about to deliver may be handled.
LEMMA MayHandle ==
    ASSUME SafetyInv, NEW d \in Dispatcher, NEW s \in Subscriber, NEW e \in Event,
           <<s, e>> \in todo[d] \cup again[d] \cup invoking[d]
    PROVE  s \in SubsOf[e] /\ status[e] # "absent"
BY DEF SafetyInv, WorkInv

\* Every step is a step of the contract, or changes nothing it sees.
LEMMA ContractStep ==
    ASSUME SafetyInv, [Next]_vars
    PROVE  [Contract!Next]_(Contract!vars)
<1> USE SubsAssumption DEF Contract!Next, Contract!vars
<1>0. TypeOK
  BY DEF SafetyInv
<1>1. ASSUME NEW e \in Event, Publish(e) PROVE Contract!Publish(e)
  BY <1>1 DEF Publish, Contract!Publish, history
<1>2. ASSUME NEW d \in Dispatcher, NEW e \in Event, MarkDelivered(d, e)
      PROVE  Contract!Deliver(e)
  BY <1>2, SettledIsApplied DEF MarkDelivered, SettleAs, Contract!Deliver
<1>3. ASSUME NEW d \in Dispatcher, NEW e \in Event, DeadLetter(d, e)
      PROVE  Contract!GiveUp(e)
  <2>1. status[e] = "pending"
    BY <1>3, TokenAssumption DEF DeadLetter, SettleAs, Fenced, SafetyInv, HeldInv
  <2> QED BY <1>3, <2>1 DEF DeadLetter, SettleAs, Contract!GiveUp
<1>4. ASSUME NEW d \in Dispatcher, NEW s \in BatchSub, NEW t \in Tenant, DeliverBatch(d, s, t)
      PROVE  \E es \in SUBSET Event : Contract!Handle(s, es)
  <2>1. PICK ok \in SUBSET Group(d, s, t) : Handled(s, ok)
    BY <1>4 DEF DeliverBatch
  <2>2. \A e \in ok : e \in Event /\ <<s, e>> \in todo[d]
    BY <2>1 DEF Group
  <2>3. \A e \in ok : status[e] # "absent" /\ s \in SubsOf[e]
    BY <2>2, MayHandle
  <2>4. status' = status
    BY <1>4 DEF DeliverBatch, rows
  <2>5. ok \in SUBSET Event
    BY <2>2
  <2> QED BY <2>1, <2>3, <2>4, <2>5 DEF Handled, Contract!Handle
<1>5. ASSUME NEW d \in Dispatcher, NEW s \in Subscriber, NEW e \in Event,
             Invoked(d, s, e), <<s, e>> \in again[d] \cup invoking[d]
      PROVE  Contract!Handle(s, {e}) \/ UNCHANGED Contract!vars
  <2>1. status[e] # "absent" /\ s \in SubsOf[e]
    BY <1>5, MayHandle
  <2>2. status' = status
    BY <1>5 DEF Invoked, rows
  <2>3. CASE Handled(s, {e})
    BY <2>1, <2>2, <2>3 DEF Handled, Contract!Handle
  <2>4. CASE UNCHANGED applied
    BY <2>2, <2>4
  <2> QED BY <1>5, <2>3, <2>4 DEF Invoked
<1>6. ASSUME NEW d \in Dispatcher, NEW s \in Subscriber, NEW e \in Event, Deliver(d, s, e)
      PROVE  (\E es \in SUBSET Event : Contract!Handle(s, es)) \/ UNCHANGED Contract!vars
  <2>1. CASE DeferRedelivery(d, s, e)
    BY <2>1 DEF DeferRedelivery, rows, history
  <2>2. CASE Redeliver(d, s, e) \/ Invoke(d, s, e)
    BY <1>5, <2>2 DEF Redeliver, Invoke
  <2> QED BY <1>6, <2>1, <2>2 DEF Deliver
<1>7. ASSUME NEW d \in Dispatcher, NEW e \in Event,
             Reschedule(d, e) \/ Release(d, e) \/ LeaseLost(d, e) \/ SettleFails(d, e)
      PROVE  UNCHANGED Contract!vars
  BY <1>7 DEF Reschedule, Release, LeaseLost, SettleFails, SettleAs, rows, history
<1>8. ASSUME NEW d \in Dispatcher, NEW e \in Event, StartEach(d, e) \/ DeferEach(d, e)
      PROVE  UNCHANGED Contract!vars
  BY <1>8 DEF StartEach, DeferEach, rows, history
<1>9. ASSUME NEW d \in Dispatcher, NEW s \in BatchSub, NEW t \in Tenant, DeferBatch(d, s, t)
      PROVE  UNCHANGED Contract!vars
  BY <1>9 DEF DeferBatch, rows, history
<1>10. ASSUME NEW d \in Dispatcher, NEW es \in SUBSET Event, Claim(d, es)
       PROVE  UNCHANGED Contract!vars
  BY <1>10 DEF Claim
<1>11. ASSUME NEW d \in Dispatcher,
              MarginEnds(d) \/ Shutdown(d) \/ Restart(d) \/ Crash(d)
       PROVE  UNCHANGED Contract!vars
  BY <1>11 DEF MarginEnds, Shutdown, Restart, Crash, rows, history
<1>12. ASSUME NEW e \in Event, LeaseEnds(e) \/ BackoffEnds(e)
       PROVE  UNCHANGED Contract!vars
  BY <1>12 DEF LeaseEnds, BackoffEnds, rows, history
<1>13. CASE UNCHANGED vars
  BY <1>13 DEF vars, rows, history
<1>14. ASSUME NEW d \in Dispatcher, NEW e \in Event, Settle(d, e)
       PROVE  Contract!Deliver(e) \/ Contract!GiveUp(e) \/ UNCHANGED Contract!vars
  BY <1>2, <1>3, <1>7, <1>14 DEF Settle
<1> QED
  BY <1>1, <1>4, <1>6, <1>7, <1>8, <1>9, <1>10, <1>11, <1>12, <1>13, <1>14 DEF Next

\* Every behaviour of the outbox is one the contract allows.
THEOREM ImplementsContract == Spec => ContractSpec
<1>1. Init => Contract!Init
  BY DEF Init, Contract!Init
<1> QED BY <1>1, ContractStep, Safety, PTL DEF Spec, ContractSpec, Contract!Spec

-----------------------------------------------------------------------------
(* Attempts.                                                               *)

\* The permanent failures a run remembers happened.
DoomedInv == \A d \in Dispatcher, e \in Event : run[d][e].permanent => doomed[e]

\* attempts counts the charges of every row that is not delivered yet.
ChargeInv ==
    \A e \in Event : status[e] # "delivered" =>
        attempts[e] = charges[e] + (IF token[e] = NoToken THEN 0 ELSE 1)

AttemptInv == SafetyInv /\ DoomedInv /\ ChargeInv /\ DeadIsEarned

\* Every step keeps DoomedInv.
LEMMA DoomedStep ==
    ASSUME TypeOK, DoomedInv, [Next]_vars
    PROVE  DoomedInv'
<1>0. ASSUME NEW d \in Dispatcher, NEW e \in Event,
             run' = [run EXCEPT ![d][e].deferred = TRUE] \/ UNCHANGED run, doomed' = doomed
      PROVE  DoomedInv'
  <2>1. \A x \in Dispatcher, y \in Event : run[x][y] \in RunType
    BY DEF TypeOK
  <2>2. \A x \in Dispatcher, y \in Event :
          run'[x][y] = run[x][y] \/ run'[x][y] = [run[x][y] EXCEPT !.deferred = TRUE]
    <3>1. CASE UNCHANGED run
      BY <3>1
    <3>2. CASE run' = [run EXCEPT ![d][e].deferred = TRUE]
      BY <3>2 DEF TypeOK
    <3> QED BY <1>0, <3>1, <3>2
  <2>3. ASSUME NEW x \in Dispatcher, NEW y \in Event
        PROVE  run'[x][y].permanent <=> run[x][y].permanent
    <3>1. CASE run'[x][y] = run[x][y]
      BY <3>1
    <3>2. CASE run'[x][y] = [run[x][y] EXCEPT !.deferred = TRUE]
      BY <2>1, <3>2, DeferredIs
    <3> QED BY <2>2, <3>1, <3>2
  <2> QED BY <1>0, <2>3 DEF DoomedInv
<1>00. ASSUME NEW d \in Dispatcher, NEW s, NEW ok, NEW bad, NEW soft, NEW left,
             run' = Recorded(d, s, ok, bad, soft, left),
             \A e \in Event : doomed'[e] <=> (doomed[e] \/ e \in bad)
      PROVE  DoomedInv'
  <2>0. run' = Recorded(d, s, ok, bad, soft, left)
    BY <1>00
  <2>1. /\ \A x \in Dispatcher : x # d => run'[x] = run[x]
        /\ \A y \in Event :
            /\ run'[d][y].attempt = run[d][y].attempt
            /\ run'[d][y].delivered = IF y \in ok THEN run[d][y].delivered \cup {s}
                                                   ELSE run[d][y].delivered
            /\ run'[d][y].failed <=> (run[d][y].failed \/ y \in bad \cup soft)
            /\ run'[d][y].permanent <=> (run[d][y].permanent \/ y \in bad)
            /\ run'[d][y].deferred <=> run[d][y].deferred
    BY <2>0, RecordedIs
  <2> QED BY <1>00, <2>1 DEF DoomedInv
<1>1. CASE Quiet
  BY <1>1, QuietEffect DEF DoomedInv
<1>2. ASSUME NEW d \in Dispatcher, NEW es \in SUBSET Event, Claim(d, es) PROVE DoomedInv'
  <2>1. \A x \in Dispatcher, y \in Event : run'[x][y] = run[x][y] \/ ~run'[x][y].permanent
    BY <1>2 DEF Claim, NewRun, NoRun, TypeOK
  <2> QED BY <1>2, <2>1 DEF DoomedInv, Claim
<1>3. ASSUME NEW d \in Dispatcher, NEW s \in BatchSub, NEW t \in Tenant, DeliverBatch(d, s, t)
      PROVE  DoomedInv'
  <2>1. PICK ok, bad, left :
          run' = Recorded(d, s, ok, bad, {}, left) /\ doomed' = [e \in Event |-> doomed[e] \/ e \in bad]
    BY <1>3 DEF DeliverBatch
  <2>2. \A e \in Event : doomed'[e] <=> (doomed[e] \/ e \in bad)
    BY <2>1 DEF TypeOK
  <2> QED BY <1>00, <2>1, <2>2
<1>4. ASSUME NEW d \in Dispatcher, NEW s \in BatchSub, NEW t \in Tenant, DeferBatch(d, s, t)
      PROVE  DoomedInv'
  <2>1. \A x \in Dispatcher, y \in Event : run[x][y] \in RunType
    BY DEF TypeOK
  <2>2. \A x \in Dispatcher, y \in Event :
          run'[x][y] = run[x][y] \/ run'[x][y] = [run[x][y] EXCEPT !.deferred = TRUE]
    BY <1>4 DEF DeferBatch, TypeOK
  <2>3. ASSUME NEW x \in Dispatcher, NEW y \in Event
        PROVE  run'[x][y].permanent <=> run[x][y].permanent
    <3>1. CASE run'[x][y] = run[x][y]
      BY <3>1
    <3>2. CASE run'[x][y] = [run[x][y] EXCEPT !.deferred = TRUE]
      BY <2>1, <3>2, DeferredIs
    <3> QED BY <2>2, <3>1, <3>2
  <2> QED BY <1>4, <2>3 DEF DoomedInv, DeferBatch, history
<1>5. ASSUME NEW d \in Dispatcher, NEW s \in Subscriber, NEW e \in Event, Invoked(d, s, e)
      PROVE  DoomedInv'
  <2>1. CASE run' = Recorded(d, s, {e}, {}, {}, {}) /\ UNCHANGED doomed
    BY <1>00, <2>1
  <2>2. CASE run' = Recorded(d, s, {}, {e}, {}, {}) /\ doomed' = [doomed EXCEPT ![e] = TRUE]
    <3>1. \A y \in Event : doomed'[y] <=> (doomed[y] \/ y \in {e})
      BY <2>2 DEF TypeOK
    <3> QED BY <1>00, <2>2, <3>1
  <2>3. CASE run' = Recorded(d, s, {}, {}, {e}, {}) /\ UNCHANGED doomed
    BY <1>00, <2>3
  <2> QED BY <1>5, <2>1, <2>2, <2>3 DEF Invoked
<1>6. ASSUME NEW d \in Dispatcher, NEW s \in Subscriber, NEW e \in Event, Deliver(d, s, e)
      PROVE  DoomedInv'
  BY <1>0, <1>5, <1>6 DEF Deliver, Redeliver, DeferRedelivery, Invoke, history
<1>7. ASSUME NEW d \in Dispatcher, NEW e \in Event, StartEach(d, e) \/ DeferEach(d, e)
      PROVE  DoomedInv'
  BY <1>0, <1>7 DEF StartEach, DeferEach, history
<1>8. ASSUME NEW d \in Dispatcher, Ending(d) PROVE DoomedInv'
  <2>1. \A x \in Dispatcher, y \in Event : run'[x][y] = run[x][y] \/ run'[x][y] = NoRun
    <3>1. ASSUME NEW e \in Event, Forget(d, e)
          PROVE  \A x \in Dispatcher, y \in Event : run'[x][y] = run[x][y] \/ run'[x][y] = NoRun
      BY <3>1 DEF Forget, TypeOK
    <3>2. CASE Crash(d)
      BY <3>2 DEF Crash, TypeOK
    <3> QED BY <1>8, <3>1, <3>2 DEF Ending, Settle, MarkDelivered, Reschedule, DeadLetter,
               Release, SettleAs, LeaseLost, SettleFails
  <2>2. doomed' = doomed
    BY <1>8 DEF Ending, Settle, MarkDelivered, Reschedule, DeadLetter, Release, SettleAs,
               LeaseLost, SettleFails, Crash, history
  <2>3. ~NoRun.permanent
    BY DEF NoRun
  <2> QED BY <2>1, <2>2, <2>3 DEF DoomedInv
<1> QED BY <1>1, <1>2, <1>3, <1>4, <1>6, <1>7, <1>8, StepCases DEF Delivering

\* Every step keeps ChargeInv.
LEMMA ChargeStep ==
    ASSUME SafetyInv, ChargeInv, [Next]_vars
    PROVE  ChargeInv'
<1> USE TokenAssumption
<1>0. TypeOK /\ HeldInv
  BY DEF SafetyInv
<1>1. ASSUME NEW e \in Event, UNCHANGED <<attempts, charges, token>>,
             status'[e] = status[e] \/ status[e] = "absent"
      PROVE  status'[e] # "delivered" =>
               attempts'[e] = charges'[e] + (IF token'[e] = NoToken THEN 0 ELSE 1)
  BY <1>1 DEF ChargeInv
<1>2. CASE Quiet
  <2>1. \A e \in Event : status'[e] = status[e] \/ status[e] = "absent"
    BY <1>0, <1>2 DEF Quiet, Publish, LeaseEnds, BackoffEnds, MarginEnds, Shutdown, Restart, vars,
                rows, TypeOK
  <2> QED BY <1>1, <1>2, <2>1, QuietEffect DEF ChargeInv
<1>3. ASSUME NEW d \in Dispatcher, NEW es \in SUBSET Event, Claim(d, es) PROVE ChargeInv'
  <2> SUFFICES ASSUME NEW e \in Event, status'[e] # "delivered"
               PROVE  attempts'[e] = charges'[e] + (IF token'[e] = NoToken THEN 0 ELSE 1)
    BY DEF ChargeInv
  <2>1. status' = status
    BY <1>3 DEF Claim
  <2>2. attempts[e] \in Nat /\ charges[e] \in Nat
    BY <1>0 DEF TypeOK
  <2>3. CASE e \in es
    BY <1>3, <2>1, <2>2, <2>3 DEF Claim, ChargeInv
  <2>4. CASE e \notin es
    BY <1>3, <2>1, <2>4 DEF Claim, ChargeInv
  <2> QED BY <2>3, <2>4
<1>4. ASSUME NEW d \in Dispatcher, Delivering(d) PROVE ChargeInv'
  <2>1. UNCHANGED <<rows, charges>>
    BY <1>0, <1>4, DeliveringEffect DEF Delivering, DeliverBatch, DeferBatch, Deliver, Redeliver,
       DeferRedelivery, Invoke, Invoked, StartEach, DeferEach, history
  <2> QED BY <2>1 DEF ChargeInv, rows
<1>5. ASSUME NEW d \in Dispatcher, NEW x \in Event, Settle(d, x) PROVE ChargeInv'
  <2> SUFFICES ASSUME NEW e \in Event, status'[e] # "delivered"
               PROVE  attempts'[e] = charges'[e] + (IF token'[e] = NoToken THEN 0 ELSE 1)
    BY DEF ChargeInv
  <2>1. attempts[e] \in Nat /\ charges[e] \in Nat
    BY <1>0 DEF TypeOK
  <2>2. ASSUME NEW o, SettleAs(d, x, o)
        PROVE  /\ status[x] = "pending" /\ token[x] = d /\ token[x] # NoToken
               /\ token'[x] = NoToken
               /\ \A y \in Event : y # x => token'[y] = token[y]
    BY <1>0, <2>2 DEF SettleAs, Fenced, HeldInv, TypeOK
  <2>3. CASE LeaseLost(d, x)
    BY <2>3 DEF LeaseLost, rows, history, ChargeInv
  <2>4. CASE MarkDelivered(d, x)
    BY <1>0, <2>2, <2>4 DEF MarkDelivered, ChargeInv, TypeOK
  <2>5. CASE Reschedule(d, x)
    BY <1>0, <2>1, <2>2, <2>5 DEF Reschedule, Charged, ChargeInv, TypeOK
  <2>6. CASE DeadLetter(d, x)
    BY <1>0, <2>1, <2>2, <2>6 DEF DeadLetter, Charged, ChargeInv, TypeOK
  <2>7. CASE Release(d, x)
    BY <1>0, <2>1, <2>2, <2>7 DEF Release, Refunded, ChargeInv, TypeOK
  <2> QED BY <1>5, <2>3, <2>4, <2>5, <2>6, <2>7 DEF Settle
<1>6. ASSUME NEW d \in Dispatcher, NEW x \in Event, SettleFails(d, x) \/ Crash(d)
      PROVE  ChargeInv'
  BY <1>6 DEF SettleFails, Crash, rows, ChargeInv
<1>7. ASSUME NEW d \in Dispatcher, Crash(d) PROVE ChargeInv'
  BY <1>7 DEF Crash, rows, ChargeInv
<1> QED BY <1>2, <1>3, <1>4, <1>5, <1>6, <1>7, StepCases DEF Ending

\* Every step keeps DeadIsEarned.
LEMMA DeadIsEarnedStep ==
    ASSUME AttemptInv, [Next]_vars
    PROVE  DeadIsEarned'
<1> SUFFICES ASSUME NEW e \in Event, status'[e] = "dead"
             PROVE  doomed'[e] \/ charges'[e] >= MaxAttempts
  BY DEF DeadIsEarned
<1> USE TokenAssumption, BoundAssumption
<1>0. TypeOK /\ HeldInv
  BY DEF AttemptInv, SafetyInv
<1>1. CASE status[e] = "dead"
  <2>1. doomed[e] \/ charges[e] >= MaxAttempts
    BY <1>1 DEF AttemptInv, DeadIsEarned
  <2>2. doomed[e] => doomed'[e]
    <3>1. ASSUME NEW d \in Dispatcher, Delivering(d) PROVE doomed[e] => doomed'[e]
      <4>0. doomed \in [Event -> BOOLEAN]
        BY <1>0 DEF TypeOK
      <4>1. CASE \E s \in BatchSub, t \in Tenant : DeliverBatch(d, s, t) \/ DeferBatch(d, s, t)
        <5>1. ASSUME NEW s \in BatchSub, NEW t \in Tenant, DeliverBatch(d, s, t)
              PROVE  doomed[e] => doomed'[e]
          BY <5>1 DEF DeliverBatch
        <5>2. ASSUME NEW s \in BatchSub, NEW t \in Tenant, DeferBatch(d, s, t)
              PROVE  doomed' = doomed
          BY <5>2 DEF DeferBatch, history
        <5> QED BY <4>1, <5>1, <5>2
      <4>2. ASSUME NEW s \in Subscriber, NEW y \in Event, Invoked(d, s, y)
            PROVE  doomed[e] => doomed'[e]
        BY <4>0, <4>2 DEF Invoked
      <4>3. CASE \E s \in Subscriber, y \in Event : Deliver(d, s, y)
        BY <4>2, <4>3 DEF Deliver, Redeliver, DeferRedelivery, Invoke, history
      <4>4. CASE \E y \in Event : StartEach(d, y) \/ DeferEach(d, y)
        BY <4>4 DEF StartEach, DeferEach, history
      <4> QED BY <3>1, <4>1, <4>3, <4>4 DEF Delivering
    <3>2. ASSUME NEW d \in Dispatcher, Ending(d) PROVE doomed' = doomed
      BY <3>2 DEF Ending, Settle, MarkDelivered, Reschedule, DeadLetter, Release, SettleAs,
         LeaseLost, SettleFails, Crash, history
    <3>3. ASSUME NEW d \in Dispatcher, NEW es \in SUBSET Event, Claim(d, es) PROVE doomed' = doomed
      BY <3>3 DEF Claim
    <3> QED BY <3>1, <3>2, <3>3, StepCases, QuietEffect
  <2>3. charges'[e] >= charges[e]
    <3>0. charges[e] \in Nat
      BY <1>0 DEF TypeOK
    <3>1. ASSUME NEW d \in Dispatcher, Delivering(d) PROVE charges' = charges
      BY <3>1 DEF Delivering, DeliverBatch, DeferBatch, Deliver, Redeliver, DeferRedelivery,
         Invoke, Invoked, StartEach, DeferEach, history
    <3>2. ASSUME NEW d \in Dispatcher, Ending(d) PROVE charges'[e] >= charges[e]
      <4>1. charges \in [Event -> Nat]
        BY <1>0 DEF TypeOK
      <4>2. ASSUME NEW f \in Event, Charged(f) PROVE charges'[e] >= charges[e]
        BY <3>0, <4>1, <4>2 DEF Charged
      <4>3. CASE \E f \in Event : Charged(f)
        BY <4>2, <4>3
      <4>4. CASE charges' = charges
        BY <3>0, <4>4
      <4> QED BY <3>2, <4>3, <4>4 DEF Ending, Settle, MarkDelivered, Reschedule, DeadLetter,
            Release, LeaseLost, SettleFails, Crash, history
    <3>3. ASSUME NEW d \in Dispatcher, NEW es \in SUBSET Event, Claim(d, es)
          PROVE  charges'[e] >= charges[e]
      BY <3>0, <3>3 DEF Claim
    <3>4. CASE Quiet
      BY <3>0, <3>4, QuietEffect
    <3> QED BY <3>0, <3>1, <3>2, <3>3, <3>4, StepCases
  <2>4. charges[e] \in Nat /\ charges'[e] \in Nat
    BY <1>0, TypeStep DEF TypeOK
  <2>5. charges[e] >= MaxAttempts => charges'[e] >= MaxAttempts
    BY <2>3, <2>4
  <2> QED BY <2>1, <2>2, <2>5
<1>2. CASE status[e] # "dead"
  <2>1. PICK d \in Dispatcher : DeadLetter(d, e)
    BY <1>0, <1>2, StatusStep DEF Publish, MarkDelivered, TypeOK
  <2>2. /\ token[e] = d /\ e \in batch[d] /\ status[e] = "pending"
        /\ OutcomeOf(d, e) = "dead"
    BY <1>0, <2>1 DEF DeadLetter, SettleAs, Fenced, HeldInv
  <2>3. attempts[e] = charges[e] + 1
    BY <1>0, <2>2 DEF AttemptInv, ChargeInv, TypeOK
  <2>4. run[d][e].permanent \/ attempts[e] >= MaxAttempts
    BY <1>0, <2>2 DEF OutcomeOf, HeldInv
  <2>5. charges'[e] = charges[e] + 1 /\ doomed' = doomed
    BY <1>0, <2>1 DEF DeadLetter, Charged, SettleAs, TypeOK
  <2> QED BY <2>3, <2>4, <2>5 DEF AttemptInv, DoomedInv
<1> QED BY <1>1, <1>2

\* The inductive invariant about attempts holds of Spec.
THEOREM Attempts == Spec => []AttemptInv
<1>1. Init => AttemptInv
  <2> SUFFICES ASSUME Init PROVE AttemptInv
    OBVIOUS
  <2>1. SafetyInv
    BY SafetyInit
  <2>2. DoomedInv /\ ChargeInv /\ DeadIsEarned
    BY DEF Init, DoomedInv, ChargeInv, DeadIsEarned, NoRun
  <2> QED BY <2>1, <2>2 DEF AttemptInv
<1>2. ASSUME AttemptInv, [Next]_vars PROVE AttemptInv'
  <2>1. TypeOK
    BY <1>2 DEF AttemptInv, SafetyInv
  <2> QED BY <1>2, <2>1, SafetyStep, DoomedStep, ChargeStep, DeadIsEarnedStep DEF AttemptInv
<1> QED BY <1>1, <1>2, PTL DEF Spec

\* A release gives its attempt back exactly once, for every instance.
THEOREM AttemptsCount == Spec => []AttemptsAreCharges
<1>1. AttemptInv => AttemptsAreCharges
  BY DEF AttemptInv, ChargeInv, AttemptsAreCharges
<1> QED BY <1>1, Attempts, PTL

\* Releases and shutdowns never dead-letter an event, for every instance.
THEOREM DeathIsEarned == Spec => []DeadIsEarned
<1>1. AttemptInv => DeadIsEarned
  BY DEF AttemptInv
<1> QED BY <1>1, Attempts, PTL
-----------------------------------------------------------------------------
(* Repeats and leases.                                                     *)

\* What a dispatcher has to do is of its batch, is not done yet, and waits
\* in one place: batch subscribers in todo or again, the others in invoking.
PendingOf(d) ==
    /\ each[d] \subseteq batch[d]
    /\ todo[d] \cap again[d] = {}
    /\ \A s \in Subscriber, e \in Event :
        /\ <<s, e>> \in todo[d] \cup again[d] \cup invoking[d] =>
            e \in batch[d] /\ s \notin run[d][e].delivered
        /\ <<s, e>> \in todo[d] \cup again[d] => s \in BatchSub
        /\ <<s, e>> \in invoking[d] => s \notin BatchSub

PendingInv == \A d \in Dispatcher : PendingOf(d)

\* An event of which no claim was taken over is in the batch of its holder only.
SoleInv == \A d \in Dispatcher : \A e \in batch[d] : ~lost[e] => token[e] = d

\* A success is in the row, or in the run of the live claim; or that claim's
\* holder has forgotten it, and its next claim takes it over.
Remembers(d, s, e) == token[e] = d /\ (e \in batch[d] => s \in run[d][e].delivered)

KeptInv ==
    \A s \in Subscriber, e \in Event : <<s, e>> \in applied /\ ~lost[e] =>
        s \in deliveredTo[e] \/ \E d \in Dispatcher : Remembers(d, s, e)

RepeatInv == SafetyInv /\ PendingInv /\ SoleInv /\ KeptInv /\ RepeatsOnlyAfterLoss

\* Within its margin a dispatcher holds every claim of its batch, and no
\* other may claim them.
LeaseInv ==
    \A d \in Dispatcher : ~outOfLease[d] => \A e \in batch[d] : token[e] = d /\ ~due[e]

\* A dispatcher's run is its own.
LEMMA OthersKeepRun ==
    ASSUME TypeOK, NEW d \in Dispatcher, Delivering(d), NEW x \in Dispatcher, x # d
    PROVE  run'[x] = run[x]
<1>1. ASSUME NEW s \in BatchSub, NEW t \in Tenant, DeliverBatch(d, s, t) PROVE run'[x] = run[x]
  <2>1. PICK ok, bad, left : run' = Recorded(d, s, ok, bad, {}, left)
    BY <1>1 DEF DeliverBatch
  <2> QED BY <2>1, RecordedIs
<1>2. ASSUME NEW s \in BatchSub, NEW t \in Tenant, DeferBatch(d, s, t) PROVE run'[x] = run[x]
  BY <1>2 DEF DeferBatch, TypeOK
<1>3. ASSUME NEW s \in Subscriber, NEW e \in Event, Invoked(d, s, e) PROVE run'[x] = run[x]
  <2>1. PICK ok, bad, soft : run' = Recorded(d, s, ok, bad, soft, {})
    BY <1>3 DEF Invoked
  <2> QED BY <2>1, RecordedIs
<1>4. ASSUME NEW s \in Subscriber, NEW e \in Event, Deliver(d, s, e) PROVE run'[x] = run[x]
  BY <1>3, <1>4 DEF Deliver, Redeliver, DeferRedelivery, Invoke, TypeOK
<1>5. ASSUME NEW e \in Event, StartEach(d, e) \/ DeferEach(d, e) PROVE run'[x] = run[x]
  BY <1>5 DEF StartEach, DeferEach, TypeOK
<1> QED BY <1>1, <1>2, <1>4, <1>5 DEF Delivering

\* One invocation adds its subscriber to its event's run, or nothing.
LEMMA InvokedAdds ==
    ASSUME TypeOK, NEW d \in Dispatcher, NEW s \in Subscriber, NEW e \in Event, Invoked(d, s, e),
           NEW z \in Subscriber, NEW y \in Event, z \in run'[d][y].delivered
    PROVE  z \in run[d][y].delivered \/ (z = s /\ y = e)
<1>1. PICK ok, bad, soft : run' = Recorded(d, s, ok, bad, soft, {}) /\ ok \subseteq {e}
  <2>1. {} \subseteq {e} /\ {e} \subseteq {e}
    OBVIOUS
  <2> QED BY <2>1 DEF Invoked
<1>2. run'[d][y].delivered = IF y \in ok THEN run[d][y].delivered \cup {s}
                                          ELSE run[d][y].delivered
  BY <1>1, RecordedIs
<1> QED BY <1>1, <1>2

\* A success is one of what the dispatcher had to do, and is recorded; a
\* repeated one was handled before.
LEMMA NewSuccess ==
    ASSUME TypeOK, NEW d \in Dispatcher, Delivering(d), NEW s \in Subscriber, NEW e \in Event
    PROVE  /\ <<s, e>> \in applied' \ applied =>
                /\ <<s, e>> \in todo[d] \cup again[d] \cup invoking[d]
                /\ s \in run'[d][e].delivered
           /\ <<s, e>> \in repeated' \ repeated =>
                <<s, e>> \in applied /\ <<s, e>> \in todo[d] \cup again[d] \cup invoking[d]
<1> DEFINE Old == applied' = applied /\ repeated' = repeated
           New(x, es) == /\ Handled(x, es)
                         /\ \A y \in es : /\ <<x, y>> \in todo[d] \cup again[d] \cup invoking[d]
                                          /\ x \in run'[d][y].delivered
<1>1. ASSUME NEW x \in BatchSub, NEW t \in Tenant, DeliverBatch(d, x, t)
      PROVE  \E es \in SUBSET Event : New(x, es)
  <2>1. PICK ok, bad, left :
          /\ ok \subseteq Group(d, x, t)
          /\ run' = Recorded(d, x, ok, bad, {}, left) /\ Handled(x, ok)
    BY <1>1 DEF DeliverBatch
  <2>2. \A y \in ok : y \in Event /\ <<x, y>> \in todo[d]
    BY <2>1 DEF Group
  <2>3. \A y \in Event : run'[d][y].delivered = IF y \in ok THEN run[d][y].delivered \cup {x}
                                                         ELSE run[d][y].delivered
    <3>1. run' = Recorded(d, x, ok, bad, {}, left)
      BY <2>1
    <3> QED BY ONLY TypeOK, <3>1, RecordedIs
  <2>4. ok \in SUBSET Event
    BY <2>2
  <2> QED BY <2>1, <2>2, <2>3, <2>4
<1>2. ASSUME NEW x \in Subscriber, NEW y \in Event, Invoked(d, x, y),
             <<x, y>> \in again[d] \cup invoking[d]
      PROVE  Old \/ \E es \in SUBSET Event : New(x, es)
  <2>1. CASE run' = Recorded(d, x, {y}, {}, {}, {}) /\ Handled(x, {y})
    <3>1. run'[d][y].delivered = run[d][y].delivered \cup {x}
      <4>1. PICK ok, bad, soft, left : run' = Recorded(d, x, ok, bad, soft, left) /\ ok = {y}
        BY <2>1
      <4>2. run'[d][y].delivered = IF y \in ok THEN run[d][y].delivered \cup {x}
                                               ELSE run[d][y].delivered
        <5>1. run' = Recorded(d, x, ok, bad, soft, left)
          BY <4>1
        <5> QED BY ONLY TypeOK, <5>1, RecordedIs
      <4> QED BY <4>1, <4>2
    <3>2. New(x, {y}) /\ {y} \in SUBSET Event
      BY <1>2, <2>1, <3>1
    <3> QED BY <3>2
  <2> QED BY <1>2, <2>1 DEF Invoked
<1>3. Old \/ \E x \in Subscriber : \E es \in SUBSET Event : New(x, es)
  <2>1. ASSUME NEW x \in BatchSub, NEW t \in Tenant, DeferBatch(d, x, t) PROVE Old
    BY <2>1 DEF DeferBatch, history
  <2>2. ASSUME NEW x \in Subscriber, NEW y \in Event, Deliver(d, x, y)
        PROVE  Old \/ \E es \in SUBSET Event : New(x, es)
    <3>1. CASE DeferRedelivery(d, x, y)
      BY <3>1 DEF DeferRedelivery, history
    <3>2. CASE Redeliver(d, x, y) \/ Invoke(d, x, y)
      <4>1. Invoked(d, x, y) /\ <<x, y>> \in again[d] \cup invoking[d]
        BY <3>2 DEF Redeliver, Invoke
      <4> HIDE DEF Old, New
      <4> QED BY <1>2, <4>1
    <3> QED BY <2>2, <3>1, <3>2 DEF Deliver
  <2>3. ASSUME NEW y \in Event, StartEach(d, y) \/ DeferEach(d, y) PROVE Old
    BY <2>3 DEF StartEach, DeferEach, history
  <2>4. BatchSub \subseteq Subscriber
    BY SubsAssumption
  <2> HIDE DEF Old, New
  <2> QED BY <1>1, <2>1, <2>2, <2>3, <2>4 DEF Delivering
<1>4. CASE Old
  BY <1>4
<1>5. ASSUME NEW x \in Subscriber, NEW es \in SUBSET Event, New(x, es)
      PROVE  /\ <<s, e>> \in applied' \ applied => x = s /\ e \in es
             /\ <<s, e>> \in repeated' \ repeated => x = s /\ e \in es /\ <<s, e>> \in applied
  BY <1>5 DEF Handled
<1>6. ASSUME NEW x \in Subscriber, NEW es \in SUBSET Event, New(x, es), x = s, e \in es
      PROVE  <<s, e>> \in todo[d] \cup again[d] \cup invoking[d] /\ s \in run'[d][e].delivered
  BY <1>6
<1> HIDE DEF New, Old
<1> QED BY <1>3, <1>4, <1>5, <1>6

\* What waits shrinks, and what is done leaves it.
LEMMA PendingShrinks ==
    ASSUME TypeOK, NEW x \in Dispatcher, PendingOf(x), batch'[x] = batch[x],
           each'[x] \subseteq each[x], todo'[x] \subseteq todo[x],
           again'[x] \subseteq again[x], invoking'[x] \subseteq invoking[x],
           \A s \in Subscriber, e \in Event :
             <<s, e>> \in todo'[x] \cup again'[x] \cup invoking'[x] =>
               s \notin run'[x][e].delivered \ run[x][e].delivered
    PROVE  PendingOf(x)'
<1>1. /\ each'[x] \subseteq batch'[x] /\ todo'[x] \cap again'[x] = {}
      /\ todo'[x] \cup again'[x] \subseteq todo[x] \cup again[x]
      /\ todo'[x] \cup again'[x] \cup invoking'[x] \subseteq todo[x] \cup again[x] \cup invoking[x]
  BY DEF PendingOf
<1>2. ASSUME NEW s \in Subscriber, NEW e \in Event
      PROVE  /\ <<s, e>> \in todo'[x] \cup again'[x] \cup invoking'[x] =>
                  e \in batch'[x] /\ s \notin run'[x][e].delivered
             /\ <<s, e>> \in todo'[x] \cup again'[x] => s \in BatchSub
             /\ <<s, e>> \in invoking'[x] => s \notin BatchSub
  BY <1>1 DEF PendingOf
<1> QED BY <1>1, <1>2 DEF PendingOf

\* Every step of a delivery keeps what its dispatcher has to do apart.
LEMMA PendingDelivering ==
    ASSUME TypeOK, NEW d \in Dispatcher, PendingOf(d), Delivering(d)
    PROVE  PendingOf(d)'
<1> USE SubsAssumption
<1>0. batch' = batch
  BY DeliveringEffect
<1>1. ASSUME NEW s \in BatchSub, NEW t \in Tenant, DeliverBatch(d, s, t) PROVE PendingOf(d)'
  <2>1. PICK ok, bad, left :
          /\ ok \subseteq Group(d, s, t)
          /\ run' = Recorded(d, s, ok, bad, {}, left)
          /\ left = Group(d, s, t) \ (ok \cup bad)
          /\ again' = [again EXCEPT ![d] = {s} \X left]
    BY <1>1 DEF DeliverBatch
  <2>2. /\ each'[d] = each[d] /\ invoking'[d] = invoking[d]
        /\ todo'[d] = todo[d] \ ({s} \X Group(d, s, t)) /\ again'[d] = {s} \X left
    BY <1>1, <2>1 DEF DeliverBatch, TypeOK
  <2>3. \A y \in Event : run'[d][y].delivered = IF y \in ok THEN run[d][y].delivered \cup {s}
                                                         ELSE run[d][y].delivered
    <3>1. run' = Recorded(d, s, ok, bad, {}, left)
      BY <2>1
    <3> QED BY ONLY TypeOK, <3>1, RecordedIs
  <2>4. \A y \in Group(d, s, t) : <<s, y>> \in todo[d]
    BY DEF Group
  <2>5. each'[d] \subseteq batch'[d] /\ todo'[d] \cap again'[d] = {}
    <3>1. left \subseteq Group(d, s, t)
      BY <2>1
    <3> QED BY <1>0, <2>2, <3>1 DEF PendingOf
  <2>6. ASSUME NEW z \in Subscriber, NEW y \in Event,
               <<z, y>> \in todo'[d] \cup again'[d] \cup invoking'[d]
        PROVE  y \in batch'[d] /\ z \notin run'[d][y].delivered
    <3>1. CASE <<z, y>> \in again'[d]
      <4>1. z = s /\ y \in left /\ y \notin ok /\ <<z, y>> \in todo[d]
        BY <2>1, <2>2, <2>4, <3>1
      <4> QED BY <1>0, <2>3, <4>1 DEF PendingOf
    <3>2. CASE <<z, y>> \in todo'[d]
      <4>1. <<z, y>> \in todo[d] /\ ~(z = s /\ y \in ok)
        BY <2>1, <2>2, <3>2
      <4> QED BY <1>0, <2>3, <4>1 DEF PendingOf
    <3>3. CASE <<z, y>> \in invoking'[d]
      <4>1. <<z, y>> \in invoking[d] /\ z # s
        BY <2>2, <3>3 DEF PendingOf
      <4> QED BY <1>0, <2>3, <4>1 DEF PendingOf
    <3> QED BY <2>6, <3>1, <3>2, <3>3
  <2>7. ASSUME NEW z \in Subscriber, NEW y \in Event
        PROVE  /\ <<z, y>> \in todo'[d] \cup again'[d] => z \in BatchSub
               /\ <<z, y>> \in invoking'[d] => z \notin BatchSub
    BY <2>2 DEF PendingOf
  <2> QED BY <2>5, <2>6, <2>7 DEF PendingOf
<1>2. ASSUME NEW s \in BatchSub, NEW t \in Tenant, DeferBatch(d, s, t) PROVE PendingOf(d)'
  <2>1. /\ each'[d] = each[d] /\ invoking'[d] = invoking[d] /\ again'[d] = again[d]
        /\ todo'[d] \subseteq todo[d]
    BY <1>2 DEF DeferBatch, TypeOK
  <2>2. \A y \in Event : run'[d][y].delivered = run[d][y].delivered
    <3>1. \A y \in Event : run[d][y] \in RunType
      BY DEF TypeOK
    <3>2. \A y \in Event : run'[d][y] = run[d][y] \/ run'[d][y] = [run[d][y] EXCEPT !.deferred = TRUE]
      BY <1>2 DEF DeferBatch, TypeOK
    <3> QED BY <3>1, <3>2, DeferredIs
  <2> QED BY <1>0, <2>1, <2>2, PendingShrinks
<1>3. ASSUME NEW s \in Subscriber, NEW e \in Event, run' = [run EXCEPT ![d][e].deferred = TRUE]
      PROVE  \A y \in Event : run'[d][y].delivered = run[d][y].delivered
  <2>1. \A y \in Event : run[d][y] \in RunType
    BY DEF TypeOK
  <2>2. \A y \in Event : run'[d][y] = run[d][y] \/ run'[d][y] = [run[d][y] EXCEPT !.deferred = TRUE]
    BY <1>3 DEF TypeOK
  <2> QED BY <2>1, <2>2, DeferredIs
<1>4. ASSUME NEW s \in Subscriber, NEW e \in Event, DeferRedelivery(d, s, e) PROVE PendingOf(d)'
  <2>1. /\ each'[d] = each[d] /\ invoking'[d] = invoking[d] /\ todo'[d] = todo[d]
        /\ again'[d] \subseteq again[d]
    BY <1>4 DEF DeferRedelivery, TypeOK
  <2>2. \A y \in Event : run'[d][y].delivered = run[d][y].delivered
    BY <1>3, <1>4 DEF DeferRedelivery
  <2> QED BY <1>0, <2>1, <2>2, PendingShrinks
<1>5. ASSUME NEW s \in Subscriber, NEW e \in Event, Redeliver(d, s, e) PROVE PendingOf(d)'
  <2>1. /\ each'[d] = each[d] /\ invoking'[d] = invoking[d] /\ todo'[d] = todo[d]
        /\ again'[d] = again[d] \ {<<s, e>>} /\ <<s, e>> \in again[d] /\ Invoked(d, s, e)
    BY <1>5 DEF Redeliver, TypeOK
  <2>2. ASSUME NEW z \in Subscriber, NEW y \in Event,
               <<z, y>> \in todo'[d] \cup again'[d] \cup invoking'[d]
        PROVE  z \notin run'[d][y].delivered \ run[d][y].delivered
    <3>1. ~(z = s /\ y = e)
      BY <2>1, <2>2 DEF PendingOf
    <3> QED BY <2>1, <3>1, InvokedAdds
  <2> QED BY <1>0, <2>1, <2>2, PendingShrinks
<1>6. ASSUME NEW s \in Subscriber, NEW e \in Event, Invoke(d, s, e) PROVE PendingOf(d)'
  <2>1. /\ each'[d] = each[d] /\ again'[d] = again[d] /\ todo'[d] = todo[d]
        /\ invoking'[d] = invoking[d] \ {<<s, e>>} /\ <<s, e>> \in invoking[d] /\ Invoked(d, s, e)
    BY <1>6 DEF Invoke, TypeOK
  <2>2. ASSUME NEW z \in Subscriber, NEW y \in Event,
               <<z, y>> \in todo'[d] \cup again'[d] \cup invoking'[d]
        PROVE  z \notin run'[d][y].delivered \ run[d][y].delivered
    <3>1. ~(z = s /\ y = e)
      BY <2>1, <2>2 DEF PendingOf
    <3> QED BY <2>1, <3>1, InvokedAdds
  <2> QED BY <1>0, <2>1, <2>2, PendingShrinks
<1>7. ASSUME NEW e \in Event, StartEach(d, e) PROVE PendingOf(d)'
  <2>1. /\ each'[d] \subseteq each[d] /\ again'[d] = again[d] /\ todo'[d] = todo[d]
        /\ invoking'[d] = PendingSubs(d, e) \X {e} /\ e \in each[d] /\ run' = run
    BY <1>7 DEF StartEach, ReachEach, TypeOK
  <2>2. ASSUME NEW z \in Subscriber, NEW y \in Event, <<z, y>> \in invoking'[d]
        PROVE  y \in batch[d] /\ z \notin run[d][y].delivered /\ z \notin BatchSub
    BY <2>1, <2>2 DEF PendingSubs, PendingOf
  <2> QED BY <1>0, <2>1, <2>2 DEF PendingOf
<1>8. ASSUME NEW e \in Event, DeferEach(d, e) PROVE PendingOf(d)'
  <2>1. /\ each'[d] \subseteq each[d] /\ again'[d] = again[d] /\ todo'[d] = todo[d]
        /\ invoking'[d] = invoking[d]
    BY <1>8 DEF DeferEach, ReachEach, TypeOK
  <2>2. \A y \in Event : run'[d][y].delivered = run[d][y].delivered
    <3>1. \A y \in Event : run[d][y] \in RunType
      BY DEF TypeOK
    <3>2. \A y \in Event : run'[d][y] = run[d][y] \/ run'[d][y] = [run[d][y] EXCEPT !.deferred = TRUE]
      BY <1>8 DEF DeferEach, TypeOK
    <3> QED BY <3>1, <3>2, DeferredIs
  <2> QED BY <1>0, <2>1, <2>2, PendingShrinks
<1> QED BY <1>1, <1>2, <1>4, <1>5, <1>6, <1>7, <1>8 DEF Delivering, Deliver

\* A claim starts with what its subscribers have not done.
LEMMA PendingClaim ==
    ASSUME TypeOK, NEW d \in Dispatcher, PendingOf(d), NEW es \in SUBSET Event, Claim(d, es)
    PROVE  PendingOf(d)'
<1> USE SubsAssumption
<1>1. batch[d] = {}
  BY DEF Claim
<1>2. again[d] = {} /\ invoking[d] = {}
  BY <1>1 DEF PendingOf, TypeOK, Pairs
<1>3. /\ batch'[d] = es /\ each'[d] = es /\ again'[d] = {} /\ invoking'[d] = {}
      /\ todo'[d] = {p \in BatchSub \X es : p[1] \in SubsOf[p[2]] \ deliveredTo[p[2]]}
  BY <1>2 DEF Claim, TypeOK
<1>4. \A e \in es : run'[d][e].delivered = deliveredTo[e]
  BY DEF Claim, NewRun, TypeOK
<1>5. ASSUME NEW s \in Subscriber, NEW e \in Event, <<s, e>> \in todo'[d]
      PROVE  e \in es /\ s \notin run'[d][e].delivered /\ s \in BatchSub
  BY <1>3, <1>4, <1>5
<1> QED BY <1>3, <1>5 DEF PendingOf

\* Every step keeps PendingInv.
LEMMA PendingStep ==
    ASSUME TypeOK, PendingInv, [Next]_vars
    PROVE  PendingInv'
<1> SUFFICES ASSUME NEW x \in Dispatcher PROVE PendingOf(x)'
  BY DEF PendingInv
<1>0. PendingOf(x)
  BY DEF PendingInv
<1>1. CASE Quiet
  BY <1>0, <1>1, QuietEffect DEF PendingOf, work
<1>2. ASSUME NEW d \in Dispatcher, NEW es \in SUBSET Event, Claim(d, es) PROVE PendingOf(x)'
  <2>1. CASE x = d
    BY <1>0, <1>2, <2>1, PendingClaim
  <2>2. CASE x # d
    <3>1. /\ batch'[x] = batch[x] /\ each'[x] = each[x] /\ todo'[x] = todo[x]
          /\ again'[x] = again[x] /\ invoking'[x] = invoking[x] /\ run'[x] = run[x]
      BY <1>2, <2>2 DEF Claim, TypeOK
    <3> QED BY <1>0, <3>1 DEF PendingOf
  <2> QED BY <2>1, <2>2
<1>3. ASSUME NEW d \in Dispatcher, Delivering(d) PROVE PendingOf(x)'
  <2>1. CASE x = d
    BY <1>0, <1>3, <2>1, PendingDelivering
  <2>2. CASE x # d
    <3>1. /\ todo'[x] = todo[x] /\ again'[x] = again[x]
          /\ each'[x] = each[x] /\ invoking'[x] = invoking[x] /\ run'[x] = run[x]
      BY <1>3, <2>2, OthersKeepWork, OthersKeepRun
    <3>2. batch'[x] = batch[x]
      BY <1>3, DeliveringEffect
    <3> QED BY <1>0, <3>1, <3>2 DEF PendingOf
  <2> QED BY <2>1, <2>2
<1>4. ASSUME NEW d \in Dispatcher, Ending(d) PROVE PendingOf(x)'
  <2>1. CASE x = d
    <3>1. todo'[d] = {} /\ again'[d] = {} /\ each'[d] = {} /\ invoking'[d] = {}
      <4>1. CASE Crash(d)
        BY <4>1 DEF Crash, TypeOK
      <4>2. ASSUME NEW e \in Event, Settle(d, e) \/ SettleFails(d, e)
            PROVE  SettlePhase(d) /\ UNCHANGED work
        BY <4>2 DEF Settle, MarkDelivered, Reschedule, DeadLetter, Release, SettleAs, LeaseLost,
                    SettleFails, Forget, work
      <4>3. CASE SettlePhase(d) /\ UNCHANGED work
        BY <4>3 DEF SettlePhase, BatchPhase, work
      <4> QED BY <1>4, <4>1, <4>2, <4>3 DEF Ending
    <3> QED BY <2>1, <3>1 DEF PendingOf
  <2>2. CASE x # d
    <3>1. /\ batch'[x] = batch[x] /\ each'[x] = each[x] /\ todo'[x] = todo[x]
          /\ again'[x] = again[x] /\ invoking'[x] = invoking[x] /\ run'[x] = run[x]
      <4>1. CASE Crash(d)
        BY <2>2, <4>1 DEF Crash, TypeOK
      <4>2. ASSUME NEW e \in Event, Settle(d, e) \/ SettleFails(d, e) PROVE Forget(d, e)
        BY <4>2 DEF Settle, MarkDelivered, Reschedule, DeadLetter, Release, SettleAs, LeaseLost,
                    SettleFails
      <4>3. ASSUME NEW e \in Event, Forget(d, e)
            PROVE  batch'[x] = batch[x] /\ run'[x] = run[x] /\ UNCHANGED work
        BY <2>2, <4>3 DEF Forget, TypeOK
      <4>4. CASE batch'[x] = batch[x] /\ run'[x] = run[x] /\ UNCHANGED work
        BY <4>4 DEF work
      <4> QED BY <1>4, <4>1, <4>2, <4>3, <4>4 DEF Ending
    <3> QED BY <1>0, <3>1 DEF PendingOf
  <2> QED BY <2>1, <2>2
<1> QED BY <1>1, <1>2, <1>3, <1>4, StepCases

\* A loss is remembered; nothing but a claim takes one over.
LEMMA LostStep ==
    ASSUME TypeOK, [Next]_vars
    PROVE  /\ \A e \in Event : lost[e] => lost'[e]
           /\ lost' = lost \/ \E d \in Dispatcher, es \in SUBSET Event : Claim(d, es)
<1>1. CASE Quiet
  BY <1>1 DEF Quiet, Publish, LeaseEnds, BackoffEnds, MarginEnds, Shutdown, Restart, vars, history
<1>2. ASSUME NEW d \in Dispatcher, NEW es \in SUBSET Event, Claim(d, es)
      PROVE  \A e \in Event : lost[e] => lost'[e]
  BY <1>2 DEF Claim
<1>3. ASSUME NEW d \in Dispatcher, Delivering(d) PROVE lost' = lost
  BY <1>3 DEF Delivering, DeliverBatch, DeferBatch, Deliver, Redeliver, DeferRedelivery, Invoke,
     Invoked, StartEach, DeferEach, history
<1>4. ASSUME NEW d \in Dispatcher, Ending(d) PROVE lost' = lost
  BY <1>4 DEF Ending, Settle, MarkDelivered, Reschedule, DeadLetter, Release, SettleAs, LeaseLost,
     SettleFails, Crash, history
<1> QED BY <1>1, <1>2, <1>3, <1>4, StepCases

\* An ending takes a token back only from the dispatcher that held it, with
\* the run's successes written to the row.
LEMMA TokenStep ==
    ASSUME TypeOK, NEW d \in Dispatcher, Ending(d), NEW e \in Event
    PROVE  \/ token'[e] = token[e]
           \/ /\ token[e] = d /\ e \in batch[d] /\ e \notin batch'[d]
              /\ deliveredTo'[e] = run[d][e].delivered
<1>1. ASSUME NEW x \in Event, NEW o, SettleAs(d, x, o)
      PROVE  \/ token'[e] = token[e]
             \/ /\ token[e] = d /\ e \in batch[d] /\ e \notin batch'[d]
                /\ deliveredTo'[e] = run[d][e].delivered
  BY <1>1 DEF SettleAs, Fenced, Forget, DeliveredToOf, TypeOK
<1>2. ASSUME NEW x \in Event, LeaseLost(d, x) \/ SettleFails(d, x) \/ Crash(d)
      PROVE  token' = token
  BY <1>2 DEF LeaseLost, SettleFails, Crash, rows
<1> QED BY <1>1, <1>2 DEF Ending, Settle, MarkDelivered, Reschedule, DeadLetter, Release

\* Every step keeps SoleInv.
LEMMA SoleStep ==
    ASSUME TypeOK, SoleInv, [Next]_vars
    PROVE  SoleInv'
<1> USE TokenAssumption
<1> SUFFICES ASSUME NEW x \in Dispatcher, NEW e \in batch'[x], ~lost'[e]
             PROVE  token'[e] = x
  BY DEF SoleInv
<1>0. e \in Event /\ ~lost[e] /\ TypeOK'
  BY LostStep, TypeStep DEF TypeOK
<1>1. CASE Quiet
  BY <1>0, <1>1, QuietEffect DEF SoleInv
<1>2. ASSUME NEW d \in Dispatcher, NEW es \in SUBSET Event, Claim(d, es) PROVE token'[e] = x
  <2>1. token'[e] = (IF e \in es THEN d ELSE token[e]) /\ (e \in es => token[e] = NoToken)
    BY <1>0, <1>2 DEF Claim
  <2>2. CASE x = d
    BY <1>2, <2>1, <2>2 DEF Claim, TypeOK
  <2>3. CASE x # d
    <3>1. e \in batch[x]
      BY <1>2, <2>3 DEF Claim, TypeOK
    <3> QED BY <1>0, <2>1, <3>1 DEF SoleInv
  <2> QED BY <2>2, <2>3
<1>3. ASSUME NEW d \in Dispatcher, Delivering(d) PROVE token'[e] = x
  BY <1>0, <1>3, DeliveringEffect DEF SoleInv, rows
<1>4. ASSUME NEW d \in Dispatcher, Ending(d) PROVE token'[e] = x
  <2>1. token[e] = x
    BY <1>0, <1>4, EndingEffect DEF SoleInv
  <2> QED BY <1>0, <1>4, <2>1, TokenStep
<1> QED BY <1>1, <1>2, <1>3, <1>4, StepCases

\* While no claim was taken over, what a dispatcher has to do was not done.
LEMMA NotDoneYet ==
    ASSUME SafetyInv, PendingInv, SoleInv, KeptInv, NEW d \in Dispatcher,
           NEW s \in Subscriber, NEW e \in Event,
           <<s, e>> \in todo[d] \cup again[d] \cup invoking[d], ~lost[e]
    PROVE  <<s, e>> \notin applied /\ token[e] = d
<1>1. e \in batch[d] /\ s \notin run[d][e].delivered
  BY DEF PendingInv, PendingOf
<1>2. token[e] = d
  BY <1>1 DEF SoleInv
<1>3. s \notin deliveredTo[e]
  BY <1>1, <1>2 DEF SafetyInv, HeldInv
<1>4. \A x \in Dispatcher : ~Remembers(x, s, e)
  BY <1>1, <1>2 DEF Remembers
<1> QED BY <1>2, <1>3, <1>4 DEF KeptInv

\* Every step keeps KeptInv.
LEMMA KeptStep ==
    ASSUME SafetyInv, PendingInv, SoleInv, KeptInv, [Next]_vars
    PROVE  KeptInv'
<1> USE TokenAssumption
<1>0. TypeOK /\ TypeOK'
  BY TypeStep DEF SafetyInv
<1> SUFFICES ASSUME NEW s \in Subscriber, NEW e \in Event, <<s, e>> \in applied', ~lost'[e]
             PROVE  s \in deliveredTo'[e] \/ \E x \in Dispatcher : Remembers(x, s, e)'
  BY DEF KeptInv
<1>1. ~lost[e]
  BY <1>0, LostStep
<1> DEFINE Kept == s \in deliveredTo'[e] \/ \E x \in Dispatcher : Remembers(x, s, e)'
<1>2. ASSUME <<s, e>> \in applied
      PROVE  s \in deliveredTo[e] \/ \E x \in Dispatcher : Remembers(x, s, e)
  BY <1>1, <1>2 DEF KeptInv
<1>3. CASE Quiet
  BY <1>2, <1>3, QuietEffect DEF Remembers
<1>4. ASSUME NEW d \in Dispatcher, NEW es \in SUBSET Event, Claim(d, es) PROVE Kept
  <2>1. /\ applied' = applied /\ deliveredTo' = deliveredTo
        /\ e \in es => token[e] = NoToken
        /\ token'[e] = (IF e \in es THEN d ELSE token[e])
    BY <1>4 DEF Claim
  <2>2. ASSUME NEW x \in Dispatcher, Remembers(x, s, e) PROVE Remembers(x, s, e)'
    <3>1. token[e] = x /\ e \notin es /\ token'[e] = x
      BY <2>1, <2>2 DEF Remembers
    <3>2. CASE x = d
      <4>1. e \notin batch'[x]
        BY <1>0, <1>4, <3>1, <3>2 DEF Claim, TypeOK
      <4> QED BY <3>1, <4>1 DEF Remembers
    <3>3. CASE x # d
      <4>1. batch'[x] = batch[x] /\ run'[x] = run[x]
        BY <1>0, <1>4, <3>3 DEF Claim, TypeOK
      <4> QED BY <2>2, <3>1, <4>1 DEF Remembers
    <3> QED BY <3>2, <3>3
  <2> QED BY <1>2, <2>1, <2>2
<1>5. ASSUME NEW d \in Dispatcher, Delivering(d) PROVE Kept
  <2>1. deliveredTo' = deliveredTo /\ token' = token /\ batch' = batch
    BY <1>0, <1>5, DeliveringEffect DEF rows
  <2>2. CASE <<s, e>> \in applied
    <3>1. ASSUME NEW x \in Dispatcher, Remembers(x, s, e) PROVE Remembers(x, s, e)'
      <4>1. Grows(x, e)
        BY <1>0, <1>5, DeliveringEffect
      <4> QED BY <2>1, <3>1, <4>1 DEF Remembers, Grows
    <3> QED BY <1>2, <2>1, <2>2, <3>1
  <2>3. CASE <<s, e>> \notin applied
    <3>1. <<s, e>> \in todo[d] \cup again[d] \cup invoking[d] /\ s \in run'[d][e].delivered
      BY <1>0, <1>5, <2>3, NewSuccess
    <3>2. token[e] = d
      BY <1>1, <3>1, NotDoneYet
    <3> QED BY <2>1, <3>1, <3>2 DEF Remembers
  <2> QED BY <2>2, <2>3
<1>6. ASSUME NEW d \in Dispatcher, Ending(d) PROVE Kept
  <2>1. <<s, e>> \in applied
    BY <1>0, <1>6, EndingEffect
  <2>2. CASE s \in deliveredTo[e]
    <3>1. CASE deliveredTo'[e] = deliveredTo[e]
      BY <2>2, <3>1
    <3>2. CASE token[e] = d /\ e \in batch[d] /\ deliveredTo'[e] = run[d][e].delivered
      BY <2>2, <3>2 DEF SafetyInv, HeldInv
    <3> QED BY <1>0, <1>6, <3>1, <3>2, DeliveredToStep
  <2>3. ASSUME NEW x \in Dispatcher, Remembers(x, s, e) PROVE Kept
    <3>1. CASE token'[e] = token[e]
      <4>1. e \in batch'[x] => e \in batch[x] /\ run'[x][e] = run[x][e]
        BY <1>0, <1>6, EndingEffect
      <4>2. Remembers(x, s, e)'
        BY <2>3, <3>1, <4>1 DEF Remembers
      <4> QED BY <4>2
    <3>2. CASE token[e] = d /\ e \in batch[d] /\ deliveredTo'[e] = run[d][e].delivered
      BY <2>3, <3>2 DEF Remembers
    <3> QED BY <1>0, <1>6, <3>1, <3>2, TokenStep
  <2> HIDE DEF Kept
  <2>4. CASE \E x \in Dispatcher : Remembers(x, s, e)
    BY <2>3, <2>4
  <2>5. Kept
    BY <1>2, <2>1, <2>2, <2>4 DEF Kept
  <2> QED BY <2>5
<1> QED BY <1>3, <1>4, <1>5, <1>6, StepCases

\* Every step keeps RepeatsOnlyAfterLoss.
LEMMA RepeatsStep ==
    ASSUME RepeatInv, [Next]_vars
    PROVE  RepeatsOnlyAfterLoss'
<1>0. TypeOK /\ TypeOK' /\ SafetyInv /\ PendingInv /\ SoleInv /\ KeptInv
  BY TypeStep DEF RepeatInv, SafetyInv
<1> SUFFICES ASSUME NEW p \in repeated' PROVE lost'[p[2]]
  BY DEF RepeatsOnlyAfterLoss
<1> PICK s \in Subscriber, e \in Event : p = <<s, e>>
  BY <1>0 DEF TypeOK, Pairs
<1>1. CASE p \in repeated
  BY <1>0, <1>1, LostStep DEF RepeatInv, RepeatsOnlyAfterLoss
<1>2. CASE p \notin repeated
  <2>1. PICK d \in Dispatcher : Delivering(d)
    <3>1. Quiet => repeated' = repeated
      BY DEF Quiet, Publish, LeaseEnds, BackoffEnds, MarginEnds, Shutdown, Restart, vars, history
    <3>2. ASSUME NEW d \in Dispatcher, NEW es \in SUBSET Event, Claim(d, es)
          PROVE  repeated' = repeated
      BY <3>2 DEF Claim
    <3>3. ASSUME NEW d \in Dispatcher, Ending(d) PROVE repeated' = repeated
      BY <3>3 DEF Ending, Settle, MarkDelivered, Reschedule, DeadLetter, Release, SettleAs,
         LeaseLost, SettleFails, Crash, history
    <3> QED BY <1>2, <3>1, <3>2, <3>3, StepCases
  <2>2. <<s, e>> \in applied /\ <<s, e>> \in todo[d] \cup again[d] \cup invoking[d]
    BY <1>0, <1>2, <2>1, NewSuccess
  <2>3. lost[e]
    BY <1>0, <2>2, NotDoneYet
  <2> QED BY <1>0, <2>3, LostStep
<1> QED BY <1>1, <1>2

\* The inductive invariant about repeats holds of Spec.
THEOREM Repeats == Spec => []RepeatInv
<1>1. Init => RepeatInv
  <2> SUFFICES ASSUME Init PROVE RepeatInv
    OBVIOUS
  <2>1. SafetyInv
    BY SafetyInit
  <2>2. PendingInv /\ SoleInv /\ KeptInv /\ RepeatsOnlyAfterLoss
    BY DEF Init, PendingInv, PendingOf, SoleInv, KeptInv, RepeatsOnlyAfterLoss
  <2> QED BY <2>1, <2>2 DEF RepeatInv
<1>2. ASSUME RepeatInv, [Next]_vars PROVE RepeatInv'
  <2>1. SafetyInv /\ PendingInv /\ SoleInv /\ KeptInv /\ TypeOK
    BY <1>2 DEF RepeatInv, SafetyInv
  <2>2. SafetyInv' /\ PendingInv' /\ SoleInv' /\ KeptInv'
    BY <1>2, <2>1, SafetyStep, PendingStep, SoleStep, KeptStep
  <2> QED BY <1>2, <2>2, RepeatsStep DEF RepeatInv
<1> QED BY <1>1, <1>2, PTL DEF Spec

\* A subscriber that succeeded is called again only if a claim of the event
\* was taken over unsettled, for every instance.
THEOREM RepeatsNeedALoss == Spec => []RepeatsOnlyAfterLoss
<1>1. RepeatInv => RepeatsOnlyAfterLoss
  BY DEF RepeatInv
<1> QED BY <1>1, Repeats, PTL

-----------------------------------------------------------------------------
(* Leases.                                                                 *)

\* Every step keeps LeaseInv.
LEMMA LeaseStep ==
    ASSUME TypeOK, WorkInv, LeaseInv, [Next]_vars
    PROVE  LeaseInv'
<1> USE TokenAssumption
<1> SUFFICES ASSUME NEW x \in Dispatcher, ~outOfLease'[x], NEW e \in batch'[x]
             PROVE  token'[e] = x /\ ~due'[e]
  BY DEF LeaseInv
<1> DEFINE Held == token'[e] = x /\ ~due'[e]
<1>0. e \in Event
  BY TypeStep DEF TypeOK
<1>1. CASE UNCHANGED <<batch, token>> /\ (due' = due) /\ (outOfLease[x] => outOfLease'[x])
  BY <1>0, <1>1 DEF LeaseInv
<1>2. ASSUME NEW y \in Event, Publish(y) PROVE Held
  <2>1. e \in batch[x] /\ token'[e] = token[e] /\ outOfLease' = outOfLease /\ e # y
    BY <1>2 DEF Publish, memory, WorkInv
  <2>2. due'[e] = due[e]
    BY <1>0, <1>2, <2>1 DEF Publish, TypeOK
  <2> QED BY <2>1, <2>2 DEF LeaseInv
<1>3. ASSUME NEW y \in Event, LeaseEnds(y) PROVE Held
  <2>1. e \in batch[x] /\ token' = token /\ outOfLease' = outOfLease
    BY <1>3 DEF LeaseEnds, memory
  <2>2. token[e] = x /\ ~due[e]
    BY <2>1 DEF LeaseInv
  <2>3. e # y
    BY <1>3, <2>1, <2>2 DEF LeaseEnds
  <2>4. due'[e] = due[e]
    BY <1>0, <1>3, <2>3 DEF LeaseEnds, TypeOK
  <2> QED BY <2>1, <2>2, <2>4
<1>4. ASSUME NEW y \in Event, BackoffEnds(y) PROVE Held
  <2>1. e \in batch[x] /\ token' = token /\ outOfLease' = outOfLease
    BY <1>4 DEF BackoffEnds, memory
  <2>2. token[e] = x /\ ~due[e]
    BY <2>1 DEF LeaseInv
  <2>3. e # y
    BY <1>4, <2>2 DEF BackoffEnds
  <2>4. due'[e] = due[e]
    BY <1>0, <1>4, <2>3 DEF BackoffEnds, TypeOK
  <2> QED BY <2>1, <2>2, <2>4
<1>5. ASSUME NEW d \in Dispatcher, MarginEnds(d) \/ Shutdown(d) \/ Restart(d) PROVE Held
  BY <1>1, <1>5 DEF MarginEnds, Shutdown, Restart, rows, TypeOK
<1>6. ASSUME NEW d \in Dispatcher, NEW es \in SUBSET Event, Claim(d, es) PROVE Held
  <2>1. /\ token'[e] = (IF e \in es THEN d ELSE token[e])
        /\ due'[e] = (due[e] /\ e \notin es) /\ (e \in es => due[e])
    BY <1>0, <1>6 DEF Claim, Claimable
  <2>2. CASE x = d
    BY <1>6, <2>1, <2>2 DEF Claim, TypeOK
  <2>3. CASE x # d
    <3>1. e \in batch[x] /\ outOfLease[x] = outOfLease'[x]
      BY <1>6, <2>3 DEF Claim, TypeOK
    <3> QED BY <2>1, <3>1 DEF LeaseInv
  <2> QED BY <2>2, <2>3
<1>7. ASSUME NEW d \in Dispatcher, Delivering(d) PROVE Held
  <2>1. UNCHANGED <<rows, batch>>
    BY <1>7, DeliveringEffect
  <2>2. outOfLease' = outOfLease
    BY <1>7 DEF Delivering, DeliverBatch, DeferBatch, Deliver, Redeliver, DeferRedelivery, Invoke,
       Invoked, StartEach, DeferEach
  <2> QED BY <1>1, <2>1, <2>2 DEF rows
<1>8. ASSUME NEW d \in Dispatcher, Ending(d) PROVE Held
  <2>1. e \in batch[x]
    BY <1>8, EndingEffect
  <2>2. CASE Crash(d)
    BY <1>1, <2>1, <2>2 DEF Crash, rows, LeaseInv, TypeOK
  <2>3. ASSUME NEW y \in Event, LeaseLost(d, y) \/ SettleFails(d, y) PROVE Held
    BY <2>1, <2>3 DEF LeaseLost, SettleFails, Forget, rows, LeaseInv
  <2>4. ASSUME NEW y \in Event, NEW o, SettleAs(d, y, o)
        PROVE  token[e] = x /\ ~due[e] /\ e # y /\ token'[e] = token[e]
    <3>1. outOfLease' = outOfLease /\ token[y] = d /\ y \notin batch'[d]
      BY <2>4 DEF SettleAs, Forget, Fenced, TypeOK
    <3>2. token[e] = x /\ ~due[e]
      BY <2>1, <3>1 DEF LeaseInv
    <3>3. e # y
      BY <3>1, <3>2
    <3> QED BY <1>0, <2>4, <3>2, <3>3 DEF SettleAs, TypeOK
  <2>5. ASSUME NEW y \in Event, MarkDelivered(d, y) \/ DeadLetter(d, y) PROVE Held
    BY <2>4, <2>5 DEF MarkDelivered, DeadLetter
  <2>6. ASSUME NEW y \in Event, Reschedule(d, y) \/ Release(d, y) PROVE Held
    <3>1. \E o : SettleAs(d, y, o)
      BY <2>6 DEF Reschedule, Release
    <3>2. token[e] = x /\ ~due[e] /\ e # y /\ token'[e] = token[e]
      BY <2>4, <3>1
    <3>3. due'[e] = due[e]
      BY <1>0, <2>6, <3>2 DEF Reschedule, Release, TypeOK
    <3> QED BY <3>2, <3>3
  <2> QED BY <1>8, <2>2, <2>3, <2>5, <2>6 DEF Ending, Settle
<1>9. CASE UNCHANGED vars
  BY <1>1, <1>9 DEF vars, rows, memory
<1> QED BY <1>2, <1>3, <1>4, <1>5, <1>6, <1>7, <1>8, <1>9, StepCases DEF Quiet

\* Only a delivery that may start starts one.
LEMMA StartsInMargin ==
    ASSUME TypeOK, PendingInv, [Next]_vars, NEW d \in Dispatcher, NEW e \in Event, Starts(d, e)
    PROVE  CanStart(d) /\ e \in batch[d]
<1>1. e \in batch'[d] /\ ~run'[d][e].deferred
  BY DEF Starts
<1> PICK s \in Subscriber : \/ <<s, e>> \in todo[d] \ todo'[d]
                            \/ <<s, e>> \in again[d] \ again'[d]
                            \/ <<s, e>> \in invoking'[d] \ invoking[d]
  BY DEF Starts
<1>2. CASE Quiet
  BY <1>2, QuietEffect DEF work
<1>3. ASSUME NEW x \in Dispatcher, NEW es \in SUBSET Event, Claim(x, es) PROVE FALSE
  <2>1. CASE x = d
    <3>1. batch[d] = {} /\ again'[d] = again[d] /\ invoking'[d] = invoking[d]
      BY <1>3, <2>1 DEF Claim
    <3> QED BY <3>1 DEF PendingInv, PendingOf
  <2>2. CASE x # d
    BY <1>3, <2>2 DEF Claim, TypeOK
  <2> QED BY <2>1, <2>2
<1>4. ASSUME NEW x \in Dispatcher, Ending(x) PROVE FALSE
  <2>1. /\ todo'[d] = todo[d] /\ again'[d] = again[d] /\ invoking'[d] = invoking[d]
    BY <1>1, <1>4, EndingEffect
  <2> QED BY <2>1
<1>5. ASSUME NEW x \in Dispatcher, Delivering(x) PROVE CanStart(d) /\ e \in batch[d]
  <2>0. e \in batch[d]
    BY <1>1, <1>5, DeliveringEffect
  <2>1. x = d
    BY <1>5, OthersKeepWork
  <2>2. ASSUME NEW z \in BatchSub, NEW t \in Tenant, DeliverBatch(d, z, t) PROVE CanStart(d)
    BY <2>2 DEF DeliverBatch
  <2>3. ASSUME NEW r \in RunType PROVE [r EXCEPT !.deferred = TRUE].deferred
    BY DEF RunType
  <2>4. run[d][e] \in RunType
    BY DEF TypeOK
  <2>5. ASSUME NEW z \in BatchSub, NEW t \in Tenant, DeferBatch(d, z, t) PROVE FALSE
    <3>1. /\ again' = again /\ invoking' = invoking
          /\ todo'[d] = todo[d] \ ({z} \X Group(d, z, t))
      BY <2>5 DEF DeferBatch, TypeOK
    <3>2. e \in Group(d, z, t)
      BY <3>1
    <3>3. run'[d][e] = [run[d][e] EXCEPT !.deferred = TRUE]
      BY <2>5, <3>2 DEF DeferBatch, TypeOK
    <3> QED BY <1>1, <2>3, <2>4, <3>3
  <2>6. ASSUME NEW z \in Subscriber, NEW y \in Event, Deliver(d, z, y) PROVE CanStart(d)
    <3>1. CASE Redeliver(d, z, y)
      BY <3>1 DEF Redeliver
    <3>2. CASE Invoke(d, z, y)
      <4>1. todo' = todo /\ again' = again /\ invoking'[d] \subseteq invoking[d]
        BY <3>2 DEF Invoke, TypeOK
      <4> QED BY <4>1
    <3>3. CASE DeferRedelivery(d, z, y)
      <4>1. /\ todo' = todo /\ invoking' = invoking /\ again'[d] = again[d] \ {<<z, y>>}
        BY <3>3 DEF DeferRedelivery, TypeOK
      <4>2. y = e
        BY <4>1
      <4>3. run'[d][e] = [run[d][e] EXCEPT !.deferred = TRUE]
        BY <3>3, <4>2 DEF DeferRedelivery, TypeOK
      <4> QED BY <1>1, <2>3, <2>4, <4>3
    <3> QED BY <2>6, <3>1, <3>2, <3>3 DEF Deliver
  <2>7. ASSUME NEW y \in Event, StartEach(d, y) PROVE CanStart(d)
    <3>1. todo' = todo /\ again' = again /\ invoking'[d] = PendingSubs(d, y) \X {y}
      BY <2>7 DEF StartEach, TypeOK
    <3>2. PendingSubs(d, y) # {}
      BY <3>1
    <3> QED BY <2>7, <3>2 DEF StartEach
  <2>8. ASSUME NEW y \in Event, DeferEach(d, y) PROVE FALSE
    BY <2>8 DEF DeferEach
  <2> QED BY <1>5, <2>0, <2>1, <2>2, <2>5, <2>6, <2>7, <2>8 DEF Delivering
<1> QED BY <1>2, <1>3, <1>4, <1>5, StepCases

\* A dispatcher starts a delivery only while it holds the claim, for every
\* instance: no other can have claimed the event before its margin ends.
THEOREM StartsWhileHeld == Spec => StartsOnlyWhileHeld
<1> DEFINE StartsHeld == \A d \in Dispatcher, e \in Event : Starts(d, e) => token[e] = d
<1>1. Init => LeaseInv
  BY DEF Init, LeaseInv
<1>2. ASSUME RepeatInv, LeaseInv, [Next]_vars PROVE LeaseInv'
  BY <1>2, LeaseStep DEF RepeatInv, SafetyInv
<1>3. ASSUME RepeatInv, LeaseInv, [Next]_vars PROVE [StartsHeld]_vars
  <2>1. TypeOK /\ PendingInv
    BY <1>3 DEF RepeatInv, SafetyInv
  <2> SUFFICES ASSUME NEW d \in Dispatcher, NEW e \in Event, Starts(d, e) PROVE token[e] = d
    OBVIOUS
  <2>2. CanStart(d) /\ e \in batch[d]
    BY <1>3, <2>1, StartsInMargin
  <2> QED BY <1>3, <2>2 DEF LeaseInv, CanStart
<1> HIDE DEF StartsHeld
<1>4. Spec => [][StartsHeld]_vars
  BY <1>1, <1>2, <1>3, Repeats, PTL DEF Spec
<1> QED BY <1>4 DEF StartsOnlyWhileHeld, StartsHeld

=============================================================================
