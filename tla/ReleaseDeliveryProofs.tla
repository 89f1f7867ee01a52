------------------------ MODULE ReleaseDeliveryProofs ------------------------
(***************************************************************************)
(* Theorems about ReleaseDelivery: it is the Release it extends, and the   *)
(* manifests of the environments that stay follow their rows.              *)
(***************************************************************************)
EXTENDS ReleaseDelivery, ReleaseProofs

-----------------------------------------------------------------------------
(* Manifests change nothing in the database.                               *)

\* Every step is one of Release, or leaves the database alone.
LEMMA DatabaseStep ==
    ASSUME [DeliveryNext]_allVars
    PROVE  [Next]_vars
<1>1. ASSUME NEW s \in Session, Call(s) PROVE Next
  BY <1>1 DEF Call, Next
<1>2. ASSUME NEW e \in Env, Sweep(e) PROVE Next
  BY <1>2 DEF Sweep, Next
<1>3. ASSUME NEW e \in Env, Deliver(e) PROVE UNCHANGED vars
  BY <1>3 DEF Deliver
<1>4. ASSUME NEW w \in Worker, SyncStep(w) \/ WriteFails(w) \/ SyncFails(w)
      PROVE  UNCHANGED vars
  BY <1>4 DEF SyncStep, BeginSync, SyncNothing, Write, WriteFails, SyncFails
<1>5. CASE Otherwise
  BY <1>5 DEF Otherwise, Next
<1>6. CASE UNCHANGED allVars
  BY <1>6 DEF allVars
<1> QED BY <1>1, <1>2, <1>3, <1>4, <1>5, <1>6 DEF DeliveryNext

\* What was proved of Release holds of it with its manifests: writing them
\* never changes a row.
THEOREM ImplementsRelease == DeliverySpec => Spec
<1>1. DeliveryInit => Init
  BY DEF DeliveryInit
<1>2. [DeliveryNext]_allVars => [Next]_vars
  BY DatabaseStep
<1> QED BY <1>1, <1>2, PTL DEF DeliverySpec, Spec

-----------------------------------------------------------------------------
(* Types.                                                                  *)

SyncType ==
    {Idle} \cup [op : {"sync"}, env : Env]
    \cup [op : {"writing"}, env : Env, body : {None} \cup Manifest]

\* Where a worker is, and for which environment.
LEMMA SyncTypes ==
    ASSUME DeliveryTypeOK, NEW w \in Worker
    PROVE  /\ InSync(w, "sync") => sync[w].env \in Env
           /\ InSync(w, "writing") =>
                sync[w].env \in Env /\ sync[w].body \in {None} \cup Manifest
<1>1. sync[w] \in SyncType
  BY DEF DeliveryTypeOK, SyncType
<1> QED BY <1>1 DEF SyncType, InSync, Idle

\* Entering a part of a sync changes one worker only.
LEMMA EnterType ==
    ASSUME DeliveryTypeOK, NEW w \in Worker, NEW c \in SyncType, Enter(w, c)
    PROVE  /\ sync' \in [Worker -> SyncType]
           /\ sync'[w] = c
           /\ \A x \in Worker : x # w => sync'[x] = sync[x]
BY DEF DeliveryTypeOK, Enter, SyncType

\* A published environment is described by a manifest.
LEMMA DescribeType ==
    ASSUME TypeOK, NEW e \in Env, current[e] # None
    PROVE  Describe(e) \in Manifest
<1>1. current[e] \in Key
  BY DEF TypeOK
<1>2. rollout[e] # None => rollout[e].candidate \in Key /\ rollout[e].percent \in Percent
  BY RowTypes DEF RolloutRow
<1> QED BY <1>1, <1>2 DEF Describe, Manifest

\* The rows a step locks and gives back: a worker that is not writing holds
\* none, so a step of its own disturbs nobody's.
LocksOK ==
    \A e \in Env : lock[e] # None => InSync(lock[e], "writing") /\ sync[lock[e]].env = e

\* A worker that is not writing takes no lock by moving on.
LEMMA LocksStay ==
    ASSUME DeliveryTypeOK, NEW w \in Worker, NEW c \in SyncType, Enter(w, c),
           ~InSync(w, "writing"), UNCHANGED lock
    PROVE  LocksOK'
<1> SUFFICES ASSUME NEW e \in Env, lock[e] # None
             PROVE  sync'[lock[e]] = sync[lock[e]]
  BY DEF LocksOK, DeliveryTypeOK, InSync
<1>1. lock[e] \in Worker /\ InSync(lock[e], "writing")
  BY DEF DeliveryTypeOK
<1> QED BY <1>1, EnterType

\* Giving back what it held, a worker disturbs nobody else.
LEMMA UnlockStep ==
    ASSUME DeliveryTypeOK, NEW w \in Worker, Enter(w, Idle), Unlock(w)
    PROVE  lock' \in [Env -> Worker \cup {None}] /\ LocksOK'
<1>1. lock' \in [Env -> Worker \cup {None}]
  BY DEF DeliveryTypeOK, Unlock
<1>2. ASSUME NEW e \in Env, lock'[e] # None
      PROVE  sync'[lock'[e]].op = "writing" /\ sync'[lock'[e]].env = e
  <2>1. lock'[e] = lock[e] /\ lock[e] # w
    BY <1>2 DEF Unlock
  <2>2. lock[e] \in Worker /\ InSync(lock[e], "writing") /\ sync[lock[e]].env = e
    BY <1>2, <2>1 DEF DeliveryTypeOK
  <2>3. sync'[lock[e]] = sync[lock[e]]
    BY <2>1, <2>2, EnterType DEF SyncType
  <2> QED BY <2>1, <2>2, <2>3 DEF InSync
<1> QED BY <1>1, <1>2 DEF LocksOK, InSync

\* A transaction, and what its caller does next.
LEMMA AfterCommitType ==
    ASSUME DeliveryTypeOK, NEW w \in Worker, InSync(w, "idle"), AfterCommit(w)
    PROVE  DeliveryTypeOK'
<1>1. owed' \in [Env -> BOOLEAN] /\ dead' \subseteq Env /\ UNCHANGED <<manifest, lock, faults>>
  BY DEF AfterCommit, Announced, Moved, Destroyed, DeliveryTypeOK
<1>2. CASE UNCHANGED sync
  BY <1>1, <1>2 DEF DeliveryTypeOK, InSync
<1>3. ASSUME NEW e \in Env, Enter(w, ToSync(e)) PROVE DeliveryTypeOK'
  <2>1. ToSync(e) \in SyncType
    BY DEF ToSync, SyncType
  <2>2. sync' \in [Worker -> SyncType]
    BY <1>3, <2>1, EnterType
  <2>3. LocksOK'
    BY <1>1, <1>3, <2>1, LocksStay DEF InSync
  <2> QED BY <1>1, <2>2, <2>3 DEF DeliveryTypeOK, SyncType, LocksOK
<1> QED BY <1>2, <1>3 DEF AfterCommit

\* How a delivery ends: settled, owed again or given up.
Ends(w, e) == Settle(w, e) \/ Retry(w, e) \/ DeadLetter(w, e)

\* A delivery that is settled, retried or given up owes or not.
LEMMA OwedType ==
    ASSUME DeliveryTypeOK, NEW w \in Worker, NEW e \in Env, Ends(w, e)
    PROVE  owed' \in [Env -> BOOLEAN] /\ dead' \subseteq Env
BY DEF DeliveryTypeOK, Ends, Settle, Retry, DeadLetter

\* Every step keeps the types.
LEMMA DeliveryTypeStep ==
    ASSUME TypeOK, DeliveryTypeOK, [DeliveryNext]_allVars
    PROVE  DeliveryTypeOK'
<1> USE WorkerAssumption
<1>0. Idle \in SyncType
  BY DEF SyncType
<1>1. ASSUME NEW s \in Session, Call(s) PROVE DeliveryTypeOK'
  BY <1>1, AfterCommitType DEF Call, Worker
<1>2. ASSUME NEW e \in Env, Sweep(e) PROVE DeliveryTypeOK'
  BY <1>2, AfterCommitType DEF Sweep, Worker
<1>3. ASSUME NEW e \in Env, Deliver(e) PROVE DeliveryTypeOK'
  <2>1. ToSync(e) \in SyncType /\ Dispatcher \in Worker
    BY DEF ToSync, SyncType, Worker
  <2>2. sync' \in [Worker -> SyncType] /\ LocksOK'
    BY <1>3, <2>1, EnterType, LocksStay DEF Deliver, InSync
  <2>3. owed' \in [Env -> BOOLEAN] /\ UNCHANGED <<dead, manifest, lock, faults>>
    BY <1>3 DEF Deliver, DeliveryTypeOK
  <2> QED BY <2>2, <2>3 DEF DeliveryTypeOK, SyncType, LocksOK
<1>4. ASSUME NEW w \in Worker, BeginSync(w) PROVE DeliveryTypeOK'
  <2> DEFINE e == sync[w].env
             c == [op |-> "writing", env |-> e, body |-> IF e \in live THEN Describe(e) ELSE None]
  <2>1. e \in Env /\ InSync(w, "sync") /\ Unlocked(e)
    BY <1>4, SyncTypes DEF BeginSync
  <2>2. e \in live => Describe(e) \in Manifest
    BY <1>4, <2>1, DescribeType DEF BeginSync, ServesNothing
  <2>3. c \in SyncType
    BY <2>1, <2>2 DEF SyncType
  <2>4. Enter(w, c) /\ UNCHANGED <<owed, dead, manifest, faults>>
    BY <1>4 DEF BeginSync
  <2>5. lock' = lock \/ lock' = [lock EXCEPT ![e] = w]
    BY <1>4 DEF BeginSync
  <2> HIDE DEF c
  <2>6. sync' \in [Worker -> SyncType] /\ sync'[w] = c
    BY <2>3, <2>4, EnterType
  <2>7. CASE lock' = lock
    <3>1. LocksOK'
      BY <2>1, <2>3, <2>4, <2>7, LocksStay DEF InSync
    <3> QED BY <2>4, <2>6, <2>7, <3>1 DEF DeliveryTypeOK, SyncType, LocksOK
  <2>8. CASE lock' = [lock EXCEPT ![e] = w]
    <3>1. lock' \in [Env -> Worker \cup {None}]
      BY <2>1, <2>8 DEF DeliveryTypeOK
    <3>2. c.op = "writing" /\ c.env = e
      BY DEF c
    <3>3. ASSUME NEW x \in Env, lock'[x] # None
          PROVE  sync'[lock'[x]].op = "writing" /\ sync'[lock'[x]].env = x
      <4>1. CASE x = e
        <5>1. lock'[x] = w
          BY <2>1, <2>8, <4>1 DEF DeliveryTypeOK
        <5> QED BY <2>6, <3>2, <4>1, <5>1 DEF InSync
      <4>2. CASE x # e
        <5>1. lock'[x] = lock[x]
          BY <2>8, <4>2 DEF DeliveryTypeOK
        <5>2. lock[x] \in Worker /\ InSync(lock[x], "writing") /\ sync[lock[x]].env = x
          BY <3>3, <5>1 DEF DeliveryTypeOK
        <5>3. lock[x] # w
          BY <2>1, <5>2 DEF InSync
        <5>4. sync'[lock[x]] = sync[lock[x]]
          BY <2>3, <2>4, <5>2, <5>3, EnterType
        <5> QED BY <5>1, <5>2, <5>4 DEF InSync
      <4> QED BY <4>1, <4>2
    <3> QED BY <2>4, <2>6, <3>1, <3>3 DEF DeliveryTypeOK, SyncType, InSync
  <2> QED BY <2>5, <2>7, <2>8
<1>5. ASSUME NEW w \in Worker, SyncNothing(w) \/ SyncFails(w) PROVE DeliveryTypeOK'
  <2>1. sync[w].env \in Env /\ ~InSync(w, "writing") /\ Enter(w, Idle)
    BY <1>5, SyncTypes DEF SyncNothing, SyncFails, InSync
  <2>2. UNCHANGED <<manifest, lock>> /\ owed' \in [Env -> BOOLEAN] /\ dead' \subseteq Env
    BY <1>5, <2>1, OwedType DEF SyncNothing, SyncFails, Ends
  <2>3. faults' \in 0 .. MaxFaults
    BY <1>5 DEF SyncNothing, SyncFails, Fault, DeliveryTypeOK
  <2>4. sync' \in [Worker -> SyncType] /\ LocksOK'
    BY <1>0, <2>1, <2>2, EnterType, LocksStay
  <2> QED BY <2>2, <2>3, <2>4 DEF DeliveryTypeOK, SyncType, LocksOK
<1>6. ASSUME NEW w \in Worker, Write(w) \/ WriteFails(w) PROVE DeliveryTypeOK'
  <2>1. /\ sync[w].env \in Env /\ sync[w].body \in {None} \cup Manifest
        /\ Enter(w, Idle) /\ Unlock(w)
    BY <1>6, SyncTypes DEF Write, WriteFails
  <2>2. manifest' \in [Env -> {None} \cup Manifest]
    BY <1>6, <2>1 DEF Write, WriteFails, Put, DeliveryTypeOK
  <2>3. owed' \in [Env -> BOOLEAN] /\ dead' \subseteq Env
    BY <1>6, <2>1, OwedType DEF Write, WriteFails, Ends
  <2>4. faults' \in 0 .. MaxFaults
    BY <1>6 DEF Write, WriteFails, Fault, DeliveryTypeOK
  <2>5. sync' \in [Worker -> SyncType]
    BY <1>0, <2>1, EnterType
  <2>6. lock' \in [Env -> Worker \cup {None}] /\ LocksOK'
    BY <2>1, UnlockStep
  <2> QED BY <2>2, <2>3, <2>4, <2>5, <2>6 DEF DeliveryTypeOK, SyncType, LocksOK
<1>7. CASE Otherwise \/ UNCHANGED allVars
  BY <1>7 DEF Otherwise, allVars, delivery, DeliveryTypeOK, InSync
<1> QED BY <1>1, <1>2, <1>3, <1>4, <1>5, <1>6, <1>7 DEF DeliveryNext, SyncStep

\* Type correctness of the delivery: what a worker is about to write is a
\* manifest, and only a worker that writes holds a row.
THEOREM DeliveryTypeCorrect == DeliverySpec => []DeliveryTypeOK
<1>1. DeliveryInit => DeliveryTypeOK
  BY WorkerAssumption DEF DeliveryInit, DeliveryTypeOK
<1>2. TypeOK /\ DeliveryTypeOK /\ [DeliveryNext]_allVars => DeliveryTypeOK'
  BY DeliveryTypeStep
<1> QED BY <1>1, <1>2, ImplementsRelease, TypeCorrect, PTL DEF DeliverySpec

-----------------------------------------------------------------------------
(* What is written is so.                                                  *)

\* A worker that writes the manifest of an environment that stays holds its
\* row and describes it.
Writes(w, e) ==
    /\ lock[e] = w
    /\ sync[w].body = Describe(e)
    /\ current[e] # None

WritingInv ==
    \A w \in Worker, e \in Env \ Branch :
        InSync(w, "writing") /\ sync[w].env = e => Writes(w, e)

\* What is not changed is described as before.
LEMMA DescribedStill ==
    ASSUME NEW e \in Env, ~Changed(e)
    PROVE  Describe(e)' = Describe(e) /\ current'[e] = current[e]
BY DEF Changed, Moved, RolledOut, Describe

\* A transaction waits for the writers of the rows it changes.
LEMMA WritingWaits ==
    ASSUME WritingInv, RowsUnlocked, UNCHANGED lock,
           NEW w \in Worker, NEW e \in Env \ Branch,
           InSync(w, "writing"), sync[w].env = e, sync'[w] = sync[w]
    PROVE  Writes(w, e)'
<1>1. Writes(w, e)
  BY DEF WritingInv
<1>2. ~Changed(e)
  BY <1>1, WorkerAssumption DEF RowsUnlocked, Unlocked, Writes
<1>3. Describe(e)' = Describe(e) /\ current'[e] = current[e]
  BY <1>2, DescribedStill
<1> QED BY <1>1, <1>3 DEF Writes

\* So does everything else that leaves the writer and its row alone.
LEMMA WritingStays ==
    ASSUME WritingInv, UNCHANGED vars, NEW w \in Worker, NEW e \in Env \ Branch,
           InSync(w, "writing"), sync[w].env = e, sync'[w] = sync[w],
           lock'[e] = lock[e]
    PROVE  Writes(w, e)'
<1>1. Writes(w, e)
  BY DEF WritingInv
<1>2. Describe(e)' = Describe(e) /\ current' = current
  BY DEF vars, environments, Describe
<1> QED BY <1>1, <1>2 DEF Writes

\* A write that begins locks the row it reads.
LEMMA WritingBegins ==
    ASSUME TypeOK, DeliveryTypeOK, NEW w \in Worker, NEW e \in Env \ Branch,
           BeginSync(w), sync[w].env = e
    PROVE  Writes(w, e)'
<1>1. e \in live
  BY DEF TypeOK
<1>2. Describe(e)' = Describe(e) /\ current' = current /\ current[e] # None
  BY <1>1 DEF BeginSync, ServesNothing, vars, environments, Describe
<1>3. lock'[e] = w
  BY <1>1 DEF BeginSync, LocksRow, DeliveryTypeOK
<1>4. sync'[w].body = Describe(e)
  BY <1>1 DEF BeginSync, Enter, DeliveryTypeOK
<1> QED BY <1>2, <1>3, <1>4 DEF Writes

\* Every step keeps WritingInv: only the holder of an environment's row writes.
LEMMA WritingStep ==
    ASSUME TypeOK, DeliveryTypeOK, WritingInv, [DeliveryNext]_allVars
    PROVE  WritingInv'
<1> USE WorkerAssumption
<1> SUFFICES ASSUME NEW x \in Worker, NEW y \in Env \ Branch,
                    sync'[x].op = "writing", sync'[x].env = y
             PROVE  Writes(x, y)'
  BY DEF WritingInv, InSync
<1>0. ASSUME NEW w \in Worker, NEW c \in SyncType, Enter(w, c), c.op # "writing"
      PROVE  x # w /\ sync'[x] = sync[x]
  BY <1>0, EnterType
<1>1. ASSUME NEW w \in Worker, AfterCommit(w)
      PROVE  sync'[x] = sync[x] /\ UNCHANGED lock /\ RowsUnlocked
  <2>1. ASSUME NEW e \in Env, Enter(w, ToSync(e)) PROVE sync'[x] = sync[x]
    <3>1. ToSync(e) \in SyncType /\ ToSync(e).op # "writing"
      BY DEF ToSync, SyncType
    <3> QED BY <2>1, <3>1, <1>0
  <2> QED BY <1>1, <2>1 DEF AfterCommit
<1>2. CASE (\E s \in Session : Call(s)) \/ (\E e \in Env : Sweep(e))
  <2>1. sync'[x] = sync[x] /\ UNCHANGED lock /\ RowsUnlocked
    BY <1>1, <1>2 DEF Call, Sweep, Worker
  <2> QED BY <2>1, WritingWaits DEF InSync
<1>3. CASE Otherwise
  BY <1>3, WritingWaits DEF Otherwise, delivery, InSync
<1>4. ASSUME sync'[x] = sync[x], UNCHANGED vars, lock'[y] = lock[y]
      PROVE  Writes(x, y)'
  BY <1>4, WritingStays DEF InSync
<1>5. ASSUME NEW e \in Env, Deliver(e) PROVE Writes(x, y)'
  <2>1. ToSync(e) \in SyncType /\ ToSync(e).op # "writing" /\ Dispatcher \in Worker
    BY DEF ToSync, SyncType, Worker
  <2> QED BY <1>5, <2>1, <1>0, <1>4 DEF Deliver
<1>6. Idle \in SyncType /\ Idle.op # "writing"
  BY DEF Idle, SyncType
<1>7. ASSUME NEW w \in Worker, SyncNothing(w) \/ SyncFails(w) PROVE Writes(x, y)'
  BY <1>7, <1>6, <1>0, <1>4 DEF SyncNothing, SyncFails
<1>8. ASSUME NEW w \in Worker, Write(w) \/ WriteFails(w) PROVE Writes(x, y)'
  <2>1. x # w /\ sync'[x] = sync[x]
    BY <1>8, <1>6, <1>0 DEF Write, WriteFails
  <2>2. lock[y] = x
    BY <2>1 DEF WritingInv, Writes, InSync
  <2>3. lock'[y] = lock[y]
    BY <1>8, <2>1, <2>2 DEF Write, WriteFails, Unlock
  <2> QED BY <1>8, <2>1, <2>3, <1>4 DEF Write, WriteFails
<1>9. ASSUME NEW w \in Worker, BeginSync(w) PROVE Writes(x, y)'
  <2>1. CASE x = w
    <3>1. sync'[w].env = sync[w].env
      BY <1>9 DEF BeginSync, Enter, DeliveryTypeOK
    <3> QED BY <1>9, <2>1, <3>1, WritingBegins
  <2>2. CASE x # w
    <3>1. sync'[x] = sync[x]
      BY <1>9, <2>2 DEF BeginSync, Enter, DeliveryTypeOK
    <3>2. lock[y] = x
      BY <3>1 DEF WritingInv, Writes, InSync
    <3>3. lock'[y] = lock[y]
      BY <1>9, <3>2 DEF BeginSync, Unlocked, DeliveryTypeOK
    <3> QED BY <1>9, <3>1, <3>3, <1>4 DEF BeginSync
  <2> QED BY <2>1, <2>2
<1>10. CASE UNCHANGED allVars
  BY <1>4, <1>10 DEF allVars, delivery
<1> QED BY <1>2, <1>3, <1>5, <1>7, <1>8, <1>9, <1>10 DEF DeliveryNext, SyncStep

WritingSafety == TypeOK /\ DeliveryTypeOK /\ WritingInv

\* The invariant about writes holds of DeliverySpec.
LEMMA Writing == DeliverySpec => []WritingSafety
<1>1. DeliveryInit => WritingInv
  BY DEF DeliveryInit, WritingInv, InSync, Idle
<1>2. TypeOK /\ DeliveryTypeOK /\ WritingInv /\ [DeliveryNext]_allVars => WritingInv'
  BY WritingStep
<1> QED
  BY <1>1, <1>2, ImplementsRelease, TypeCorrect, DeliveryTypeCorrect, PTL
  DEF DeliverySpec, WritingSafety

\* Only a worker that writes changes a manifest.
LEMMA ManifestStep ==
    ASSUME [DeliveryNext]_allVars
    PROVE  \/ UNCHANGED manifest
           \/ \E w \in Worker : InSync(w, "writing") /\ Put(w)
BY DEF DeliveryNext, Call, Sweep, AfterCommit, Deliver, SyncStep, BeginSync, SyncNothing, Write,
       WriteFails, SyncFails, Otherwise, allVars, delivery

\* A write describes its environment as it is when it reaches storage, however
\* long ago it began: nobody moves a pointer or a rollout under it.
THEOREM WritesAreCurrent == DeliverySpec => WritesDescribeCurrent
<1>1. ASSUME WritingSafety, [DeliveryNext]_allVars, NEW e \in Env \ Branch,
             manifest'[e] # manifest[e]
      PROVE  manifest'[e] = Describe(e)
  <2>1. PICK w \in Worker : InSync(w, "writing") /\ Put(w)
    BY <1>1, ManifestStep
  <2>2. sync[w].env = e /\ manifest'[e] = sync[w].body
    BY <1>1, <2>1 DEF Put, WritingSafety, DeliveryTypeOK
  <2> QED BY <1>1, <2>1, <2>2 DEF WritingSafety, WritingInv, Writes
<1>2. WritingSafety /\ [DeliveryNext]_allVars =>
        [\A e \in Env \ Branch :
            manifest'[e] # manifest[e] => manifest'[e] = Describe(e)]_allVars
  BY <1>1
<1> QED BY <1>2, Writing, PTL DEF DeliverySpec, WritesDescribeCurrent

-----------------------------------------------------------------------------
(* What is stale is owed.                                                  *)

\* No step of Release moves a pointer but those of calls.
LEMMA PointersStay ==
    ASSUME Elsewhere
    PROVE  UNCHANGED current
BY DEF Elsewhere, Overdue, Configure, ChangeCheckPolicy, OpenBranch, Deny, Withdraw, Grant,
       environments

\* Once a write took place, the manifest names the pointer.
LEMMA WrittenNames ==
    ASSUME WritingSafety, UNCHANGED vars, NEW w \in Worker, InSync(w, "writing"), Put(w),
           NEW e \in Env \ Branch, sync[w].env = e
    PROVE  Names(e)'
<1>1. Writes(w, e)
  BY DEF WritingSafety, WritingInv
<1>2. manifest'[e] = Describe(e)
  BY <1>1 DEF Put, Writes, WritingSafety, DeliveryTypeOK
<1>3. Describe(e) # None /\ Describe(e).release = current[e]
  <2>1. Describe(e) \in Manifest
    BY <1>1, DescribeType DEF Writes, WritingSafety
  <2> QED BY <2>1, ManifestAssumption DEF Describe
<1>4. current' = current
  BY DEF vars, environments
<1> QED BY <1>2, <1>3, <1>4 DEF Names

\* What is known of one environment's delivery, and what leaves it so.
Reached(e) == Names(e) \/ owed[e] \/ Delivering(e) \/ e \in dead

\* What storage says of an environment is not made stale by other steps.
LEMMA ReachedStays ==
    ASSUME NEW e \in Env, Reached(e), current'[e] = current[e], manifest'[e] = manifest[e],
           owed[e] => owed'[e], e \in dead => e \in dead', Delivering(e) => Delivering(e)'
    PROVE  Reached(e)'
BY DEF Reached, Names

\* Every step keeps StalenessIsOwed.
LEMMA StalenessStep ==
    ASSUME WritingSafety, StalenessIsOwed, [DeliveryNext]_allVars
    PROVE  StalenessIsOwed'
<1> USE WorkerAssumption
<1> SUFFICES ASSUME NEW e \in Env \ Branch, current'[e] # None
             PROVE  Reached(e)'
  BY DEF StalenessIsOwed, Reached
<1>0. DeliveryTypeOK /\ Dispatcher \in Worker
  BY DEF WritingSafety, Worker
<1>1. current[e] # None => Reached(e)
  BY DEF StalenessIsOwed, Reached
<1>2. ASSUME NEW w \in Worker, w # Dispatcher, InSync(w, "idle"), AfterCommit(w)
      PROVE  Reached(e)'
  <2>1. (owed'[e] <=> (owed[e] \/ Announced(e))) /\ dead' = {x \in dead : ~Announced(x)}
    BY <1>2 DEF AfterCommit
  <2>2. sync'[Dispatcher] = sync[Dispatcher] /\ manifest' = manifest
    BY <1>0, <1>2 DEF AfterCommit, Enter, DeliveryTypeOK
  <2>3. CASE Moved(e)
    BY <2>1, <2>3 DEF Announced, Reached
  <2>4. CASE ~Moved(e) /\ ~Destroyed(e)
    <3>1. e \in dead => e \in dead'
      BY <2>1, <2>4 DEF Announced
    <3> QED BY <1>1, <2>1, <2>2, <2>4, <3>1, ReachedStays DEF Moved, Delivering, InSync
  <2>5. CASE Destroyed(e)
    BY <2>1, <2>5 DEF Announced, Reached
  <2> QED BY <2>3, <2>4, <2>5
<1>3. CASE (\E s \in Session : Call(s)) \/ (\E x \in Env : Sweep(x))
  BY <1>2, <1>3 DEF Call, Sweep, Worker
<1>4. CASE Otherwise
  BY <1>1, <1>4, PointersStay, ReachedStays DEF Otherwise, delivery, Delivering, InSync
<1>5. ASSUME UNCHANGED vars PROVE current' = current /\ Reached(e)
  BY <1>1, <1>5 DEF vars, environments
<1>6. ASSUME NEW x \in Env, Deliver(x) PROVE Reached(e)'
  <2>1. /\ UNCHANGED <<vars, dead>> /\ manifest' = manifest /\ ~Delivering(e)
        /\ owed' = [owed EXCEPT ![x] = FALSE] /\ sync'[Dispatcher] = ToSync(x)
    BY <1>0, <1>6 DEF Deliver, Enter, Delivering, DeliveryTypeOK
  <2>2. CASE x = e
    BY <2>1, <2>2 DEF Reached, Delivering, InSync, ToSync
  <2>3. CASE x # e
    <3>1. owed'[e] = owed[e]
      BY <1>0, <2>1, <2>3 DEF DeliveryTypeOK
    <3> QED BY <1>5, <2>1, <3>1, ReachedStays
  <2> QED BY <2>2, <2>3
<1>7. ASSUME NEW w \in Worker, BeginSync(w) PROVE Reached(e)'
  <2>1. UNCHANGED <<vars, dead>> /\ manifest' = manifest /\ owed' = owed
    BY <1>7 DEF BeginSync
  <2>2. Delivering(e) => Delivering(e)'
    BY <1>0, <1>7 DEF BeginSync, Enter, Delivering, InSync, DeliveryTypeOK
  <2> QED BY <1>5, <2>1, <2>2, ReachedStays
<1>8. ASSUME NEW w \in Worker, Enter(w, Idle), ~(w = Dispatcher /\ sync[w].env = e)
      PROVE  Delivering(e) => Delivering(e)'
  BY <1>0, <1>8 DEF Enter, Delivering, InSync, DeliveryTypeOK
<1>9. ASSUME NEW w \in Worker, NEW x, Ends(w, x)
      PROVE  (owed[e] => owed'[e]) /\ (e \in dead => e \in dead')
  BY <1>0, <1>9 DEF Ends, Settle, Retry, DeadLetter, DeliveryTypeOK
<1>10. ASSUME NEW w \in Worker, SyncNothing(w) PROVE Reached(e)'
  <2>1. UNCHANGED vars /\ manifest' = manifest /\ Enter(w, Idle) /\ Ends(w, sync[w].env)
    BY <1>10 DEF SyncNothing, Ends
  <2>2. sync[w].env # e
    BY <1>5, <1>10, <2>1 DEF SyncNothing, ServesNothing
  <2> QED BY <1>5, <1>8, <1>9, <2>1, <2>2, ReachedStays
<1>11. ASSUME NEW w \in Worker, SyncFails(w) \/ WriteFails(w), manifest' = manifest
       PROVE  Reached(e)'
  <2>1. UNCHANGED vars /\ Enter(w, Idle) /\ (Retry(w, sync[w].env) \/ DeadLetter(w, sync[w].env))
    BY <1>11 DEF SyncFails, WriteFails
  <2>2. CASE w = Dispatcher /\ sync[w].env = e
    BY <1>0, <2>1, <2>2 DEF Retry, DeadLetter, Reached, DeliveryTypeOK
  <2>3. CASE ~(w = Dispatcher /\ sync[w].env = e)
    <3>1. Ends(w, sync[w].env)
      BY <2>1 DEF Ends
    <3> QED BY <1>5, <1>8, <1>9, <1>11, <2>1, <2>3, <3>1, ReachedStays
  <2> QED BY <2>2, <2>3
<1>12. ASSUME NEW w \in Worker, Write(w) \/ WriteFails(w), Put(w) PROVE Reached(e)'
  <2>1. /\ UNCHANGED vars /\ Enter(w, Idle) /\ InSync(w, "writing")
        /\ Ends(w, sync[w].env)
    BY <1>12 DEF Write, WriteFails, Ends
  <2>2. CASE sync[w].env = e
    BY <1>12, <2>1, <2>2, WrittenNames DEF Reached
  <2>3. CASE sync[w].env # e
    <3>1. manifest'[e] = manifest[e]
      BY <1>0, <1>12, <2>3 DEF Put, DeliveryTypeOK
    <3> QED BY <1>5, <1>8, <1>9, <2>1, <2>3, <3>1, ReachedStays
  <2> QED BY <2>2, <2>3
<1>13. CASE UNCHANGED allVars
  BY <1>5, <1>13, ReachedStays DEF allVars, delivery, Delivering, InSync
<1>14. ASSUME NEW w \in Worker, SyncStep(w) \/ WriteFails(w) \/ SyncFails(w)
       PROVE  Reached(e)'
  BY <1>7, <1>10, <1>11, <1>12, <1>14 DEF SyncStep, Write, WriteFails, SyncFails
<1> QED BY <1>3, <1>4, <1>6, <1>13, <1>14 DEF DeliveryNext

\* However many writes fail and processes crash, a manifest that names another
\* release than the pointer of an environment that stays has a delivery coming,
\* until the outbox gives the event of its last move up as a dead letter.
THEOREM StaleIsOwed == DeliverySpec => []StalenessIsOwed
<1>1. DeliveryInit => StalenessIsOwed
  BY DEF DeliveryInit, Init, StalenessIsOwed
<1>2. WritingSafety /\ StalenessIsOwed /\ [DeliveryNext]_allVars => StalenessIsOwed'
  BY StalenessStep
<1> QED BY <1>1, <1>2, Writing, PTL DEF DeliverySpec
=============================================================================
