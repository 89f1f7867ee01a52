-------------------------- MODULE ReleaseDelivery --------------------------
(***************************************************************************)
(* From the database to object storage: Release composed with the writing  *)
(* of manifests (SyncEnvironment), which glossa-edge serves.  A call that  *)
(* changed an environment writes its manifest right after its transaction  *)
(* (syncNow); a pointer move also leaves an event, which the outbox        *)
(* delivers to release.sync_manifest until a write succeeds or the event   *)
(* has used up its attempts.                                               *)
(*                                                                         *)
(* A write holds the environment's row lock while storage works: its two   *)
(* ends are steps, and no transaction changes the row in between.  Of the  *)
(* outbox only its contract is used (OutboxContract): an event is          *)
(* delivered at least once, and again after a failure unless it was the    *)
(* last its attempts allow.  Attempts are not counted here: any failure    *)
(* may be the last.                                                        *)
(***************************************************************************)
EXTENDS Release

CONSTANTS
    Dispatcher,  \* the outbox, delivering to release.sync_manifest
    Sweeper,     \* the rollout sweeper
    MaxFaults    \* bound: failed writes, and crashes before one

Worker == Session \cup {Dispatcher, Sweeper}

ASSUME WorkerAssumption ==
    /\ Dispatcher \notin Session /\ Sweeper \notin Session
    /\ Dispatcher # Sweeper /\ None \notin Worker
    /\ MaxFaults \in Nat

VARIABLES
    owed,      \* owed[e]: an event of e is not delivered to sync_manifest
    dead,      \* environments whose events the outbox gave up, with none of them owed
    manifest,  \* manifest[e]: the object in storage
    lock,      \* lock[e]: who holds e's row while it writes the manifest
    sync,      \* sync[w]: where w is in SyncEnvironment
    faults

delivery == <<owed, dead, manifest, lock, sync, faults>>
allVars == <<vars, delivery>>

ToSync(e) == [op |-> "sync", env |-> e]
InSync(w, op) == sync[w].op = op
Enter(w, c) == sync' = [sync EXCEPT ![w] = c]

DeliveryInit ==
    /\ Init
    /\ owed = [e \in Env |-> FALSE] /\ dead = {}
    /\ manifest = [e \in Env |-> None]
    /\ lock = [e \in Env |-> None]
    /\ sync = [w \in Worker |-> Idle]
    /\ faults = 0

-----------------------------------------------------------------------------
(* A transaction, and what follows it.                                     *)

Unlocked(e) == lock[e] = None

\* What the transaction did to e.
Moved(e) == current'[e] # current[e]
Destroyed(e) == e \in live /\ e \notin live'
RolledOut(e) == rollout'[e] # rollout[e]
Rewritten(e) == <<policy[e], approval[e]>>' # <<policy[e], approval[e]>>
Changed(e) == Moved(e) \/ Destroyed(e) \/ RolledOut(e) \/ Rewritten(e)
\* It waited for the rows it changed.
RowsUnlocked == \A e \in Env : Changed(e) => Unlocked(e)

\* The types release.sync_manifest is subscribed to: published, promoted,
\* rolled_back and environment.destroyed, and none of the rollout's.
NothingAnnounced(e) == FALSE
Announced(e) == Moved(e) \/ Destroyed(e)

\* syncNow follows every pointer move, every change of a rollout and the
\* destruction of a branch's environment.
SyncsAfter(e) == Moved(e) \/ Destroyed(e) \/ RolledOut(e)

AfterCommit(w) ==
    /\ RowsUnlocked
    /\ owed' = [e \in Env |-> owed[e] \/ Announced(e)]
    /\ dead' = {e \in dead : ~Announced(e)}
    /\ IF \E e \in Env : SyncsAfter(e)
       THEN \E e \in Env : SyncsAfter(e) /\ Enter(w, ToSync(e))
       ELSE UNCHANGED sync
    /\ UNCHANGED <<manifest, lock, faults>>

Call(s) == InSync(s, "idle") /\ SessionStep(s) /\ AfterCommit(s)
Sweep(e) == InSync(Sweeper, "idle") /\ Expire(e) /\ AfterCommit(Sweeper)
Otherwise == Elsewhere /\ RowsUnlocked /\ UNCHANGED delivery

-----------------------------------------------------------------------------
(* SyncEnvironment.                                                        *)

\* The release served, and the active rollout's candidate.
Describe(e) ==
    [release |-> current[e],
     rollout |-> IF rollout[e] = None THEN None
                 ELSE [candidate |-> rollout[e].candidate,
                       percent |-> rollout[e].percent]]

\* The outbox delivers what it has of e.
Deliver(e) ==
    /\ InSync(Dispatcher, "idle") /\ owed[e]
    /\ owed' = [owed EXCEPT ![e] = FALSE]
    /\ Enter(Dispatcher, ToSync(e))
    /\ UNCHANGED <<vars, dead, manifest, lock, faults>>

\* A delivery that fails is retried, or dead-lettered when it was the last that
\* the event's attempts allow; one that succeeds may be repeated.
GivesUp(w, e) == UNCHANGED <<owed, dead>>
Retry(w, e) == owed' = [owed EXCEPT ![e] = owed[e] \/ w = Dispatcher] /\ UNCHANGED dead
DeadLetter(w, e) ==
    /\ w = Dispatcher
    /\ dead' = IF owed[e] THEN dead ELSE dead \cup {e}
    /\ UNCHANGED owed
Settle(w, e) == UNCHANGED <<owed, dead>> \/ Retry(w, e)

\* An environment before its first publish has no manifest to write.
AlwaysServes(e) == FALSE
ServesNothing(e) == e \in live /\ current[e] = None

\* The row is locked and read.  An environment without a row has nothing to
\* lock: its manifest is to be removed.
LocksNothing(e) == FALSE
LocksRow(e) == e \in live
BeginSync(w) ==
    /\ InSync(w, "sync")
    /\ LET e == sync[w].env IN
       /\ Unlocked(e)
       /\ ~ServesNothing(e)
       /\ lock' = IF LocksRow(e) THEN [lock EXCEPT ![e] = w] ELSE lock
       /\ Enter(w, [op |-> "writing", env |-> e,
                    body |-> IF e \in live THEN Describe(e) ELSE None])
    /\ UNCHANGED <<vars, owed, dead, manifest, faults>>

SyncNothing(w) ==
    /\ InSync(w, "sync")
    /\ LET e == sync[w].env IN
       /\ Unlocked(e)
       /\ ServesNothing(e)
       /\ Settle(w, e)
    /\ Enter(w, Idle)
    /\ UNCHANGED <<vars, manifest, lock, faults>>

KeepsLock(w) == lock' = lock
Unlock(w) == lock' = [e \in Env |-> IF lock[e] = w THEN None ELSE lock[e]]
Put(w) == manifest' = [manifest EXCEPT ![sync[w].env] = sync[w].body]

Write(w) ==
    /\ InSync(w, "writing")
    /\ Put(w) /\ Unlock(w)
    /\ Settle(w, sync[w].env)
    /\ Enter(w, Idle)
    /\ UNCHANGED <<vars, faults>>

Fault == faults < MaxFaults /\ faults' = faults + 1

\* Storage answers with an error, having written the object or not, or the
\* process dies: syncNow only logs it, and the outbox settles its event as failed.
WriteFails(w) ==
    /\ InSync(w, "writing") /\ Fault
    /\ Put(w) \/ UNCHANGED manifest
    /\ Unlock(w)
    /\ Retry(w, sync[w].env) \/ DeadLetter(w, sync[w].env)
    /\ Enter(w, Idle)
    /\ UNCHANGED vars

\* The process dies, or its transaction fails, before it writes.
SyncFails(w) ==
    /\ InSync(w, "sync") /\ Fault
    /\ Retry(w, sync[w].env) \/ DeadLetter(w, sync[w].env)
    /\ Enter(w, Idle)
    /\ UNCHANGED <<vars, manifest, lock>>

SyncStep(w) == BeginSync(w) \/ SyncNothing(w) \/ Write(w)

DeliveryNext ==
    \/ \E s \in Session : Call(s)
    \/ \E e \in Env : Sweep(e) \/ Deliver(e)
    \/ \E w \in Worker : SyncStep(w) \/ WriteFails(w) \/ SyncFails(w)
    \/ Otherwise

DeliverySpec == DeliveryInit /\ [][DeliveryNext]_allVars

-----------------------------------------------------------------------------
(* Properties.                                                             *)

Manifest ==
    [release : Key,
     rollout : {None} \cup [candidate : Key, percent : Percent]]
ASSUME ManifestAssumption == None \notin Manifest

\* Type correctness: a manifest names a release, and only a worker that
\* writes holds a row.
DeliveryTypeOK ==
    /\ owed \in [Env -> BOOLEAN] /\ dead \subseteq Env
    /\ manifest \in [Env -> {None} \cup Manifest]
    /\ lock \in [Env -> Worker \cup {None}]
    /\ sync \in [Worker ->
         {Idle} \cup [op : {"sync"}, env : Env]
         \cup [op : {"writing"}, env : Env, body : {None} \cup Manifest]]
    /\ faults \in 0 .. MaxFaults
    /\ \A e \in Env : lock[e] # None =>
         InSync(lock[e], "writing") /\ sync[lock[e]].env = e

\* What is written to storage of an environment that stays describes it as it
\* is at that moment: two syncs, or a sync and a pointer move, do not reorder.
WritesDescribeCurrent ==
    [][\A e \in Env \ Branch :
        manifest'[e] # manifest[e] => manifest'[e] = Describe(e)]_allVars

\* If the manifest of such an environment names another release than its
\* pointer does, the outbox still has the event that will put it right, is
\* delivering it, or gave it up as a dead letter since the pointer moved
\* (dispatcher.go:437-439).
Delivering(e) == ~InSync(Dispatcher, "idle") /\ sync[Dispatcher].env = e
Names(e) == manifest[e] # None /\ manifest[e].release = current[e]
StalenessIsOwed ==
    \A e \in Env \ Branch : current[e] # None =>
        Names(e) \/ owed[e] \/ Delivering(e) \/ e \in dead

\* The outbox keeps delivering and the sweeper sweeping, a row's lock is
\* granted in turn, and a call that holds a row gives it back.
Fairness ==
    /\ \A w \in Worker :
        WF_allVars(Write(w)) /\ SF_allVars(BeginSync(w) \/ SyncNothing(w))
    /\ \A e \in Env : SF_allVars(Deliver(e)) /\ SF_allVars(Sweep(e))

FairSpec == DeliverySpec /\ Fairness

\* Storage catches up with every pointer, whichever writes fail and whoever
\* crashes, unless the event of the pointer's move became a dead letter.
PointersReachStorage ==
    \A e \in Env : []<>(e \in live /\ current[e] # None => Names(e) \/ e \in dead)

\* The preview of a branch that was closed is removed from storage, whatever
\* was being written when its environment went, with the same exception.
PreviewsGoAway ==
    \A e \in Branch : []<>(e \notin live => manifest[e] = None \/ e \in dead)

\* Storage catches up with the rollouts as well: a rollout that was aborted,
\* expired or changed is served no more, or as it is now; with the same exception.
RolloutsReachStorage ==
    \A e \in Env :
        []<>(e \in live /\ current[e] # None => manifest[e] = Describe(e) \/ e \in dead)
=============================================================================
