---------------------------- MODULE DeliveryKeys ----------------------------
(***************************************************************************)
(* A delivery key and its key index object, through which the edge learns  *)
(* what the key may read (src/platform/internal/release/app/keys.go,       *)
(* sync.go).  A change of the key commits with an event; the object is     *)
(* written afterwards, by the caller at once, by the event's subscriber    *)
(* until it succeeds, and by the maintenance task for a key whose object   *)
(* was last written in an older format.  Whoever writes holds the row.     *)
(*                                                                         *)
(* The scopes a key is given are numbered in the order of the changes; the *)
(* object is None where storage has none.                                  *)
(***************************************************************************)
EXTENDS Naturals

CONSTANTS
    Writer,       \* requests, event handlers and task runs that write the object
    MaxScope,     \* bound: how often a key may change, its revocation included
    None

ASSUME ScopeAssumption == MaxScope \in Nat

Scope == 0 .. MaxScope

ASSUME NoObjectAssumption ==
    None \notin Scope \cup [value : Scope \cup {None}, event : BOOLEAN]

VARIABLES
    key,        \* the row: [scope, active, indexed]
    index,      \* the key index object
    owed,       \* key events not delivered yet, the outbox's dead letters among them
    callers,    \* requests that have committed a change and will write at once
    writing     \* what each writer has read under the row lock, and for whom

keyVars == <<key, index, owed, callers, writing>>

Held == \E w \in Writer : writing[w] # None
\* Whoever changes the key or writes its object waits for the row.
RowShared == TRUE
RowFree == ~Held

Object(k) == IF k.active THEN k.scope ELSE None

\* A key has been created; its request and its event are still to write.
KeyInit ==
    /\ key = [scope |-> 0, active |-> TRUE, indexed |-> FALSE]
    /\ index = None
    /\ owed = 1 /\ callers = 1
    /\ writing = [w \in Writer |-> None]

Changes(k) ==
    /\ RowFree /\ key.active
    /\ key.scope < MaxScope
    /\ key' = k
    /\ owed' = owed + 1 /\ callers' = callers + 1
    /\ UNCHANGED <<index, writing>>

\* The format mark falls back with the scope, so the task writes what nobody did.
ChangeDeliveryKeyScope == Changes([key EXCEPT !.scope = @ + 1, !.indexed = FALSE])

RevokeDeliveryKey == Changes([key EXCEPT !.active = FALSE])

\* Bound: only with nobody else on the way.
WritesAgain ==
    /\ callers = 0 /\ callers' = 1
    /\ UNCHANGED <<key, index, owed, writing>>

\* A request writes again that changes nothing: for an active key its own scope,
\* or a creation repeated with its idempotency key while the scope is the first.
RepeatedRequest == (key.active \/ key.scope = 0) /\ WritesAgain

\* The maintenance task writes the keys that it has listed, later.
StaleKeyIndexes == key.active /\ ~key.indexed /\ WritesAgain

\* A write starts by taking the row, whoever asked for it.
SyncDeliveryKey(w, event) ==
    /\ writing[w] = None /\ RowFree
    /\ writing' = [writing EXCEPT ![w] = [value |-> Object(key), event |-> event]]
    /\ UNCHANGED <<key, index>>

SyncKeyNow(w) == callers > 0 /\ callers' = callers - 1 /\ SyncDeliveryKey(w, FALSE) /\ UNCHANGED owed
HandleKeyChanged(w) == owed > 0 /\ owed' = owed - 1 /\ SyncDeliveryKey(w, TRUE) /\ UNCHANGED callers

\* The object is written, or removed for a revoked key, and the row given back.
Put(w) ==
    /\ writing[w] # None
    /\ index' = writing[w].value
    /\ key' = [key EXCEPT !.indexed = @ \/ writing[w].value # None]
    /\ writing' = [writing EXCEPT ![w] = None]
    /\ UNCHANGED <<owed, callers>>

\* Storage fails or the process dies, before the object is written or after it:
\* only the event comes again, from the outbox or, as a dead letter, from an operator.
Fails(w) ==
    /\ writing[w] # None
    /\ index' \in {index, writing[w].value}
    /\ owed' = IF writing[w].event THEN owed + 1 ELSE owed
    /\ writing' = [writing EXCEPT ![w] = None]
    /\ UNCHANGED <<key, callers>>

\* The request dies between its commit and its write.
CallerDies == callers > 0 /\ callers' = callers - 1 /\ UNCHANGED <<key, index, owed, writing>>

KeyNext ==
    \/ ChangeDeliveryKeyScope \/ RevokeDeliveryKey
    \/ RepeatedRequest \/ StaleKeyIndexes \/ CallerDies
    \/ \E w \in Writer :
         SyncKeyNow(w) \/ HandleKeyChanged(w) \/ Put(w) \/ Fails(w)

KeySpec == KeyInit /\ [][KeyNext]_keyVars

-----------------------------------------------------------------------------
\* Every variable has its shape.
KeyTypeOK ==
    /\ key \in [scope : Scope, active : BOOLEAN, indexed : BOOLEAN]
    /\ index \in Scope \cup {None}
    /\ owed \in Nat /\ callers \in Nat
    /\ writing \in [Writer -> [value : Scope \cup {None}, event : BOOLEAN] \cup {None}]

\* Once the events are delivered and nobody is writing, the edge reads the key
\* as its row says: neither an older scope nor a key that was revoked, whatever
\* the writers, their failures and their order (keys.go:97-100, sync.go:78-82).
IndexFollowsKey == owed = 0 /\ ~Held => index = Object(key)
=============================================================================
