------------------------- MODULE EdgeDeliveryProofs -------------------------
(***************************************************************************)
(* Theorems about DeliveryKeys and EdgeDelivery, for every number of       *)
(* writers, requests, changes and ticks, and for all TTLs and limits.      *)
(***************************************************************************)
EXTENDS EdgeDelivery, TLAPS

-----------------------------------------------------------------------------
(* The key index.  Whoever writes holds the row, so what it writes is what *)
(* the row says; and an index that does not follow its key is owed an      *)
(* event, or a writer that has one is at it.                               *)

OneWriter == \A v, w \in Writer : writing[v] # None /\ writing[w] # None => v = w
WritesCurrent == \A w \in Writer : writing[w] # None => writing[w].value = Object(key)
DeliveringEvent == \E w \in Writer : writing[w] # None /\ writing[w].event
FollowsOrOwed == index = Object(key) \/ owed > 0 \/ DeliveringEvent

KeyInv == KeyTypeOK /\ OneWriter /\ WritesCurrent /\ FollowsOrOwed

\* KeyInv holds at the start.
LEMMA KeyInvInit == KeyInit => KeyInv
BY ScopeAssumption, NoObjectAssumption
   DEF KeyInit, KeyInv, KeyTypeOK, OneWriter, WritesCurrent, FollowsOrOwed, Scope

\* KeyInv is inductive: an index object is written under the lock of the
\* key's row, so a stale scope cannot overtake a newer one.
LEMMA KeyInvStep ==
    ASSUME KeyInv, [KeyNext]_keyVars
    PROVE  KeyInv'
<1> USE ScopeAssumption, NoObjectAssumption DEF KeyInv, KeyTypeOK
<1>0. Object(key) \in Scope \cup {None}
  BY DEF Object
<1>1. ASSUME NEW k \in [scope : Scope, active : BOOLEAN, indexed : BOOLEAN], Changes(k)
      PROVE  KeyInv'
  BY <1>1 DEF Changes, RowFree, Held, OneWriter, WritesCurrent, FollowsOrOwed
<1>2. CASE ChangeDeliveryKeyScope
  <2>1. [key EXCEPT !.scope = @ + 1, !.indexed = FALSE]
            \in [scope : Scope, active : BOOLEAN, indexed : BOOLEAN]
    <3>1. key.scope < MaxScope
      BY <1>2 DEF ChangeDeliveryKeyScope, Changes
    <3>2. key.scope + 1 \in Scope
      BY <3>1 DEF Scope
    <3> QED BY <3>2
  <2> QED BY <1>1, <1>2, <2>1 DEF ChangeDeliveryKeyScope
<1>3. CASE RevokeDeliveryKey
  <2>1. [key EXCEPT !.active = FALSE] \in [scope : Scope, active : BOOLEAN, indexed : BOOLEAN]
    OBVIOUS
  <2> QED BY <1>1, <1>3, <2>1 DEF RevokeDeliveryKey
<1>4. CASE RepeatedRequest \/ StaleKeyIndexes \/ CallerDies
  BY <1>4 DEF RepeatedRequest, StaleKeyIndexes, CallerDies, WritesAgain,
              OneWriter, WritesCurrent, FollowsOrOwed, Object, DeliveringEvent
<1>a. ASSUME NEW w \in Writer, NEW ev \in BOOLEAN,
             RowFree, UNCHANGED <<key, index>>,
             writing' = [writing EXCEPT ![w] = [value |-> Object(key), event |-> ev]],
             owed' \in Nat, callers' \in Nat, ev \/ owed' = owed
      PROVE  KeyInv'
  <2> DEFINE r == [value |-> Object(key), event |-> ev]
  <2>1. /\ writing' = [writing EXCEPT ![w] = r] /\ key' = key /\ index' = index
        /\ \A v \in Writer : writing[v] = None
    BY <1>a DEF RowFree, Held
  <2>2. r \in [value : Scope \cup {None}, event : BOOLEAN]
    BY <1>0
  <2>3. r # None /\ r.value = Object(key) /\ r.event = ev
    BY <2>2
  <2> HIDE DEF r
  <2>4. KeyTypeOK'
    BY <1>a, <2>1, <2>2
  <2>5. OneWriter' /\ WritesCurrent'
    BY <2>1, <2>3 DEF OneWriter, WritesCurrent, Object
  <2>6. FollowsOrOwed'
    BY <1>a, <2>1, <2>3 DEF FollowsOrOwed, DeliveringEvent, Object
  <2> QED BY <2>4, <2>5, <2>6
<1>5. ASSUME NEW w \in Writer, SyncKeyNow(w) PROVE KeyInv'
  <2>1. /\ RowFree /\ UNCHANGED <<key, index>>
        /\ writing' = [writing EXCEPT ![w] = [value |-> Object(key), event |-> FALSE]]
        /\ owed' \in Nat /\ callers' \in Nat /\ owed' = owed
    BY <1>5 DEF SyncKeyNow, SyncDeliveryKey
  <2> HIDE DEF KeyInv, KeyTypeOK
  <2> QED BY <1>a, <2>1
<1>6. ASSUME NEW w \in Writer, HandleKeyChanged(w) PROVE KeyInv'
  <2>1. /\ RowFree /\ UNCHANGED <<key, index>>
        /\ writing' = [writing EXCEPT ![w] = [value |-> Object(key), event |-> TRUE]]
        /\ owed' \in Nat /\ callers' \in Nat
    BY <1>6 DEF HandleKeyChanged, SyncDeliveryKey
  <2> HIDE DEF KeyInv, KeyTypeOK
  <2> QED BY <1>a, <2>1
<1>7. ASSUME NEW w \in Writer, Put(w) PROVE KeyInv'
  <2>1. key' \in [scope : Scope, active : BOOLEAN, indexed : BOOLEAN]
        /\ Object(key)' = Object(key)
    BY <1>7 DEF Put, Object
  <2>2. index' = Object(key)
    BY <1>7 DEF Put, WritesCurrent
  <2>3. KeyTypeOK' /\ FollowsOrOwed'
    BY <1>0, <1>7, <2>1, <2>2 DEF Put, FollowsOrOwed
  <2>4. OneWriter' /\ WritesCurrent'
    BY <1>7, <2>1 DEF Put, OneWriter, WritesCurrent
  <2> QED BY <2>3, <2>4
<1>8. ASSUME NEW w \in Writer, Fails(w) PROVE KeyInv'
  BY <1>8 DEF Fails, OneWriter, WritesCurrent, FollowsOrOwed, Object, DeliveringEvent
<1>9. CASE UNCHANGED keyVars
  BY <1>9 DEF keyVars, OneWriter, WritesCurrent, FollowsOrOwed, Object, DeliveringEvent
<1> QED
  BY <1>2, <1>3, <1>4, <1>5, <1>6, <1>7, <1>8, <1>9 DEF KeyNext

\* What the run checks follows from it.
LEMMA KeyInvFollows == KeyInv => IndexFollowsKey
BY DEF KeyInv, FollowsOrOwed, DeliveringEvent, IndexFollowsKey, Held

\* Alone, and under the edge that reads it: once the events of a key are
\* delivered and nobody writes, its index object is what the key's row says.
THEOREM IndexFollowsKeyAlways == KeySpec => []IndexFollowsKey
BY KeyInvInit, KeyInvStep, KeyInvFollows, PTL DEF KeySpec

-----------------------------------------------------------------------------
(* The edge.  What a cache, a flight or a request holds was in storage at  *)
(* its `at`, or later; a flight's `at` is the `now` of the request that    *)
(* took off with it, which still waits for it; and the deadline of a load  *)
(* bounds how far the clock may get past a request's `now`.  A request may *)
(* have looked into the cache before or after the one whose flight it      *)
(* joins did: their `now`s are a load apart at most, either way.           *)

Query == [pc : {"idle", "missed", "wait", "wake"}, now : Nat, seen : Entry \cup {None},
          got : Value \cup {None, Error, Unread}, at : Nat]

Types ==
    /\ KeyTypeOK
    /\ kind \in {"key", "manifest"}
    /\ clock \in Nat
    /\ manifest \in 0 .. MaxMoves \cup {None}
    /\ lastHeld \in [Value -> Nat \cup {Never}]
    /\ cache \in Entry \cup {None}
    /\ flight \in Flight \cup {None}
    /\ request \in [Request -> Query]
    /\ answer \in [value : Value \cup {None}, outage : BOOLEAN] \cup {None}

\* What is stored, and was last held when, shows that v was held at t or later;
\* of what is no value nothing is said.
HeldSince(v, t, stored, held) ==
    v \in Value => stored = v \/ (held[v] # Never /\ held[v] >= t)
Recent(v, t) == HeldSince(v, t, Stored, lastHeld)

\* How much older than its flight what a flight brings may be.
Lag == IF kind = "manifest" THEN TTL - 1 ELSE 0
Wait == IF kind = "key" THEN MaxLoad ELSE 0

CacheOK ==
    cache # None =>
        /\ cache.at <= clock /\ cache.until <= cache.at + TTL + Wait
        /\ Recent(cache.value, cache.at)
        /\ kind = "manifest" =>
             cache.value # None /\ (manifest # None => cache.value <= manifest)

FlightOK ==
    flight # None =>
        /\ flight.at <= clock /\ flight.until = flight.at + TTL
        /\ \E r \in Request : request[r].pc = "wait" /\ request[r].now = flight.at
        /\ Recent(flight.value, flight.at - Lag)
        /\ flight.stores =>
             /\ Recent(flight.value, flight.at)
             /\ kind = "manifest" =>
                  /\ flight.value \in Value
                  /\ manifest # None => flight.value <= manifest
                  /\ cache # None => cache.value <= flight.value

SeenOK(q) == q.pc # "idle" /\ q.seen # None => q.seen.at <= clock /\ Recent(q.seen.value, q.seen.at)
WaitOK(q) == q.pc = "wait" => flight # None
WakeOK(q) ==
    q.pc = "wake" =>
        /\ q.at <= clock /\ q.at <= q.now + MaxLoad /\ q.now <= q.at + MaxLoad
        /\ q.got # Unread /\ Recent(q.got, q.at - Lag)
InTime(q) == q.pc # "idle" => q.now <= clock /\ clock <= q.now + MaxLoad
QueryOK(q) == SeenOK(q) /\ WaitOK(q) /\ WakeOK(q) /\ InTime(q)

EdgeInv ==
    /\ Types
    /\ CacheOK
    /\ FlightOK
    /\ \A r \in Request : QueryOK(request[r])
    /\ AnswersAreRecent

\* Types.
LEMMA TypesInit == Init => Types
BY ScopeAssumption, TimeAssumption, NoObjectAssumption, WordsAssumption, KeyInvInit
   DEF Init, KeyInv, Types, Query, Idle, Never, Value

\* What storage holds is a value, whichever kind of path is followed.
LEMMA ValueTypes ==
    ASSUME Types
    PROVE  /\ Scope \subseteq Value /\ 0 .. MaxMoves \subseteq Value
           /\ Stored \in Value \cup {None}
           /\ TTL \in Nat \ {0} /\ Lag \in Nat /\ Wait \in Nat /\ MaxLoad \in Nat
<1>1. Scope \subseteq Value /\ 0 .. MaxMoves \subseteq Value
  BY ScopeAssumption, TimeAssumption DEF Scope, Value
<1>2. Stored \in Value \cup {None}
  BY <1>1 DEF Types, KeyTypeOK, Stored
<1>3. TTL \in Nat \ {0} /\ Lag \in Nat /\ Wait \in Nat /\ MaxLoad \in Nat
  BY TimeAssumption DEF TTL, Lag, Wait, Types
<1> QED BY <1>1, <1>2, <1>3

\* The history of what storage held stays one.
LEMMA LosesType ==
    ASSUME Types, NEW old \in Value \cup {None}
    PROVE  Loses(old) \in [Value -> Nat \cup {Never}]
BY DEF Types, Loses

\* Words are no values.
LEMMA WordsAreNoValues == {None, Error, Unread} \cap Value = {}
BY ScopeAssumption, TimeAssumption, WordsAssumption DEF Value

\* Every step keeps the types.
LEMMA TypesStep ==
    ASSUME EdgeInv, KeyTypeOK', [Next]_vars
    PROVE  Types'
<1> USE TimeAssumption, WordsAssumption
<1>0. Types /\ FlightOK /\ \A r \in Request : QueryOK(request[r])
  BY DEF EdgeInv
<1>a. /\ Scope \subseteq Value /\ 0 .. MaxMoves \subseteq Value
      /\ Stored \in Value \cup {None} /\ TTL \in Nat
  BY <1>0, ValueTypes
<1>1. CASE Tick
  BY <1>0, <1>1 DEF Tick, Silent, edge, Types
<1>2. CASE ControlPlane
  <2>1. index \in Value \cup {None}
    BY <1>0, <1>a DEF Types, KeyTypeOK
  <2>2. lastHeld' \in [Value -> Nat \cup {Never}]
    <3>1. lastHeld' = lastHeld \/ lastHeld' = Loses(index)
      BY <1>2 DEF ControlPlane
    <3> QED BY <1>0, <2>1, <3>1, LosesType DEF Types
  <2> QED BY <1>0, <1>2, <2>2 DEF ControlPlane, Silent, edge, Types
<1>3. ASSUME NEW v \in 1 .. MaxMoves \cup {None}, WriteManifest(v) PROVE Types'
  <2>1. manifest \in Value \cup {None}
    BY <1>0, <1>a DEF Types
  <2>2. lastHeld' \in [Value -> Nat \cup {Never}]
    BY <1>0, <1>3, <2>1, LosesType DEF WriteManifest
  <2> QED BY <1>0, <1>3, <2>2 DEF WriteManifest, Silent, edge, Types
<1>4. CASE Evict
  BY <1>0, <1>4 DEF Evict, Silent, Types
<1>5. CASE Fly
  <2>1. \A v \in Value \cup {None, Error, Unread}, b \in BOOLEAN :
            flight # None => [flight EXCEPT !.value = v, !.stores = b] \in Flight
    BY <1>0 DEF Types, Flight
  <2>2. Cacheable(Stored) \in BOOLEAN
    BY DEF Cacheable
  <2>3. cache # None => cache.value \in Value \cup {None}
    BY <1>0 DEF Types, Entry
  <2>4. flight' \in Flight
    BY <1>a, <1>5, <2>1, <2>2, <2>3 DEF Fly, Reads, Fresh
  <2> QED BY <1>0, <1>5, <2>4 DEF Fly, Silent, Types
<1>6. CASE Land
  <2>1. flight \in Flight
    BY <1>0, <1>6 DEF Land, Types
  <2>2. cache' \in Entry \cup {None}
    <3>1. CASE InFlight /\ flight.stores
      <4>1. flight.value \in Value
        BY <1>0, <1>6, <3>1 DEF Land, FlightOK, InFlight
      <4>2. cache' = [value |-> flight.value, at |-> flight.at, until |-> flight.until]
        BY <1>6, <3>1 DEF Land
      <4> QED BY <2>1, <4>1, <4>2 DEF Entry, Flight
    <3>2. CASE ~(InFlight /\ flight.stores)
      BY <1>0, <1>6, <3>2 DEF Land, Types
    <3> QED BY <3>1, <3>2
  <2>3. request' \in [Request -> Query]
    <3>1. \A q \in Query : [q EXCEPT !.pc = "wake", !.got = flight.value, !.at = flight.at] \in Query
      BY <2>1 DEF Query, Flight
    <3>2. request \in [Request -> Query]
      BY <1>0 DEF Types
    <3> QED BY <1>6, <3>1, <3>2 DEF Land
  <2> QED BY <1>0, <1>6, <2>2, <2>3 DEF Land, Silent, Types
<1>7. ASSUME NEW r \in Request, Hit(r) PROVE Types'
  BY <1>0, <1>7 DEF Hit, Answers, Fresh, Entry, Types
<1>8. ASSUME NEW r \in Request, Miss(r) PROVE Types'
  <2>1. [Idle EXCEPT !.pc = "missed", !.now = clock, !.seen = cache] \in Query
    BY <1>0 DEF Idle, Query, Types
  <2> QED BY <1>0, <1>8, <2>1 DEF Miss, Silent, Types
<1>11. ASSUME NEW r \in Request, Join(r) PROVE Types'
  <2>1. request[r] \in Query
    BY <1>0 DEF Types
  <2>2. [request[r] EXCEPT !.pc = "wait"] \in Query /\ request[r].now \in Nat
    BY <2>1 DEF Query
  <2>3. [at |-> request[r].now, until |-> request[r].now + TTL,
         value |-> Unread, stores |-> FALSE] \in Flight
    BY <1>a, <2>2 DEF Flight
  <2>4. request' \in [Request -> Query]
    BY <1>0, <1>11, <2>2 DEF Join, Types
  <2> QED BY <1>0, <1>11, <2>3, <2>4 DEF Join, Silent, Types
<1>9. ASSUME NEW r \in Request, Wake(r) \/ WakeInOutage(r) PROVE Types'
  <2>1. request[r] \in Query /\ QueryOK(request[r])
    BY <1>0 DEF Types
  <2>2. request' \in [Request -> Query]
    <3>1. Idle \in Query
      BY DEF Idle, Query
    <3> QED BY <1>0, <1>9, <3>1 DEF Wake, WakeInOutage, Leaves, Types
  <2>3. answer' \in [value : Value \cup {None}, outage : BOOLEAN] \cup {None}
    <3>1. CASE Wake(r)
      BY <2>1, <3>1 DEF Wake, Answers, QueryOK, WakeOK, Query
    <3>2. CASE WakeInOutage(r)
      <4>1. CASE StillServable(request[r].seen, request[r].now)
        <5>1. request[r].seen \in Entry
          BY <2>1, <4>1 DEF StillServable, Query
        <5>2. answer' = [value |-> request[r].seen.value, outage |-> TRUE]
          BY <3>2, <4>1 DEF WakeInOutage, Answers
        <5> QED BY <5>1, <5>2 DEF Entry
      <4>2. CASE ~StillServable(request[r].seen, request[r].now)
        BY <3>2, <4>2 DEF WakeInOutage, Silent
      <4> QED BY <4>1, <4>2
    <3> QED BY <1>9, <3>1, <3>2
  <2>4. cache' \in Entry \cup {None}
    <3>1. CASE Wake(r)
      <4>1. request[r].got \in Value \cup {None} /\ request[r].at \in Nat /\ request[r].now \in Nat
        BY <2>1, <3>1 DEF Wake, QueryOK, WakeOK, Query
      <4>2. [value |-> request[r].got, at |-> request[r].at, until |-> request[r].now + TTL] \in Entry
        BY <1>a, <4>1 DEF Entry
      <4> QED BY <1>0, <3>1, <4>2 DEF Wake, Types
    <3>2. CASE WakeInOutage(r)
      BY <1>0, <3>2 DEF WakeInOutage, Types
    <3> QED BY <1>9, <3>1, <3>2
  <2> QED BY <1>0, <1>9, <2>2, <2>3, <2>4 DEF Wake, WakeInOutage, Types
<1>10. CASE UNCHANGED vars
  BY <1>0, <1>10 DEF vars, edge, Types
<1> QED BY <1>1, <1>2, <1>3, <1>4, <1>5, <1>6, <1>7, <1>8, <1>9, <1>10, <1>11 DEF Next

-----------------------------------------------------------------------------
\* What every step keeps: the kind, the time, and what was held when.

\* A step leaves storage alone or is remembered as its last change, and a
\* manifest is replaced only by the next one.
LEMMA StoredMoves ==
    ASSUME Types, [Next]_vars
    PROVE  /\ kind' = kind
           /\ \/ Stored' = Stored /\ lastHeld' = lastHeld
              \/ lastHeld' = Loses(Stored)
           /\ \/ manifest' \in {manifest, None}
              \/ (manifest # None /\ manifest' = manifest + 1)
<1>1. CASE ControlPlane
  BY <1>1 DEF ControlPlane, Stored, Types
<1>2. ASSUME NEW v \in 1 .. MaxMoves \cup {None}, WriteManifest(v)
      PROVE  kind' = kind /\ lastHeld' = Loses(Stored) /\ manifest # None
             /\ (manifest' = None \/ manifest' = manifest + 1)
  BY <1>2 DEF WriteManifest, Stored
<1>3. CASE \/ Tick \/ Evict \/ Fly \/ Land \/ UNCHANGED vars
           \/ \E r \in Request : Hit(r) \/ Miss(r) \/ Join(r) \/ Wake(r) \/ WakeInOutage(r)
  <2>1. UNCHANGED <<kind, index, manifest, lastHeld>>
    BY <1>3 DEF Tick, Evict, Fly, Land, Hit, Miss, Join, Wake, WakeInOutage, vars, keyVars
  <2> QED BY <2>1 DEF Stored
<1> QED BY <1>1, <1>2, <1>3 DEF Next

\* The clock moves only by a tick.
LEMMA ClockMoves ==
    ASSUME [Next]_vars
    PROVE  clock' = clock \/ (clock' = clock + 1 /\ Tick)
BY DEF Next, Tick, ControlPlane, WriteManifest, Evict, Fly, Land, Hit, Miss, Join, Wake, WakeInOutage, vars

\* What was held at t or since then still was, after any step.
LEMMA RecentKept ==
    ASSUME Types, [Next]_vars
    PROVE  \A v : \A t \in Int :
             t <= clock /\ Recent(v, t) => HeldSince(v, t, Stored', lastHeld')
<1> SUFFICES ASSUME NEW v \in Value, NEW t \in Int, t <= clock,
                    Stored = v \/ (lastHeld[v] # Never /\ lastHeld[v] >= t)
             PROVE  Stored' = v \/ (lastHeld'[v] # Never /\ lastHeld'[v] >= t)
  BY DEF Recent, HeldSince
<1>2. lastHeld \in [Value -> Nat \cup {Never}] /\ clock \in Nat /\ Never \notin Nat
  BY DEF Types, Never
<1>3. CASE Stored' = Stored /\ lastHeld' = lastHeld
  BY <1>3
<1>4. CASE lastHeld' = Loses(Stored)
  <2>1. CASE Stored = v
    <3>1. v # None
      BY WordsAreNoValues
    <3>2. lastHeld'[v] = clock
      BY <1>2, <1>4, <2>1, <3>1 DEF Loses
    <3> QED BY <1>2, <3>2
  <2>2. CASE Stored # v
    <3>1. lastHeld'[v] = lastHeld[v]
      BY <1>2, <1>4, <2>2 DEF Loses
    <3> QED BY <2>2, <3>1
  <2> QED BY <2>1, <2>2
<1> QED BY <1>3, <1>4, StoredMoves

\* What was held at t or later was held at s or later, for an s before t.
LEMMA RecentSince ==
    ASSUME Types, NEW v, NEW t \in Int, NEW s \in Int, s <= t, Recent(v, t)
    PROVE  Recent(v, s)
BY DEF Recent, HeldSince, Types, Never

\* The sizes of the cache depend on the kind of the path alone.
LEMMA SizesKept ==
    ASSUME Types, [Next]_vars
    PROVE  TTL' = TTL /\ Lag' = Lag /\ Wait' = Wait /\ InFlight' = InFlight
BY StoredMoves DEF TTL, Lag, Wait, InFlight

\* A manifest that is still there is not older than before.
LEMMA ManifestMoves ==
    ASSUME Types, [Next]_vars, manifest' # None
    PROVE  manifest # None /\ manifest \in Nat /\ manifest' \in Nat /\ manifest <= manifest'
BY StoredMoves, TimeAssumption, WordsAssumption DEF Types

-----------------------------------------------------------------------------
(* The steps.  First what a step leaves alone stays as it was.             *)

\* A cache entry stays true while storage and the clock move.
LEMMA CacheKept ==
    ASSUME EdgeInv, [Next]_vars, cache' = cache
    PROVE  CacheOK'
<1>1. Types /\ CacheOK
  BY DEF EdgeInv
<1> SUFFICES ASSUME cache # None
             PROVE  /\ cache.at <= clock' /\ cache.until <= cache.at + TTL' + Wait'
                    /\ HeldSince(cache.value, cache.at, Stored', lastHeld')
                    /\ kind' = "manifest" =>
                         cache.value # None /\ (manifest' # None => cache.value <= manifest')
  BY DEF CacheOK, Recent
<1>2. cache \in Entry /\ clock \in Nat
  BY <1>1 DEF Types
<1>3. /\ cache.at \in Nat /\ cache.at <= clock /\ cache.until <= cache.at + TTL + Wait
      /\ Recent(cache.value, cache.at)
  BY <1>1, <1>2 DEF CacheOK, Entry
<1>4. cache.at <= clock' /\ cache.until <= cache.at + TTL' + Wait'
  BY <1>1, <1>2, <1>3, ClockMoves, SizesKept
<1>5. HeldSince(cache.value, cache.at, Stored', lastHeld')
  BY <1>1, <1>3, RecentKept
<1>6. ASSUME kind' = "manifest"
      PROVE  cache.value # None /\ (manifest' # None => cache.value <= manifest')
  <2>1. kind = "manifest"
    BY <1>1, <1>6, StoredMoves
  <2>2. cache.value \in Nat /\ (manifest # None => cache.value <= manifest)
    BY <1>1, <1>2, <2>1, ScopeAssumption, TimeAssumption DEF CacheOK, Entry, Value
  <2>3. cache.value # None
    BY <1>1, <2>1 DEF CacheOK
  <2> QED BY <1>1, <2>2, <2>3, ManifestMoves
<1> QED BY <1>4, <1>5, <1>6

\* A flight in the air stays true while storage and the clock move.
LEMMA FlightKept ==
    ASSUME EdgeInv, [Next]_vars, flight' = flight,
           kind = "manifest" => cache' \in {cache, None},
           \A r \in Request : request[r].pc = "wait" => request'[r] = request[r]
    PROVE  FlightOK'
<1>1. Types /\ FlightOK
  BY DEF EdgeInv
<1> SUFFICES ASSUME flight # None
             PROVE  /\ flight.at <= clock' /\ flight.until = flight.at + TTL'
                    /\ \E r \in Request : request'[r].pc = "wait" /\ request'[r].now = flight.at
                    /\ HeldSince(flight.value, flight.at - Lag', Stored', lastHeld')
                    /\ flight.stores =>
                         /\ HeldSince(flight.value, flight.at, Stored', lastHeld')
                         /\ kind' = "manifest" =>
                              /\ flight.value \in Value
                              /\ manifest' # None => flight.value <= manifest'
                              /\ cache' # None => cache'.value <= flight.value
  BY DEF FlightOK, Recent
<1>2. flight \in Flight /\ clock \in Nat
  BY <1>1 DEF Types
<1>3. /\ flight.at \in Nat /\ flight.at <= clock /\ flight.until = flight.at + TTL
      /\ Recent(flight.value, flight.at - Lag)
      /\ flight.stores => Recent(flight.value, flight.at)
  BY <1>1, <1>2 DEF FlightOK, Flight
<1>4. flight.at <= clock' /\ flight.until = flight.at + TTL'
  BY <1>1, <1>2, <1>3, ClockMoves, SizesKept
<1>5. \E r \in Request : request'[r].pc = "wait" /\ request'[r].now = flight.at
  BY <1>1 DEF FlightOK
<1>6. HeldSince(flight.value, flight.at - Lag', Stored', lastHeld')
  <2>1. flight.at - Lag \in Int /\ flight.at - Lag <= clock
    BY <1>1, <1>2, <1>3, ValueTypes
  <2>2. HeldSince(flight.value, flight.at - Lag, Stored', lastHeld')
    BY <1>1, <1>3, <2>1, RecentKept
  <2> QED BY <1>1, <2>2, SizesKept
<1>7. ASSUME flight.stores
      PROVE  HeldSince(flight.value, flight.at, Stored', lastHeld')
  BY <1>1, <1>3, <1>7, RecentKept
<1>8. ASSUME flight.stores, kind' = "manifest"
      PROVE  /\ flight.value \in Value
             /\ manifest' # None => flight.value <= manifest'
             /\ cache' # None => cache'.value <= flight.value
  <2>1. kind = "manifest"
    BY <1>1, <1>8, StoredMoves
  <2>2. /\ flight.value \in Value
        /\ manifest # None => flight.value <= manifest
        /\ cache # None => cache.value <= flight.value
    BY <1>1, <1>8, <2>1 DEF FlightOK
  <2>3. flight.value \in Nat
    BY <2>2, ScopeAssumption, TimeAssumption DEF Value
  <2>4. manifest' # None => flight.value <= manifest'
    BY <1>1, <2>2, <2>3, ManifestMoves
  <2> QED BY <2>1, <2>2, <2>4
<1> QED BY <1>4, <1>5, <1>6, <1>7, <1>8

\* So does a request that no step touches.
LEMMA QueryKept ==
    ASSUME EdgeInv, [Next]_vars, NEW r \in Request, request'[r] = request[r],
           request[r].pc = "wait" => flight' # None
    PROVE  QueryOK(request[r])'
<1> DEFINE q == request[r]
<1>1. Types /\ q \in Query /\ SeenOK(q) /\ WaitOK(q) /\ WakeOK(q) /\ InTime(q)
  BY DEF EdgeInv, Types, QueryOK
<1>2. q.now \in Nat /\ q.at \in Nat /\ clock \in Nat /\ MaxLoad \in Nat /\ q.seen \in Entry \cup {None}
  BY <1>1, TimeAssumption DEF Query, Types
<1>3. q.pc # "idle" /\ q.seen # None =>
          q.seen.at <= clock' /\ HeldSince(q.seen.value, q.seen.at, Stored', lastHeld')
  <2> SUFFICES ASSUME q.pc # "idle", q.seen # None
               PROVE  q.seen.at <= clock' /\ HeldSince(q.seen.value, q.seen.at, Stored', lastHeld')
    OBVIOUS
  <2>1. q.seen.at \in Nat /\ q.seen.at <= clock /\ Recent(q.seen.value, q.seen.at)
    BY <1>1, <1>2 DEF SeenOK, Entry
  <2> QED BY <1>1, <1>2, <2>1, RecentKept, ClockMoves
<1>4. q.pc = "wait" => flight' # None
  OBVIOUS
<1>5. q.pc = "wake" =>
          /\ q.at <= clock' /\ q.at <= q.now + MaxLoad /\ q.now <= q.at + MaxLoad
          /\ q.got # Unread /\ HeldSince(q.got, q.at - Lag', Stored', lastHeld')
  <2> SUFFICES ASSUME q.pc = "wake"
               PROVE  q.at <= clock' /\ HeldSince(q.got, q.at - Lag', Stored', lastHeld')
    BY <1>1 DEF WakeOK
  <2>1. q.at <= clock /\ Recent(q.got, q.at - Lag)
    BY <1>1 DEF WakeOK
  <2>2. q.at - Lag \in Int /\ q.at - Lag <= clock
    BY <1>1, <1>2, <2>1, ValueTypes
  <2>3. HeldSince(q.got, q.at - Lag, Stored', lastHeld')
    BY <1>1, <2>1, <2>2, RecentKept
  <2> QED BY <1>1, <1>2, <2>1, <2>3, SizesKept, ClockMoves
<1>6. q.pc # "idle" => q.now <= clock' /\ clock' <= q.now + MaxLoad
  <2>1. CASE clock' = clock
    BY <1>1, <2>1 DEF InTime
  <2>2. CASE clock' = clock + 1 /\ Tick
    BY <1>1, <1>2, <2>2 DEF InTime, Tick
  <2> QED BY <2>1, <2>2, ClockMoves
<1> QED BY <1>3, <1>4, <1>5, <1>6 DEF QueryOK, SeenOK, WaitOK, WakeOK, InTime, Recent

\* A step that gives no answer, and leaves alone what serves, keeps the invariant.
LEMMA StepAround ==
    ASSUME EdgeInv, Types', [Next]_vars, Silent,
           UNCHANGED <<flight, request>>, cache' \in {cache, None}
    PROVE  EdgeInv'
<1>1. CacheOK'
  <2>1. CASE cache' = cache
    BY <2>1, CacheKept
  <2>2. CASE cache' = None
    BY <2>2 DEF CacheOK
  <2> QED BY <2>1, <2>2
<1>2. FlightOK'
  BY FlightKept
<1>3. ASSUME NEW r \in Request PROVE QueryOK(request[r])'
  <2>1. request[r].pc = "wait" => flight # None
    BY DEF EdgeInv, QueryOK, WaitOK
  <2> QED BY <2>1, QueryKept
<1>4. AnswersAreRecent'
  BY DEF Silent, AnswersAreRecent
<1> QED BY <1>1, <1>2, <1>3, <1>4 DEF EdgeInv

\* A cached answer is as recent as its entry.
LEMMA HitStep ==
    ASSUME EdgeInv, Types', [Next]_vars, NEW r \in Request, Hit(r)
    PROVE  EdgeInv'
<1>1. UNCHANGED <<keyVars, kind, clock, manifest, lastHeld, cache, flight, request>>
  BY DEF Hit
<1>2. CacheOK' /\ FlightOK'
  BY <1>1, CacheKept, FlightKept
<1>3. ASSUME NEW p \in Request PROVE QueryOK(request[p])'
  <2>1. request[p].pc = "wait" => flight # None
    BY DEF EdgeInv, QueryOK, WaitOK
  <2> QED BY <1>1, <2>1, QueryKept
<1>4. AnswersAreRecent'
  <2>1. Types /\ CacheOK /\ cache # None
    BY DEF Hit, Fresh, EdgeInv
  <2>2. cache \in Entry /\ clock \in Nat
    BY <2>1 DEF Types
  <2>3. /\ cache.at \in Nat /\ cache.until \in Nat /\ clock < cache.until
        /\ cache.until <= cache.at + TTL + Wait /\ Recent(cache.value, cache.at)
        /\ cache.value \in Value \cup {None}
    BY <2>1, <2>2 DEF CacheOK, Entry, Hit, Fresh
  <2>4. Wait <= MaxLoad /\ Wait \in Nat /\ MaxLoad \in Nat /\ TTL \in Nat
    BY <2>1, ValueTypes DEF Wait
  <2>5. cache.at >= clock - (TTL - 1 + 2 * MaxLoad)
    BY <2>2, <2>3, <2>4
  <2>6. Recent(cache.value, clock - (TTL - 1 + 2 * MaxLoad))
    BY <2>1, <2>2, <2>3, <2>4, <2>5, RecentSince
  <2>7. answer' = [value |-> cache.value, outage |-> FALSE]
    BY DEF Hit, Answers
  <2>8. Stored' = Stored /\ TTL' = TTL
    BY <1>1 DEF keyVars, Stored, TTL
  <2> QED BY <1>1, <2>3, <2>6, <2>7, <2>8 DEF AnswersAreRecent, Oldest, Recent, HeldSince
<1> QED BY <1>2, <1>3, <1>4 DEF EdgeInv

\* A request that misses keeps what it saw, which is as recent as the cache.
LEMMA MissStep ==
    ASSUME EdgeInv, Types', [Next]_vars, NEW r \in Request, Miss(r)
    PROVE  EdgeInv'
<1>1. Types /\ CacheOK /\ \A p \in Request : QueryOK(request[p])
  BY DEF EdgeInv
<1>2. /\ UNCHANGED <<keyVars, kind, clock, manifest, lastHeld, cache, flight>>
      /\ request[r].pc = "idle" /\ answer' = None
      /\ clock \in Nat /\ request \in [Request -> Query]
  BY <1>1 DEF Miss, Silent, Types
<1>3. /\ request'[r].pc = "missed" /\ request'[r].now = clock /\ request'[r].seen = cache
      /\ \A p \in Request \ {r} : request'[p] = request[p]
  BY <1>2 DEF Miss, Idle
<1>4. Stored' = Stored
  BY <1>2 DEF keyVars, Stored
<1>5. FlightOK'
  BY <1>2, <1>3, FlightKept
<1>6. ASSUME NEW p \in Request PROVE QueryOK(request[p])'
  <2>1. CASE p = r
    <3>1. SeenOK(request[r])'
      BY <1>1, <1>2, <1>3, <1>4 DEF SeenOK, CacheOK, Recent
    <3>2. WaitOK(request[r])' /\ WakeOK(request[r])' /\ InTime(request[r])'
      BY <1>2, <1>3, TimeAssumption DEF WaitOK, WakeOK, InTime
    <3> QED BY <2>1, <3>1, <3>2 DEF QueryOK
  <2>2. CASE p # r
    <3>1. request[p].pc = "wait" => flight # None
      BY <1>1 DEF QueryOK, WaitOK
    <3> QED BY <1>2, <1>3, <2>2, <3>1, QueryKept
  <2> QED BY <2>1, <2>2
<1>7. CacheOK' /\ AnswersAreRecent'
  BY <1>2, CacheKept DEF AnswersAreRecent
<1> QED BY <1>5, <1>6, <1>7 DEF EdgeInv

\* A request that missed joins the flight in the air, or starts one at its own
\* `now`, whatever landed since then.
LEMMA JoinStep ==
    ASSUME EdgeInv, Types', [Next]_vars, NEW r \in Request, Join(r)
    PROVE  EdgeInv'
<1> DEFINE q == request[r]
<1>1. Types /\ CacheOK /\ FlightOK /\ \A p \in Request : QueryOK(request[p])
  BY DEF EdgeInv
<1>2. /\ UNCHANGED <<keyVars, kind, clock, manifest, lastHeld, cache>>
      /\ q.pc = "missed" /\ answer' = None
      /\ clock \in Nat /\ request \in [Request -> Query] /\ q \in Query /\ q.now \in Nat
  BY <1>1 DEF Join, Silent, Types, Query
<1>3. /\ request'[r] = [q EXCEPT !.pc = "wait"]
      /\ \A p \in Request \ {r} : request'[p] = request[p]
  BY <1>2 DEF Join
<1>4. Stored' = Stored /\ TTL' = TTL
  BY <1>2 DEF keyVars, Stored, TTL
<1>5. SeenOK(q) /\ q.now <= clock /\ clock <= q.now + MaxLoad
  BY <1>1, <1>2 DEF QueryOK, InTime
<1>6. /\ request'[r].pc = "wait" /\ request'[r].now = q.now /\ request'[r].seen = q.seen
  BY <1>2, <1>3 DEF Query
<1>7. ASSUME flight # None PROVE flight' # None /\ FlightOK'
  <2>1. flight' = flight
    BY <1>7 DEF Join
  <2>2. \A p \in Request : request[p].pc = "wait" => request'[p] = request[p]
    BY <1>2, <1>3
  <2>3. FlightOK'
    BY <1>2, <2>1, <2>2, FlightKept
  <2> QED BY <1>7, <2>1, <2>3
<1>8. ASSUME flight = None PROVE flight' # None /\ FlightOK'
  <2>1. flight' = [at |-> q.now, until |-> q.now + TTL, value |-> Unread, stores |-> FALSE]
    BY <1>8 DEF Join
  <2>2. /\ flight'.at = q.now /\ flight'.until = q.now + TTL /\ flight'.value = Unread
        /\ flight'.stores = FALSE
    BY <2>1
  <2>3. flight' # None
    <3>1. flight' \in Flight
      BY <1>1, <1>2, <2>1, ValueTypes DEF Flight
    <3> QED BY <3>1, WordsAssumption
  <2> HIDE DEF Types
  <2>4. FlightOK'
    BY <1>2, <1>4, <1>5, <1>6, <2>2, WordsAreNoValues DEF FlightOK, Recent, HeldSince
  <2> QED BY <2>3, <2>4
<1>9. flight' # None /\ FlightOK'
  BY <1>7, <1>8 DEF Join
<1>10. ASSUME NEW p \in Request PROVE QueryOK(request[p])'
  <2>1. CASE p = r
    <3>1. SeenOK(request[r])'
      BY <1>2, <1>4, <1>5, <1>6 DEF SeenOK, Recent
    <3>2. WaitOK(request[r])' /\ WakeOK(request[r])' /\ InTime(request[r])'
      BY <1>2, <1>5, <1>6, <1>9 DEF WaitOK, WakeOK, InTime
    <3> QED BY <2>1, <3>1, <3>2 DEF QueryOK
  <2>2. CASE p # r
    BY <1>3, <1>9, <2>2, QueryKept
  <2> QED BY <2>1, <2>2
<1>11. CacheOK' /\ AnswersAreRecent'
  BY <1>2, CacheKept DEF AnswersAreRecent
<1> QED BY <1>9, <1>10, <1>11 DEF EdgeInv

\* A flight reads what storage holds, or fails.
LEMMA FlyStep ==
    ASSUME EdgeInv, Types', [Next]_vars, Fly
    PROVE  EdgeInv'
<1>1. Types /\ CacheOK /\ FlightOK /\ \A p \in Request : QueryOK(request[p])
  BY DEF EdgeInv
<1>2. /\ UNCHANGED <<keyVars, kind, clock, manifest, lastHeld, cache, request>>
      /\ flight # None /\ flight \in Flight /\ answer' = None /\ clock \in Nat
      /\ flight.at \in Nat
  BY <1>1 DEF Fly, Silent, Types, Flight
<1>3. Stored' = Stored /\ TTL' = TTL /\ Lag' = Lag /\ TTL \in Nat \ {0} /\ Lag \in Nat
  BY <1>1, <1>2, ValueTypes DEF keyVars, Stored, TTL, Lag
<1>4. PICK v \in Value \cup {None, Error}, b \in BOOLEAN :
        /\ flight' = [flight EXCEPT !.value = v, !.stores = b]
        /\ Recent(v, flight.at - Lag)
        /\ b => v = Stored /\ Cacheable(Stored)
  <2>1. CASE kind = "manifest" /\ Fresh
    <3>1. cache \in Entry /\ clock < cache.until /\ cache # None
      BY <1>1, <2>1 DEF Fresh, Types
    <3>2. /\ cache.at \in Nat /\ cache.until \in Nat /\ cache.value \in Value \cup {None}
          /\ cache.until <= cache.at + TTL /\ Recent(cache.value, cache.at)
      BY <1>3, <2>1, <3>1, <1>1 DEF CacheOK, Entry, Wait
    <3>3. Lag = TTL - 1 /\ flight.at <= clock
      BY <1>1, <1>2, <2>1 DEF Lag, FlightOK
    <3>4. flight.at - Lag <= cache.at /\ flight.at - Lag \in Int
      BY <1>2, <1>3, <3>1, <3>2, <3>3
    <3>5. Recent(cache.value, flight.at - Lag)
      BY <1>1, <3>2, <3>4, RecentSince
    <3>6. flight' = [flight EXCEPT !.value = cache.value, !.stores = FALSE]
      BY <2>1 DEF Fly, Reads
    <3> QED BY <3>2, <3>5, <3>6
  <2>2. CASE flight' = [flight EXCEPT !.value = Stored, !.stores = Cacheable(Stored)]
    <3>1. Stored \in Value \cup {None} /\ Cacheable(Stored) \in BOOLEAN
      BY <1>1, ValueTypes DEF Cacheable
    <3>2. Recent(Stored, flight.at - Lag)
      BY DEF Recent, HeldSince
    <3> QED BY <2>2, <3>1, <3>2
  <2>3. CASE flight' = [flight EXCEPT !.value = Error, !.stores = FALSE]
    <3>1. Recent(Error, flight.at - Lag)
      BY WordsAreNoValues DEF Recent, HeldSince
    <3> QED BY <2>3, <3>1
  <2> QED BY <2>1, <2>2, <2>3 DEF Fly, Reads
<1>5. flight'.at = flight.at /\ flight'.until = flight.until /\ flight'.value = v
      /\ flight'.stores = b /\ flight' # None
  <2>1. flight' \in Flight
    BY <1>2, <1>4 DEF Flight
  <2> QED BY <1>2, <1>4, <2>1, WordsAssumption DEF Flight
<1>6. FlightOK'
  <2>1. /\ flight.at <= clock /\ flight.until = flight.at + TTL
        /\ \E r \in Request : request[r].pc = "wait" /\ request[r].now = flight.at
    BY <1>1, <1>2 DEF FlightOK
  <2>2. b => HeldSince(v, flight.at, Stored, lastHeld)
    BY <1>4 DEF HeldSince
  <2>3. ASSUME b, kind = "manifest"
        PROVE  /\ v \in Value /\ (manifest # None => v <= manifest)
               /\ cache # None => cache.value <= v
    <3>1. v = manifest /\ manifest # None
      BY <1>4, <2>3 DEF Cacheable, Stored
    <3>2. manifest \in Nat /\ v \in Value
      BY <1>1, <3>1, ValueTypes DEF Types
    <3>3. cache # None => cache.value <= manifest
      BY <1>1, <2>3, <3>1 DEF CacheOK
    <3> QED BY <3>1, <3>2, <3>3
  <2>4. /\ flight'.at <= clock' /\ flight'.until = flight'.at + TTL'
        /\ \E r \in Request : request'[r].pc = "wait" /\ request'[r].now = flight'.at
        /\ HeldSince(flight'.value, flight'.at - Lag', Stored', lastHeld')
    BY <1>2, <1>3, <1>4, <1>5, <2>1 DEF Recent
  <2>5. flight'.stores => HeldSince(flight'.value, flight'.at, Stored', lastHeld')
    BY <1>2, <1>3, <1>5, <2>2
  <2>6. ASSUME flight'.stores, kind' = "manifest"
        PROVE  /\ flight'.value \in Value
               /\ manifest' # None => flight'.value <= manifest'
               /\ cache' # None => cache'.value <= flight'.value
    <3>1. b
      BY <1>5, <2>6
    <3>2. kind = "manifest"
      BY <1>2, <2>6
    <3>3. /\ v \in Value /\ (manifest # None => v <= manifest)
          /\ cache # None => cache.value <= v
      BY <2>3, <3>1, <3>2
    <3> QED BY <1>2, <1>5, <3>3
  <2> QED BY <2>4, <2>5, <2>6 DEF FlightOK, Recent
<1>7. ASSUME NEW p \in Request PROVE QueryOK(request[p])'
  BY <1>2, <1>5, QueryKept
<1>8. CacheOK' /\ AnswersAreRecent'
  BY <1>2, CacheKept DEF AnswersAreRecent
<1> QED BY <1>6, <1>7, <1>8 DEF EdgeInv

\* A flight that lands fills the cache, or leaves a stale entry longer.
LEMMA LandStep ==
    ASSUME EdgeInv, Types', [Next]_vars, Land
    PROVE  EdgeInv'
<1>1. Types /\ CacheOK /\ FlightOK /\ \A p \in Request : QueryOK(request[p])
  BY DEF EdgeInv
<1>2. /\ UNCHANGED <<keyVars, kind, clock, manifest, lastHeld>>
      /\ flight # None /\ flight \in Flight /\ flight.value # Unread
      /\ answer' = None /\ flight' = None
      /\ clock \in Nat /\ request \in [Request -> Query] /\ MaxLoad \in Nat
  BY <1>1, TimeAssumption DEF Land, Silent, Types
<1>3. Stored' = Stored /\ TTL' = TTL /\ Lag' = Lag /\ Wait' = Wait /\ Wait \in Nat /\ TTL \in Nat
  BY <1>1, <1>2, ValueTypes DEF keyVars, Stored, TTL, Lag, Wait
<1>4. /\ flight.at <= clock /\ flight.until = flight.at + TTL
      /\ Recent(flight.value, flight.at - Lag)
      /\ flight.at \in Nat /\ flight.until \in Nat
  BY <1>1, <1>2 DEF FlightOK, Flight
<1>5. clock <= flight.at + MaxLoad
  <2>1. PICK r \in Request : request[r].pc = "wait" /\ request[r].now = flight.at
    BY <1>1, <1>2 DEF FlightOK
  <2> QED BY <1>1, <2>1 DEF QueryOK, InTime
<1>6. CacheOK'
  <2>1. CASE InFlight /\ flight.stores
    <3>1. cache' = [value |-> flight.value, at |-> flight.at, until |-> flight.until]
      BY <2>1 DEF Land
    <3>2. cache'.value = flight.value /\ cache'.at = flight.at /\ cache'.until = flight.until
      BY <3>1
    <3>3. /\ Recent(flight.value, flight.at) /\ flight.value \in Value
          /\ manifest # None => flight.value <= manifest
      BY <1>1, <1>2, <2>1 DEF FlightOK, InFlight
    <3>4. flight.value # None
      BY <3>3, WordsAreNoValues
    <3>5. cache'.at <= clock' /\ cache'.until <= cache'.at + TTL' + Wait'
      BY <1>2, <1>3, <1>4, <3>2
    <3> QED BY <1>2, <1>3, <3>2, <3>3, <3>4, <3>5 DEF CacheOK, Recent
  <2>2. CASE ~(InFlight /\ flight.stores)
    BY <2>2, CacheKept DEF Land
  <2> QED BY <2>1, <2>2
<1>7. ASSUME NEW p \in Request PROVE QueryOK(request[p])'
  <2>1. CASE request[p].pc = "wait"
    <3> DEFINE q == request[p]
    <3>1. q \in Query /\ SeenOK(q) /\ WaitOK(q) /\ InTime(q) /\ q.now \in Nat
      BY <1>1, <1>2 DEF QueryOK, Query
    <3>2. /\ request'[p].pc = "wake" /\ request'[p].now = q.now /\ request'[p].seen = q.seen
          /\ request'[p].got = flight.value /\ request'[p].at = flight.at
      BY <2>1, <3>1 DEF Land, Query
    <3>3. SeenOK(request[p])'
      BY <1>2, <1>3, <2>1, <3>1, <3>2 DEF SeenOK, Recent
    <3>4. WaitOK(request[p])' /\ InTime(request[p])'
      BY <1>2, <2>1, <3>1, <3>2 DEF WaitOK, InTime
    <3>5. WakeOK(request[p])'
      <4>1. flight.at <= q.now + MaxLoad /\ q.now <= flight.at + MaxLoad
        BY <1>2, <1>4, <1>5, <2>1, <3>1 DEF InTime
      <4> QED BY <1>2, <1>3, <1>4, <3>2, <4>1 DEF WakeOK, Recent
    <3> QED BY <3>3, <3>4, <3>5 DEF QueryOK
  <2>2. CASE request[p].pc # "wait"
    <3>1. request'[p] = request[p]
      BY <2>2 DEF Land
    <3> QED BY <2>2, <3>1, QueryKept
  <2> QED BY <2>1, <2>2
<1>8. FlightOK' /\ AnswersAreRecent'
  BY <1>2 DEF FlightOK, AnswersAreRecent
<1> QED BY <1>6, <1>7, <1>8 DEF EdgeInv

\* A waiting request takes the flight's answer, or the stale one it may serve.
LEMMA WakeStep ==
    ASSUME EdgeInv, Types', [Next]_vars, NEW r \in Request, Wake(r) \/ WakeInOutage(r)
    PROVE  EdgeInv'
<1> DEFINE q == request[r]
<1>1. Types /\ CacheOK /\ FlightOK /\ \A p \in Request : QueryOK(request[p])
  BY DEF EdgeInv
<1>2. /\ UNCHANGED <<keyVars, kind, clock, manifest, lastHeld, flight>>
      /\ q.pc = "wake" /\ q \in Query /\ q.now \in Nat /\ q.at \in Nat
      /\ clock \in Nat /\ request \in [Request -> Query] /\ MaxLoad \in Nat
      /\ request' = [request EXCEPT ![r] = Idle]
  BY <1>1, TimeAssumption DEF Wake, WakeInOutage, Leaves, Types, Query
<1>3. Stored' = Stored /\ TTL' = TTL /\ Wait' = Wait /\ Lag \in Nat /\ TTL \in Nat \ {0}
  BY <1>1, <1>2, ValueTypes DEF keyVars, Stored, TTL, Wait
<1>4. /\ q.at <= clock /\ q.now <= q.at + MaxLoad /\ q.got # Unread
      /\ Recent(q.got, q.at - Lag)
      /\ q.now <= clock /\ clock <= q.now + MaxLoad
  BY <1>1, <1>2 DEF QueryOK, WakeOK, InTime
<1>5. CacheOK'
  <2>1. CASE Wake(r) /\ ~InFlight /\ Cacheable(q.got)
    <3>1. cache' = [value |-> q.got, at |-> q.at, until |-> q.now + TTL]
      BY <2>1 DEF Wake
    <3>2. cache'.value = q.got /\ cache'.at = q.at /\ cache'.until = q.now + TTL
      BY <3>1
    <3>3. kind # "manifest" /\ Wait = MaxLoad /\ Lag = 0
      BY <1>1, <2>1 DEF InFlight, Wait, Lag, Types
    <3>4. cache'.at <= clock' /\ cache'.until <= cache'.at + TTL' + Wait'
      BY <1>2, <1>3, <1>4, <3>2, <3>3
    <3>5. Recent(q.got, q.at)
      BY <1>2, <1>4, <3>3
    <3> QED BY <1>2, <1>3, <3>2, <3>3, <3>4, <3>5 DEF CacheOK, Recent
  <2>2. CASE ~(Wake(r) /\ ~InFlight /\ Cacheable(q.got))
    <3>1. cache' = cache
      BY <2>2 DEF Wake, WakeInOutage
    <3> QED BY <3>1, CacheKept
  <2> QED BY <2>1, <2>2
<1>6. FlightOK'
  <2>1. kind = "manifest" => cache' = cache
    BY DEF Wake, WakeInOutage, InFlight
  <2> QED BY <1>2, <2>1, FlightKept
<1>7. ASSUME NEW p \in Request PROVE QueryOK(request[p])'
  <2>1. CASE p = r
    <3>1. request'[p].pc = "idle"
      BY <1>2, <2>1 DEF Idle
    <3> QED BY <3>1 DEF QueryOK, SeenOK, WaitOK, WakeOK, InTime
  <2>2. CASE p # r
    <3>1. request[p].pc = "wait" => flight # None
      BY <1>1 DEF QueryOK, WaitOK
    <3> QED BY <1>2, <2>2, <3>1, QueryKept
  <2> QED BY <2>1, <2>2
<1>8. AnswersAreRecent'
  <2>1. CASE Wake(r)
    <3>1. answer' = [value |-> q.got, outage |-> FALSE] /\ q.got \in Value \cup {None}
      BY <1>2, <1>4, <2>1 DEF Wake, Answers, Query
    <3>2. Lag <= TTL - 1
      BY <1>3 DEF Lag
    <3>3. q.at - Lag >= clock - (TTL - 1 + 2 * MaxLoad)
      BY <1>2, <1>3, <1>4, <3>2
    <3>4. Recent(q.got, clock - (TTL - 1 + 2 * MaxLoad))
      BY <1>1, <1>2, <1>3, <1>4, <3>3, RecentSince
    <3> QED BY <1>2, <1>3, <3>1, <3>4 DEF AnswersAreRecent, Oldest, Recent, HeldSince
  <2>2. CASE WakeInOutage(r) /\ StillServable(q.seen, q.now)
    <3>1. q.seen # None /\ q.now - q.seen.at < StaleLimit
      BY <2>2 DEF StillServable
    <3>2. q.seen \in Entry /\ Recent(q.seen.value, q.seen.at)
      BY <1>1, <1>2, <3>1 DEF QueryOK, SeenOK, Query
    <3>3. q.seen.at \in Nat /\ q.seen.value \in Value \cup {None}
      BY <3>2 DEF Entry
    <3>4. q.seen.at >= clock - (StaleLimit - 1 + MaxLoad)
      BY <1>2, <1>4, <3>1, <3>3, TimeAssumption
    <3>5. Recent(q.seen.value, clock - (StaleLimit - 1 + MaxLoad))
      BY <1>1, <1>2, <3>2, <3>3, <3>4, RecentSince, TimeAssumption
    <3>6. answer' = [value |-> q.seen.value, outage |-> TRUE]
      BY <2>2 DEF WakeInOutage, Answers
    <3> QED BY <1>2, <1>3, <3>3, <3>5, <3>6 DEF AnswersAreRecent, Oldest, Recent, HeldSince
  <2>3. CASE WakeInOutage(r) /\ ~StillServable(q.seen, q.now)
    BY <2>3 DEF WakeInOutage, Silent, AnswersAreRecent
  <2> QED BY <2>1, <2>2, <2>3
<1> QED BY <1>5, <1>6, <1>7, <1>8 DEF EdgeInv

-----------------------------------------------------------------------------
\* EdgeInv holds at the start.
LEMMA EdgeInvInit == Init => EdgeInv
<1> SUFFICES ASSUME Init PROVE EdgeInv
  OBVIOUS
<1>1. Types
  BY TypesInit
<1>2. CacheOK /\ FlightOK /\ AnswersAreRecent
  BY DEF Init, CacheOK, FlightOK, AnswersAreRecent
<1>3. \A r \in Request : QueryOK(request[r])
  BY DEF Init, Idle, QueryOK, SeenOK, WaitOK, WakeOK, InTime
<1> QED BY <1>1, <1>2, <1>3 DEF EdgeInv

\* EdgeInv is inductive, beside the invariant of the keys.
LEMMA EdgeInvStep ==
    ASSUME EdgeInv, KeyTypeOK', [Next]_vars
    PROVE  EdgeInv'
<1>1. Types'
  BY TypesStep
<1>2. CASE Tick
  BY <1>1, <1>2, StepAround DEF Tick, edge
<1>3. CASE ControlPlane
  BY <1>1, <1>3, StepAround DEF ControlPlane, edge
<1>4. ASSUME NEW v \in 1 .. MaxMoves \cup {None}, WriteManifest(v) PROVE EdgeInv'
  BY <1>1, <1>4, StepAround DEF WriteManifest, edge
<1>5. CASE Evict
  BY <1>1, <1>5, StepAround DEF Evict
<1>6. CASE Fly
  BY <1>1, <1>6, FlyStep
<1>7. CASE Land
  BY <1>1, <1>7, LandStep
<1>8. ASSUME NEW r \in Request, Hit(r) PROVE EdgeInv'
  BY <1>1, <1>8, HitStep
<1>9. ASSUME NEW r \in Request, Miss(r) PROVE EdgeInv'
  BY <1>1, <1>9, MissStep
<1>12. ASSUME NEW r \in Request, Join(r) PROVE EdgeInv'
  BY <1>1, <1>12, JoinStep
<1>10. ASSUME NEW r \in Request, Wake(r) \/ WakeInOutage(r) PROVE EdgeInv'
  BY <1>1, <1>10, WakeStep
<1>11. CASE UNCHANGED vars
  <2>1. CacheOK'
    BY <1>11, CacheKept DEF vars, edge
  <2>2. FlightOK'
    BY <1>11, FlightKept DEF vars, edge
  <2>3. ASSUME NEW r \in Request PROVE QueryOK(request[r])'
    <3>1. request[r].pc = "wait" => flight # None
      BY DEF EdgeInv, QueryOK, WaitOK
    <3> QED BY <1>11, <3>1, QueryKept DEF vars, edge
  <2>4. AnswersAreRecent'
    BY <1>11 DEF EdgeInv, AnswersAreRecent, Oldest, TTL, Stored, vars, keyVars
  <2> QED BY <1>1, <2>1, <2>2, <2>3, <2>4 DEF EdgeInv
<1> QED BY <1>2, <1>3, <1>4, <1>5, <1>6, <1>7, <1>8, <1>9, <1>10, <1>11, <1>12 DEF Next

\* The key index lives on beside the edge as it does alone.
LEMMA KeyStepsOnly ==
    ASSUME [Next]_vars
    PROVE  [KeyNext]_keyVars
BY DEF Next, vars, Tick, ControlPlane, WriteManifest, Evict, Fly, Land, Hit, Miss, Join,
       Wake, WakeInOutage

\* The inductive invariant of the keys and of the edge holds of Spec, for
\* every TTL, every lag and every number of requests.
THEOREM EdgeInvariant == Spec => [](KeyInv /\ EdgeInv)
<1>1. Init => KeyInv /\ EdgeInv
  BY KeyInvInit, EdgeInvInit DEF Init
<1>2. KeyInv /\ EdgeInv /\ [Next]_vars => (KeyInv /\ EdgeInv)'
  <2> SUFFICES ASSUME KeyInv, EdgeInv, [Next]_vars PROVE KeyInv' /\ EdgeInv'
    OBVIOUS
  <2>1. KeyInv'
    BY KeyStepsOnly, KeyInvStep
  <2>2. KeyTypeOK'
    BY <2>1 DEF KeyInv
  <2> QED BY <2>1, <2>2, EdgeInvStep
<1> QED BY <1>1, <1>2, PTL DEF Spec

\* No answer of the edge is older than its TTLs, its stale limit and the
\* deadline of a load allow, however requests, loads, evictions, outages and
\* changes of what storage holds interleave.
THEOREM AnswersAreRecentAlways == Spec => []AnswersAreRecent
<1>1. EdgeInv => AnswersAreRecent
  BY DEF EdgeInv
<1> QED BY <1>1, EdgeInvariant, PTL

\* The edge only reads: the key index follows its key under it as well.
THEOREM IndexFollowsKeyAtTheEdge == Spec => []IndexFollowsKey
BY KeyInvFollows, EdgeInvariant, PTL

\* Every variable has its shape, and a request waits only for a flight.  The
\* bound of the clock is kept by the clock alone.
THEOREM TypeCorrect == Spec => []TypeOK
<1> DEFINE InTimeBound == clock \in 0 .. MaxTime
<1>1. Init => InTimeBound
  BY TimeAssumption DEF Init
<1>2. InTimeBound /\ [Next]_vars => InTimeBound'
  BY ClockMoves, TimeAssumption DEF Tick
<1>3. KeyInv /\ EdgeInv /\ InTimeBound => TypeOK
  BY DEF KeyInv, EdgeInv, Types, CacheOK, QueryOK, WaitOK, TypeOK
<1> QED BY <1>1, <1>2, <1>3, EdgeInvariant, PTL DEF Spec

\* Whatever is cached for a manifest's path later is a later manifest: a flight
\* that will cache what it reads brings nothing older than the cache holds.
THEOREM ManifestsNeverGoBackAlways == Spec => ManifestsNeverGoBack
<1>1. ASSUME EdgeInv, EdgeInv', [Next]_vars,
             kind = "manifest", cache # None, cache' # None
      PROVE  cache'.value >= cache.value
  <2>1. cache \in Entry /\ cache.value # None
    BY <1>1 DEF EdgeInv, Types, CacheOK
  <2>2. cache.value \in Nat
    BY <2>1, ScopeAssumption, TimeAssumption DEF Entry, Value
  <2>3. CASE cache' = cache
    BY <2>2, <2>3
  <2>4. CASE Land /\ flight.stores /\ InFlight
    <3>1. cache' = [value |-> flight.value, at |-> flight.at, until |-> flight.until]
      BY <2>4 DEF Land
    <3>2. flight.value \in Value /\ cache.value <= flight.value
      BY <1>1, <2>4 DEF EdgeInv, FlightOK, Land
    <3>3. flight.value \in Nat
      BY <3>2, ScopeAssumption, TimeAssumption DEF Value
    <3> QED BY <2>2, <3>1, <3>2, <3>3
  <2>5. cache' = cache \/ (Land /\ flight.stores /\ InFlight)
    BY <1>1 DEF Next, Tick, ControlPlane, WriteManifest, Evict, Fly, Land, Hit, Miss, Join,
                Wake, WakeInOutage, InFlight, edge, vars
  <2> QED BY <2>3, <2>4, <2>5
<1> DEFINE Later == kind = "manifest" /\ cache # None /\ cache' # None
                      => cache'.value >= cache.value
<1>2. EdgeInv /\ EdgeInv' /\ [Next]_vars => [Later]_vars
  BY <1>1
<1>3. ManifestsNeverGoBack <=> [][Later]_vars
  BY DEF ManifestsNeverGoBack
<1> HIDE DEF Later
<1> QED BY <1>2, <1>3, EdgeInvariant, PTL DEF Spec
=============================================================================
