---------------------------- MODULE EdgeDelivery ----------------------------
(***************************************************************************)
(* One edge process between storage and its callers                        *)
(* (src/platform/internal/edge/edge.go).  It reads two kinds of object: a  *)
(* key index, to resolve a delivery key, and an environment's manifest.    *)
(* Each read goes through a cache and a flight, which is one read of       *)
(* storage shared by the requests that arrive while it lasts; the paths    *)
(* share nothing else, and the model follows one path of either kind.      *)
(* What storage holds changes under it: the key index is that of           *)
(* DeliveryKeys, the manifest is written by Release's syncs.               *)
(*                                                                         *)
(* Time is counted in ticks.  A request's `now` is when it looked into the *)
(* cache; a manifest is cached inside the flight, a resolution by every    *)
(* request that waited for it, when it comes to that.                      *)
(***************************************************************************)
EXTENDS DeliveryKeys, Integers

CONSTANTS
    Request,
    MaxMoves,       \* bound: how often the manifest is written
    KeyTTL, ManifestTTL,
    StaleLimit,     \* how long a stale entry serves through an outage
    MaxLoad,        \* the longest a load takes: the deadlines of storage and server
    MaxTime,        \* bound of the clock
    Error, Unread   \* what a flight brings when storage fails, and before it has read

ASSUME TimeAssumption ==
    /\ KeyTTL \in Nat \ {0} /\ ManifestTTL \in Nat \ {0}
    /\ StaleLimit \in Nat /\ MaxLoad \in Nat /\ MaxMoves \in Nat /\ MaxTime \in Nat

VARIABLES
    kind,       \* the kind of the path: "key" or "manifest"
    clock,
    manifest,   \* the manifest object, numbered by its writes; None where there is none
    lastHeld,   \* when storage last held each value it has lost, for the properties
    cache,      \* the entry of the path: [value, at, until] or None
    flight,     \* the read going on: [at, until, value, stores] or None
    request,    \* what each request is doing
    answer      \* the answer the last step gave: [value, outage] or None

Value == 0 .. MaxScope + MaxMoves
Entry == [value : Value \cup {None}, at : Nat, until : Nat]
Flight == [at : Nat, until : Nat, value : Value \cup {None, Error, Unread}, stores : BOOLEAN]

ASSUME WordsAssumption ==
    /\ {None, Error, Unread} \cap Nat = {} /\ Error # Unread /\ None \notin {Error, Unread}
    /\ None \notin Entry \cup Flight \cup [value : Value \cup {None}, outage : BOOLEAN]

edge == <<cache, flight, request>>
vars == <<keyVars, kind, clock, manifest, lastHeld, edge, answer>>

Never == -1
Silent == answer' = None
Idle == [pc |-> "idle", now |-> 0, seen |-> None, got |-> Unread, at |-> 0]

Init ==
    /\ KeyInit
    /\ kind \in {"key", "manifest"}
    /\ clock = 0
    /\ manifest = 0
    /\ lastHeld = [v \in Value |-> Never]
    /\ cache = None /\ flight = None /\ answer = None
    /\ request = [r \in Request |-> Idle]

Stored == IF kind = "key" THEN index ELSE manifest
Loses(old) == IF old = None THEN lastHeld ELSE [lastHeld EXCEPT ![old] = clock]

\* The clock waits for a load that would take too long.
Tick ==
    /\ clock < MaxTime
    /\ \A r \in Request : request[r].pc # "idle" => clock < request[r].now + MaxLoad
    /\ clock' = clock + 1
    /\ Silent
    /\ UNCHANGED <<keyVars, kind, manifest, lastHeld, edge>>

ControlPlane ==
    /\ kind = "key"
    /\ KeyNext
    /\ lastHeld' = IF index' = index THEN lastHeld ELSE Loses(index)
    /\ Silent
    /\ UNCHANGED <<kind, clock, manifest, edge>>

\* Release writes the environment's manifest, or removes it with the environment.
WriteManifest(v) ==
    /\ kind = "manifest"
    /\ manifest # None
    /\ v = None \/ v = manifest + 1
    /\ manifest' = v
    /\ lastHeld' = Loses(manifest)
    /\ Silent
    /\ UNCHANGED <<keyVars, kind, clock, edge>>

\* Room is needed for another key, or for other projects' manifests and artifacts.
Evict ==
    /\ cache # None
    /\ cache' = None
    /\ Silent
    /\ UNCHANGED <<keyVars, kind, clock, manifest, lastHeld, flight, request>>

-----------------------------------------------------------------------------
Fresh == cache # None /\ clock < cache.until
TTL == IF kind = "key" THEN KeyTTL ELSE ManifestTTL

Answers(v, outage) == answer' = [value |-> v, outage |-> outage]

\* A request looks into the cache.  A fresh entry answers it; otherwise it keeps
\* what it saw.
Hit(r) ==
    /\ request[r].pc = "idle" /\ Fresh
    /\ Answers(cache.value, FALSE)
    /\ UNCHANGED <<keyVars, kind, clock, manifest, lastHeld, cache, flight, request>>

Miss(r) ==
    /\ request[r].pc = "idle" /\ ~Fresh
    /\ request' = [request EXCEPT ![r] = [Idle EXCEPT !.pc = "missed", !.now = clock, !.seen = cache]]
    /\ Silent
    /\ UNCHANGED <<keyVars, kind, clock, manifest, lastHeld, cache, flight>>

\* Some time later it joins the flight in the air, or takes off with its own `now`:
\* a flight may have landed in between, and filled the cache.
Join(r) ==
    /\ request[r].pc = "missed"
    /\ request' = [request EXCEPT ![r].pc = "wait"]
    /\ flight' = IF flight # None THEN flight
                 ELSE [at |-> request[r].now, until |-> request[r].now + TTL,
                       value |-> Unread, stores |-> FALSE]
    /\ Silent
    /\ UNCHANGED <<keyVars, kind, clock, manifest, lastHeld, cache>>

\* That a key does not resolve is remembered, that a manifest is missing is not.
Cacheable(v) == kind = "key" \/ v # None

\* The flight reads storage, which may fail; one to a manifest first looks
\* whether the flight before has just cached it.
Reads(v, stores) == flight' = [flight EXCEPT !.value = v, !.stores = stores]

Fly ==
    /\ flight # None /\ flight.value = Unread
    /\ IF kind = "manifest" /\ Fresh THEN Reads(cache.value, FALSE)
       ELSE Reads(Stored, Cacheable(Stored)) \/ Reads(Error, FALSE)
    /\ Silent
    /\ UNCHANGED <<keyVars, kind, clock, manifest, lastHeld, cache, request>>

\* A manifest is cached before the flight ends, so that no request misses both.
AfterFlight == FALSE
InFlight == kind = "manifest"

\* A flight that found the manifest in the cache brings what is there.
Land ==
    /\ flight # None /\ flight.value # Unread
    /\ cache' = IF InFlight /\ flight.stores
                THEN [value |-> flight.value, at |-> flight.at, until |-> flight.until] ELSE cache
    /\ request' = [r \in Request |->
                     IF request[r].pc = "wait"
                     THEN [request[r] EXCEPT !.pc = "wake", !.got = flight.value, !.at = flight.at]
                     ELSE request[r]]
    /\ flight' = None
    /\ Silent
    /\ UNCHANGED <<keyVars, kind, clock, manifest, lastHeld>>

ServableForever(seen, now) == seen # None
StillServable(seen, now) == seen # None /\ now - seen.at < StaleLimit

Leaves(r) == request' = [request EXCEPT ![r] = Idle]

\* An outage is bridged by what the request saw in the cache, if that is not too
\* old; otherwise the request fails.
WakeInOutage(r) ==
    LET q == request[r] IN
    /\ q.pc = "wake" /\ q.got = Error
    /\ IF StillServable(q.seen, q.now) THEN Answers(q.seen.value, TRUE) ELSE Silent
    /\ Leaves(r)
    /\ UNCHANGED <<keyVars, kind, clock, manifest, lastHeld, cache, flight>>

\* What the flight brought is answered; a resolution, found or not, is cached
\* for its TTL from the request's own `now`.
Wake(r) ==
    LET q == request[r] IN
    /\ q.pc = "wake" /\ q.got # Error
    /\ Answers(q.got, FALSE)
    /\ cache' = IF ~InFlight /\ Cacheable(q.got)
                THEN [value |-> q.got, at |-> q.at, until |-> q.now + TTL] ELSE cache
    /\ Leaves(r)
    /\ UNCHANGED <<keyVars, kind, clock, manifest, lastHeld, flight>>

-----------------------------------------------------------------------------
Next ==
    \/ Tick \/ ControlPlane \/ Evict \/ Fly \/ Land
    \/ \E v \in 1 .. MaxMoves \cup {None} : WriteManifest(v)
    \/ \E r \in Request : Hit(r) \/ Miss(r) \/ Join(r) \/ Wake(r) \/ WakeInOutage(r)

Spec == Init /\ [][Next]_vars

-----------------------------------------------------------------------------
\* Every variable has its shape, and a request waits only for a flight.
TypeOK ==
    /\ KeyTypeOK
    /\ kind \in {"key", "manifest"}
    /\ clock \in 0 .. MaxTime
    /\ manifest \in 0 .. MaxMoves \cup {None}
    /\ cache # None => cache.at <= clock
    /\ \A r \in Request : request[r].pc = "wait" => flight # None

\* How old what is answered may be: an entry serves for its TTL from the `now`
\* of a request that may have waited, for a value read before that; through an
\* outage it serves StaleLimit from its own flight's `now`.
Oldest(outage) == IF outage THEN StaleLimit - 1 + MaxLoad ELSE TTL - 1 + 2 * MaxLoad

\* No answer is older than that: a revoked key, a scope that was narrowed and a
\* release rolled back are gone from the edge in time, and in an outage as well
\* (edge.go:47-49 staleLimit, 55-59 KeyTTL and ManifestTTL).
AnswersAreRecent ==
    answer # None /\ answer.value # None =>
        \/ Stored = answer.value
        \/ lastHeld[answer.value] # Never /\ lastHeld[answer.value] >= clock - Oldest(answer.outage)

\* A manifest that takes another's place in the cache is a later one: flights to
\* a path do not overlap, and each caches before it ends (edge.go:290-292).
ManifestsNeverGoBack ==
    [][kind = "manifest" /\ cache # None /\ cache' # None => cache'.value >= cache.value]_vars
=============================================================================
