------------------------ MODULE BranchPreviewsProofs ------------------------
(***************************************************************************)
(* Theorems about BranchPreviews, for every number of branches, handlers   *)
(* and publishers, every limit, and every number of changes and faults.    *)
(***************************************************************************)
EXTENDS BranchPreviews, FiniteSetTheorems, TLAPS

-----------------------------------------------------------------------------
(* The inductive invariant.                                                *)

\* The limit: who holds the project's lock has counted, and nobody opens or
\* destroys an environment meanwhile.
Limited ==
    /\ IsFiniteSet(opened)
    /\ Cardinality(opened) <= Limit
    /\ \A h \in Handler :
         At(h, "insert") => locked = h /\ handling[h].count = Cardinality(opened)

\* An event that is handled is not settled, is about a branch that lives, and
\* has one handler; a branch's events carry versions that it has had.
Handled ==
    /\ \A h \in Handler : handling[h] # None =>
         handling[h].event \in events /\ handling[h].event.kind \notin GoneKind
    /\ \A g, h \in Handler :
         handling[g] # None /\ handling[h] # None /\ handling[g].event = handling[h].event => g = h
    /\ \A e \in events : e.at <= version[e.branch]

\* The ids of requests, pending, published or released, have been given out.
Ids ==
    /\ \A b \in Branch : request[b] # None => request[b].id <= asked[b]
    /\ \A b \in Branch : \A i \in released[b] : i <= asked[b]
    /\ \A p \in Publisher : publishing[p] # None => publishing[p].id <= asked[Of(p)]

\* A request for b is coming: a handler is about to make it, or an event will
\* find the environment.  The event of a handler that means to open it does not
\* count: it makes no request when it comes second.
Opening(h) == At(h, "lock") \/ At(h, "insert")
Coming(b) ==
    \/ \E h \in Handler : At(h, "request") /\ On(h) = b
    \/ \E e \in events :
         /\ e.branch = b /\ e.kind \notin GoneKind
         /\ \A h \in Handler : Opening(h) => handling[h].event # e

\* Nothing more will be built for b's request: its id has a release, or a
\* publisher is past what it read for it.
Spent(b) ==
    /\ request[b] # None
    /\ \/ request[b].id \in released[b]
       \/ \E p \in Publisher :
            /\ publishing[p] # None /\ Of(p) = b /\ publishing[p].id = request[b].id
            /\ \/ Doing(p, "clear")
               \/ Doing(p, "record") /\ publishing[p].content < content[b]

\* b's environment was not built from what is pushed, and its request does not
\* help: then one is coming.
Due(b) ==
    /\ b \in opened /\ state[b] = "open" /\ answered[b] < content[b]
    /\ request[b] = None \/ Spent(b)
Covered == \A b \in Branch : Due(b) => Coming(b)

PreviewInv == TypeOK /\ Limited /\ Handled /\ Ids /\ Covered /\ repeated = {}

-----------------------------------------------------------------------------
(* What the steps do.                                                      *)

\* A change in Catalog raises b's version, and leaves an event that will find
\* b's environment if b is open then.
CatalogChange(b, kinds) ==
    /\ Changed(b, kinds)
    /\ state' \in [Branch -> {"none", "open", "closed", "merged"}] /\ content' \in [Branch -> Nat]
    /\ \A c \in Branch \ {b} : state'[c] = state[c] /\ content'[c] = content[c]
    /\ state'[b] = "open" => \E k \in kinds : k \notin GoneKind
CatalogAction(b) == Push(b) \/ Upsert(b) \/ Close(b) \/ Merge(b) \/ Reopen(b) \/ Revise(b)

\* Whatever Catalog does to a branch changes its row and publishes its events.
LEMMA CatalogStep ==
    ASSUME TypeOK, NEW b \in Branch, CatalogAction(b)
    PROVE  \E kinds \in SUBSET Kind : CatalogChange(b, kinds)
<1> USE DEF Kind, LiveKind, GoneKind, TypeOK
<1>1. CASE Push(b)
  <2>1. Arrival(b) \cup {"pushed"} \in SUBSET Kind
    BY DEF Arrival
  <2>2. CatalogChange(b, Arrival(b) \cup {"pushed"})
    <3>1. Changed(b, Arrival(b) \cup {"pushed"})
      BY <1>1 DEF Push
    <3>2. "pushed" \in Arrival(b) \cup {"pushed"} /\ "pushed" \notin GoneKind
      OBVIOUS
    <3>3. /\ state' \in [Branch -> {"none", "open", "closed", "merged"}] /\ content' \in [Branch -> Nat]
          /\ \A c \in Branch \ {b} : state'[c] = state[c] /\ content'[c] = content[c]
      BY <1>1 DEF Push
    <3> HIDE DEF GoneKind, Kind
    <3> QED BY <3>1, <3>2, <3>3 DEF CatalogChange
  <2> QED BY <2>1, <2>2
<1>2. CASE Upsert(b)
  <2>1. Arrival(b) \in SUBSET Kind
    BY DEF Arrival
  <2>2. \E k \in Arrival(b) : k \notin GoneKind
    BY <1>2 DEF Upsert, Arrival
  <2>3. CatalogChange(b, Arrival(b))
    BY <1>2, <2>2 DEF Upsert, CatalogChange
  <2> QED BY <2>1, <2>3
<1>3. CASE Close(b) \/ Merge(b)
  <2>1. \E k \in GoneKind : Changed(b, {k}) /\ state' = [state EXCEPT ![b] = k] /\ content' = content
    BY <1>3 DEF Close, Merge, ChangeBranch
  <2>2. \E k \in GoneKind : CatalogChange(b, {k})
    BY <2>1 DEF CatalogChange
  <2> QED BY <2>2
<1>4. CASE Reopen(b)
  <2>1. CatalogChange(b, {"reopened"})
    BY <1>4 DEF Reopen, ChangeBranch, CatalogChange
  <2> QED BY <2>1
<1>5. CASE Revise(b)
  <2>1. CatalogChange(b, {"revised"})
    BY <1>5 DEF Revise, CatalogChange
  <2> QED BY <2>1
<1> QED BY <1>1, <1>2, <1>3, <1>4, <1>5 DEF CatalogAction

Begun(h, e, step) == [event |-> e, count |-> 0, step |-> step]

\* A handler begins with a job that waits for the project row, or, when the
\* branch has its environment already, writes the publish request.
LEMMA BeginStep ==
    ASSUME TypeOK, NEW h \in Handler, NEW e \in events, BeginLive(h, e) \/ BeginRevised(h, e)
    PROVE  /\ Free(h, e) /\ e.kind \notin GoneKind
           /\ \E step \in {"lock", "request"} :
                /\ Begun(h, e, step) \in Job /\ handling' = [handling EXCEPT ![h] = Begun(h, e, step)]
                /\ step = "lock" => e.branch \notin opened
           /\ UNCHANGED <<catalog, events, environments, locked, publishing, history, faults>>
<1>1. e \in Event
  BY DEF TypeOK
<1>2. \A step \in {"lock", "request"} : Begun(h, e, step) \in Job
  BY <1>1 DEF Begun, Job
<1>3. CASE BeginLive(h, e)
  BY <1>2, <1>3 DEF BeginLive, Begin, Begun, LiveKind, GoneKind
<1>4. CASE BeginRevised(h, e)
  BY <1>2, <1>4 DEF BeginRevised, Begin, Begun, GoneKind
<1> QED BY <1>3, <1>4

\* What a busy handler holds.
LEMMA HandlerType ==
    ASSUME TypeOK, NEW h \in Handler, handling[h] # None
    PROVE  handling[h] \in Job /\ handling[h].event \in Event /\ On(h) \in Branch
BY DEF TypeOK, Job, Event, On

\* What a busy publisher holds.
LEMMA PublisherType ==
    ASSUME TypeOK, NEW p \in Publisher, publishing[p] # None
    PROVE  /\ publishing[p] \in Run /\ Of(p) \in Branch /\ publishing[p].id \in Nat
           /\ publishing[p].content \in Nat
BY DEF TypeOK, Run, Of

\* A publish request is of a branch with an environment.
LEMMA RequestType ==
    ASSUME TypeOK, NEW b \in Branch, request[b] # None
    PROVE  request[b] \in PublishRequest /\ request[b].id \in Nat /\ b \in opened
BY DEF TypeOK, PublishRequest

\* How a handler ends: it is free again, and its event may be settled.
LEMMA DoneStep ==
    ASSUME TypeOK, NEW h \in Handler, handling[h] # None, Done(h)
    PROVE  /\ handling' = [handling EXCEPT ![h] = None]
           /\ events' \subseteq events /\ events \ {handling[h].event} \subseteq events'
           /\ faults' \in Nat
BY DEF Done, Settled, Fault, TypeOK

\* The handler that locks the project row counts the open environments.
LEMMA CountStep ==
    ASSUME TypeOK, Limited, NEW h \in Handler, LockAndCount(h)
    PROVE  /\ handling[h] # None /\ handling[h].step = "lock" /\ locked = None /\ locked' = h
           /\ handling' = [handling EXCEPT ![h] = handling'[h]] /\ handling'[h] \in Job
           /\ handling'[h].event = handling[h].event
           /\ handling'[h].step = "insert" /\ handling'[h].count = Cardinality(opened)
<1>1. handling[h] # None /\ handling[h].step = "lock" /\ locked = None /\ locked' = h /\ Counts(h)
  BY DEF LockAndCount, At
<1>2. handling[h] \in Job /\ Cardinality(opened) \in Nat
  BY <1>1, HandlerType, FS_CardinalityType DEF Limited
<1>3. handling'[h] = [handling[h] EXCEPT !.step = "insert", !.count = Cardinality(opened)]
  BY <1>1 DEF Counts, TypeOK
<1>4. handling'[h] \in Job
  BY <1>2, <1>3 DEF Job
<1>5. handling' = [handling EXCEPT ![h] = handling'[h]]
  BY <1>1 DEF Counts, TypeOK
<1> QED BY <1>1, <1>2, <1>3, <1>4, <1>5 DEF Job

\* An environment is inserted only under the limit counted; over it the
\* handler is done without one.
LEMMA OpenStep ==
    ASSUME TypeOK, NEW h \in Handler, Insert(h)
    PROVE  /\ handling[h] # None /\ handling[h].step = "insert" /\ On(h) \in Branch
           /\ \/ /\ handling[h].count < Limit /\ On(h) \notin opened
                 /\ opened' = opened \cup {On(h)}
                 /\ handling' = [handling EXCEPT ![h] = handling'[h]] /\ handling'[h] \in Job
                 /\ handling'[h].event = handling[h].event /\ handling'[h].step = "request"
                 /\ shown' = [shown EXCEPT ![On(h)] = 0] /\ answered' = [answered EXCEPT ![On(h)] = 0]
                 /\ UNCHANGED <<events, faults>>
              \/ Done(h) /\ UNCHANGED <<opened, shown, answered>>
<1>1. handling[h] # None /\ handling[h].step = "insert"
  BY DEF Insert, At
<1>2. handling[h] \in Job /\ On(h) \in Branch
  BY <1>1, HandlerType
<1>3. CASE handling[h].count < Limit /\ On(h) \notin opened
  <2>1. /\ opened' = opened \cup {On(h)} /\ Goto(h, "request")
        /\ shown' = [shown EXCEPT ![On(h)] = 0] /\ answered' = [answered EXCEPT ![On(h)] = 0]
        /\ UNCHANGED <<events, faults>>
    BY <1>3 DEF Insert
  <2>2. handling'[h] = [handling[h] EXCEPT !.step = "request"]
    BY <2>1 DEF Goto, TypeOK
  <2>3. handling'[h] \in Job /\ handling'[h].event = handling[h].event /\ handling'[h].step = "request"
    BY <1>2, <2>2 DEF Job
  <2>4. handling' = [handling EXCEPT ![h] = handling'[h]]
    BY <2>1 DEF Goto, TypeOK
  <2> QED BY <1>1, <1>2, <1>3, <2>1, <2>3, <2>4
<1>4. CASE ~(handling[h].count < Limit /\ On(h) \notin opened)
  BY <1>1, <1>2, <1>4 DEF Insert
<1> QED BY <1>3, <1>4

\* A request that is made has an id of its own.
LEMMA RequestStep ==
    ASSUME TypeOK, NEW h \in Handler, Request(h)
    PROVE  /\ handling[h] # None /\ handling[h].step = "request" /\ On(h) \in Branch /\ Done(h)
           /\ \/ /\ On(h) \in opened /\ request' = [request EXCEPT ![On(h)] = request'[On(h)]]
                 /\ request'[On(h)] \in PublishRequest /\ request'[On(h)].id = asked[On(h)] + 1
                 /\ asked' = [asked EXCEPT ![On(h)] = @ + 1]
              \/ On(h) \notin opened /\ UNCHANGED <<request, asked>>
           /\ UNCHANGED <<catalog, opened, shown, released, locked, publishing, history>>
<1>1. /\ handling[h] # None /\ handling[h].step = "request" /\ Done(h)
      /\ UNCHANGED <<catalog, opened, shown, released, locked, publishing, history>>
  BY DEF Request, At
<1>2. On(h) \in Branch
  BY <1>1, HandlerType
<1>3. CASE On(h) \in opened
  <2>1. PICK d \in BOOLEAN : request' = [request EXCEPT ![On(h)] = [id |-> asked[On(h)] + 1, due |-> d]]
    BY <1>3 DEF Request, FreshId
  <2>2. request'[On(h)] = [id |-> asked[On(h)] + 1, due |-> d]
    BY <1>2, <2>1 DEF TypeOK
  <2>3. request'[On(h)] \in PublishRequest /\ request'[On(h)].id = asked[On(h)] + 1
    BY <1>2, <2>2 DEF PublishRequest, TypeOK
  <2>4. request' = [request EXCEPT ![On(h)] = request'[On(h)]]
    BY <1>2, <2>1, <2>2
  <2>5. asked' = [asked EXCEPT ![On(h)] = @ + 1]
    BY <1>3 DEF Request
  <2> QED BY <1>1, <1>2, <1>3, <2>3, <2>4, <2>5
<1>4. CASE On(h) \notin opened
  BY <1>1, <1>2, <1>4 DEF Request
<1> QED BY <1>3, <1>4

\* A publisher that works on a request keeps to it.
GoesTo(p, step) ==
    /\ publishing[p] # None /\ publishing'[p] \in Run
    /\ publishing' = [publishing EXCEPT ![p] = publishing'[p]]
    /\ publishing'[p].branch = publishing[p].branch /\ publishing'[p].id = publishing[p].id
    /\ publishing'[p].step = step

\* The steps of a publisher, with the content its build reads.
LEMMA PublisherStep ==
    ASSUME TypeOK, NEW p \in Publisher
    PROVE  /\ Build(p) => GoesTo(p, "record") /\ publishing'[p].content = content[Of(p)]
           /\ BuildRefused(p) \/ NothingToPublish(p) \/ Record(p) => GoesTo(p, "clear")
<1>1. ASSUME publishing[p] # None
      PROVE  \A s \in {"record", "clear"}, c \in Nat :
               /\ [publishing[p] EXCEPT !.step = s, !.content = c] \in Run
               /\ [publishing[p] EXCEPT !.step = s] \in Run
  BY <1>1, PublisherType DEF Run
<1>2. ASSUME Build(p) PROVE GoesTo(p, "record") /\ publishing'[p].content = content[Of(p)]
  <2>1. publishing[p] # None
    BY <1>2 DEF Build, Doing
  <2>2. publishing[p] \in Run /\ content[Of(p)] \in Nat
    BY <2>1, PublisherType DEF TypeOK
  <2>3. publishing'[p] = [publishing[p] EXCEPT !.step = "record", !.content = content[Of(p)]]
        /\ publishing' = [publishing EXCEPT ![p] = publishing'[p]]
    BY <1>2 DEF Build, TypeOK
  <2>4. publishing'[p] \in Run
    BY <1>1, <2>1, <2>2, <2>3
  <2> QED BY <2>1, <2>2, <2>3, <2>4 DEF GoesTo, Run
<1>3. ASSUME BuildRefused(p) \/ NothingToPublish(p) \/ Record(p) PROVE GoesTo(p, "clear")
  <2>1. publishing[p] # None /\ Then(p, "clear")
    BY <1>3 DEF BuildRefused, NothingToPublish, Record, Doing
  <2>2. publishing[p] \in Run
    BY <2>1, PublisherType
  <2>3. publishing'[p] = [publishing[p] EXCEPT !.step = "clear"]
        /\ publishing' = [publishing EXCEPT ![p] = publishing'[p]]
    BY <2>1 DEF Then, TypeOK
  <2>4. publishing'[p] \in Run
    BY <2>2, <2>3 DEF Run
  <2> QED BY <2>1, <2>2, <2>3, <2>4 DEF GoesTo, Run
<1> QED BY <1>2, <1>3

\* A publisher takes a request as it stands.
LEMMA TakeStep ==
    ASSUME TypeOK, NEW p \in Publisher, NEW b \in Branch, Take(p, b)
    PROVE  /\ publishing[p] = None /\ request[b] # None
           /\ publishing' = [publishing EXCEPT ![p] = publishing'[p]] /\ publishing'[p] \in Run
           /\ publishing'[p].branch = b /\ publishing'[p].id = request[b].id
           /\ publishing'[p].step = "build"
<1>1. request[b] # None /\ request[b].id \in Nat
  BY RequestType DEF Take
<1>2. /\ publishing'[p] = [branch |-> b, id |-> request[b].id, step |-> "build", content |-> 0]
      /\ publishing' = [publishing EXCEPT ![p] = publishing'[p]] /\ publishing[p] = None
  BY DEF Take, TypeOK
<1> QED BY <1>1, <1>2 DEF Run

-----------------------------------------------------------------------------
(* Each part of the invariant through a step.                              *)

\* Every step keeps the types.
LEMMA TypeStep ==
    ASSUME TypeOK, Limited, [Next]_vars
    PROVE  TypeOK'
<1>1. ASSUME NEW b \in Branch, CatalogAction(b) PROVE TypeOK'
  <2>1. PICK kinds \in SUBSET Kind : CatalogChange(b, kinds)
    BY <1>1, CatalogStep
  <2>2. version[b] + 1 \in Nat
    BY DEF TypeOK
  <2>3. version' = [version EXCEPT ![b] = @ + 1] /\ version' \in [Branch -> Nat]
    BY <2>1 DEF CatalogChange, Changed, TypeOK
  <2>4. events' \subseteq Event
    BY <2>1, <2>2 DEF CatalogChange, Changed, TypeOK, Event
  <2> QED BY <2>1, <2>3, <2>4 DEF CatalogChange, Changed, environments, history, TypeOK
<1>2. ASSUME NEW b \in Branch, Debounced(b) PROVE TypeOK'
  <2>1. [request[b] EXCEPT !.due = TRUE] \in PublishRequest /\ b \in opened
    BY <1>2, RequestType DEF Debounced, PublishRequest
  <2>2. request' = [request EXCEPT ![b] = [request[b] EXCEPT !.due = TRUE]]
    BY <1>2 DEF Debounced, TypeOK
  <2> QED BY <1>2, <2>1, <2>2 DEF Debounced, catalog, history, TypeOK
<1>3. ASSUME NEW b \in Branch, NEW p \in Publisher, Take(p, b) PROVE TypeOK'
  <2>1. publishing' \in [Publisher -> Run \cup {None}]
    BY <1>3, TakeStep DEF TypeOK
  <2> QED BY <1>3, <2>1 DEF Take, catalog, environments, history, TypeOK
<1>4. ASSUME NEW h \in Handler, NEW e \in events, BeginLive(h, e) \/ BeginRevised(h, e) PROVE TypeOK'
  <2>1. handling' \in [Handler -> Job \cup {None}]
    BY <1>4, BeginStep DEF TypeOK
  <2> QED BY <1>4, <2>1, BeginStep DEF catalog, environments, history, TypeOK
<1>5. ASSUME NEW h \in Handler, NEW e \in events, IgnoreRevised(h, e) PROVE TypeOK'
  BY <1>5 DEF IgnoreRevised, Settled, Fault, catalog, environments, history, TypeOK
<1>6. ASSUME NEW h \in Handler, NEW e \in events, DestroyGone(h, e) PROVE TypeOK'
  <2>1. e.branch \in Branch
    BY DEF TypeOK, Event
  <2>2. /\ opened' = opened \ {e.branch} /\ request' = [request EXCEPT ![e.branch] = None]
        /\ UNCHANGED <<catalog, asked, shown, released, locked, handling, publishing, history>>
    BY <1>6 DEF DestroyGone, WithoutRequest
  <2>3. events' \subseteq events /\ faults' \in Nat
    BY <1>6 DEF DestroyGone, Settled, Fault, TypeOK
  <2>4. /\ request' \in [Branch -> PublishRequest \cup {None}]
        /\ \A b \in Branch : request'[b] # None => b \in opened'
    BY <2>1, <2>2 DEF TypeOK
  <2> QED BY <2>2, <2>3, <2>4 DEF catalog, history, TypeOK
<1>7. ASSUME NEW h \in Handler, Fail(h) PROVE TypeOK'
  BY <1>7 DEF Fail, Fault, catalog, environments, history, TypeOK
<1>8. ASSUME NEW h \in Handler, LockAndCount(h) PROVE TypeOK'
  <2>1. handling' \in [Handler -> Job \cup {None}] /\ locked' = h
    BY <1>8, CountStep DEF TypeOK
  <2> QED BY <1>8, <2>1 DEF LockAndCount, catalog, environments, history, TypeOK
<1>9. ASSUME NEW h \in Handler, Insert(h) PROVE TypeOK'
  <2>1. /\ On(h) \in Branch
        /\ UNCHANGED <<catalog, request, asked, released, publishing, repeated>>
        /\ locked' \in Handler \cup {None}
    BY <1>9, OpenStep DEF Insert, TypeOK
  <2>2. CASE Done(h) /\ UNCHANGED <<opened, shown, answered>>
    <3>1. handling' \in [Handler -> Job \cup {None}] /\ events' \subseteq events /\ faults' \in Nat
      BY <1>9, <2>2, DoneStep DEF Insert, At, TypeOK
    <3> QED BY <2>1, <2>2, <3>1 DEF catalog, TypeOK
  <2>3. CASE ~(Done(h) /\ UNCHANGED <<opened, shown, answered>>)
    <3>1. /\ handling' \in [Handler -> Job \cup {None}] /\ opened' = opened \cup {On(h)}
          /\ shown' = [shown EXCEPT ![On(h)] = 0] /\ answered' = [answered EXCEPT ![On(h)] = 0]
          /\ UNCHANGED <<events, faults>>
      BY <1>9, <2>3, OpenStep DEF TypeOK
    <3> QED BY <2>1, <3>1 DEF catalog, TypeOK
  <2> QED BY <2>2, <2>3
<1>10. ASSUME NEW h \in Handler, Request(h) PROVE TypeOK'
  <2>1. /\ On(h) \in Branch /\ Done(h) /\ handling[h] # None
        /\ UNCHANGED <<catalog, opened, shown, released, locked, publishing, history>>
        /\ request' \in [Branch -> PublishRequest \cup {None}] /\ asked' \in [Branch -> Nat]
        /\ \A b \in Branch : request'[b] # None => b \in opened
    BY <1>10, RequestStep DEF TypeOK
  <2>2. handling' \in [Handler -> Job \cup {None}] /\ events' \subseteq events /\ faults' \in Nat
    BY <2>1, DoneStep DEF TypeOK
  <2> QED BY <2>1, <2>2 DEF catalog, history, TypeOK
<1>11. ASSUME NEW p \in Publisher, Build(p) \/ BuildRefused(p) \/ NothingToPublish(p) \/ Record(p)
       PROVE  TypeOK'
  <2>1. publishing[p] # None /\ publishing' \in [Publisher -> Run \cup {None}]
    BY <1>11, PublisherStep DEF GoesTo, TypeOK
  <2>2. Of(p) \in Branch /\ publishing[p].id \in Nat /\ publishing[p].content \in Nat
    BY <2>1, PublisherType
  <2>3. CASE Build(p) \/ NothingToPublish(p)
    BY <2>1, <2>3 DEF Build, NothingToPublish, catalog, environments, history, TypeOK
  <2>4. CASE BuildRefused(p)
    BY <2>1, <2>2, <2>4 DEF BuildRefused, catalog, environments, TypeOK
  <2>5. CASE Record(p)
    <3>1. /\ released' = [released EXCEPT ![Of(p)] = @ \cup {publishing[p].id}]
          /\ shown' = [shown EXCEPT ![Of(p)] = publishing[p].content]
          /\ answered' = [answered EXCEPT ![Of(p)] = Newest(@, publishing[p].content)]
          /\ repeated' \subseteq repeated \cup {<<Of(p), publishing[p].id>>}
          /\ UNCHANGED <<catalog, events, opened, request, asked, locked, handling, faults>>
      BY <2>5 DEF Record, Of
    <3>2. answered' \in [Branch -> Nat]
      BY <2>2, <3>1 DEF TypeOK, Newest
    <3>3. released' \in [Branch -> SUBSET Nat] /\ shown' \in [Branch -> Nat]
      BY <2>2, <3>1 DEF TypeOK
    <3>4. repeated' \subseteq Branch \X Nat
      BY <2>2, <3>1 DEF TypeOK
    <3> QED BY <2>1, <3>1, <3>2, <3>3, <3>4 DEF catalog, TypeOK
  <2> QED BY <1>11, <2>3, <2>4, <2>5
<1>12. ASSUME NEW p \in Publisher, Clear(p) PROVE TypeOK'
  BY <1>12 DEF Clear, catalog, history, TypeOK
<1>13. ASSUME NEW p \in Publisher, Outage(p) PROVE TypeOK'
  BY <1>13 DEF Outage, Fault, catalog, environments, history, TypeOK
<1>14. CASE UNCHANGED vars
  BY <1>14 DEF vars, catalog, environments, history, TypeOK
<1> QED
  BY <1>1, <1>2, <1>3, <1>4, <1>5, <1>6, <1>7, <1>8, <1>9, <1>10, <1>11, <1>12, <1>13, <1>14
     DEF Next, Handle, Publish, CatalogAction

\* A step that neither opens nor destroys an environment, and moves nobody to
\* the insert, keeps the limit.
LEMMA LimitedKept ==
    ASSUME Limited, opened' = opened,
           \A h \in Handler : handling'[h] # None /\ handling'[h].step = "insert" =>
             handling'[h] = handling[h] /\ (locked = h => locked' = h)
    PROVE  Limited'
BY DEF Limited, At

\* Every step keeps the limit: between the count and the insert the project
\* row is locked.
LEMMA LimitedStep ==
    ASSUME TypeOK, Limited, [Next]_vars
    PROVE  Limited'
<1>1. ASSUME NEW b \in Branch, CatalogAction(b) PROVE Limited'
  BY <1>1, CatalogStep, LimitedKept DEF CatalogChange, Changed, environments
<1>2. CASE \E b \in Branch : Debounced(b) \/ \E p \in Publisher : Take(p, b)
  BY <1>2, LimitedKept DEF Debounced, Take, environments
<1>3. ASSUME NEW h \in Handler, NEW e \in events, BeginLive(h, e) \/ BeginRevised(h, e) PROVE Limited'
  <2>1. PICK step \in {"lock", "request"} :
          Begun(h, e, step) \in Job /\ handling' = [handling EXCEPT ![h] = Begun(h, e, step)]
    BY <1>3, BeginStep
  <2>2. opened' = opened /\ locked' = locked
    BY <1>3, BeginStep DEF environments
  <2>3. \A g \in Handler : handling'[g] = handling[g] \/ handling'[g].step # "insert"
    BY <2>1 DEF Begun, TypeOK
  <2> QED BY <2>2, <2>3, LimitedKept
<1>4. ASSUME NEW h \in Handler, NEW e \in events, IgnoreRevised(h, e) PROVE Limited'
  BY <1>4, LimitedKept DEF IgnoreRevised, environments
<1>5. ASSUME NEW h \in Handler, NEW e \in events, DestroyGone(h, e) PROVE Limited'
  <2>1. /\ opened' = opened \ {e.branch} /\ UNCHANGED <<locked, handling>>
        /\ e.branch \in opened => locked = None
    BY <1>5 DEF DestroyGone
  <2>2. CASE e.branch \notin opened
    <3>1. opened' = opened
      BY <2>1, <2>2
    <3> QED BY <2>1, <3>1, LimitedKept
  <2>3. CASE e.branch \in opened
    <3>1. IsFiniteSet(opened') /\ Cardinality(opened') = Cardinality(opened) - 1
      BY <2>1, <2>3, FS_RemoveElement DEF Limited
    <3>2. Cardinality(opened) \in Nat /\ Cardinality(opened) <= Limit /\ Limit \in Nat
      BY FS_CardinalityType, LimitAssumption DEF Limited
    <3>3. Cardinality(opened') <= Limit
      BY <3>1, <3>2
    <3>4. \A g \in Handler : ~(handling'[g] # None /\ handling'[g].step = "insert")
      BY <2>1, <2>3, NoneAssumption DEF Limited, At
    <3> QED BY <3>1, <3>3, <3>4 DEF Limited, At
  <2> QED BY <2>2, <2>3
<1>6. ASSUME NEW h \in Handler, Fail(h) PROVE Limited'
  <2>1. /\ opened' = opened /\ handling' = [handling EXCEPT ![h] = None]
        /\ locked' = IF locked = h THEN None ELSE locked
    BY <1>6 DEF Fail, environments
  <2>2. \A g \in Handler : handling'[g] # None =>
          handling'[g] = handling[g] /\ (locked = g => locked' = g)
    BY <2>1 DEF TypeOK
  <2> QED BY <2>1, <2>2, LimitedKept
<1>7. ASSUME NEW h \in Handler, LockAndCount(h) PROVE Limited'
  <2>1. /\ locked = None /\ locked' = h /\ handling' = [handling EXCEPT ![h] = handling'[h]]
        /\ handling'[h].count = Cardinality(opened)
    BY <1>7, CountStep
  <2>2. \A g \in Handler \ {h} : handling'[g] = handling[g]
    BY <2>1 DEF TypeOK
  <2>3. \A g \in Handler : ~(handling[g] # None /\ handling[g].step = "insert")
    BY <2>1, NoneAssumption DEF Limited, At
  <2>4. opened' = opened
    BY <1>7 DEF LockAndCount, environments
  <2> QED BY <2>1, <2>2, <2>3, <2>4 DEF Limited, At
<1>8. ASSUME NEW h \in Handler, Insert(h) PROVE Limited'
  <2>1. handling[h] # None /\ handling[h].step = "insert"
    BY <1>8, OpenStep
  <2>2. locked = h /\ handling[h].count = Cardinality(opened)
    BY <2>1 DEF Limited, At
  <2>3. \A g \in Handler \ {h} : ~(handling[g] # None /\ handling[g].step = "insert")
    BY <2>2 DEF Limited, At
  <2>4. CASE Done(h) /\ UNCHANGED <<opened, shown, answered>>
    <3>1. handling' = [handling EXCEPT ![h] = None]
      BY <2>4 DEF Done
    <3>2. \A g \in Handler : ~(handling'[g] # None /\ handling'[g].step = "insert")
      BY <2>3, <3>1 DEF TypeOK
    <3> QED BY <2>4, <3>2, LimitedKept
  <2>5. CASE ~(Done(h) /\ UNCHANGED <<opened, shown, answered>>)
    <3>1. /\ handling[h].count < Limit /\ On(h) \notin opened /\ opened' = opened \cup {On(h)}
          /\ handling' = [handling EXCEPT ![h] = handling'[h]] /\ handling'[h].step = "request"
      BY <1>8, <2>5, OpenStep
    <3>2. IsFiniteSet(opened') /\ Cardinality(opened') = Cardinality(opened) + 1
      BY <3>1, FS_AddElement DEF Limited
    <3>3. Cardinality(opened) \in Nat /\ Cardinality(opened) < Limit /\ Limit \in Nat
      BY <2>2, <3>1, FS_CardinalityType, LimitAssumption DEF Limited
    <3>4. Cardinality(opened') <= Limit
      BY <3>2, <3>3
    <3>5. \A g \in Handler : ~(handling'[g] # None /\ handling'[g].step = "insert")
      BY <2>3, <3>1 DEF TypeOK
    <3> QED BY <3>2, <3>4, <3>5 DEF Limited, At
  <2> QED BY <2>4, <2>5
<1>9. ASSUME NEW h \in Handler, Request(h) PROVE Limited'
  <2>1. handling' = [handling EXCEPT ![h] = None] /\ UNCHANGED <<opened, locked>>
    BY <1>9 DEF Request, Done
  <2>2. \A g \in Handler : handling'[g] # None => handling'[g] = handling[g]
    BY <2>1 DEF TypeOK
  <2> QED BY <2>1, <2>2, LimitedKept
<1>10. CASE \E p \in Publisher : Publish(p) \/ Outage(p)
  BY <1>10, LimitedKept
     DEF Publish, Outage, Build, BuildRefused, NothingToPublish, Record, Clear, environments
<1>11. CASE UNCHANGED vars
  BY <1>11, LimitedKept DEF vars, environments
<1> QED
  BY <1>1, <1>2, <1>3, <1>4, <1>5, <1>6, <1>7, <1>8, <1>9, <1>10, <1>11 DEF Next, Handle, CatalogAction

\* A step that gives nobody a new event, and settles none that is handled.
LEMMA HandledKept ==
    ASSUME Handled, version' = version, events' \subseteq events,
           \A h \in Handler : handling'[h] # None =>
             /\ handling[h] # None /\ handling'[h].event = handling[h].event
             /\ handling[h].event \in events'
    PROVE  Handled'
BY DEF Handled

\* Every step keeps what a handler at work has in its hands.
LEMMA HandledStep ==
    ASSUME TypeOK, Limited, Handled, [Next]_vars
    PROVE  Handled'
<1>1. ASSUME NEW b \in Branch, CatalogAction(b) PROVE Handled'
  <2>1. PICK kinds \in SUBSET Kind : CatalogChange(b, kinds)
    BY <1>1, CatalogStep
  <2>2. /\ version' = [version EXCEPT ![b] = version[b] + 1] /\ handling' = handling
        /\ events' = events \cup {[branch |-> b, kind |-> k, at |-> version[b] + 1] : k \in kinds}
    BY <2>1 DEF CatalogChange, Changed
  <2>3. \A e \in events' : e.at <= version'[e.branch]
    <3> SUFFICES ASSUME NEW e \in events' PROVE e.at <= version'[e.branch]
      OBVIOUS
    <3>1. CASE e \in events
      BY <2>2, <3>1 DEF Handled, TypeOK, Event
    <3>2. CASE e \notin events
      BY <2>2, <3>2 DEF TypeOK
    <3> QED BY <3>1, <3>2
  <2> QED BY <2>2, <2>3 DEF Handled
<1>2. CASE \E b \in Branch : Debounced(b) \/ \E p \in Publisher : Take(p, b)
  BY <1>2, HandledKept DEF Debounced, Take, catalog, Handled
<1>3. ASSUME NEW h \in Handler, NEW e \in events, BeginLive(h, e) \/ BeginRevised(h, e) PROVE Handled'
  <2>1. Free(h, e) /\ e.kind \notin GoneKind /\ UNCHANGED <<catalog, events>>
    BY <1>3, BeginStep
  <2>2. PICK step \in {"lock", "request"} : handling' = [handling EXCEPT ![h] = Begun(h, e, step)]
    BY <1>3, BeginStep
  <2>3. /\ handling'[h].event = e
        /\ \A g \in Handler \ {h} : handling'[g] = handling[g]
    BY <2>2 DEF Begun, TypeOK
  <2> QED BY <2>1, <2>3 DEF Handled, Free, catalog
<1>4. ASSUME NEW h \in Handler, NEW e \in events, IgnoreRevised(h, e) \/ DestroyGone(h, e)
      PROVE  Handled'
  <2>1. Free(h, e) /\ Settled(e) /\ UNCHANGED <<catalog, handling>>
    BY <1>4 DEF IgnoreRevised, DestroyGone
  <2>2. events' \subseteq events /\ events \ {e} \subseteq events'
    BY <2>1 DEF Settled
  <2>3. \A g \in Handler : handling[g] # None => handling[g].event \in events'
    BY <2>1, <2>2 DEF Free, Handled
  <2> QED BY <2>1, <2>2, <2>3, HandledKept DEF catalog
<1>5. ASSUME NEW h \in Handler, Fail(h) PROVE Handled'
  <2>1. handling' = [handling EXCEPT ![h] = None] /\ UNCHANGED <<catalog, events>>
    BY <1>5 DEF Fail
  <2>2. \A g \in Handler : handling'[g] # None => handling'[g] = handling[g]
    BY <2>1 DEF TypeOK
  <2>3. \A g \in Handler : handling[g] # None => handling[g].event \in events'
    BY <2>1 DEF Handled
  <2> QED BY <2>1, <2>2, <2>3, HandledKept DEF catalog
<1>6. ASSUME NEW h \in Handler, LockAndCount(h) PROVE Handled'
  <2>1. /\ handling[h] # None /\ handling' = [handling EXCEPT ![h] = handling'[h]]
        /\ handling'[h].event = handling[h].event
    BY <1>6, CountStep
  <2>2. \A g \in Handler \ {h} : handling'[g] = handling[g]
    BY <2>1 DEF TypeOK
  <2>3. UNCHANGED <<catalog, events>>
    BY <1>6 DEF LockAndCount
  <2> QED BY <2>1, <2>2, <2>3, HandledKept DEF catalog, Handled
<1>7. ASSUME NEW h \in Handler, handling[h] # None, Done(h), UNCHANGED catalog PROVE Handled'
  <2>1. handling' = [handling EXCEPT ![h] = None]
        /\ events' \subseteq events /\ events \ {handling[h].event} \subseteq events'
    BY <1>7, DoneStep
  <2>2. \A g \in Handler : handling'[g] # None => g # h /\ handling'[g] = handling[g]
    BY <2>1 DEF TypeOK
  <2>3. \A g \in Handler \ {h} : handling[g] # None => handling[g].event \in events'
    BY <1>7, <2>1 DEF Handled
  <2> QED BY <1>7, <2>1, <2>2, <2>3, HandledKept DEF catalog
<1>8. ASSUME NEW h \in Handler, Insert(h) PROVE Handled'
  <2>1. CASE Done(h)
    BY <1>7, <1>8, <2>1, OpenStep DEF Insert
  <2>2. CASE ~Done(h)
    <3>1. /\ handling[h] # None /\ handling' = [handling EXCEPT ![h] = handling'[h]]
          /\ handling'[h].event = handling[h].event
          /\ events' = events
      BY <1>8, <2>2, OpenStep
    <3>2. \A g \in Handler \ {h} : handling'[g] = handling[g]
      BY <3>1 DEF TypeOK
    <3>3. UNCHANGED catalog
      BY <1>8 DEF Insert
    <3> QED BY <3>1, <3>2, <3>3, HandledKept DEF catalog, Handled
  <2> QED BY <2>1, <2>2
<1>9. ASSUME NEW h \in Handler, Request(h) PROVE Handled'
  BY <1>7, <1>9, RequestStep
<1>10. CASE \E p \in Publisher : Publish(p) \/ Outage(p)
  BY <1>10, HandledKept
     DEF Publish, Outage, Build, BuildRefused, NothingToPublish, Record, Clear, catalog, Handled
<1>11. CASE UNCHANGED vars
  BY <1>11, HandledKept DEF vars, catalog, Handled
<1> QED
  BY <1>1, <1>2, <1>3, <1>4, <1>5, <1>6, <1>8, <1>9, <1>10, <1>11 DEF Next, Handle, CatalogAction

\* A step that makes no request and starts no publish.
LEMMA IdsKept ==
    ASSUME Ids, asked' = asked, released' = released,
           \A b \in Branch : request'[b] # None => request[b] # None /\ request'[b].id = request[b].id,
           \A p \in Publisher : publishing'[p] # None =>
             /\ publishing[p] # None /\ publishing'[p].id = publishing[p].id
             /\ publishing'[p].branch = publishing[p].branch
    PROVE  Ids'
BY DEF Ids, Of

\* Every step keeps the identities of the requests apart.
LEMMA IdsStep ==
    ASSUME TypeOK, Ids, [Next]_vars
    PROVE  Ids'
<1>1. ASSUME NEW b \in Branch, CatalogAction(b) PROVE Ids'
  BY <1>1, CatalogStep, IdsKept DEF CatalogChange, Changed, environments
<1>2. ASSUME NEW b \in Branch, Debounced(b) PROVE Ids'
  <2>1. request[b] # None /\ request' = [request EXCEPT ![b] = [request[b] EXCEPT !.due = TRUE]]
        /\ UNCHANGED <<asked, released, publishing>>
    BY <1>2 DEF Debounced, TypeOK
  <2>2. request'[b].id = request[b].id
    BY <2>1, RequestType DEF PublishRequest, TypeOK
  <2>3. \A c \in Branch \ {b} : request'[c] = request[c]
    BY <2>1 DEF TypeOK
  <2> QED BY <2>1, <2>2, <2>3, IdsKept
<1>3. ASSUME NEW b \in Branch, NEW p \in Publisher, Take(p, b) PROVE Ids'
  <2>1. /\ request[b] # None /\ publishing' = [publishing EXCEPT ![p] = publishing'[p]]
        /\ publishing'[p].branch = b /\ publishing'[p].id = request[b].id
    BY <1>3, TakeStep
  <2>2. \A q \in Publisher \ {p} : publishing'[q] = publishing[q]
    BY <2>1 DEF TypeOK
  <2>3. UNCHANGED environments
    BY <1>3 DEF Take
  <2> QED BY <2>1, <2>2, <2>3 DEF Ids, Of, environments
<1>4. CASE \E h \in Handler : \/ \E e \in events : BeginLive(h, e) \/ BeginRevised(h, e) \/ IgnoreRevised(h, e)
                              \/ Fail(h) \/ LockAndCount(h) \/ Insert(h)
  <2>1. UNCHANGED <<request, asked, released, publishing>>
    BY <1>4 DEF BeginLive, BeginRevised, Begin, IgnoreRevised, Fail, LockAndCount, Insert, environments
  <2> QED BY <2>1, IdsKept
<1>5. ASSUME NEW h \in Handler, NEW e \in events, DestroyGone(h, e) PROVE Ids'
  <2>1. request' = [request EXCEPT ![e.branch] = None] /\ UNCHANGED <<asked, released, publishing>>
    BY <1>5 DEF DestroyGone, WithoutRequest
  <2>2. \A b \in Branch : request'[b] # None => request'[b] = request[b]
    BY <2>1 DEF TypeOK
  <2> QED BY <2>1, <2>2, IdsKept
<1>6. ASSUME NEW h \in Handler, Request(h) PROVE Ids'
  <2>1. On(h) \in Branch /\ UNCHANGED <<released, publishing>>
    BY <1>6, RequestStep
  <2>2. CASE On(h) \in opened
    <3>1. /\ request' = [request EXCEPT ![On(h)] = request'[On(h)]]
          /\ request'[On(h)].id = asked[On(h)] + 1 /\ asked' = [asked EXCEPT ![On(h)] = @ + 1]
      BY <1>6, <2>2, RequestStep
    <3>2. \A b \in Branch : asked[b] \in Nat /\ asked'[b] \in Nat /\ asked[b] <= asked'[b]
      BY <2>1, <3>1 DEF TypeOK
    <3>3. \A b \in Branch : request'[b] # None => request'[b].id <= asked'[b]
      <4>1. request'[On(h)].id <= asked'[On(h)]
        BY <2>1, <3>1 DEF TypeOK
      <4>2. \A b \in Branch \ {On(h)} : request'[b] = request[b] /\ asked'[b] = asked[b]
        BY <3>1 DEF TypeOK
      <4> QED BY <4>1, <4>2 DEF Ids
    <3>4. \A b \in Branch : \A i \in released'[b] : i <= asked'[b]
      <4> SUFFICES ASSUME NEW b \in Branch, NEW i \in released[b] PROVE i <= asked'[b]
        BY <2>1
      <4>1. i \in Nat /\ i <= asked[b]
        BY DEF Ids, TypeOK
      <4> QED BY <3>2, <4>1
    <3>5. \A p \in Publisher : publishing'[p] # None => publishing'[p].id <= asked'[publishing'[p].branch]
      <4> SUFFICES ASSUME NEW p \in Publisher, publishing[p] # None
                   PROVE  publishing[p].id <= asked'[Of(p)]
        BY <2>1 DEF Of
      <4>1. Of(p) \in Branch /\ publishing[p].id \in Nat /\ publishing[p].id <= asked[Of(p)]
        BY PublisherType DEF Ids
      <4> QED BY <3>2, <4>1
    <3> QED BY <3>3, <3>4, <3>5 DEF Ids, Of
  <2>3. CASE On(h) \notin opened
    BY <1>6, <2>1, <2>3, RequestStep, IdsKept
  <2> QED BY <2>2, <2>3
<1>7. ASSUME NEW p \in Publisher, Build(p) \/ BuildRefused(p) \/ NothingToPublish(p) PROVE Ids'
  <2>1. /\ publishing[p] # None /\ publishing' = [publishing EXCEPT ![p] = publishing'[p]]
        /\ publishing'[p].branch = publishing[p].branch /\ publishing'[p].id = publishing[p].id
    BY <1>7, PublisherStep DEF GoesTo
  <2>2. \A q \in Publisher \ {p} : publishing'[q] = publishing[q]
    BY <2>1 DEF TypeOK
  <2>3. UNCHANGED environments
    BY <1>7 DEF Build, BuildRefused, NothingToPublish
  <2> QED BY <2>1, <2>2, <2>3, IdsKept DEF environments
<1>8. ASSUME NEW p \in Publisher, Record(p) PROVE Ids'
  <2>1. /\ publishing[p] # None /\ publishing' = [publishing EXCEPT ![p] = publishing'[p]]
        /\ publishing'[p].branch = publishing[p].branch /\ publishing'[p].id = publishing[p].id
    BY <1>8, PublisherStep DEF GoesTo
  <2>2. /\ released' = [released EXCEPT ![Of(p)] = @ \cup {publishing[p].id}]
        /\ UNCHANGED <<request, asked>>
    BY <1>8 DEF Record, Of
  <2>3. publishing[p].id <= asked[Of(p)] /\ Of(p) \in Branch
    BY <2>1, PublisherType DEF Ids
  <2>4. \A b \in Branch : \A i \in released'[b] : i <= asked[b]
    BY <2>2, <2>3 DEF Ids, TypeOK
  <2>5. \A q \in Publisher \ {p} : publishing'[q] = publishing[q]
    BY <2>1 DEF TypeOK
  <2> QED BY <2>1, <2>2, <2>4, <2>5 DEF Ids, Of
<1>9. ASSUME NEW p \in Publisher, Clear(p) \/ Outage(p) PROVE Ids'
  <2>1. publishing' = [publishing EXCEPT ![p] = None] /\ UNCHANGED <<asked, released>>
    BY <1>9 DEF Clear, Outage, environments
  <2>2. request' = request \/ \E b \in Branch : request' = [request EXCEPT ![b] = None]
    BY <1>9, PublisherType DEF Clear, Doing, Outage, environments
  <2>3. \A b \in Branch : request'[b] # None => request'[b] = request[b]
    BY <2>2 DEF TypeOK
  <2>4. \A q \in Publisher : publishing'[q] # None => publishing'[q] = publishing[q]
    BY <2>1 DEF TypeOK
  <2> QED BY <2>1, <2>3, <2>4, IdsKept
<1>10. CASE UNCHANGED vars
  BY <1>10, IdsKept DEF vars, environments
<1> QED
  BY <1>1, <1>2, <1>3, <1>4, <1>5, <1>6, <1>7, <1>8, <1>9, <1>10
     DEF Next, Handle, Publish, CatalogAction

\* A publish that its request's release answers records nothing.
LEMMA RepeatedStep ==
    ASSUME repeated = {}, [Next]_vars
    PROVE  repeated' = {}
<1>1. ASSUME NEW p \in Publisher, Record(p) PROVE repeated' = {}
  BY <1>1 DEF Record, Answered, Released, Of
<1>2. CASE UNCHANGED vars
  BY <1>2 DEF vars, history
<1> QED
  BY <1>1, <1>2
     DEF Next, Push, Upsert, Close, Merge, Reopen, ChangeBranch, Revise, Changed, Debounced, Take,
         Handle, BeginLive, BeginRevised, Begin, IgnoreRevised, DestroyGone, Fail, LockAndCount, Insert,
         Request, Publish, Build, BuildRefused, NothingToPublish, Clear, Outage, history

(* No push is forgotten: a step that leaves b's request of no help had left  *)
(* it so before or makes one come, and one that was coming stays.            *)

\* A step that is not about b's request, publishes or content.
LEMMA DueKept ==
    ASSUME NEW b \in Branch, Due(b)', opened' = opened,
           state'[b] = state[b], content'[b] = content[b], answered'[b] = answered[b],
           request'[b] = None => request[b] = None,
           request'[b] # None => request[b] # None /\ request'[b].id = request[b].id,
           released'[b] = released[b],
           \A p \in Publisher :
             publishing'[p] # None /\ publishing'[p].branch = b /\ publishing'[p].step \in {"clear", "record"}
               => publishing'[p] = publishing[p]
    PROVE  Due(b)
BY DEF Due, Spent, Doing, Of

\* A branch that becomes due has something under way that will answer it.
LEMMA DueStep ==
    ASSUME TypeOK, Limited, Handled, Ids, NEW b \in Branch, Due(b)', [Next]_vars
    PROVE  Due(b) \/ Coming(b)'
<1>1. ASSUME NEW c \in Branch, CatalogAction(c) PROVE Due(b) \/ Coming(b)'
  <2>1. PICK kinds \in SUBSET Kind : CatalogChange(c, kinds)
    BY <1>1, CatalogStep
  <2>2. CASE b = c
    <3>1. PICK k \in kinds : k \notin GoneKind
      BY <2>1, <2>2 DEF CatalogChange, Due
    <3> DEFINE e == [branch |-> b, kind |-> k, at |-> version[b] + 1]
    <3>2. e \in events'
      BY <2>1, <2>2, <3>1 DEF CatalogChange, Changed
    <3>3. \A h \in Handler : handling'[h] # None => handling'[h].event # e
      <4> SUFFICES ASSUME NEW h \in Handler, handling[h] # None PROVE handling[h].event # e
        BY <2>1 DEF CatalogChange, Changed
      <4>1. handling[h].event \in events /\ handling[h].event \in Event
        BY HandlerType DEF Handled
      <4>2. handling[h].event.branch = b => handling[h].event.at <= version[b]
        BY <4>1 DEF Handled
      <4>3. version[b] \in Nat
        BY DEF TypeOK
      <4> QED BY <4>1, <4>2, <4>3 DEF Event
    <3>4. e.branch = b /\ e.kind \notin GoneKind
      BY <3>1
    <3> HIDE DEF e
    <3> QED BY <3>2, <3>3, <3>4 DEF Coming, Opening, At
  <2>3. CASE b # c
    BY <2>1, <2>3, DueKept DEF CatalogChange, Changed, environments, history
  <2> QED BY <2>2, <2>3
<1>2. ASSUME NEW c \in Branch, Debounced(c) PROVE Due(b)
  <2>1. request[c] # None /\ request' = [request EXCEPT ![c] = [request[c] EXCEPT !.due = TRUE]]
    BY <1>2 DEF Debounced, TypeOK
  <2>2. request'[c].id = request[c].id
    BY <2>1, RequestType DEF PublishRequest, TypeOK
  <2>3. request'[b] # None => request[b] # None /\ request'[b].id = request[b].id
    BY <2>1, <2>2 DEF TypeOK
  <2>4. request'[b] = None => request[b] = None
    BY <2>1, RequestType, NoneAssumption DEF PublishRequest, TypeOK
  <2>5. UNCHANGED <<catalog, opened, released, publishing, answered>>
    BY <1>2 DEF Debounced, history
  <2> QED BY <2>3, <2>4, <2>5, DueKept DEF catalog
<1>3. ASSUME NEW c \in Branch, NEW p \in Publisher, Take(p, c) PROVE Due(b)
  <2>1. publishing' = [publishing EXCEPT ![p] = publishing'[p]] /\ publishing'[p].step = "build"
    BY <1>3, TakeStep
  <2>2. \A q \in Publisher : publishing'[q].step # "build" => publishing'[q] = publishing[q]
    BY <2>1 DEF TypeOK
  <2>3. UNCHANGED <<catalog, environments, history>>
    BY <1>3 DEF Take
  <2> QED BY <2>1, <2>2, <2>3, DueKept DEF catalog, environments, history
<1>4. CASE \E h \in Handler : \/ \E e \in events : BeginLive(h, e) \/ BeginRevised(h, e) \/ IgnoreRevised(h, e)
                              \/ Fail(h) \/ LockAndCount(h)
  <2>1. UNCHANGED <<catalog, environments, publishing, history>>
    BY <1>4 DEF BeginLive, BeginRevised, Begin, IgnoreRevised, Fail, LockAndCount
  <2> QED BY <2>1, DueKept DEF catalog, environments, history
<1>5. ASSUME NEW h \in Handler, NEW e \in events, DestroyGone(h, e) PROVE Due(b)
  <2>1. /\ opened' = opened \ {e.branch} /\ request' = [request EXCEPT ![e.branch] = None]
        /\ UNCHANGED <<catalog, released, publishing, history>>
    BY <1>5 DEF DestroyGone, WithoutRequest
  <2>2. b # e.branch /\ b \in opened /\ request'[b] = request[b]
    BY <2>1 DEF Due, TypeOK
  <2> QED BY <2>1, <2>2 DEF Due, Spent, Doing, Of, catalog, history
<1>6. ASSUME NEW h \in Handler, Insert(h) PROVE Due(b) \/ Coming(b)'
  <2>1. handling[h] # None /\ On(h) \in Branch /\ UNCHANGED <<catalog, request, asked, released, publishing>>
    BY <1>6, OpenStep DEF Insert
  <2>2. CASE UNCHANGED <<opened, shown, answered>>
    BY <2>1, <2>2, DueKept DEF catalog
  <2>3. CASE ~UNCHANGED <<opened, shown, answered>>
    <3>1. /\ opened' = opened \cup {On(h)} /\ answered' = [answered EXCEPT ![On(h)] = 0]
          /\ handling' = [handling EXCEPT ![h] = handling'[h]] /\ handling'[h] \in Job
          /\ handling'[h].event = handling[h].event /\ handling'[h].step = "request"
      BY <1>6, <2>3, OpenStep
    <3>2. CASE b = On(h)
      <4>1. handling'[h] # None
        BY <3>1, NoneAssumption
      <4> QED BY <3>1, <3>2, <4>1 DEF Coming, At, On
    <3>3. CASE b # On(h)
      <4>1. b \in opened /\ answered'[b] = answered[b]
        BY <3>1, <3>3 DEF Due, TypeOK
      <4> QED BY <2>1, <4>1 DEF Due, Spent, Doing, Of, catalog
    <3> QED BY <3>2, <3>3
  <2> QED BY <2>2, <2>3
<1>7. ASSUME NEW h \in Handler, Request(h) PROVE Due(b)
  <2>1. On(h) \in Branch /\ UNCHANGED <<catalog, opened, released, publishing, history>>
    BY <1>7, RequestStep
  <2>2. ASSUME On(h) \in opened, b = On(h) PROVE FALSE
    <3>1. request'[b] \in PublishRequest /\ request'[b].id = asked[b] + 1
      BY <1>7, <2>2, RequestStep
    <3>2. request'[b] # None
      BY <3>1, NoneAssumption
    <3>3. asked[b] \in Nat /\ request'[b].id \notin released'[b]
      BY <2>1, <3>1 DEF Ids, TypeOK
    <3>4. \A p \in Publisher : publishing[p] # None /\ publishing[p].branch = b =>
            publishing[p].id # request'[b].id
      BY <3>1, <3>3, PublisherType DEF Ids, Of
    <3> QED BY <2>1, <3>2, <3>3, <3>4 DEF Due, Spent, Of
  <2>3. request'[b] = request[b]
    BY <1>7, <2>1, <2>2, RequestStep DEF TypeOK
  <2> QED BY <2>1, <2>3, DueKept DEF catalog, history
<1>8. ASSUME NEW p \in Publisher, Build(p) PROVE Due(b)
  <2>1. /\ publishing' = [publishing EXCEPT ![p] = publishing'[p]] /\ publishing'[p].branch = Of(p)
        /\ publishing'[p].step = "record" /\ publishing'[p].content = content[Of(p)]
        /\ UNCHANGED <<catalog, environments, history>>
    BY <1>8, PublisherStep DEF GoesTo, Build, Of
  <2>2. \A q \in Publisher \ {p} : publishing'[q] = publishing[q]
    BY <2>1 DEF TypeOK
  <2>3. Of(p) = b => ~(publishing'[p].content < content[b])
    BY <2>1 DEF TypeOK
  <2> QED BY <2>1, <2>2, <2>3 DEF Due, Spent, Doing, Of, catalog, environments, history
<1>9. ASSUME NEW p \in Publisher, BuildRefused(p) \/ NothingToPublish(p) \/ Record(p) PROVE Due(b)
  <2>1. /\ publishing[p] # None /\ Of(p) \in Branch
        /\ publishing' = [publishing EXCEPT ![p] = publishing'[p]]
        /\ publishing'[p].branch = Of(p) /\ publishing'[p].id = publishing[p].id
        /\ publishing'[p].step = "clear"
    BY <1>9, PublisherStep, PublisherType DEF GoesTo, Of
  <2>2. \A q \in Publisher \ {p} : publishing'[q] = publishing[q]
    BY <2>1 DEF TypeOK
  <2>3. UNCHANGED <<catalog, opened, request>>
    BY <1>9 DEF BuildRefused, NothingToPublish, Record, environments
  <2>4. b # Of(p) => answered'[b] = answered[b] /\ released'[b] = released[b]
    BY <1>9 DEF BuildRefused, NothingToPublish, Record, Of, environments, history, TypeOK
  <2>5. CASE b # Of(p)
    <3>1. \A q \in Publisher : publishing'[q].branch = b => publishing'[q] = publishing[q]
      BY <2>1, <2>2, <2>5
    <3> QED BY <2>3, <2>4, <2>5, <3>1, DueKept DEF catalog
  <2>6. CASE b = Of(p) /\ BuildRefused(p)
    <3>1. answered'[b] = content[b] /\ content[b] \in Nat
      BY <2>1, <2>6 DEF BuildRefused, TypeOK
    <3> QED BY <2>3, <3>1 DEF Due, catalog
  <2>7. CASE b = Of(p) /\ NothingToPublish(p)
    <3>1. UNCHANGED <<environments, history>>
      BY <2>7 DEF NothingToPublish
    <3>2. b \in opened
      BY <2>3 DEF Due
    <3>3. publishing[p].id \in released[b]
      BY <2>7, <3>2 DEF NothingToPublish, Answered, Released
    <3> QED BY <2>1, <2>2, <2>3, <3>1, <3>3 DEF Due, Spent, Doing, Of, catalog, environments, history
  <2>8. CASE b = Of(p) /\ Record(p)
    <3>1. /\ answered'[b] = Newest(answered[b], publishing[p].content)
          /\ released'[b] = released[b] \cup {publishing[p].id}
          /\ publishing[p].step = "record"
      BY <2>1, <2>8 DEF Record, Doing, Of, TypeOK
    <3>2. /\ answered[b] \in Nat /\ content[b] \in Nat /\ publishing[p].content \in Nat
          /\ answered'[b] < content[b]
      BY <2>1, <2>3, PublisherType DEF Due, catalog, TypeOK
    <3>3. answered[b] < content[b] /\ publishing[p].content < content[b]
      BY <3>1, <3>2 DEF Newest
    <3>4. request[b] # None /\ publishing[p].id = request[b].id => Spent(b)
      BY <2>1, <2>8, <3>1, <3>3 DEF Spent, Doing
    <3>5. request[b] # None /\ publishing[p].id # request[b].id => Spent(b)
      BY <2>1, <2>2, <2>3, <3>1 DEF Due, Spent, Doing, Of, catalog
    <3> QED BY <2>3, <3>3, <3>4, <3>5 DEF Due, catalog
  <2> QED BY <1>9, <2>5, <2>6, <2>7, <2>8
<1>10. ASSUME NEW p \in Publisher, Clear(p) \/ Outage(p) PROVE Due(b)
  <2>1. /\ publishing' = [publishing EXCEPT ![p] = None] /\ publishing[p] # None
        /\ UNCHANGED <<catalog, opened, released, history>>
    BY <1>10 DEF Clear, Doing, Outage, environments
  <2>2. \A q \in Publisher : publishing'[q] # None => publishing'[q] = publishing[q]
    BY <2>1 DEF TypeOK
  <2>3. CASE request'[b] = request[b]
    BY <2>1, <2>2, <2>3, DueKept DEF catalog, history
  <2>4. CASE request'[b] # request[b]
    <3>1. Clear(p) /\ Clears(p) /\ request' = [request EXCEPT ![Of(p)] = None]
      BY <1>10, <2>4 DEF Clear, Outage, environments
    <3>2. b = Of(p)
      BY <2>4, <3>1 DEF TypeOK
    <3>3. Spent(b)
      BY <2>1, <3>1, <3>2 DEF Spent, Clear, Clears
    <3> QED BY <2>1, <3>3 DEF Due, catalog, history
  <2> QED BY <2>3, <2>4
<1>11. CASE UNCHANGED vars
  BY <1>11, DueKept DEF vars, catalog, environments, history
<1> QED
  BY <1>1, <1>2, <1>3, <1>4, <1>5, <1>6, <1>7, <1>8, <1>9, <1>10, <1>11
     DEF Next, Handle, Publish, CatalogAction

\* An event of b that no handler means to open an environment with.
Unclaimed(b, e) ==
    /\ e.branch = b /\ e.kind \notin GoneKind
    /\ \A h \in Handler : Opening(h) => handling[h].event # e

\* A step that settles no event of b and takes nobody from its request.
LEMMA ComingKept ==
    ASSUME NEW b \in Branch, Coming(b),
           \A h \in Handler : handling[h] # None /\ handling[h].step = "request" /\ On(h) = b =>
             handling'[h] = handling[h],
           \A e \in events : Unclaimed(b, e) => e \in events',
           \A h \in Handler : handling'[h] # None /\ handling'[h].step \in {"lock", "insert"} =>
             /\ handling[h] # None /\ handling[h].step \in {"lock", "insert"}
             /\ handling'[h].event = handling[h].event
    PROVE  Coming(b)'
<1>1. CASE \E h \in Handler : At(h, "request") /\ On(h) = b
  BY <1>1 DEF Coming, At, On
<1>2. CASE \E e \in events : Unclaimed(b, e)
  <2>1. PICK e \in events : Unclaimed(b, e)
    BY <1>2
  <2>2. /\ e.branch = b /\ e.kind \notin GoneKind /\ e \in events'
        /\ \A h \in Handler : handling'[h] # None /\ handling'[h].step \in {"lock", "insert"} =>
             handling'[h].event # e
    BY <2>1 DEF Unclaimed, Opening, At
  <2> QED BY <2>2 DEF Coming, Opening, At
<1> QED BY <1>1, <1>2 DEF Coming, Unclaimed

\* What is under way stays so until the branch is answered.
LEMMA ComingStep ==
    ASSUME TypeOK, Limited, Handled, Ids, NEW b \in Branch, Coming(b), Due(b)', [Next]_vars
    PROVE  Coming(b)'
<1>1. ASSUME NEW c \in Branch, CatalogAction(c) PROVE Coming(b)'
  <2>1. events \subseteq events' /\ handling' = handling
    BY <1>1, CatalogStep DEF CatalogChange, Changed
  <2> QED BY <2>1, ComingKept
<1>2. CASE UNCHANGED <<events, handling>>
  BY <1>2, ComingKept
<1>3. ASSUME NEW h \in Handler, NEW e \in events, BeginLive(h, e) \/ BeginRevised(h, e) PROVE Coming(b)'
  <2>1. PICK step \in {"lock", "request"} :
          /\ Begun(h, e, step) \in Job /\ handling' = [handling EXCEPT ![h] = Begun(h, e, step)]
          /\ step = "lock" => e.branch \notin opened
    BY <1>3, BeginStep
  <2>2. handling[h] = None /\ UNCHANGED <<events, opened>>
    BY <1>3, BeginStep DEF Free, environments
  <2>3. /\ handling'[h] # None /\ handling'[h].event = e /\ handling'[h].step = step
        /\ \A g \in Handler \ {h} : handling'[g] = handling[g]
    BY <2>1, NoneAssumption DEF Begun, TypeOK
  <2>4. CASE \E g \in Handler : At(g, "request") /\ On(g) = b
    BY <2>2, <2>3, <2>4 DEF Coming, At, On
  <2>5. CASE \E f \in events : Unclaimed(b, f)
    <3>1. PICK f \in events : Unclaimed(b, f)
      BY <2>5
    <3>2. CASE step = "request" /\ f = e
      BY <2>3, <3>1, <3>2 DEF Coming, At, On, Unclaimed
    <3>3. CASE step = "lock" \/ f # e
      <4>1. b \in opened
        BY <2>2 DEF Due
      <4>2. f # e \/ step = "request"
        BY <2>1, <3>1, <4>1 DEF Unclaimed
      <4>3. f # e
        BY <3>3, <4>2
      <4>4. /\ f.branch = b /\ f.kind \notin GoneKind /\ f \in events'
            /\ \A g \in Handler : handling'[g] # None /\ handling'[g].step \in {"lock", "insert"} =>
                 handling'[g].event # f
        BY <2>2, <2>3, <3>1, <4>3 DEF Unclaimed, Opening, At
      <4> QED BY <4>4 DEF Coming, Opening, At
    <3> QED BY <3>2, <3>3
  <2> QED BY <2>4, <2>5 DEF Coming, Unclaimed
<1>4. ASSUME NEW h \in Handler, NEW e \in events, IgnoreRevised(h, e) \/ DestroyGone(h, e)
      PROVE  Coming(b)'
  <2>1. Settled(e) /\ handling' = handling /\ UNCHANGED catalog
    BY <1>4 DEF IgnoreRevised, DestroyGone
  <2>2. events \ {e} \subseteq events'
    BY <2>1 DEF Settled
  <2>3. ~Unclaimed(b, e)
    <3>1. state[b] = "open"
      BY <2>1 DEF Due, catalog
    <3> QED BY <1>4, <3>1 DEF IgnoreRevised, DestroyGone, Unclaimed
  <2> QED BY <2>1, <2>2, <2>3, ComingKept
<1>5. ASSUME NEW h \in Handler, Fail(h) PROVE Coming(b)'
  <2>1. handling[h] # None /\ handling' = [handling EXCEPT ![h] = None] /\ UNCHANGED events
    BY <1>5 DEF Fail
  <2>2. handling'[h] = None /\ \A g \in Handler \ {h} : handling'[g] = handling[g]
    BY <2>1 DEF TypeOK
  <2>3. CASE handling[h].step = "request" /\ On(h) = b
    <3>1. handling[h].event \in events' /\ handling[h].event.kind \notin GoneKind
      BY <2>1 DEF Handled
    <3>2. \A g \in Handler : handling'[g] # None => handling'[g].event # handling[h].event
      BY <2>1, <2>2 DEF Handled
    <3> QED BY <2>3, <3>1, <3>2 DEF Coming, Opening, At, On
  <2>4. CASE ~(handling[h].step = "request" /\ On(h) = b)
    BY <2>1, <2>2, <2>4, ComingKept
  <2> QED BY <2>3, <2>4
<1>6. ASSUME NEW h \in Handler, LockAndCount(h) PROVE Coming(b)'
  <2>1. /\ handling[h] # None /\ handling[h].step = "lock"
        /\ handling' = [handling EXCEPT ![h] = handling'[h]]
        /\ handling'[h].event = handling[h].event
    BY <1>6, CountStep
  <2>2. \A g \in Handler \ {h} : handling'[g] = handling[g]
    BY <2>1 DEF TypeOK
  <2>3. UNCHANGED events
    BY <1>6 DEF LockAndCount
  <2> QED BY <2>1, <2>2, <2>3, ComingKept
<1>7. ASSUME NEW h \in Handler, handling[h] # None, Done(h),
             handling[h].step = "insert" \/ (handling[h].step = "request" /\ On(h) # b)
      PROVE  Coming(b)'
  <2>1. handling' = [handling EXCEPT ![h] = None] /\ events \ {handling[h].event} \subseteq events'
    BY <1>7, DoneStep
  <2>2. handling'[h] = None /\ \A g \in Handler \ {h} : handling'[g] = handling[g]
    BY <2>1 DEF TypeOK
  <2>3. ~Unclaimed(b, handling[h].event)
    BY <1>7 DEF Unclaimed, Opening, At, On
  <2> QED BY <1>7, <2>1, <2>2, <2>3, ComingKept
<1>8. ASSUME NEW h \in Handler, Insert(h) PROVE Coming(b)'
  <2>1. handling[h] # None /\ handling[h].step = "insert"
    BY <1>8, OpenStep
  <2>2. CASE Done(h)
    BY <1>7, <2>1, <2>2
  <2>3. CASE ~Done(h)
    <3>1. /\ handling' = [handling EXCEPT ![h] = handling'[h]] /\ handling'[h].step = "request"
          /\ events' = events
      BY <1>8, <2>3, OpenStep
    <3>2. \A g \in Handler \ {h} : handling'[g] = handling[g]
      BY <3>1 DEF TypeOK
    <3> QED BY <2>1, <3>1, <3>2, ComingKept
  <2> QED BY <2>2, <2>3
<1>9. ASSUME NEW h \in Handler, Request(h) PROVE Coming(b)'
  <2>1. /\ handling[h] # None /\ handling[h].step = "request" /\ On(h) \in Branch /\ Done(h)
        /\ UNCHANGED <<opened, released, publishing>>
    BY <1>9, RequestStep
  <2>2. On(h) # b
    <3> SUFFICES ASSUME On(h) = b PROVE FALSE
      OBVIOUS
    <3>1. b \in opened
      BY <2>1 DEF Due
    <3>2. request'[b] \in PublishRequest /\ request'[b].id = asked[b] + 1
      BY <1>9, <3>1, RequestStep
    <3>3. request'[b] # None
      BY <3>2, NoneAssumption
    <3>4. asked[b] \in Nat /\ request'[b].id \notin released'[b]
      BY <2>1, <3>2 DEF Ids, TypeOK
    <3>5. \A p \in Publisher : publishing[p] # None /\ publishing[p].branch = b =>
            publishing[p].id # request'[b].id
      BY <3>2, <3>4, PublisherType DEF Ids, Of
    <3> QED BY <2>1, <3>3, <3>4, <3>5 DEF Due, Spent, Of
  <2> QED BY <1>7, <2>1, <2>2
<1>10. CASE \/ \E c \in Branch : Debounced(c) \/ \E p \in Publisher : Take(p, c)
            \/ \E p \in Publisher : Publish(p) \/ Outage(p)
            \/ UNCHANGED vars
  BY <1>2, <1>10
     DEF Debounced, Take, Publish, Build, BuildRefused, NothingToPublish, Record, Clear, Outage, vars
<1> QED
  BY <1>1, <1>3, <1>4, <1>5, <1>6, <1>8, <1>9, <1>10 DEF Next, Handle, CatalogAction

-----------------------------------------------------------------------------
(* The theorems.                                                           *)

\* The inductive invariant holds in every reachable state.
THEOREM PreviewInvariant == Spec => []PreviewInv
<1>1. Init => PreviewInv
  <2> SUFFICES ASSUME Init PROVE PreviewInv
    OBVIOUS
  <2>1. TypeOK
    BY DEF Init, TypeOK
  <2>2. Limited
    BY FS_EmptySet, LimitAssumption DEF Init, Limited, At
  <2>3. Handled /\ Ids /\ Covered /\ repeated = {}
    BY DEF Init, Handled, Ids, Covered, Due
  <2> QED BY <2>1, <2>2, <2>3 DEF PreviewInv
<1>2. PreviewInv /\ [Next]_vars => PreviewInv'
  <2> SUFFICES ASSUME PreviewInv, [Next]_vars PROVE PreviewInv'
    OBVIOUS
  <2>1. TypeOK /\ Limited /\ Handled /\ Ids /\ Covered /\ repeated = {}
    BY DEF PreviewInv
  <2>2. TypeOK' /\ Limited' /\ Handled' /\ Ids' /\ repeated' = {}
    BY <2>1, TypeStep, LimitedStep, HandledStep, IdsStep, RepeatedStep
  <2>3. \A b \in Branch : Due(b)' => Coming(b)'
    <3> SUFFICES ASSUME NEW b \in Branch, Due(b)' PROVE Coming(b)'
      OBVIOUS
    <3>1. Due(b) \/ Coming(b)'
      BY <2>1, DueStep
    <3>2. Due(b) => Coming(b)
      BY <2>1 DEF Covered
    <3> QED BY <2>1, <3>1, <3>2, ComingStep
  <2>4. Covered'
    BY <2>3 DEF Covered
  <2> QED BY <2>2, <2>4 DEF PreviewInv
<1> QED BY <1>1, <1>2, PTL DEF Spec

\* Every variable keeps its type, and only an environment has a request.
THEOREM TypeCorrect == Spec => []TypeOK
<1>1. PreviewInv => TypeOK
  BY DEF PreviewInv
<1> QED BY <1>1, PreviewInvariant, PTL

\* Opens that run side by side never take a project past its limit: each counts
\* under the project's lock and inserts before it gives the lock back.
THEOREM LimitHoldsAlways == Spec => []LimitHolds
<1>1. PreviewInv => LimitHolds
  BY DEF PreviewInv, Limited, LimitHolds
<1> QED BY <1>1, PreviewInvariant, PTL

\* A request has one release, however publishers overlap, fail and try again.
THEOREM PublishedOnceAlways == Spec => []PublishedOnce
<1>1. PreviewInv => PublishedOnce
  BY DEF PreviewInv, PublishedOnce
<1> QED BY <1>1, PreviewInvariant, PTL

\* No push of an open branch is forgotten: a pending request, an event or a
\* handler will bring what its environment does not show yet.
THEOREM NoPushForgottenAlways == Spec => []NoPushForgotten
<1>1. PreviewInv => NoPushForgotten
  <2> SUFFICES ASSUME PreviewInv, NEW b \in opened, state[b] = "open", answered[b] < content[b],
                      request[b] = None
               PROVE  \/ \E e \in events : e.branch = b /\ e.kind \notin GoneKind
                      \/ \E h \in Handler : At(h, "request") /\ On(h) = b
    BY DEF NoPushForgotten
  <2>1. b \in Branch
    BY DEF PreviewInv, TypeOK
  <2>2. Coming(b)
    BY <2>1 DEF PreviewInv, Covered, Due
  <2> QED BY <2>2 DEF Coming
<1> QED BY <1>1, PreviewInvariant, PTL

=============================================================================
