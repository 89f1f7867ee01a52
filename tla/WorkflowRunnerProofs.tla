------------------------ MODULE WorkflowRunnerProofs ------------------------
(***************************************************************************)
(* Theorems about WorkflowRunner, for every chart, every number of         *)
(* replicas, and every number of reports, answers and faults.              *)
(***************************************************************************)
EXTENDS WorkflowRunner, SequenceTheorems, FiniteSetTheorems, TLAPS

-----------------------------------------------------------------------------
(* The inductive invariant.                                                *)

\* A replica handles a published event; what starts an instance is about the
\* subject, and no such event belongs to a state.
Events ==
    /\ \A r \in Replica : job[r].pc # "idle" => job[r].event \in DOMAIN sent
    /\ \A r \in Replica : job[r].pc \in {"insert", "lost"} => sent[job[r].event].inst = 0
    /\ \A e \in DOMAIN sent : sent[e].inst = 0 => sent[e].state = NotStarted

\* HasTransition, of a log.
Has(l, k, e) == k \in 1 .. Len(l) /\ \E j \in 1 .. Len(l[k]) : l[k][j].event = e

\* What a step that runs has looked up still holds: it goes on in the active
\* instance, or in one that nobody else has inserted, with an event that this
\* instance's log does not have.
Runs ==
    \A r \in Replica : job[r].pc = "run" =>
        /\ job[r].to \in State
        /\ \/ job[r].inst \in Active
           \/ job[r].inst = Len(instances) + 1 /\ Active = {}
        /\ ~Has(log, job[r].inst, job[r].event)

\* Each log is a walk, and an active instance stands in no final state.
Walk(l) ==
    /\ Len(l) > 0
    /\ \A j \in 1 .. Len(l) :
         /\ l[j].from = IF j = 1 THEN NotStarted ELSE l[j - 1].to
         /\ l[j].from \notin Final
         /\ l[j].outcome # "applied" => l[j].to = l[j].from
Walks ==
    \A k \in 1 .. Len(instances) :
        /\ Walk(log[k])
        /\ instances[k].state = log[k][Len(log[k])].to
        /\ instances[k].status = "active" => instances[k].state \notin Final

\* What a step asks for is its own, and what was asked for is in its instance's
\* log.
Owned ==
    \A r \in Replica :
        /\ job[r].pc # "run" => job[r].own = << >>
        /\ \A i \in 1 .. Len(job[r].own) :
             job[r].own[i].inst = job[r].inst /\ job[r].own[i].event = job[r].event
Logged == \A i \in 1 .. Len(work) : Has(log, work[i].inst, work[i].event)

WalkInv == TypeOK /\ OneActive /\ Events /\ Runs /\ Walks /\ Owned /\ Logged

\* What a step has asked for and what it still has to do name no work twice,
\* and neither does what was asked for.
Distinct(acts) ==
    \A i, j \in 1 .. Len(acts) : acts[i] = acts[j] /\ acts[i] \in Own => i = j
Apart(acts, own) ==
    /\ Distinct(acts)
    /\ \A i \in 1 .. Len(own), j \in 1 .. Len(acts) : own[i].act # acts[j]
    /\ \A i, j \in 1 .. Len(own) : own[i].act = own[j].act => i = j
Asking == \A r \in Replica : job[r].pc = "run" => Apart(job[r].acts, job[r].own)
Asked ==
    \A i, j \in 1 .. Len(work) :
        work[i].inst = work[j].inst /\ work[i].event = work[j].event /\ work[i].act = work[j].act => i = j

AskInv == WalkInv /\ (AsksOncePerWay => Asking /\ Asked)

-----------------------------------------------------------------------------
(* Sequences.                                                              *)

\* A sequence with x in place k, or after its last element.
Put(s, k, x) == IF k \in DOMAIN s THEN [s EXCEPT ![k] = x] ELSE Append(s, x)

\* What replacing or appending one element of a sequence gives.
LEMMA PutSeq ==
    ASSUME NEW S, NEW s \in Seq(S), NEW x \in S, NEW k \in 1 .. Len(s) + 1
    PROVE  /\ Put(s, k, x) \in Seq(S)
           /\ Len(Put(s, k, x)) = IF k = Len(s) + 1 THEN Len(s) + 1 ELSE Len(s)
           /\ k \in 1 .. Len(Put(s, k, x)) /\ Put(s, k, x)[k] = x
           /\ \A j \in 1 .. Len(s) : j # k => Put(s, k, x)[j] = s[j]
<1>1. DOMAIN s = 1 .. Len(s) /\ Len(s) \in Nat
  BY LenProperties
<1>2. CASE k \in 1 .. Len(s)
  <2>1. Put(s, k, x) = [s EXCEPT ![k] = x] /\ k # Len(s) + 1
    BY <1>1, <1>2 DEF Put
  <2>2. /\ [s EXCEPT ![k] = x] \in Seq(S) /\ Len([s EXCEPT ![k] = x]) = Len(s)
        /\ \A j \in 1 .. Len(s) : [s EXCEPT ![k] = x][j] = IF j = k THEN x ELSE s[j]
    BY <1>2, ExceptSeq
  <2> QED BY <1>2, <2>1, <2>2
<1>3. CASE k = Len(s) + 1
  BY <1>1, <1>3, AppendProperties DEF Put
<1> QED BY <1>1, <1>2, <1>3

\* The same of a sequence of logs.
LEMMA PutLog ==
    ASSUME NEW s \in Seq(Seq(LogRow)), NEW x \in Seq(LogRow), NEW k \in 1 .. Len(s) + 1
    PROVE  /\ Put(s, k, x) \in Seq(Seq(LogRow))
           /\ Len(Put(s, k, x)) = IF k = Len(s) + 1 THEN Len(s) + 1 ELSE Len(s)
           /\ k \in 1 .. Len(Put(s, k, x)) /\ Put(s, k, x)[k] = x
           /\ \A j \in 1 .. Len(s) : j # k => Put(s, k, x)[j] = s[j]
<1> DEFINE Logs == Seq(LogRow)
<1>1. s \in Seq(Logs) /\ x \in Logs
  OBVIOUS
<1> SUFFICES /\ Put(s, k, x) \in Seq(Logs)
             /\ Len(Put(s, k, x)) = IF k = Len(s) + 1 THEN Len(s) + 1 ELSE Len(s)
             /\ k \in 1 .. Len(Put(s, k, x)) /\ Put(s, k, x)[k] = x
             /\ \A j \in 1 .. Len(s) : j # k => Put(s, k, x)[j] = s[j]
  OBVIOUS
<1> HIDE DEF Logs
<1> QED BY <1>1, PutSeq

\* The log of an instance, and of one not inserted yet.
LEMMA RowsSeq ==
    ASSUME TypeOK, NEW k \in Nat
    PROVE  /\ Rows(k) \in Seq(LogRow)
           /\ k \in 1 .. Len(instances) => Rows(k) = log[k]
           /\ k \notin 1 .. Len(instances) => Rows(k) = << >>
<1>1. DOMAIN log = 1 .. Len(instances)
  BY LenProperties DEF TypeOK
<1>2. k \in 1 .. Len(instances) => log[k] \in Seq(LogRow)
  BY ElementOfSeq DEF TypeOK
<1>3. << >> \in Seq(LogRow)
  BY EmptySeq
<1> QED BY <1>1, <1>2, <1>3 DEF Rows

\* HasTransition looks the event up in the log.
LEMMA HasIs ==
    ASSUME TypeOK, NEW k \in Nat, NEW e
    PROVE  HasTransition(k, e) <=> Has(log, k, e)
<1>1. Len(log) = Len(instances) /\ DOMAIN Rows(k) = 1 .. Len(Rows(k))
  BY RowsSeq, LenProperties DEF TypeOK
<1>2. CASE k \in 1 .. Len(instances)
  BY <1>1, <1>2, RowsSeq DEF HasTransition, Has
<1>3. CASE k \notin 1 .. Len(instances)
  BY <1>1, <1>3, RowsSeq, EmptySeq DEF HasTransition, Has
<1> QED BY <1>2, <1>3

\* AppendTransition replaces or appends one instance's log.
LEMMA AppendedIs ==
    ASSUME TypeOK, NEW k \in Nat, NEW row
    PROVE  Appended(k, row) = Put(log, k, Append(Rows(k), row))
<1>1. CASE k \in DOMAIN log
  BY <1>1 DEF Appended, Put, Rows
<1>2. CASE k \notin DOMAIN log
  <2>1. Rows(k) = << >> /\ Append(<< >>, row) = <<row>>
    BY <1>2 DEF Rows
  <2> QED BY <1>2, <2>1 DEF Appended, Put
<1> QED BY <1>1, <1>2

\* A walk goes on from where it ends.
EndOf(l) == IF Len(l) = 0 THEN NotStarted ELSE l[Len(l)].to

\* A row that starts where the log ends lengthens the walk.
LEMMA WalkOn ==
    ASSUME NEW l \in Seq(LogRow), Walk(l) \/ l = << >>, NEW row \in LogRow,
           row.from = EndOf(l), row.from \notin Final, row.outcome # "applied" => row.to = row.from
    PROVE  Walk(Append(l, row)) /\ Append(l, row)[Len(Append(l, row))].to = row.to
<1> DEFINE m == Append(l, row)
<1>1. /\ Len(l) \in Nat /\ Len(m) = Len(l) + 1 /\ m[Len(l) + 1] = row
      /\ \A j \in 1 .. Len(l) : m[j] = l[j]
  BY AppendProperties, LenProperties
<1>2. \A j \in 1 .. Len(l) : /\ l[j].from = IF j = 1 THEN NotStarted ELSE l[j - 1].to
                             /\ l[j].from \notin Final
                             /\ l[j].outcome # "applied" => l[j].to = l[j].from
  BY EmptySeq DEF Walk
<1> HIDE DEF m
<1>3. ASSUME NEW j \in 1 .. Len(m)
      PROVE  /\ m[j].from = IF j = 1 THEN NotStarted ELSE m[j - 1].to
             /\ m[j].from \notin Final
             /\ m[j].outcome # "applied" => m[j].to = m[j].from
  <2>1. CASE j \in 1 .. Len(l)
    <3>1. j # 1 => j - 1 \in 1 .. Len(l)
      BY <1>1, <2>1
    <3> QED BY <1>1, <1>2, <2>1, <3>1
  <2>2. CASE j = Len(l) + 1
    <3>1. j # 1 => j - 1 \in 1 .. Len(l) /\ j - 1 = Len(l)
      BY <1>1, <2>2
    <3> QED BY <1>1, <2>2, <3>1 DEF EndOf
  <2> QED BY <1>1, <2>1, <2>2
<1> QED BY <1>1, <1>3 DEF m, Walk

\* The outbox keeps what was published.
LEMMA PublishStep ==
    ASSUME TypeOK, NEW evs \in Seq(Sent), Publish(evs)
    PROVE  /\ sent' \in Seq(Sent) /\ todo' \subseteq DOMAIN sent' /\ DOMAIN sent \subseteq DOMAIN sent'
           /\ \A e \in DOMAIN sent : sent'[e] = sent[e]
           /\ \A e \in DOMAIN sent' \ DOMAIN sent : \E i \in 1 .. Len(evs) : sent'[e] = evs[i]
<1>1. sent \in Seq(Sent) /\ sent' = sent \o evs
      /\ todo' = todo \cup (Len(sent) + 1 .. Len(sent) + Len(evs)) /\ todo \subseteq DOMAIN sent
  BY DEF TypeOK, Publish
<1>2. Len(sent) \in Nat /\ Len(evs) \in Nat /\ DOMAIN sent = 1 .. Len(sent)
  BY <1>1, LenProperties
<1>3. /\ sent' \in Seq(Sent) /\ Len(sent') = Len(sent) + Len(evs)
      /\ \A i \in 1 .. Len(sent) + Len(evs) :
           sent'[i] = IF i <= Len(sent) THEN sent[i] ELSE evs[i - Len(sent)]
  BY <1>1, ConcatProperties
<1>4. DOMAIN sent' = 1 .. Len(sent) + Len(evs)
  BY <1>3, LenProperties
<1>5. \A e \in DOMAIN sent' \ DOMAIN sent : e - Len(sent) \in 1 .. Len(evs)
  BY <1>2, <1>4
<1> QED BY <1>1, <1>2, <1>3, <1>4, <1>5

\* What is published stays as it was, and what is new about the subject belongs
\* to no state.
Sends ==
    /\ sent' \in Seq(Sent) /\ todo' \subseteq DOMAIN sent' /\ DOMAIN sent \subseteq DOMAIN sent'
    /\ \A e \in DOMAIN sent : sent'[e] = sent[e]
    /\ \A e \in DOMAIN sent' \ DOMAIN sent : sent'[e].inst = 0 => sent'[e].state = NotStarted

\* Publishing a list of events adds them to what was sent.
LEMMA SendsSeq ==
    ASSUME TypeOK, NEW evs \in Seq(Sent), Publish(evs),
           \A i \in 1 .. Len(evs) : evs[i].inst = 0 => evs[i].state = NotStarted
    PROVE  Sends
BY PublishStep DEF Sends

\* Publishing one event adds it to what was sent.
LEMMA SendsOne ==
    ASSUME TypeOK, NEW ev \in Sent, ev.state = NotStarted, Publish(<<ev>>)
    PROVE  Sends
<1> DEFINE evs == <<ev>>
<1>1. evs \in Seq(Sent) /\ Publish(evs) /\ \A i \in 1 .. Len(evs) : evs[i].state = NotStarted
  OBVIOUS
<1> HIDE DEF evs
<1> QED BY <1>1, SendsSeq

\* Publishing nothing leaves what was sent.
LEMMA SendsNothing ==
    ASSUME TypeOK, sent' = sent, todo' \subseteq DOMAIN sent
    PROVE  Sends
BY DEF Sends, TypeOK

\* An event of a subject is one of no instance's timer.
LEMMA EventType ==
    ASSUME NEW name \in Name
    PROVE  /\ Event(name) \in Sent /\ Event(name).state = NotStarted
           /\ \A n \in Nat : /\ [Event(name) EXCEPT !.inst = n] \in Sent
                             /\ [Event(name) EXCEPT !.inst = n].state = NotStarted
BY DEF Event, Sent, Place

-----------------------------------------------------------------------------
(* What the steps do.                                                      *)

\* A replica's job becomes j.
Turns(r, j) == j \in Job /\ job' = [job EXCEPT ![r] = j]

\* A replica with nothing to do has a job.
LEMMA IdleType == Idle \in Job
<1>1. << >> \in Seq(Action) /\ << >> \in Seq(Request)
  BY EmptySeq
<1> QED BY <1>1 DEF Idle, Job

\* Where an instance is, or that it has not started.
LEMMA CurrentType ==
    ASSUME TypeOK, NEW k \in Nat
    PROVE  /\ Current(k) \in Place
           /\ k \in 1 .. Len(instances) => Current(k) = instances[k].state
           /\ k \notin 1 .. Len(instances) => Current(k) = NotStarted
<1>1. DOMAIN instances = 1 .. Len(instances)
  BY LenProperties DEF TypeOK
<1>2. k \in 1 .. Len(instances) => instances[k] \in Instance
  BY ElementOfSeq DEF TypeOK
<1> QED BY <1>1, <1>2 DEF Current, Place, Instance

\* The active instances are rows.
LEMMA ActiveType ==
    ASSUME TypeOK
    PROVE  \A k \in Active : k \in 1 .. Len(instances) /\ k \in Nat /\ instances[k] \in Instance
<1>1. DOMAIN instances = 1 .. Len(instances)
  BY LenProperties DEF TypeOK
<1> QED BY <1>1, ElementOfSeq DEF Active, TypeOK

\* Where a step goes is in the chart, and so is what it does on the way.
LEMMA ComputeStep ==
    ASSUME NEW k, NEW e, NEW f, NEW m \in Compute(k, e, f), Current(k) \in Place
    PROVE  m.to \in State /\ m.acts \in Seq(Action) /\ (AsksOncePerWay => Distinct(m.acts))
<1> DEFINE begun == Current(k) # NotStarted
           from == IF begun THEN Current(k) ELSE Initial
           first == IF begun THEN << >> ELSE Entry[Initial]
<1>1. Initial \in State /\ Entry[Initial] \in Seq(Action) /\ << >> \in Seq(Action)
  BY ChartAssumption, EmptySeq DEF Action
<1>2. ASSUME NEW d \in Takes(from, sent[e].name, f), m = [to |-> d.to, acts |-> first \o d.acts \o Entry[d.to]]
      PROVE  m.to \in State /\ m.acts \in Seq(Action) /\ m.acts \in Ways
  <2>1. /\ d \in Edge /\ d.from = from /\ d.to \in State
        /\ d.acts \in Seq(Action) /\ Entry[d.to] \in Seq(Action)
    BY ChartAssumption DEF Takes, Action
  <2>2. CASE begun
    <3>1. m.acts = << >> \o d.acts \o Entry[d.to]
      BY <1>2, <2>2
    <3>2. << >> \o d.acts = d.acts
      BY <2>1, ConcatEmptySeq
    <3>3. d.acts \o Entry[d.to] \in Seq(Action)
      BY <2>1, ConcatProperties
    <3> QED BY <1>2, <2>1, <3>1, <3>2, <3>3 DEF Ways
  <2>3. CASE ~begun
    <3>1. m.acts = Entry[Initial] \o d.acts \o Entry[d.to] /\ d.from = Initial
      BY <1>2, <2>1, <2>3
    <3>2. Entry[Initial] \o d.acts \in Seq(Action)
      BY <1>1, <2>1, ConcatProperties
    <3>3. Entry[Initial] \o d.acts \o Entry[d.to] \in Seq(Action)
      BY <2>1, <3>2, ConcatProperties
    <3> QED BY <1>2, <2>1, <3>1, <3>3 DEF Ways
  <2> QED BY <2>2, <2>3
<1>3. ASSUME m = [to |-> from, acts |-> first], ~begun
      PROVE  m.to \in State /\ m.acts \in Seq(Action) /\ m.acts \in Ways
  BY <1>1, <1>3 DEF Ways
<1>4. m.to \in State /\ m.acts \in Seq(Action) /\ m.acts \in Ways
  BY <1>2, <1>3 DEF Compute
<1>5. DOMAIN m.acts = 1 .. Len(m.acts)
  BY <1>4, LenProperties
<1> QED BY <1>4, <1>5 DEF AsksOncePerWay, Distinct

\* An event that starts an instance is not a timer of it.
LEMMA StartComputes ==
    ASSUME NEW k, NEW e, NEW f, Current(k) = NotStarted, sent[e].state = NotStarted
    PROVE  Compute(k, e, f) # {}
BY DEF Compute, Stale

\* What looking an event up comes to.
Others == UNCHANGED <<facts, work, sent, todo, left>>
Dropped(r) == Turns(r, Idle) /\ Others /\ UNCHANGED <<instances, log, lock>>
Waits(r) ==
    /\ \E j \in Job : Turns(r, j) /\ j.pc \in {"insert", "lost"} /\ j.event = job[r].event /\ j.own = job[r].own
    /\ sent[job[r].event].inst = 0
    /\ Others /\ UNCHANGED <<instances, log, lock>>
Ignores(r) ==
    /\ lock = None
    /\ \E k \in Active : log' = Appended(k, Row(k, job[r].event, Current(k), "ignored"))
    /\ Turns(r, Idle)
    /\ Others /\ UNCHANGED <<instances, lock>>
Begins(r) ==
    /\ lock = None /\ lock' = r
    /\ \E j \in Job :
         /\ Turns(r, j) /\ j.pc = "run" /\ j.event = job[r].event /\ j.own = job[r].own
         /\ j.inst \in Active \/ (j.inst = Len(instances) + 1 /\ Active = {})
         /\ j.to \in State /\ (AsksOncePerWay => Distinct(j.acts))
         /\ ~Has(log, j.inst, j.event)
    /\ Others /\ UNCHANGED <<instances, log>>

\* Stepping an instance under its lock drops the event, ignores it or begins.
LEMMA StepStep ==
    ASSUME TypeOK, NEW r \in Replica, NEW k \in Nat, NEW f \in Fact \cup {None}, Step(r, k, f), lock = None,
           k \in Active \/ (k = Len(instances) + 1 /\ Active = {} /\ sent[job[r].event].state = NotStarted)
    PROVE  Dropped(r) \/ Ignores(r) \/ Begins(r)
<1> DEFINE e == job[r].event
<1>1. job[r] \in Job
  BY DEF TypeOK
<1>2. CASE HasTransition(k, e) /\ Drop(r)
  BY <1>2, IdleType DEF Drop, Dropped, Turns, Others
<1>3. CASE /\ Compute(k, e, f) = {}
           /\ log' = Appended(k, Row(k, e, Current(k), "ignored"))
           /\ job' = [job EXCEPT ![r] = Idle]
           /\ UNCHANGED <<facts, instances, work, sent, todo, lock, left>>
  <2>1. k \in Active
    <3>1. k = Len(instances) + 1 => Current(k) = NotStarted
      BY CurrentType, LenProperties DEF TypeOK
    <3> QED BY <1>3, <3>1, StartComputes
  <2> QED BY <1>3, <2>1, IdleType DEF Ignores, Turns, Others
<1>4. CASE /\ ~HasTransition(k, e)
           /\ \E m \in Compute(k, e, f) :
                job' = [job EXCEPT ![r] = [@ EXCEPT !.pc = "run", !.inst = k, !.facts = f, !.to = m.to, !.acts = m.acts]]
           /\ lock' = r
           /\ UNCHANGED <<facts, instances, log, work, sent, todo, left>>
  <2>1. PICK m \in Compute(k, e, f) :
          job' = [job EXCEPT ![r] = [@ EXCEPT !.pc = "run", !.inst = k, !.facts = f, !.to = m.to, !.acts = m.acts]]
    BY <1>4
  <2>2. m.to \in State /\ m.acts \in Seq(Action) /\ (AsksOncePerWay => Distinct(m.acts))
    BY CurrentType, ComputeStep
  <2> DEFINE j == [job[r] EXCEPT !.pc = "run", !.inst = k, !.facts = f, !.to = m.to, !.acts = m.acts]
  <2>3. /\ j \in Job /\ j.pc = "run" /\ j.event = e /\ j.own = job[r].own /\ j.inst = k
        /\ j.to = m.to /\ j.acts = m.acts
    BY <1>1, <2>2 DEF Job
  <2>4. job' = [job EXCEPT ![r] = j]
    BY <2>1
  <2>5. ~Has(log, k, e)
    BY <1>4, HasIs
  <2> HIDE DEF j
  <2> QED BY <1>4, <2>2, <2>3, <2>4, <2>5 DEF Begins, Turns, Others
<1> QED BY <1>2, <1>3, <1>4 DEF Step

Looks(r) == HandleInstance(r) \/ HandleSubject(r) \/ StartIfNeeded(r) \/ StepWinners(r)

\* So does looking for the instance or inserting one, or it waits.
LEMMA LookStep ==
    ASSUME WalkInv, NEW r \in Replica, Looks(r)
    PROVE  /\ job[r].pc \in {"look", "insert", "lost"}
           /\ Dropped(r) \/ Waits(r) \/ Ignores(r) \/ Begins(r)
<1> USE DEF WalkInv
<1>1. job[r] \in Job /\ facts \in Fact
  BY DEF TypeOK
<1>2. job[r].facts \in Fact \cup {None}
  BY <1>1 DEF Job
<1>3. ASSUME Drop(r) PROVE Dropped(r)
  BY <1>3, IdleType DEF Drop, Dropped, Turns, Others
<1>4. CASE HandleInstance(r)
  <2>1. CASE sent[job[r].event].inst \in Active
    <3>1. lock = None /\ Step(r, sent[job[r].event].inst, facts) /\ sent[job[r].event].inst \in Nat
      BY <1>4, <2>1, ActiveType DEF HandleInstance, RowFree
    <3> QED BY <1>1, <1>4, <2>1, <3>1, StepStep DEF HandleInstance
  <2>2. CASE sent[job[r].event].inst \notin Active
    BY <1>3, <1>4, <2>2 DEF HandleInstance
  <2> QED BY <2>1, <2>2
<1>5. CASE HandleSubject(r)
  <2>1. job[r].pc = "look" /\ sent[job[r].event].inst = 0
    BY <1>5 DEF HandleSubject
  <2>2. ASSUME NEW k \in Active, RowFree(r), Step(r, k, facts) PROVE Dropped(r) \/ Ignores(r) \/ Begins(r)
    BY <1>1, <2>2, ActiveType, StepStep DEF RowFree
  <2>3. CASE /\ job' = [job EXCEPT ![r] = [@ EXCEPT !.pc = "insert", !.facts = facts]]
             /\ UNCHANGED <<facts, instances, log, work, sent, todo, lock, left>>
    <3> DEFINE j == [job[r] EXCEPT !.pc = "insert", !.facts = facts]
    <3>1. j \in Job /\ j.pc = "insert" /\ j.event = job[r].event /\ j.own = job[r].own
      BY <1>1 DEF Job
    <3>2. job' = [job EXCEPT ![r] = j]
      BY <2>3
    <3> HIDE DEF j
    <3> QED BY <2>1, <2>3, <3>1, <3>2 DEF Waits, Turns, Others
  <2> QED BY <1>3, <1>5, <2>1, <2>2, <2>3 DEF HandleSubject
<1>6. CASE StartIfNeeded(r)
  <2>1. job[r].pc = "insert" /\ sent[job[r].event].inst = 0 /\ sent[job[r].event].state = NotStarted
    BY <1>6 DEF StartIfNeeded, Events
  <2>2. CASE Active = {} /\ lock = None /\ Step(r, Len(instances) + 1, job[r].facts)
    <3>1. Len(instances) + 1 \in Nat
      BY LenProperties DEF TypeOK
    <3> QED BY <1>2, <2>1, <2>2, <3>1, StepStep
  <2>3. CASE /\ job' = [job EXCEPT ![r].pc = "lost"]
             /\ UNCHANGED <<facts, instances, log, work, sent, todo, lock, left>>
    <3> DEFINE j == [job[r] EXCEPT !.pc = "lost"]
    <3>1. j \in Job /\ j.pc = "lost" /\ j.event = job[r].event /\ j.own = job[r].own
      BY <1>1 DEF Job
    <3>2. job' = [job EXCEPT ![r] = j]
      BY <2>3
    <3> HIDE DEF j
    <3> QED BY <2>1, <2>3, <3>1, <3>2 DEF Waits, Turns, Others
  <2> QED BY <1>6, <2>1, <2>2, <2>3 DEF StartIfNeeded
<1>7. CASE StepWinners(r)
  <2>1. ASSUME NEW k \in Active, lock = None, Step(r, k, job[r].facts)
        PROVE  Dropped(r) \/ Ignores(r) \/ Begins(r)
    BY <1>2, <2>1, ActiveType, StepStep
  <2> QED BY <1>3, <1>7, <2>1 DEF StepWinners, RowFree
<1> QED BY <1>4, <1>5, <1>6, <1>7 DEF Looks

\* A step writes a row, and what it makes of the instance, together.
Writes(k, row, rec) ==
    /\ k \in Active \/ (k = Len(instances) + 1 /\ Active = {})
    /\ row.from = Current(k) /\ (row.outcome # "applied" => row.to = row.from)
    /\ rec.state = row.to /\ (rec.status = "active" => rec.state \notin Final)
    /\ instances' = Put(instances, k, rec) /\ log' = Appended(k, row)

\* Writing a row of the log with its instance keeps one active instance and
\* every log a walk, and records the event.
LEMMA WriteStep ==
    ASSUME TypeOK, OneActive, Walks, NEW k \in Nat, NEW row \in LogRow, NEW rec \in Instance,
           Writes(k, row, rec)
    PROVE  /\ instances' \in Seq(Instance) /\ log' \in Seq(Seq(LogRow)) /\ Len(log') = Len(instances')
           /\ OneActive' /\ Walks'
           /\ \A c, e : Has(log, c, e) => Has(log', c, e)
           /\ Has(log', k, row.event)
<1> DEFINE n == Len(instances)
           rows == Rows(k)
<1>1. /\ n \in Nat /\ Len(log) = n /\ Len(instances) = n /\ DOMAIN instances = 1 .. n
      /\ instances \in Seq(Instance) /\ log \in Seq(Seq(LogRow))
  BY LenProperties DEF TypeOK
<1>2. /\ rows \in Seq(LogRow) /\ (k \in 1 .. n => rows = log[k]) /\ (k \notin 1 .. n => rows = << >>)
      /\ (k \in 1 .. n => Current(k) = instances[k].state) /\ (k \notin 1 .. n => Current(k) = NotStarted)
  BY RowsSeq, CurrentType
<1>3. k \in Active => k \in 1 .. n
  BY ActiveType
<1>4. k \in 1 .. n + 1
  BY <1>1, <1>3 DEF Writes
<1>5. Walk(rows) \/ rows = << >>
  BY <1>2 DEF Walks
<1>6. row.from = EndOf(rows) /\ row.from \notin Final
  <2>1. CASE k \in 1 .. n
    <3>1. k \in Active
      BY <1>1, <2>1 DEF Writes
    <3>2. Len(rows) > 0 /\ rows[Len(rows)].to = Current(k) /\ Current(k) \notin Final
      BY <1>2, <2>1, <3>1 DEF Walks, Walk, Active
    <3>3. Len(rows) # 0
      BY <3>2
    <3> QED BY <3>2, <3>3 DEF Writes, EndOf
  <2>2. CASE k \notin 1 .. n
    <3>1. rows = << >> /\ Len(rows) = 0
      BY <1>2, <2>2, EmptySeq
    <3> QED BY <1>2, <2>2, <3>1, ChartAssumption DEF Writes, EndOf
  <2> QED BY <2>1, <2>2
<1> DEFINE longer == Append(rows, row)
<1>7. longer \in Seq(LogRow) /\ Walk(longer) /\ longer[Len(longer)].to = row.to
  BY <1>2, <1>5, <1>6, WalkOn, AppendProperties DEF Writes
<1>8. /\ Len(longer) = Len(rows) + 1 /\ Len(rows) \in Nat /\ longer[Len(rows) + 1] = row
      /\ \A j \in 1 .. Len(rows) : longer[j] = rows[j]
  BY <1>2, AppendProperties, LenProperties
<1>9. instances' = Put(instances, k, rec) /\ log' = Put(log, k, longer)
  BY AppendedIs DEF Writes
<1> HIDE DEF longer, rows, n
<1>10. /\ instances' \in Seq(Instance) /\ Len(instances') = (IF k = n + 1 THEN n + 1 ELSE n)
       /\ k \in 1 .. Len(instances') /\ instances'[k] = rec
       /\ \A j \in 1 .. n : j # k => instances'[j] = instances[j]
  <2>1. k \in 1 .. Len(instances) + 1
    BY <1>1, <1>4
  <2>2. /\ Put(instances, k, rec) \in Seq(Instance)
        /\ Len(Put(instances, k, rec)) = IF k = Len(instances) + 1 THEN Len(instances) + 1 ELSE Len(instances)
        /\ k \in 1 .. Len(Put(instances, k, rec)) /\ Put(instances, k, rec)[k] = rec
        /\ \A j \in 1 .. Len(instances) : j # k => Put(instances, k, rec)[j] = instances[j]
    BY <1>1, <2>1, PutSeq
  <2> QED BY <1>1, <1>9, <2>2
<1>11. /\ log' \in Seq(Seq(LogRow)) /\ Len(log') = (IF k = n + 1 THEN n + 1 ELSE n)
       /\ k \in 1 .. Len(log') /\ log'[k] = longer
       /\ \A j \in 1 .. n : j # k => log'[j] = log[j]
  <2>1. k \in 1 .. Len(log) + 1
    BY <1>1, <1>4
  <2>2. /\ Put(log, k, longer) \in Seq(Seq(LogRow))
        /\ Len(Put(log, k, longer)) = IF k = Len(log) + 1 THEN Len(log) + 1 ELSE Len(log)
        /\ k \in 1 .. Len(Put(log, k, longer)) /\ Put(log, k, longer)[k] = longer
        /\ \A j \in 1 .. Len(log) : j # k => Put(log, k, longer)[j] = log[j]
    <3>1. log \in Seq(Seq(LogRow))
      BY <1>1
    <3>2. longer \in Seq(LogRow)
      BY <1>7
    <3> QED BY <2>1, <3>1, <3>2, PutLog
  <2> QED BY <1>1, <1>9, <2>2
<1>12. DOMAIN instances' = 1 .. Len(instances') /\ \A j \in 1 .. Len(instances') : j # k => j \in 1 .. n
  <2>1. DOMAIN instances' = 1 .. Len(instances')
    BY <1>10, LenProperties
  <2>2. \A j \in 1 .. Len(instances') : j # k => j \in 1 .. n
    BY <1>1, <1>10
  <2> QED BY <2>1, <2>2
<1>13. OneActive'
  <2>1. \A j \in Active' : j # k => j \in Active
    BY <1>1, <1>10, <1>12 DEF Active
  <2>2. \A j \in Active : j = k
    <3>1. CASE k \in Active
      BY <3>1 DEF OneActive
    <3>2. CASE Active = {}
      BY <3>2
    <3> QED BY <3>1, <3>2 DEF Writes
  <2> QED BY <2>1, <2>2 DEF OneActive
<1>14. Walks'
  <2> SUFFICES ASSUME NEW j \in 1 .. Len(instances')
               PROVE  /\ Walk(log'[j]) /\ instances'[j].state = log'[j][Len(log'[j])].to
                      /\ instances'[j].status = "active" => instances'[j].state \notin Final
    BY DEF Walks, Walk
  <2>1. CASE j = k
    BY <1>7, <1>10, <1>11, <2>1 DEF Writes
  <2>2. CASE j # k
    <3>1. j \in 1 .. n /\ instances'[j] = instances[j] /\ log'[j] = log[j]
      BY <1>10, <1>11, <1>12, <2>2
    <3> QED BY <3>1 DEF Walks, n
  <2> QED BY <2>1, <2>2
<1>15. \A c, e : Has(log, c, e) => Has(log', c, e)
  <2> SUFFICES ASSUME NEW c, NEW e, Has(log, c, e) PROVE Has(log', c, e)
    OBVIOUS
  <2>1. PICK j \in 1 .. Len(log[c]) : log[c][j].event = e
    BY DEF Has
  <2>2. c \in 1 .. n /\ c \in 1 .. Len(log')
    BY <1>1, <1>11 DEF Has
  <2>3. CASE c = k
    <3>1. j \in 1 .. Len(longer) /\ longer[j] = log[c][j]
      BY <1>2, <1>8, <2>1, <2>2, <2>3 DEF n
    <3> QED BY <1>11, <2>1, <2>2, <2>3, <3>1 DEF Has
  <2>4. CASE c # k
    BY <1>11, <2>1, <2>2, <2>4 DEF Has
  <2> QED BY <2>3, <2>4
<1>16. Has(log', k, row.event)
  <2>1. Len(longer) \in 1 .. Len(longer) /\ longer[Len(longer)] = row
    BY <1>8
  <2> QED BY <1>11, <2>1 DEF Has
<1> QED BY <1>1, <1>10, <1>11, <1>13, <1>14, <1>15, <1>16

\* The row of an ignored event.
LEMMA IgnoreStep ==
    ASSUME WalkInv, NEW r \in Replica, Ignores(r)
    PROVE  \E k \in Nat, row \in LogRow, rec \in Instance : row.event = job[r].event /\ Writes(k, row, rec)
<1> USE DEF WalkInv
<1>1. PICK k \in Active : log' = Appended(k, Row(k, job[r].event, Current(k), "ignored"))
  BY DEF Ignores
<1>2. k \in Nat /\ k \in 1 .. Len(instances) /\ instances[k] \in Instance /\ k \in DOMAIN instances
  BY ActiveType DEF Active
<1>3. Current(k) \in Place /\ Current(k) = instances[k].state /\ job[r].event \in Nat
  BY <1>2, CurrentType DEF TypeOK, Job
<1> DEFINE row == Row(k, job[r].event, Current(k), "ignored")
<1>4. /\ row \in LogRow /\ row.event = job[r].event /\ row.from = Current(k)
      /\ row.to = row.from
  BY <1>3 DEF Row, LogRow
<1>5. Put(instances, k, instances[k]) = instances
  BY <1>2 DEF Put, TypeOK
<1>6. instances[k].status = "active" => instances[k].state \notin Final
  BY <1>2 DEF Walks
<1>7. instances' = instances
  BY DEF Ignores
<1>8. Writes(k, row, instances[k])
  BY <1>1, <1>3, <1>4, <1>5, <1>6, <1>7 DEF Writes
<1> QED BY <1>2, <1>4, <1>8

\* A step that has begun carries out an action.
Acts(r) ==
    /\ job[r].pc = "run" /\ job[r].acts # << >>
    /\ \E j \in Job :
         /\ Turns(r, j) /\ j.pc = "run" /\ j.event = job[r].event /\ j.inst = job[r].inst
         /\ j.to = job[r].to /\ j.acts = Tail(job[r].acts)
         /\ \/ j.own = job[r].own
            \/ j.own = Append(job[r].own, Item(r, Head(job[r].acts))) /\ Head(job[r].acts) \in Own
    /\ facts' \in Fact /\ Sends
    /\ UNCHANGED <<instances, log, work, lock, left>>

\* Running an action only adds to what the replica has in its hands.
LEMMA ActStep ==
    ASSUME TypeOK, NEW r \in Replica, AskForWork(r) \/ ActOutside(r)
    PROVE  Acts(r)
<1> DEFINE a == Head(job[r].acts)
           rest == Tail(job[r].acts)
<1>1. job[r] \in Job /\ job[r].pc = "run" /\ job[r].acts # << >>
  BY DEF AskForWork, ActOutside, Running, TypeOK
<1>2. job[r].acts \in Seq(Action) /\ job[r].own \in Seq(Request)
  BY <1>1 DEF Job
<1>3. rest \in Seq(Action)
  BY <1>1, <1>2, HeadTailProperties
<1>4. CASE AskForWork(r)
  <2>1. a \in Own /\ Asks(r, a) /\ UNCHANGED <<facts, instances, log, work, sent, todo, lock, left>>
    BY <1>4 DEF AskForWork, Running, Asks
  <2>2. Item(r, a) \in Request
    BY <1>1, <2>1 DEF Item, Job, Request
  <2>3. Append(job[r].own, Item(r, a)) \in Seq(Request)
    BY <1>2, <2>2, AppendProperties
  <2> DEFINE own == IF a \in Reused /\ Pending(r, a) THEN job[r].own ELSE Append(job[r].own, Item(r, a))
             timed == job[r].timed \/ a \in Timed
             j == [job[r] EXCEPT !.acts = rest, !.timed = timed, !.own = own]
  <2>4. own \in Seq(Request) /\ timed \in BOOLEAN
    BY <1>1, <1>2, <2>3 DEF Job
  <2>5. job' = [job EXCEPT ![r] = j]
    BY <2>1 DEF Asks
  <2>6. own = job[r].own \/ own = Append(job[r].own, Item(r, a))
    OBVIOUS
  <2> HIDE DEF own, timed, a, rest
  <2>7. /\ j \in Job /\ j.pc = job[r].pc /\ j.event = job[r].event /\ j.inst = job[r].inst
        /\ j.to = job[r].to /\ j.acts = rest /\ j.own = own
    BY <1>1, <1>3, <2>4 DEF Job
  <2> HIDE DEF j
  <2>8. facts' \in Fact /\ Sends
    BY <2>1, SendsNothing DEF TypeOK
  <2> USE DEF a, rest
  <2> QED BY <1>1, <2>1, <2>5, <2>6, <2>7, <2>8 DEF Acts, Turns
<1>5. CASE ActOutside(r)
  <2>1. a \in DOMAIN After /\ facts' = After[a] /\ job' = [job EXCEPT ![r].acts = rest]
        /\ UNCHANGED <<instances, log, work, lock, left>>
    BY <1>5 DEF ActOutside, Running
  <2>2. (UNCHANGED <<sent, todo>>) \/ Publish(<<Event(Echo[a])>>)
    BY <1>5 DEF ActOutside
  <2>3. facts' \in Fact /\ Echo[a] \in Name
    BY <2>1, WorldAssumption DEF Name
  <2>4. Sends
    BY <2>2, <2>3, EventType, SendsOne, SendsNothing DEF TypeOK
  <2> DEFINE j == [job[r] EXCEPT !.acts = rest]
  <2>5. job' = [job EXCEPT ![r] = j]
    BY <2>1
  <2> HIDE DEF a, rest
  <2>6. /\ j \in Job /\ j.pc = job[r].pc /\ j.event = job[r].event /\ j.inst = job[r].inst
        /\ j.to = job[r].to /\ j.acts = rest /\ j.own = job[r].own
    BY <1>1, <1>3 DEF Job
  <2> HIDE DEF j
  <2> USE DEF rest
  <2> QED BY <1>1, <2>1, <2>3, <2>4, <2>5, <2>6 DEF Acts, Turns
<1> QED BY <1>4, <1>5

\* A step that has begun ends, with a row and the work it asked for.
Ran(r) ==
    /\ job[r].pc = "run"
    /\ \E row \in LogRow, rec \in Instance : row.event = job[r].event /\ Writes(job[r].inst, row, rec)
    /\ work' = work \o job[r].own
    /\ Turns(r, Idle) /\ lock' = None
    /\ UNCHANGED <<facts, sent, todo, left>>

\* A step that committed, or was refused, wrote one row of the log.
LEMMA RanStep ==
    ASSUME WalkInv, NEW r \in Replica, Commit(r) \/ Refuse(r)
    PROVE  Ran(r)
<1> USE DEF WalkInv
<1> DEFINE k == job[r].inst
           e == job[r].event
           s == job[r].to
<1>1. job[r] \in Job /\ job[r].pc = "run"
  BY DEF Commit, Refuse, Running, TypeOK
<1>2. k \in Nat /\ e \in Nat /\ job[r].own \in Seq(Request) /\ job[r].timed \in BOOLEAN
  BY <1>1 DEF Job
<1>3. s \in State /\ (k \in Active \/ (k = Len(instances) + 1 /\ Active = {}))
  BY <1>1 DEF Runs
<1>4. /\ Current(k) \in Place /\ DOMAIN instances = 1 .. Len(instances)
      /\ (k \in 1 .. Len(instances) => Current(k) = instances[k].state /\ instances[k] \in Instance)
      /\ (k \notin 1 .. Len(instances) => Current(k) = NotStarted)
  BY <1>2, CurrentType, LenProperties, ElementOfSeq DEF TypeOK
<1>5. /\ work' = work \o job[r].own /\ Turns(r, Idle) /\ lock' = None
      /\ UNCHANGED <<facts, sent, todo, left>>
  BY IdleType DEF Commit, Refuse, Ends, Turns
<1>6. CASE Commit(r)
  <2> DEFINE row == Row(k, e, s, "applied")
             rec == Advanced(r, k, s)
  <2>1. row \in LogRow /\ row.event = e /\ row.from = Current(k) /\ row.to = s /\ row.outcome = "applied"
    BY <1>2, <1>3, <1>4 DEF Row, LogRow, Place
  <2>2. Len(Rows(k)) + 1 \in Nat
    BY <1>2, RowsSeq, LenProperties
  <2>3. Timer(r, k, s) \in TimerType \cup {None}
    <3>1. [state |-> s, next |-> "due", visit |-> Len(Rows(k)) + 1] \in TimerType
      BY <1>3, <2>2 DEF TimerType
    <3>2. k \in DOMAIN instances => instances[k].timer \in TimerType \cup {None}
      BY <1>4 DEF Instance
    <3> QED BY <3>1, <3>2 DEF Timer
  <2>4. rec \in Instance /\ rec.state = s /\ (rec.status = "active" => rec.state \notin Final)
    BY <1>3, <2>3 DEF Advanced, Instance, Place
  <2>5. instances' = Put(instances, k, rec) /\ log' = Appended(k, row)
    BY <1>6 DEF Commit, Saved, Put
  <2> HIDE DEF row, rec
  <2>6. Writes(k, row, rec)
    BY <1>3, <2>1, <2>4, <2>5 DEF Writes
  <2> QED BY <1>1, <1>5, <2>1, <2>4, <2>6 DEF Ran
<1>7. CASE Refuse(r)
  <2> DEFINE row == Row(k, e, Current(k), "refused")
             rec == IF k \in DOMAIN instances THEN instances[k] ELSE Fresh
  <2>1. row \in LogRow /\ row.event = e /\ row.from = Current(k) /\ row.to = row.from
    BY <1>2, <1>4 DEF Row, LogRow
  <2>2. Fresh \in Instance /\ Fresh.state = NotStarted /\ NotStarted \notin Final
    BY ChartAssumption DEF Fresh, Instance, Place
  <2>3. rec \in Instance /\ rec.state = Current(k)
    BY <1>4, <2>2
  <2>4. rec.state \notin Final
    <3>1. CASE k \in DOMAIN instances
      <4>1. k \in Active
        BY <1>3, <1>4, <3>1, LenProperties DEF TypeOK
      <4> QED BY <1>4, <3>1, <4>1 DEF Walks, Active
    <3> QED BY <2>2, <3>1
  <2>5. instances' = Put(instances, k, rec) /\ log' = Appended(k, row)
    <3>1. k \in DOMAIN instances => [instances EXCEPT ![k] = instances[k]] = instances
      BY DEF TypeOK
    <3> QED BY <1>7, <3>1 DEF Refuse, Put
  <2> HIDE DEF row, rec
  <2>6. Writes(k, row, rec)
    BY <1>3, <2>1, <2>3, <2>4, <2>5 DEF Writes
  <2> QED BY <1>1, <1>5, <2>1, <2>3, <2>6 DEF Ran
<1> QED BY <1>6, <1>7

\* What may still happen is counted down.
Left == [reports : Nat, answers : Nat, faults : Nat]

\* Using one up leaves what is left a count.
LEMMA LeftStep ==
    ASSUME NEW l \in Left
    PROVE  /\ l.reports > 0 => [l EXCEPT !.reports = @ - 1] \in Left
           /\ l.answers > 0 => [l EXCEPT !.answers = @ - 1] \in Left
           /\ l.faults > 0 => [l EXCEPT !.faults = @ - 1] \in Left
<1>1. l.reports \in Nat /\ l.answers \in Nat /\ l.faults \in Nat
  BY DEF Left
<1>2. ASSUME l.reports > 0 PROVE [l EXCEPT !.reports = @ - 1] \in Left
  <2>1. l.reports - 1 \in Nat
    BY <1>1, <1>2
  <2> QED BY <2>1 DEF Left
<1>3. ASSUME l.answers > 0 PROVE [l EXCEPT !.answers = @ - 1] \in Left
  <2>1. l.answers - 1 \in Nat
    BY <1>1, <1>3
  <2> QED BY <2>1 DEF Left
<1>4. ASSUME l.faults > 0 PROVE [l EXCEPT !.faults = @ - 1] \in Left
  <2>1. l.faults - 1 \in Nat
    BY <1>1, <1>4
  <2> QED BY <2>1 DEF Left
<1> QED BY <1>2, <1>3, <1>4

\* What happens around the runner.
Around ==
    \/ \E r \in Report : Happen(r)
    \/ \E i \in DOMAIN work : \E r \in Answers[work[i].act] : Answer(i, r)
    \/ \E e \in DOMAIN sent : Redeliver(e)

\* What happens around the runner leaves instances, log and lock alone.
LEMMA AroundStep ==
    ASSUME TypeOK, Around
    PROVE  /\ facts' \in Fact /\ Sends /\ left' \in Left
           /\ work' \in Seq(Request) /\ Len(work') = Len(work)
           /\ \A i \in 1 .. Len(work) :
                work'[i].inst = work[i].inst /\ work'[i].event = work[i].event /\ work'[i].act = work[i].act
           /\ UNCHANGED <<instances, log, lock, job>>
<1> DEFINE Same == /\ work' \in Seq(Request) /\ Len(work') = Len(work)
                   /\ \A i \in 1 .. Len(work) :
                        work'[i].inst = work[i].inst /\ work'[i].event = work[i].event /\ work'[i].act = work[i].act
<1>1. ASSUME work' = work PROVE Same
  BY <1>1 DEF TypeOK
<1>2. ASSUME NEW r \in Report, Happen(r)
      PROVE  /\ facts' \in Fact /\ Sends /\ left' \in Left /\ Same
             /\ UNCHANGED <<instances, log, lock, job>>
  <2>1. /\ left.reports > 0 /\ left' = [left EXCEPT !.reports = @ - 1] /\ facts' = r.to
        /\ Publish(<<Event(r.on)>>) /\ UNCHANGED <<instances, log, work, lock, job>>
    BY <1>2 DEF Happen
  <2>2. r.on \in Name /\ r.to \in Fact
    BY WorldAssumption DEF Name
  <2>3. Sends
    BY <2>1, <2>2, EventType, SendsOne
  <2>4. left' \in Left
    <3>1. left \in Left
      BY DEF TypeOK, Left
    <3> QED BY <2>1, <3>1, LeftStep
  <2> QED BY <1>1, <2>1, <2>2, <2>3, <2>4
<1>3. ASSUME NEW i \in DOMAIN work, NEW r \in Answers[work[i].act], Answer(i, r)
      PROVE  /\ facts' \in Fact /\ Sends /\ left' \in Left /\ Same
             /\ UNCHANGED <<instances, log, lock, job>>
  <2>1. /\ left.answers > 0 /\ left' = [left EXCEPT !.answers = @ - 1] /\ facts' = r.to
        /\ work' = [work EXCEPT ![i].open = ~r.closes]
        /\ Publish(<<[Event(r.on) EXCEPT !.inst = work[i].inst]>>)
        /\ UNCHANGED <<instances, log, lock, job>>
    BY <1>3 DEF Answer
  <2>2. work \in Seq(Request) /\ DOMAIN work = 1 .. Len(work)
    BY LenProperties DEF TypeOK
  <2>3. work[i] \in Request
    BY <2>2, ElementOfSeq
  <2>4. work[i].act \in Own /\ work[i].inst \in Nat
    BY <2>3 DEF Request
  <2>5. r.on \in Name /\ r.to \in Fact /\ r.closes \in BOOLEAN
    BY <2>4, WorldAssumption DEF Name
  <2>6. Sends
    BY <2>1, <2>4, <2>5, EventType, SendsOne
  <2>7. left' \in Left
    <3>1. left \in Left
      BY DEF TypeOK, Left
    <3> QED BY <2>1, <3>1, LeftStep
  <2>8. Same
    <3> DEFINE answered == [work[i] EXCEPT !.open = ~r.closes]
    <3>1. /\ answered \in Request /\ answered.inst = work[i].inst /\ answered.event = work[i].event
          /\ answered.act = work[i].act
      BY <2>3, <2>5 DEF Request
    <3>2. work' = [work EXCEPT ![i] = answered]
      BY <2>1, <2>2
    <3> HIDE DEF answered
    <3>3. /\ work' \in Seq(Request) /\ Len(work') = Len(work)
          /\ \A j \in 1 .. Len(work) : work'[j] = IF j = i THEN answered ELSE work[j]
      BY <2>2, <3>1, <3>2, ExceptSeq
    <3> QED BY <3>1, <3>3
  <2> QED BY <2>1, <2>5, <2>6, <2>7, <2>8
<1>4. ASSUME NEW e \in DOMAIN sent, Redeliver(e)
      PROVE  /\ facts' \in Fact /\ Sends /\ left' \in Left /\ Same
             /\ UNCHANGED <<instances, log, lock, job>>
  <2>1. /\ todo' = todo \cup {e} /\ left.faults > 0 /\ left' = [left EXCEPT !.faults = @ - 1]
        /\ UNCHANGED <<facts, instances, log, work, sent, lock, job>>
    BY <1>4 DEF Redeliver, Fault
  <2>2. Sends
    BY <2>1, SendsNothing DEF TypeOK
  <2>3. left' \in Left
    <3>1. left \in Left
      BY DEF TypeOK, Left
    <3> QED BY <2>1, <3>1, LeftStep
  <2> QED BY <1>1, <2>1, <2>2, <2>3 DEF TypeOK
<1> HIDE DEF Same
<1>5. /\ facts' \in Fact /\ Sends /\ left' \in Left /\ Same
      /\ UNCHANGED <<instances, log, lock, job>>
  BY <1>2, <1>3, <1>4 DEF Around
<1> QED BY <1>5 DEF Same

\* The sweep raises what has fallen due and leaves the instance where it is.
Sweeps == \E k \in DOMAIN instances, both \in BOOLEAN : RaiseDueTimers(k, both)

\* Raising timers leaves every instance's place alone.
LEMMA SweepStep ==
    ASSUME TypeOK, Sweeps
    PROVE  /\ lock = None /\ Sends
           /\ instances' \in Seq(Instance) /\ Len(instances') = Len(instances)
           /\ \A k \in 1 .. Len(instances) :
                instances'[k].state = instances[k].state /\ instances'[k].status = instances[k].status
           /\ UNCHANGED <<facts, log, work, lock, job, left>>
<1>1. PICK k \in DOMAIN instances, both \in BOOLEAN : RaiseDueTimers(k, both)
  BY DEF Sweeps
<1>2. DOMAIN instances = 1 .. Len(instances) /\ instances \in Seq(Instance)
  BY LenProperties DEF TypeOK
<1>3. k \in Nat /\ k # 0 /\ instances[k] \in Instance
  BY <1>2, ElementOfSeq
<1> DEFINE t == instances[k].timer
<1>4. t \in TimerType
  BY <1>1, <1>3 DEF RaiseDueTimers, Instance
<1>5. /\ lock = None /\ Publish(Raised(k, both)) /\ instances' = [instances EXCEPT ![k].timer = Rest(@, both)]
      /\ UNCHANGED <<facts, log, work, lock, job, left>>
  BY <1>1 DEF RaiseDueTimers
<1>6. Sends
  <2> DEFINE ev(n) == [name |-> n, inst |-> k, state |-> t.state, visit |-> t.visit]
  <2>1. \A n \in {"due", "overdue"} : ev(n) \in Sent /\ ev(n).inst # 0
    BY <1>3, <1>4 DEF Sent, Name, TimerType, Place
  <2>2. Raised(k, both) \in {<<ev("due")>>, <<ev("overdue")>>, <<ev("due"), ev("overdue")>>}
    BY DEF Raised
  <2> DEFINE due == ev("due")
             overdue == ev("overdue")
  <2>3. /\ due \in Sent /\ overdue \in Sent /\ due.inst # 0 /\ overdue.inst # 0
        /\ Raised(k, both) \in {<<due>>, <<overdue>>, <<due, overdue>>}
    BY <2>1, <2>2
  <2> HIDE DEF due, overdue
  <2>4. /\ Raised(k, both) \in Seq(Sent)
        /\ \A i \in 1 .. Len(Raised(k, both)) : Raised(k, both)[i].inst # 0
    BY <2>3
  <2> QED BY <1>5, <2>4, SendsSeq
<1>7. Rest(t, both) \in TimerType \cup {None}
  BY <1>4 DEF Rest, TimerType
<1> DEFINE swept == [instances[k] EXCEPT !.timer = Rest(t, both)]
<1>8. swept \in Instance /\ swept.state = instances[k].state /\ swept.status = instances[k].status
  BY <1>3, <1>7 DEF Instance
<1>9. instances' = [instances EXCEPT ![k] = swept]
  BY <1>2, <1>5
<1> HIDE DEF swept
<1>10. /\ instances' \in Seq(Instance) /\ Len(instances') = Len(instances)
       /\ \A j \in 1 .. Len(instances) : instances'[j] = IF j = k THEN swept ELSE instances[j]
  BY <1>2, <1>8, <1>9, ExceptSeq
<1> QED BY <1>5, <1>6, <1>8, <1>10

\* A replica takes an event, or gives one back.
LEMMA TakeStep ==
    ASSUME TypeOK, NEW r \in Replica, NEW e \in todo, Take(r, e)
    PROVE  /\ job[r].pc = "idle" /\ e \in DOMAIN sent /\ todo' \subseteq todo
           /\ \E j \in Job : Turns(r, j) /\ j.pc = "look" /\ j.event = e /\ j.own = << >>
           /\ UNCHANGED <<facts, instances, log, work, sent, lock, left>>
<1>1. e \in DOMAIN sent /\ DOMAIN sent = 1 .. Len(sent)
  BY LenProperties DEF TypeOK
<1>2. e \in Nat
  BY <1>1
<1> DEFINE j == [Idle EXCEPT !.pc = "look", !.event = e]
<1>3. j \in Job /\ j.pc = "look" /\ j.event = e /\ j.own = << >>
  BY <1>2, IdleType DEF Idle, Job
<1>4. job' = [job EXCEPT ![r] = j]
  BY DEF Take
<1> HIDE DEF j
<1> QED BY <1>1, <1>3, <1>4 DEF Take, Turns

\* A handler that died gives up its lock and what it had not committed.
LEMMA AbortStep ==
    ASSUME TypeOK, Events, NEW r \in Replica, Abort(r)
    PROVE  /\ job[r].pc # "idle" /\ todo' \subseteq DOMAIN sent
           /\ Turns(r, Idle) /\ lock' = (IF lock = r THEN None ELSE lock)
           /\ left' \in Left
           /\ UNCHANGED <<facts, instances, log, work, sent>>
<1>1. job[r].pc # "idle" /\ job[r].event \in DOMAIN sent
  BY DEF Abort, Events
<1>2. todo' \subseteq DOMAIN sent
  BY <1>1 DEF Abort, Retried, TypeOK
<1>3. left' \in Left
  <2>1. left \in Left /\ left.faults > 0 /\ left' = [left EXCEPT !.faults = @ - 1]
    BY DEF Abort, Fault, TypeOK, Left
  <2> QED BY <2>1, LeftStep
<1> QED BY <1>1, <1>2, <1>3, IdleType DEF Abort, Turns

\* The cases of a step, each in the form the lemmas give it.
LEMMA NextCases ==
    ASSUME WalkInv, [Next]_vars
    PROVE  \/ Around \/ Sweeps
           \/ \E r \in Replica, e \in todo : Take(r, e)
           \/ \E r \in Replica : job[r].pc \in {"look", "insert", "lost"}
                                  /\ (Dropped(r) \/ Waits(r) \/ Ignores(r) \/ Begins(r))
           \/ \E r \in Replica : Acts(r) \/ Ran(r) \/ Abort(r)
           \/ UNCHANGED vars
<1>1. TypeOK
  BY DEF WalkInv
<1>2. ASSUME NEW r \in Replica, Handles(r)
      PROVE  \/ /\ job[r].pc \in {"look", "insert", "lost"}
                /\ (Dropped(r) \/ Waits(r) \/ Ignores(r) \/ Begins(r))
             \/ Acts(r) \/ Ran(r)
  BY <1>1, <1>2, LookStep, ActStep, RanStep DEF Handles, Looks
<1> QED BY <1>2, RanStep DEF Next, Around, Sweeps

-----------------------------------------------------------------------------
(* Each part of the invariant through a step.                              *)

\* A replica's turn changes its own job only.
LEMMA TurnStep ==
    ASSUME TypeOK, NEW r \in Replica, NEW j, Turns(r, j)
    PROVE  /\ job' \in [Replica -> Job] /\ job'[r] = j
           /\ \A q \in Replica \ {r} : job'[q] = job[q]
BY DEF Turns, TypeOK

\* The lock goes with the step that runs.
LEMMA LockStep ==
    ASSUME TypeOK, NEW r \in Replica, NEW j, Turns(r, j),
           \/ lock' = lock /\ (j.pc = "run" <=> job[r].pc = "run")
           \/ lock = None /\ lock' = r /\ j.pc = "run"
           \/ lock' = (IF lock = r THEN None ELSE lock) /\ j.pc # "run"
    PROVE  lock' \in Replica \cup {None} /\ \A q \in Replica : lock' = q <=> job'[q].pc = "run"
BY TurnStep, NoneAssumption DEF TypeOK

\* Every step keeps the types.
LEMMA TypeStep ==
    ASSUME WalkInv, [Next]_vars
    PROVE  TypeOK'
<1> USE DEF WalkInv
<1>1. CASE Around
  <2>1. /\ facts' \in Fact /\ Sends /\ left' \in [reports : Nat, answers : Nat, faults : Nat]
        /\ work' \in Seq(Request) /\ UNCHANGED <<instances, log, lock, job>>
    BY <1>1, AroundStep DEF Left
  <2> QED BY <2>1 DEF Sends, TypeOK
<1>2. CASE Sweeps
  <2>1. /\ Sends /\ instances' \in Seq(Instance) /\ Len(instances') = Len(instances)
        /\ UNCHANGED <<facts, log, work, lock, job, left>>
    BY <1>2, SweepStep
  <2> QED BY <2>1 DEF Sends, TypeOK
<1>3. ASSUME NEW r \in Replica, NEW e \in todo, Take(r, e) PROVE TypeOK'
  <2>1. PICK j \in Job : Turns(r, j) /\ j.pc = "look"
    BY <1>3, TakeStep
  <2>2. /\ todo' \subseteq todo /\ job[r].pc = "idle"
        /\ UNCHANGED <<facts, instances, log, work, sent, lock, left>>
    BY <1>3, TakeStep
  <2>3. lock' \in Replica \cup {None} /\ \A q \in Replica : lock' = q <=> job'[q].pc = "run"
    BY <2>1, <2>2, LockStep
  <2> QED BY <2>1, <2>2, <2>3, TurnStep DEF TypeOK
<1>4. ASSUME NEW r \in Replica, job[r].pc \in {"look", "insert", "lost"},
             Dropped(r) \/ Waits(r) \/ Ignores(r) \/ Begins(r)
      PROVE  TypeOK'
  <2>1. Others /\ UNCHANGED instances
    BY <1>4 DEF Dropped, Waits, Ignores, Begins
  <2>2. log' \in Seq(Seq(LogRow)) /\ Len(log') = Len(instances')
    <3>1. CASE Ignores(r)
      BY <3>1, IgnoreStep, WriteStep
    <3>2. CASE ~Ignores(r)
      BY <1>4, <3>2 DEF Dropped, Waits, Begins, TypeOK
    <3> QED BY <3>1, <3>2
  <2>3. PICK j \in Job : /\ Turns(r, j)
                         /\ \/ j.pc # "run" /\ lock' = lock
                            \/ j.pc = "run" /\ lock = None /\ lock' = r
    <3>1. Idle \in Job /\ Idle.pc = "idle"
      BY IdleType DEF Idle
    <3> QED BY <1>4, <3>1 DEF Dropped, Waits, Ignores, Begins
  <2>4. lock' \in Replica \cup {None} /\ \A q \in Replica : lock' = q <=> job'[q].pc = "run"
    BY <1>4, <2>3, LockStep
  <2> QED BY <2>1, <2>2, <2>3, <2>4, TurnStep DEF Others, TypeOK
<1>5. ASSUME NEW r \in Replica, Acts(r) PROVE TypeOK'
  <2>1. PICK j \in Job : Turns(r, j) /\ j.pc = "run"
    BY <1>5 DEF Acts
  <2>2. /\ job[r].pc = "run" /\ facts' \in Fact /\ Sends
        /\ UNCHANGED <<instances, log, work, lock, left>>
    BY <1>5 DEF Acts
  <2>3. lock' \in Replica \cup {None} /\ \A q \in Replica : lock' = q <=> job'[q].pc = "run"
    BY <2>1, <2>2, LockStep
  <2> QED BY <2>1, <2>2, <2>3, TurnStep DEF Sends, TypeOK
<1>6. ASSUME NEW r \in Replica, Ran(r) PROVE TypeOK'
  <2>1. /\ job[r].pc = "run" /\ Turns(r, Idle) /\ lock' = None /\ work' = work \o job[r].own
        /\ UNCHANGED <<facts, sent, todo, left>>
    BY <1>6 DEF Ran
  <2>2. job[r].inst \in Nat /\ job[r].own \in Seq(Request)
    BY DEF TypeOK, Job
  <2>3. instances' \in Seq(Instance) /\ log' \in Seq(Seq(LogRow)) /\ Len(log') = Len(instances')
    BY <1>6, <2>2, WriteStep DEF Ran
  <2>4. work' \in Seq(Request)
    BY <2>1, <2>2, ConcatProperties DEF TypeOK
  <2>5. lock = r /\ Idle.pc # "run"
    BY <2>1 DEF TypeOK, Idle
  <2>6. lock' \in Replica \cup {None} /\ \A q \in Replica : lock' = q <=> job'[q].pc = "run"
    BY <2>1, <2>5, LockStep
  <2> QED BY <2>1, <2>3, <2>4, <2>6, TurnStep DEF TypeOK
<1>7. ASSUME NEW r \in Replica, Abort(r) PROVE TypeOK'
  <2>1. /\ todo' \subseteq DOMAIN sent /\ Turns(r, Idle) /\ lock' = (IF lock = r THEN None ELSE lock)
        /\ left' \in [reports : Nat, answers : Nat, faults : Nat]
        /\ UNCHANGED <<facts, instances, log, work, sent>>
    BY <1>7, AbortStep DEF Left
  <2>2. Idle.pc # "run"
    BY DEF Idle
  <2>3. lock' \in Replica \cup {None} /\ \A q \in Replica : lock' = q <=> job'[q].pc = "run"
    BY <2>1, <2>2, LockStep
  <2> QED BY <2>1, <2>3, TurnStep DEF TypeOK
<1>8. CASE UNCHANGED vars
  BY <1>8 DEF vars, TypeOK
<1> QED BY <1>1, <1>2, <1>3, <1>4, <1>5, <1>6, <1>7, <1>8, NextCases

\* A replica that goes on with its event, takes one, or ends.
LEMMA EventsKept ==
    ASSUME TypeOK, Events, Sends, NEW r \in Replica, NEW j, Turns(r, j),
           j.pc # "idle" => j.event \in DOMAIN sent,
           j.pc \in {"insert", "lost"} => sent[j.event].inst = 0
    PROVE  Events'
<1>1. \A q \in Replica : job'[q] = IF q = r THEN j ELSE job[q]
  BY TurnStep
<1>2. \A q \in Replica : job'[q].pc # "idle" => job'[q].event \in DOMAIN sent
  BY <1>1 DEF Events
<1>3. \A q \in Replica : job'[q].pc \in {"insert", "lost"} => sent[job'[q].event].inst = 0
  BY <1>1 DEF Events
<1>4. \A e \in DOMAIN sent' : sent'[e].inst = 0 => sent'[e].state = NotStarted
  BY DEF Events, Sends
<1>5. \A q \in Replica : job'[q].pc # "idle" => job'[q].event \in DOMAIN sent'
  BY <1>2 DEF Sends
<1>6. \A q \in Replica : job'[q].pc \in {"insert", "lost"} => sent'[job'[q].event].inst = 0
  BY <1>2, <1>3 DEF Sends
<1> QED BY <1>4, <1>5, <1>6 DEF Events

\* Every step keeps what an event may name.
LEMMA EventsStep ==
    ASSUME WalkInv, [Next]_vars
    PROVE  Events'
<1> USE DEF WalkInv
<1>1. ASSUME Sends, job' = job PROVE Events'
  BY <1>1 DEF Events, Sends
<1>2. CASE Around \/ Sweeps
  BY <1>1, <1>2, AroundStep, SweepStep
<1>3. ASSUME NEW r \in Replica, NEW e \in todo, Take(r, e) PROVE Events'
  <2>1. PICK j \in Job : Turns(r, j) /\ j.pc = "look" /\ j.event = e
    BY <1>3, TakeStep
  <2>2. e \in DOMAIN sent /\ Sends
    BY <1>3, TakeStep, SendsNothing DEF TypeOK
  <2> QED BY <2>1, <2>2, EventsKept
<1>4. ASSUME NEW r \in Replica, job[r].pc \in {"look", "insert", "lost"},
             Dropped(r) \/ Waits(r) \/ Ignores(r) \/ Begins(r)
      PROVE  Events'
  <2>1. job[r].event \in DOMAIN sent
    BY <1>4 DEF Events
  <2>2. Sends
    BY <1>4, SendsNothing DEF Dropped, Waits, Ignores, Begins, Others, TypeOK
  <2>3. PICK j : /\ Turns(r, j) /\ (j.pc # "idle" => j.event = job[r].event)
                 /\ j.pc \in {"insert", "lost"} => sent[j.event].inst = 0
    <3>1. Idle.pc = "idle"
      BY DEF Idle
    <3> QED BY <1>4, <3>1 DEF Dropped, Waits, Ignores, Begins
  <2> QED BY <2>1, <2>2, <2>3, EventsKept
<1>5. ASSUME NEW r \in Replica, Acts(r) PROVE Events'
  <2>1. job[r].event \in DOMAIN sent /\ Sends
    BY <1>5 DEF Events, Acts
  <2>2. PICK j \in Job : Turns(r, j) /\ j.pc = "run" /\ j.event = job[r].event
    BY <1>5 DEF Acts
  <2> QED BY <2>1, <2>2, EventsKept
<1>6. ASSUME NEW r \in Replica, Ran(r) \/ Abort(r) PROVE Events'
  <2>1. Turns(r, Idle) /\ Sends
    BY <1>6, AbortStep, SendsNothing DEF Ran, TypeOK
  <2>2. Idle.pc = "idle"
    BY DEF Idle
  <2> QED BY <2>1, <2>2, EventsKept
<1>7. CASE UNCHANGED vars
  BY <1>7 DEF vars, Events
<1> QED BY <1>2, <1>3, <1>4, <1>5, <1>6, <1>7, NextCases

\* A step that changes no state, status or log keeps the instances' walks.
LEMMA StandKept ==
    ASSUME TypeOK, TypeOK', OneActive, Walks, log' = log, Len(instances') = Len(instances),
           \A k \in 1 .. Len(instances) :
             instances'[k].state = instances[k].state /\ instances'[k].status = instances[k].status
    PROVE  OneActive' /\ Walks' /\ Active' = Active
<1>1. DOMAIN instances = 1 .. Len(instances) /\ DOMAIN instances' = 1 .. Len(instances')
  BY LenProperties DEF TypeOK
<1>2. Active' = Active
  BY <1>1 DEF Active
<1>3. Walks'
  BY DEF Walks, Walk
<1> QED BY <1>2, <1>3 DEF OneActive

\* Every step keeps one active instance and every log a walk.
LEMMA StandStep ==
    ASSUME WalkInv, TypeOK', [Next]_vars
    PROVE  OneActive' /\ Walks'
<1> USE DEF WalkInv
<1>1. ASSUME UNCHANGED <<instances, log>> PROVE OneActive' /\ Walks'
  BY <1>1, StandKept
<1>2. CASE Around
  BY <1>1, <1>2, AroundStep
<1>3. CASE Sweeps
  BY <1>3, SweepStep, StandKept
<1>4. ASSUME NEW r \in Replica, NEW e \in todo, Take(r, e) PROVE OneActive' /\ Walks'
  BY <1>1, <1>4, TakeStep
<1>5. ASSUME NEW r \in Replica, Dropped(r) \/ Waits(r) \/ Begins(r) \/ Acts(r) PROVE OneActive' /\ Walks'
  BY <1>1, <1>5 DEF Dropped, Waits, Begins, Acts
<1>6. ASSUME NEW r \in Replica, Ignores(r) PROVE OneActive' /\ Walks'
  BY <1>6, IgnoreStep, WriteStep
<1>7. ASSUME NEW r \in Replica, Ran(r) PROVE OneActive' /\ Walks'
  <2>1. job[r].inst \in Nat
    BY DEF TypeOK, Job
  <2> QED BY <1>7, <2>1, WriteStep DEF Ran
<1>8. ASSUME NEW r \in Replica, Abort(r) PROVE OneActive' /\ Walks'
  BY <1>1, <1>8, AbortStep
<1>9. CASE UNCHANGED vars
  BY <1>1, <1>9 DEF vars
<1> QED BY <1>2, <1>3, <1>4, <1>5, <1>6, <1>7, <1>8, <1>9, NextCases

\* Where the instances stand and what is logged do not change, and nobody
\* begins.
LEMMA RunsKept ==
    ASSUME Runs, log' = log, Len(instances') = Len(instances), Active' = Active,
           \A q \in Replica : job'[q].pc = "run" =>
             /\ job[q].pc = "run" /\ job'[q].to = job[q].to
             /\ job'[q].inst = job[q].inst /\ job'[q].event = job[q].event
    PROVE  Runs'
BY DEF Runs, Has

\* Every step keeps what a replica at work has in its hands.
LEMMA RunsStep ==
    ASSUME WalkInv, TypeOK', [Next]_vars
    PROVE  Runs'
<1> USE DEF WalkInv
<1>1. ASSUME log' = log, instances' = instances,
             \A q \in Replica : job'[q].pc = "run" =>
               /\ job[q].pc = "run" /\ job'[q].to = job[q].to
               /\ job'[q].inst = job[q].inst /\ job'[q].event = job[q].event
      PROVE  Runs'
  <2>1. Active' = Active
    BY <1>1 DEF Active
  <2> QED BY <1>1, <2>1, RunsKept
<1>2. CASE Around
  BY <1>1, <1>2, AroundStep
<1>3. CASE Sweeps
  <2>1. Active' = Active
    BY <1>3, SweepStep, StandKept
  <2> QED BY <1>3, <2>1, SweepStep, RunsKept
<1>4. ASSUME NEW r \in Replica, NEW j, Turns(r, j), j.pc # "run", UNCHANGED <<instances, log>>
      PROVE  Runs'
  <2>1. \A q \in Replica : job'[q] = IF q = r THEN j ELSE job[q]
    BY <1>4, TurnStep
  <2>2. \A q \in Replica : job'[q].pc = "run" => job'[q] = job[q]
    BY <1>4, <2>1
  <2> QED BY <1>1, <1>4, <2>2
<1>5. ASSUME NEW r \in Replica, NEW e \in todo, Take(r, e) PROVE Runs'
  <2>1. PICK j \in Job : Turns(r, j) /\ j.pc = "look"
    BY <1>5, TakeStep
  <2> QED BY <1>4, <1>5, <2>1, TakeStep
<1>6. Idle.pc = "idle"
  BY DEF Idle
<1>7. ASSUME NEW r \in Replica, Dropped(r) \/ Waits(r) PROVE Runs'
  <2>1. PICK j : Turns(r, j) /\ j.pc # "run"
    BY <1>6, <1>7 DEF Dropped, Waits
  <2> QED BY <1>4, <1>7, <2>1 DEF Dropped, Waits
<1>8. ASSUME NEW r \in Replica, Begins(r) PROVE Runs'
  <2>1. PICK j \in Job : /\ Turns(r, j) /\ j.pc = "run"
                         /\ j.inst \in Active \/ (j.inst = Len(instances) + 1 /\ Active = {})
                         /\ j.to \in State /\ ~Has(log, j.inst, j.event)
    BY <1>8 DEF Begins
  <2>2. \A q \in Replica : job'[q] = IF q = r THEN j ELSE job[q]
    BY <2>1, TurnStep
  <2>3. lock = None /\ UNCHANGED <<instances, log>>
    BY <1>8 DEF Begins
  <2>4. \A q \in Replica : job[q].pc # "run"
    BY <2>3, NoneAssumption DEF TypeOK
  <2>5. Active' = Active
    BY <2>3 DEF Active
  <2>6. \A q \in Replica : job'[q].pc = "run" => job'[q] = j
    BY <2>2, <2>4
  <2> QED BY <2>1, <2>3, <2>5, <2>6 DEF Runs, Has
<1>9. ASSUME NEW r \in Replica, Ignores(r) \/ Ran(r) PROVE Runs'
  <2>1. lock' = None
    BY <1>9 DEF Ignores, Ran
  <2>2. \A q \in Replica : job'[q].pc # "run"
    BY <2>1, NoneAssumption DEF TypeOK
  <2> QED BY <2>2 DEF Runs
<1>10. ASSUME NEW r \in Replica, Acts(r) PROVE Runs'
  <2>1. PICK j \in Job : /\ Turns(r, j) /\ j.pc = "run" /\ j.event = job[r].event
                         /\ j.inst = job[r].inst /\ j.to = job[r].to
    BY <1>10 DEF Acts
  <2>2. \A q \in Replica : job'[q] = IF q = r THEN j ELSE job[q]
    BY <2>1, TurnStep
  <2>3. job[r].pc = "run" /\ UNCHANGED <<instances, log>>
    BY <1>10 DEF Acts
  <2> QED BY <1>1, <2>1, <2>2, <2>3
<1>11. ASSUME NEW r \in Replica, Abort(r) PROVE Runs'
  BY <1>4, <1>6, <1>11, AbortStep
<1>12. CASE UNCHANGED vars
  BY <1>1, <1>12 DEF vars
<1> QED BY <1>2, <1>3, <1>5, <1>7, <1>8, <1>9, <1>10, <1>11, <1>12, NextCases

\* A log only grows, and a step logs the event it has handled.
LEMMA LogStep ==
    ASSUME WalkInv, [Next]_vars
    PROVE  /\ \A c, e : Has(log, c, e) => Has(log', c, e)
           /\ \A r \in Replica : Ran(r) => Has(log', job[r].inst, job[r].event)
<1> USE DEF WalkInv
<1>1. ASSUME log' = log PROVE \A c, e : Has(log, c, e) => Has(log', c, e)
  BY <1>1
<1>2. ASSUME NEW r \in Replica, Ignores(r) PROVE \A c, e : Has(log, c, e) => Has(log', c, e)
  <2>1. PICK k \in Nat, row \in LogRow, rec \in Instance : Writes(k, row, rec)
    BY <1>2, IgnoreStep
  <2> QED BY <2>1, WriteStep
<1>3. ASSUME NEW r \in Replica, Ran(r)
      PROVE  /\ \A c, e : Has(log, c, e) => Has(log', c, e)
             /\ Has(log', job[r].inst, job[r].event)
  <2>1. PICK row \in LogRow, rec \in Instance : row.event = job[r].event /\ Writes(job[r].inst, row, rec)
    BY <1>3 DEF Ran
  <2>2. job[r].inst \in Nat
    BY DEF TypeOK, Job
  <2> QED BY <2>1, <2>2, WriteStep
<1>4. ASSUME NEW r \in Replica, Dropped(r) \/ Waits(r) \/ Begins(r) \/ Acts(r) \/ Abort(r)
      PROVE  log' = log
  BY <1>4, AbortStep DEF Dropped, Waits, Begins, Acts
<1>5. CASE Around \/ Sweeps \/ (\E r \in Replica, e \in todo : Take(r, e)) \/ UNCHANGED vars
  <2>1. log' = log
    BY <1>5, AroundStep, SweepStep, TakeStep DEF vars
  <2> QED BY <1>1, <1>3, <2>1
<1> QED BY <1>1, <1>2, <1>3, <1>4, <1>5, NextCases

\* What a commit adds to the work.
LEMMA WorkStep ==
    ASSUME WalkInv, [Next]_vars
    PROVE  \/ /\ work' \in Seq(Request) /\ Len(work') = Len(work)
              /\ \A i \in 1 .. Len(work) :
                   work'[i].inst = work[i].inst /\ work'[i].event = work[i].event /\ work'[i].act = work[i].act
           \/ \E r \in Replica : Ran(r)
<1> USE DEF WalkInv
<1>1. CASE Around
  BY <1>1, AroundStep
<1>2. CASE ~Around /\ ~\E r \in Replica : Ran(r)
  <2>1. work' = work
    BY <1>2, NextCases, SweepStep, TakeStep, AbortStep
       DEF Dropped, Waits, Ignores, Begins, Others, Acts, vars
  <2> QED BY <2>1 DEF TypeOK
<1> QED BY <1>1, <1>2

\* A commit appends the work its step asked for.
LEMMA RanWork ==
    ASSUME TypeOK, NEW r \in Replica, Ran(r)
    PROVE  /\ Len(work) \in Nat /\ Len(job[r].own) \in Nat /\ Len(work') = Len(work) + Len(job[r].own)
           /\ \A i \in 1 .. Len(work) : work'[i] = work[i]
           /\ \A i \in 1 .. Len(work') : i \notin 1 .. Len(work) =>
                i - Len(work) \in 1 .. Len(job[r].own) /\ work'[i] = job[r].own[i - Len(work)]
<1>1. work \in Seq(Request) /\ job[r].own \in Seq(Request) /\ work' = work \o job[r].own
  BY DEF TypeOK, Job, Ran
<1>2. Len(work) \in Nat /\ Len(job[r].own) \in Nat
  BY <1>1, LenProperties
<1>3. /\ Len(work') = Len(work) + Len(job[r].own)
      /\ \A i \in 1 .. Len(work) + Len(job[r].own) :
           work'[i] = IF i <= Len(work) THEN work[i] ELSE job[r].own[i - Len(work)]
  BY <1>1, ConcatProperties
<1>4. \A i \in 1 .. Len(work) : work'[i] = work[i]
  BY <1>2, <1>3
<1>5. ASSUME NEW i \in 1 .. Len(work'), i \notin 1 .. Len(work)
      PROVE  i - Len(work) \in 1 .. Len(job[r].own) /\ work'[i] = job[r].own[i - Len(work)]
  <2>1. i \in 1 .. Len(work) + Len(job[r].own) /\ ~(i <= Len(work))
    BY <1>2, <1>3, <1>5
  <2> QED BY <1>2, <1>3, <2>1
<1> QED BY <1>2, <1>3, <1>4, <1>5

\* Every step keeps a request with the transition that asked for it.
LEMMA OwnedStep ==
    ASSUME WalkInv, [Next]_vars
    PROVE  Owned'
<1> USE DEF WalkInv
<1>1. ASSUME job' = job PROVE Owned'
  BY <1>1 DEF Owned
<1>2. ASSUME NEW r \in Replica, NEW j, Turns(r, j), j.pc # "run" => j.own = << >>,
             \A i \in 1 .. Len(j.own) : j.own[i].inst = j.inst /\ j.own[i].event = j.event
      PROVE  Owned'
  <2>1. \A q \in Replica : job'[q] = IF q = r THEN j ELSE job[q]
    BY <1>2, TurnStep
  <2> QED BY <1>2, <2>1 DEF Owned
<1>3. ASSUME NEW r \in Replica, NEW j, Turns(r, j), j.own = << >> PROVE Owned'
  <2>1. Len(j.own) = 0
    BY <1>3
  <2>2. \A i \in 1 .. Len(j.own) : FALSE
    BY <2>1
  <2> QED BY <1>2, <1>3, <2>2
<1>4. Idle.own = << >>
  BY DEF Idle
<1>5. CASE Around \/ Sweeps \/ UNCHANGED vars
  BY <1>1, <1>5, AroundStep, SweepStep DEF vars
<1>6. ASSUME NEW r \in Replica, NEW e \in todo, Take(r, e) PROVE Owned'
  BY <1>3, <1>6, TakeStep
<1>7. ASSUME NEW r \in Replica, job[r].pc \in {"look", "insert", "lost"},
             Dropped(r) \/ Waits(r) \/ Ignores(r) \/ Begins(r)
      PROVE  Owned'
  <2>1. job[r].own = << >>
    BY <1>7 DEF Owned
  <2>2. PICK j : Turns(r, j) /\ j.own = << >>
    BY <1>4, <1>7, <2>1 DEF Dropped, Waits, Ignores, Begins
  <2> QED BY <1>3, <2>2
<1>8. ASSUME NEW r \in Replica, Acts(r) PROVE Owned'
  <2>1. PICK j \in Job :
          /\ Turns(r, j) /\ j.pc = "run" /\ j.event = job[r].event /\ j.inst = job[r].inst
          /\ \/ j.own = job[r].own
             \/ j.own = Append(job[r].own, Item(r, Head(job[r].acts))) /\ Head(job[r].acts) \in Own
    BY <1>8 DEF Acts
  <2>2. CASE j.own = job[r].own
    BY <1>2, <2>1, <2>2 DEF Owned
  <2>3. CASE j.own = Append(job[r].own, Item(r, Head(job[r].acts))) /\ Head(job[r].acts) \in Own
    <3> DEFINE item == Item(r, Head(job[r].acts))
    <3>1. job[r] \in Job /\ job[r].own \in Seq(Request) /\ job[r].inst \in Nat /\ job[r].event \in Nat
      BY DEF TypeOK, Job
    <3>2. item \in Request /\ item.inst = job[r].inst /\ item.event = job[r].event
      BY <2>3, <3>1 DEF Item, Request
    <3> HIDE DEF item
    <3>3. /\ Len(j.own) = Len(job[r].own) + 1 /\ j.own[Len(job[r].own) + 1] = item
          /\ \A i \in 1 .. Len(job[r].own) : j.own[i] = job[r].own[i]
      BY <2>3, <3>1, <3>2, AppendProperties DEF item
    <3>4. \A i \in 1 .. Len(j.own) : i \in 1 .. Len(job[r].own) \/ i = Len(job[r].own) + 1
      BY <3>1, <3>3, LenProperties
    <3>5. \A i \in 1 .. Len(j.own) : j.own[i].inst = j.inst /\ j.own[i].event = j.event
      BY <2>1, <3>2, <3>3, <3>4 DEF Owned
    <3> QED BY <1>2, <2>1, <3>5
  <2> QED BY <2>1, <2>2, <2>3
<1>9. ASSUME NEW r \in Replica, Ran(r) \/ Abort(r) PROVE Owned'
  BY <1>3, <1>4, <1>9, AbortStep DEF Ran
<1> QED BY <1>5, <1>6, <1>7, <1>8, <1>9, NextCases

\* Every step keeps the event of each request in its instance's log.
LEMMA LoggedStep ==
    ASSUME WalkInv, [Next]_vars
    PROVE  Logged'
<1> USE DEF WalkInv
<1>1. CASE \E r \in Replica : Ran(r)
  <2>1. PICK r \in Replica : Ran(r)
    BY <1>1
  <2>2. SUFFICES ASSUME NEW i \in 1 .. Len(work') PROVE Has(log', work'[i].inst, work'[i].event)
    BY DEF Logged, Has
  <2>3. CASE i \in 1 .. Len(work)
    BY <2>1, <2>3, RanWork, LogStep DEF Logged
  <2>4. CASE i \notin 1 .. Len(work)
    <3> DEFINE k == i - Len(work)
    <3>1. k \in 1 .. Len(job[r].own) /\ work'[i] = job[r].own[k]
      BY <2>1, <2>4, RanWork
    <3> HIDE DEF k
    <3>2. work'[i].inst = job[r].inst /\ work'[i].event = job[r].event
      BY <3>1 DEF Owned
    <3> QED BY <2>1, <3>2, LogStep
  <2> QED BY <2>3, <2>4
<1>2. CASE ~\E r \in Replica : Ran(r)
  <2>1. /\ Len(work') = Len(work)
        /\ \A i \in 1 .. Len(work) : work'[i].inst = work[i].inst /\ work'[i].event = work[i].event
    BY <1>2, WorkStep
  <2>2. \A i \in 1 .. Len(work) : Has(log', work[i].inst, work[i].event)
    BY LogStep DEF Logged
  <2> QED BY <2>1, <2>2 DEF Logged, Has
<1> QED BY <1>1, <1>2

\* Every step keeps what is being asked for free of repeats.
LEMMA AskingStep ==
    ASSUME WalkInv, Asking, AsksOncePerWay, [Next]_vars
    PROVE  Asking'
<1> USE DEF WalkInv
<1>1. ASSUME job' = job PROVE Asking'
  BY <1>1 DEF Asking, Apart, Distinct
<1>2. ASSUME NEW r \in Replica, NEW j, Turns(r, j), j.pc = "run" => Apart(j.acts, j.own)
      PROVE  Asking'
  <2>1. \A q \in Replica : job'[q] = IF q = r THEN j ELSE job[q]
    BY <1>2, TurnStep
  <2>2. \A q \in Replica : job'[q].pc = "run" => Apart(job'[q].acts, job'[q].own)
    BY <1>2, <2>1 DEF Asking
  <2> QED BY <2>2 DEF Asking, Apart, Distinct
<1>3. Idle.pc = "idle"
  BY DEF Idle
<1>4. CASE Around \/ Sweeps \/ UNCHANGED vars
  BY <1>1, <1>4, AroundStep, SweepStep DEF vars
<1>5. ASSUME NEW r \in Replica, NEW e \in todo, Take(r, e) PROVE Asking'
  <2>1. PICK j \in Job : Turns(r, j) /\ j.pc = "look"
    BY <1>5, TakeStep
  <2> QED BY <1>2, <2>1
<1>6. ASSUME NEW r \in Replica, Dropped(r) \/ Waits(r) \/ Ignores(r) \/ Ran(r) \/ Abort(r)
      PROVE  Asking'
  <2>1. PICK j : Turns(r, j) /\ j.pc # "run"
    BY <1>3, <1>6, AbortStep DEF Dropped, Waits, Ignores, Ran
  <2> QED BY <1>2, <2>1
<1>7. ASSUME NEW r \in Replica, job[r].pc \in {"look", "insert", "lost"}, Begins(r) PROVE Asking'
  <2>1. PICK j \in Job : Turns(r, j) /\ j.own = job[r].own /\ Distinct(j.acts)
    BY <1>7 DEF Begins
  <2>2. j.own = << >> /\ Len(j.own) = 0
    BY <1>7, <2>1 DEF Owned
  <2>3. \A i \in 1 .. Len(j.own) : FALSE
    BY <2>2
  <2>4. Apart(j.acts, j.own)
    BY <2>1, <2>3 DEF Apart
  <2> QED BY <1>2, <2>1, <2>4
<1>8. ASSUME NEW r \in Replica, Acts(r) PROVE Asking'
  <2> DEFINE acts == job[r].acts
             own == job[r].own
             rest == Tail(acts)
             a == Head(acts)
  <2>1. PICK j \in Job :
          /\ Turns(r, j) /\ j.acts = rest
          /\ j.own = own \/ (j.own = Append(own, Item(r, a)) /\ a \in Own)
    BY <1>8 DEF Acts
  <2>2. /\ acts \in Seq(Action) /\ own \in Seq(Request) /\ acts # << >> /\ Apart(acts, own)
        /\ job[r].inst \in Nat /\ job[r].event \in Nat
    BY <1>8 DEF Acts, Asking, TypeOK, Job
  <2>3. /\ Len(acts) \in Nat /\ Len(own) \in Nat /\ 1 \in 1 .. Len(acts) /\ a = acts[1]
        /\ Len(rest) = Len(acts) - 1 /\ \A i \in 1 .. Len(rest) : rest[i] = acts[i + 1]
    BY <2>2, HeadTailProperties, LenProperties, EmptySeq
  <2>4. Item(r, a).act = a /\ (a \in Own => Item(r, a) \in Request)
    BY <2>2 DEF Item, Request
  <2> DEFINE item == Item(r, a)
  <2>5. item.act = a /\ (j.own = own \/ (j.own = Append(own, item) /\ a \in Own /\ item \in Request))
    BY <2>1, <2>4
  <2> HIDE DEF acts, own, rest, a, item
  <2>6. \A i \in 1 .. Len(rest) : i + 1 \in 1 .. Len(acts) /\ i + 1 # 1
    BY <2>3
  <2>7. Distinct(rest) /\ \A i \in 1 .. Len(own), k \in 1 .. Len(rest) : own[i].act # rest[k]
    <3>1. \A k \in 1 .. Len(rest) : k + 1 \in 1 .. Len(acts) /\ rest[k] = acts[k + 1]
      BY <2>3, <2>6
    <3>2. \A i \in 1 .. Len(own), k \in 1 .. Len(acts) : own[i].act # acts[k]
      BY <2>2 DEF Apart
    <3>3. \A i \in 1 .. Len(own), k \in 1 .. Len(rest) : own[i].act # rest[k]
      BY <3>1, <3>2
    <3>4. \A i, k \in 1 .. Len(acts) : acts[i] = acts[k] /\ acts[i] \in Own => i = k
      BY <2>2 DEF Apart, Distinct
    <3>5. ASSUME NEW i \in 1 .. Len(rest), NEW k \in 1 .. Len(rest), rest[i] = rest[k], rest[i] \in Own
          PROVE  i = k
      <4>1. i + 1 = k + 1
        BY <3>1, <3>4, <3>5
      <4> QED BY <2>3, <4>1
    <3> QED BY <3>3, <3>5 DEF Distinct
  <2>8. CASE j.own = own
    <3>1. Apart(rest, own)
      BY <2>2, <2>7 DEF Apart
    <3> QED BY <1>2, <2>1, <2>8, <3>1
  <2>9. CASE j.own = Append(own, item) /\ a \in Own /\ item \in Request
    <3>1. /\ Len(j.own) = Len(own) + 1 /\ j.own[Len(own) + 1] = item
          /\ \A i \in 1 .. Len(own) : j.own[i] = own[i]
      BY <2>2, <2>9, AppendProperties
    <3>2. \A i \in 1 .. Len(j.own) : i \in 1 .. Len(own) \/ i = Len(own) + 1
      BY <2>3, <3>1
    <3>3. \A k \in 1 .. Len(rest) : rest[k] # a
      BY <2>2, <2>3, <2>6, <2>9 DEF Apart, Distinct
    <3>4. \A i \in 1 .. Len(own) : own[i].act # a
      BY <2>2, <2>3 DEF Apart
    <3>5. \A i \in 1 .. Len(j.own), k \in 1 .. Len(rest) : j.own[i].act # rest[k]
      BY <2>5, <2>7, <3>1, <3>2, <3>3
    <3>6. \A i, k \in 1 .. Len(j.own) : j.own[i].act = j.own[k].act => i = k
      BY <2>2, <2>5, <3>1, <3>2, <3>4 DEF Apart
    <3>7. Apart(j.acts, j.own)
      BY <2>1, <2>7, <3>5, <3>6 DEF Apart
    <3> QED BY <1>2, <2>1, <3>7
  <2> QED BY <2>5, <2>8, <2>9
<1> QED BY <1>4, <1>5, <1>6, <1>7, <1>8, NextCases

\* Every step keeps what was asked for free of repeats.
LEMMA AskedStep ==
    ASSUME WalkInv, Asking, Asked, [Next]_vars
    PROVE  Asked'
<1> USE DEF WalkInv
<1>1. CASE \E r \in Replica : Ran(r)
  <2>1. PICK r \in Replica : Ran(r)
    BY <1>1
  <2> DEFINE own == job[r].own
             new(i) == i \notin 1 .. Len(work)
  <2>2. /\ \A i \in 1 .. Len(work) : work'[i] = work[i] /\ Has(log, work[i].inst, work[i].event)
        /\ ~Has(log, job[r].inst, job[r].event)
        /\ Apart(job[r].acts, own)
    BY <2>1, RanWork DEF Logged, Runs, Asking, Ran
  <2>3. \A i \in 1 .. Len(work') : new(i) =>
          /\ i - Len(work) \in 1 .. Len(own) /\ work'[i].act = own[i - Len(work)].act
          /\ work'[i].inst = job[r].inst /\ work'[i].event = job[r].event
    <3> SUFFICES ASSUME NEW i \in 1 .. Len(work'), new(i)
                 PROVE  /\ i - Len(work) \in 1 .. Len(own) /\ work'[i].act = own[i - Len(work)].act
                        /\ work'[i].inst = job[r].inst /\ work'[i].event = job[r].event
      OBVIOUS
    <3> DEFINE k == i - Len(work)
    <3>1. k \in 1 .. Len(own) /\ work'[i] = own[k]
      BY <2>1, RanWork
    <3> HIDE DEF k
    <3>2. own[k].inst = job[r].inst /\ own[k].event = job[r].event
      BY <3>1 DEF Owned
    <3> USE DEF k
    <3> QED BY <3>1, <3>2
  <2>4. Len(work) \in Nat /\ Len(work') \in Nat
    BY <2>1, RanWork
  <2> SUFFICES ASSUME NEW i \in 1 .. Len(work'), NEW j \in 1 .. Len(work'),
                      work'[i].inst = work'[j].inst, work'[i].event = work'[j].event,
                      work'[i].act = work'[j].act
               PROVE  i = j
    BY DEF Asked
  <2>5. CASE ~new(i) /\ ~new(j)
    BY <2>2, <2>5 DEF Asked
  <2>6. CASE new(i) /\ new(j)
    <3> DEFINE k == i - Len(work)
               l == j - Len(work)
    <3>1. k \in 1 .. Len(own) /\ l \in 1 .. Len(own) /\ own[k].act = own[l].act
      BY <2>3, <2>6
    <3> HIDE DEF k, l, own
    <3>2. k = l
      BY <2>2, <3>1 DEF Apart
    <3> USE DEF k, l
    <3> QED BY <2>4, <3>2
  <2>7. CASE new(i) /\ ~new(j)
    BY <2>2, <2>3, <2>7
  <2>8. CASE ~new(i) /\ new(j)
    BY <2>2, <2>3, <2>8
  <2> QED BY <2>5, <2>6, <2>7, <2>8
<1>2. CASE ~\E r \in Replica : Ran(r)
  BY <1>2, WorkStep DEF Asked
<1> QED BY <1>1, <1>2

-----------------------------------------------------------------------------
(* The theorems.                                                           *)

\* The inductive invariant holds in every reachable state, for every chart.
THEOREM WalkInvariant == Spec => []WalkInv
<1>1. Init => WalkInv
  <2> SUFFICES ASSUME Init PROVE WalkInv
    OBVIOUS
  <2>1. /\ facts \in Fact /\ instances = << >> /\ log = << >> /\ work = << >> /\ sent = << >>
        /\ todo = {} /\ lock = None /\ job = [r \in Replica |-> Idle]
        /\ left = [reports |-> MaxReports, answers |-> MaxAnswers, faults |-> MaxFaults]
    BY WorldAssumption DEF Init
  <2>2. \A r \in Replica : job[r].pc = "idle" /\ job[r].own = << >>
    BY <2>1 DEF Idle
  <2>3. /\ << >> \in Seq(Instance) /\ << >> \in Seq(Seq(LogRow)) /\ << >> \in Seq(Request)
        /\ << >> \in Seq(Sent) /\ Len(<< >>) = 0 /\ DOMAIN << >> = {}
    BY EmptySeq
  <2>4. Active = {}
    BY <2>1, <2>3 DEF Active
  <2>5. job \in [Replica -> Job] /\ left \in [reports : Nat, answers : Nat, faults : Nat]
    BY <2>1, IdleType, WorldAssumption
  <2>6. TypeOK
    BY <2>1, <2>2, <2>3, <2>5, NoneAssumption DEF TypeOK
  <2>7. OneActive /\ Events /\ Runs
    BY <2>1, <2>2, <2>3, <2>4 DEF OneActive, Events, Runs
  <2>8. Walks /\ Logged
    BY <2>1, <2>3 DEF Walks, Logged
  <2>9. Owned
    BY <2>2, <2>3 DEF Owned
  <2> QED BY <2>6, <2>7, <2>8, <2>9 DEF WalkInv
<1>2. WalkInv /\ [Next]_vars => WalkInv'
  <2> SUFFICES ASSUME WalkInv, [Next]_vars PROVE WalkInv'
    OBVIOUS
  <2>1. TypeOK'
    BY TypeStep
  <2>2. OneActive' /\ Walks' /\ Runs'
    BY <2>1, StandStep, RunsStep
  <2>3. Events' /\ Owned' /\ Logged'
    BY EventsStep, OwnedStep, LoggedStep
  <2> QED BY <2>1, <2>2, <2>3 DEF WalkInv
<1> QED BY <1>1, <1>2, PTL DEF Spec

\* Every variable keeps its type.
THEOREM TypeCorrect == Spec => []TypeOK
<1>1. WalkInv => TypeOK
  BY DEF WalkInv
<1> QED BY <1>1, WalkInvariant, PTL

\* A subject never has two active instances, however many starts race.
THEOREM OneActiveAlways == Spec => []OneActive
<1>1. WalkInv => OneActive
  BY DEF WalkInv
<1> QED BY <1>1, WalkInvariant, PTL

\* An instance's log is a walk through its chart to where the instance stands.
THEOREM LogIsAWalkAlways == Spec => []LogIsAWalk
<1>1. WalkInv => LogIsAWalk
  <2> SUFFICES ASSUME WalkInv, NEW k \in DOMAIN instances
               PROVE  /\ \A j \in DOMAIN log[k] :
                           /\ log[k][j].from = IF j = 1 THEN NotStarted ELSE log[k][j - 1].to
                           /\ log[k][j].from \notin Final
                           /\ log[k][j].outcome # "applied" => log[k][j].to = log[k][j].from
                      /\ instances[k].state = log[k][Len(log[k])].to
    BY DEF LogIsAWalk
  <2>1. k \in 1 .. Len(instances) /\ k \in 1 .. Len(log)
    BY LenProperties DEF WalkInv, TypeOK
  <2>2. log[k] \in Seq(LogRow)
    BY <2>1, ElementOfSeq DEF WalkInv, TypeOK
  <2>3. DOMAIN log[k] = 1 .. Len(log[k])
    BY <2>2, LenProperties
  <2>4. Walk(log[k]) /\ instances[k].state = log[k][Len(log[k])].to
    BY <2>1 DEF WalkInv, Walks
  <2> QED BY <2>3, <2>4 DEF Walk
<1> QED BY <1>1, WalkInvariant, PTL

\* Where a chart asks for nothing twice on one way, an event asks for it once,
\* whatever stops, is delivered again, or is refused on the way.
THEOREM WorkIsAskedOnceAlways == Spec => [](AsksOncePerWay => WorkIsAskedOnce)
<1>1. Spec => []AskInv
  <2>1. Init => Asking /\ Asked
    <3>1. Idle.pc = "idle" /\ Len(<< >>) = 0
      BY DEF Idle
    <3> QED BY <3>1 DEF Init, Asking, Asked
  <2>2. WalkInv /\ (AsksOncePerWay => Asking /\ Asked) /\ [Next]_vars => (AsksOncePerWay => Asking' /\ Asked')
    BY AskingStep, AskedStep
  <2>3. AsksOncePerWay' <=> AsksOncePerWay
    BY DEF AsksOncePerWay, Ways
  <2>4. WalkInv /\ (AsksOncePerWay => Asking /\ Asked) /\ [Next]_vars => (AsksOncePerWay => Asking /\ Asked)'
    BY <2>2, <2>3
  <2> QED BY <2>1, <2>4, WalkInvariant, PTL DEF Spec, AskInv
<1>2. AskInv => (AsksOncePerWay => WorkIsAskedOnce)
  <2> SUFFICES ASSUME WalkInv, Asked PROVE WorkIsAskedOnce
    BY DEF AskInv
  <2>1. TypeOK /\ Logged
    BY DEF WalkInv
  <2>2. DOMAIN work = 1 .. Len(work) /\ \A i \in 1 .. Len(work) : work[i].inst \in Nat
    <3>1. work \in Seq(Request) /\ DOMAIN work = 1 .. Len(work)
      BY <2>1, LenProperties DEF TypeOK
    <3>2. \A i \in 1 .. Len(work) : work[i] \in Request
      BY <3>1, ElementOfSeq
    <3> QED BY <3>1, <3>2 DEF Request
  <2>3. \A i \in DOMAIN work : HasTransition(work[i].inst, work[i].event)
    BY <2>1, <2>2, HasIs DEF Logged
  <2> QED BY <2>2, <2>3 DEF WorkIsAskedOnce, Asked
<1> QED BY <1>1, <1>2, PTL

=============================================================================
